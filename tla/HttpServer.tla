----------------------------- MODULE HttpServer -----------------------------
(***************************************************************************)
(* The HTTP server: the acceptor, the idle handler and one fiber per       *)
(* request, composed with the timeout chain (module Timeouts), the context *)
(* pool, the descriptor map of the event loop and the sockets.             *)
(*                                                                         *)
(* `running' is the fiber that has the processor.  A step of a fiber goes  *)
(* from one point where it may be suspended to the next; nothing else runs *)
(* in between, but clients, the network and time go on.  Sockets are edge  *)
(* triggered: `ready' holds the connections with an edge epoll_wait has    *)
(* not reported yet, and the event mask is computed when it is reported.   *)
(*                                                                         *)
(* Data is counted in units.  A request is RequestUnits long, a response   *)
(* one unit of header and one of payload; a socket buffers TxCap units of  *)
(* output.  Clients do not pipeline: the next request is sent after the    *)
(* whole response has been read.                                           *)
(***************************************************************************)
EXTENDS Integers, Sequences, FiniteSets

CONSTANTS Fds,         \* descriptors of connections
          Kinds,       \* subset of AllKinds: what clients send
          Replies,     \* subset of AllReplies: what user_func may do
          MaxFiles,    \* RLIMIT_NOFILE, not counting the server's own files
          NumStacks,   \* server->num_stacks: initial size and growth of the pool
          MaxCtx,      \* bound: contexts that can be created
          TxCap,       \* units a socket's send buffer holds
          MaxConns,    \* bound: connections made by clients
          MaxReqs,     \* bound: requests per connection
          MaxEnfile    \* bound: how often the system's file table is full

AllKinds == {"get", "close", "expect", "nolength", "badmethod", "toolarge"}
AllReplies == {"respond", "nothing", "sendfile", "truncated"}

ASSUME ServerAssumption ==
    /\ Kinds \subseteq AllKinds /\ Replies \subseteq AllReplies
    /\ {MaxFiles, NumStacks, MaxCtx, TxCap, MaxConns, MaxReqs} \subseteq Nat \ {0}
    /\ MaxEnfile \in Nat /\ NumStacks <= MaxCtx
    /\ IsFiniteSet(Fds) /\ Fds # {}
    /\ Cardinality(Fds) >= (IF MaxEnfile = 0 THEN MaxFiles - 1 ELSE MaxFiles)

VARIABLES linked, shut, \* server->timeout_handler
          backlog,     \* connections accept4() has not returned yet
          conns,       \* connections made so far
          enfile,      \* times the system's file table was full
          reserved,    \* accept_reserved_fd is open
          open,        \* accepted and not closed
          sock,        \* per connection: what the kernel and the client hold
          ready,       \* connections in epoll's ready list
          owner,       \* epoll_worker_fd_map[fd].ctx
          running,     \* current_ctx: a fiber, or LOOP
          freelist,    \* ctx_pool.freelist, head first
          made,        \* contexts created by ctx_pool_createstacks
          fiber        \* per context: struct http_server_context and position

tvars == <<linked, shut>>
avars == <<backlog, conns, enfile, reserved>>
vars == <<tvars, avars, open, sock, ready, owner, running, freelist, made, fiber>>

T == INSTANCE Timeouts

Ctxs == 1..MaxCtx
LOOP == 0              \* event_loop_ctx
IDLE == -1             \* server->idle_ctx

RequestUnits == 2

NewSock == [rx |-> 0, room |-> TxCap, fin |-> FALSE, dead |-> FALSE,
            kind |-> "none", sent |-> 0, wrote |-> 0, read |-> 0, reqs |-> 0]

NoFiber == [pc |-> "free", fd |-> "none", got |-> 0,
            persistent |-> FALSE, out |-> 0, truncated |-> FALSE]

(* Where a fiber can be inside http_server_yield(). *)
Waiting == {"read", "body", "continue", "fileheader", "file", "write"}
-----------------------------------------------------------------------------
(* http_server_yield() up to its yield(); the other half, which unlinks    *)
(* the descriptor, is in Resume.                                           *)
http_server_yield(fd) == T!Add(fd) /\ running' = LOOP

(* close() takes the descriptor out of epoll, and its edge with it.        *)
ribs_close(fd) ==
    /\ open' = open \ {fd}
    /\ ready' = ready \ {fd}
    /\ owner' = [owner EXCEPT ![fd] = LOOP]
    /\ sock' = [sock EXCEPT ![fd] = NewSock]
    /\ UNCHANGED tvars

(* The fiber returns: http_server_fiber_main_wrapper puts the context back *)
(* and the exit of the context jumps to the event loop.                    *)
ctx_pool_put_never(c) == running' = LOOP /\ fiber' = [fiber EXCEPT ![c] = NoFiber] /\ UNCHANGED freelist

ctx_pool_put(c) ==
    /\ freelist' = <<c>> \o freelist
    /\ fiber' = [fiber EXCEPT ![c] = NoFiber]
    /\ running' = LOOP

(* The end of http_server_fiber_main for a persistent connection.          *)
Idle(fd) ==
    /\ owner' = [owner EXCEPT ![fd] = IDLE]
    /\ T!Add(fd)
    /\ UNCHANGED <<open, ready>>

(* The end of http_server_fiber_main and of its wrapper; s is the state of *)
(* the socket after the fiber's last read or write.                        *)
Return(c, persistent, s) ==
    /\ IF persistent
         THEN Idle(fiber[c].fd) /\ sock' = [sock EXCEPT ![fiber[c].fd] = s]
         ELSE ribs_close(fiber[c].fd)
    /\ ctx_pool_put(c)
    /\ UNCHANGED made
-----------------------------------------------------------------------------
(* What a read of the whole receive buffer makes of a request.  Every loop *)
(* of http_server_fiber_main reads the same way; they differ in what they  *)
(* wait for.                                                               *)
Complete(kind, got) ==
    IF kind = "badmethod" THEN got >= 1 ELSE got >= RequestUnits

ShortOfHeader(kind, got) == ~Complete(kind, got) /\ ~(kind = "expect" /\ got >= 1)

(* READ_FROM_SOCKET and what follows it up to the next yield: end of file  *)
(* or an error closes; 413 for a request that is too large; a request that *)
(* is not complete yields.                                                 *)
ReadRequest(c) ==
    LET fd == fiber[c].fd
        s == sock[fd]
        got == fiber[c].got + s.rx
        drained == [s EXCEPT !.rx = 0]
        Goto(pc, persistent, out) ==
            /\ fiber' = [fiber EXCEPT ![c] = [@ EXCEPT !.pc = pc, !.got = got,
                                               !.persistent = persistent, !.out = out]]
            /\ sock' = [sock EXCEPT ![fd] = drained]
            /\ UNCHANGED <<open, ready, freelist, made>>
        Run(pc, persistent, out) ==
            Goto(pc, persistent, out) /\ UNCHANGED <<tvars, owner, running>>
    IN
    /\ running = c
    /\ fiber[c].pc \in {"read", "body"}
    /\ UNCHANGED avars
    /\ \/ /\ s.rx = 0 /\ (s.fin \/ s.dead)
          /\ Return(c, FALSE, s)
       \/ /\ ~(s.rx = 0 /\ (s.fin \/ s.dead))
          /\ \/ /\ s.kind = "toolarge" /\ got >= RequestUnits
                /\ Run("write", FALSE, 2)
             \/ /\ \/ fiber[c].pc = "read" /\ ShortOfHeader(s.kind, got)
                   \/ fiber[c].pc = "body" /\ got < RequestUnits
                /\ Goto(fiber[c].pc, fiber[c].persistent, 0)
                /\ http_server_yield(fd)
                /\ UNCHANGED owner
             \/ /\ fiber[c].pc = "read" /\ s.kind = "expect" /\ got >= 1
                /\ Run("continue", FALSE, 1)
             \/ /\ s.kind = "badmethod" /\ got >= 1          \* 501
                /\ Run("write", FALSE, 2)
             \/ /\ s.kind = "nolength" /\ got >= RequestUnits  \* 411
                /\ Run("write", TRUE, 2)
             \/ /\ \/ s.kind \in {"get", "close"} /\ got >= RequestUnits
                   \/ fiber[c].pc = "body" /\ got >= RequestUnits
                /\ Goto("user", s.kind # "close", 0)   \* http_server_process_request
                /\ owner' = [owner EXCEPT ![fd] = LOOP]  \* epoll_worker_ignore_events
                /\ UNCHANGED <<tvars, running>>

(* Whether a write() of n out of `out' units leaves the loop waiting.      *)
Unfinished_never(n, out) == n = 0

Unfinished(n, out) == n < out

(* After the file: http_server_sendfile_payload has reset the header, so   *)
(* http_server_fiber_main finds nothing more to write.                     *)
sendfile_done_keep_header(c, s) ==
    /\ fiber' = [fiber EXCEPT ![c].pc = "write", ![c].out = 2]
    /\ sock' = [sock EXCEPT ![fiber[c].fd] = s]
    /\ UNCHANGED <<tvars, open, ready, owner, running, freelist, made>>

sendfile_done(c, s) == Return(c, fiber[c].persistent, s)

(* sendfile() of a file that shrank after fstat(): it reads the end of the *)
(* file and returns 0 before it looks at the socket, so that not even a    *)
(* socket that was shut down makes it fail.                                *)
SendsNothing(f) == f.pc = "file" /\ f.truncated

(* One pass of the loop of _http_server_write or _http_server_sendfile:    *)
(* write what fits, yield if something is left; an error makes the         *)
(* connection non persistent.                                              *)
WriteOut(c) ==
    LET fd == fiber[c].fd
        s == sock[fd]
        f == fiber[c]
        n == IF SendsNothing(f) THEN 0 ELSE IF s.room < f.out THEN s.room ELSE f.out
        fails == s.dead /\ ~SendsNothing(f)
        written == [s EXCEPT !.room = @ - n, !.wrote = @ + n]
        Goto(pc, out) ==
            /\ fiber' = [fiber EXCEPT ![c].pc = pc, ![c].out = out]
            /\ sock' = [sock EXCEPT ![fd] = written]
            /\ UNCHANGED <<open, ready, freelist, made>>
        Failed(pc) ==
            /\ fiber' = [fiber EXCEPT ![c].pc = pc, ![c].persistent = FALSE]
            /\ UNCHANGED <<tvars, open, sock, ready, owner, running, freelist, made>>
    IN
    /\ running = c
    /\ f.pc \in {"continue", "fileheader", "file", "write"}
    /\ UNCHANGED avars
    /\ \/ /\ fails
          /\ \/ f.pc = "fileheader" /\ Failed("file")  \* sendfile_payload goes on
             \/ f.pc # "fileheader" /\ Return(c, FALSE, s)
       \/ /\ ~fails
          /\ Unfinished(n, f.out)
          /\ Goto(f.pc, f.out - n)
          /\ http_server_yield(fd)
          /\ UNCHANGED owner
       \/ /\ ~fails
          /\ ~Unfinished(n, f.out)
          /\ \/ /\ f.pc = "continue" /\ f.got < RequestUnits
                /\ Goto("body", 0)
                /\ http_server_yield(fd)
                /\ UNCHANGED owner
             \/ /\ f.pc = "continue" /\ f.got >= RequestUnits
                /\ fiber' = [fiber EXCEPT ![c].pc = "user", ![c].out = 0,
                                          ![c].persistent = TRUE]
                /\ sock' = [sock EXCEPT ![fd] = written]
                /\ owner' = [owner EXCEPT ![fd] = LOOP]
                /\ UNCHANGED <<tvars, open, ready, running, freelist, made>>
             \/ /\ f.pc = "fileheader"
                /\ Goto("file", 1)
                /\ UNCHANGED <<tvars, owner, running>>
             \/ f.pc = "file" /\ sendfile_done(c, written)
             \/ f.pc = "write" /\ Return(c, f.persistent, written)

(* The application runs with the events of its connection ignored.  It may *)
(* be suspended (on a timer, a client request, ...), and in the end it     *)
(* leaves a response, sends a file or does neither.                        *)
resume_events_never(c) == UNCHANGED owner

epoll_worker_resume_events(c) == owner' = [owner EXCEPT ![fiber[c].fd] = c]

UserSuspend(c) ==
    /\ running = c /\ fiber[c].pc = "user"
    /\ running' = LOOP
    /\ UNCHANGED <<tvars, avars, open, sock, ready, owner, freelist, made, fiber>>

UserResume(c) ==
    /\ running = LOOP /\ fiber[c].pc = "user"
    /\ running' = c
    /\ UNCHANGED <<tvars, avars, open, sock, ready, owner, freelist, made, fiber>>

user_func(c) ==
    /\ running = c /\ fiber[c].pc = "user"
    /\ \E reply \in Replies :
         \/ /\ reply = "nothing"
            /\ Return(c, fiber[c].persistent, sock[fiber[c].fd])
         \/ /\ reply = "respond"
            /\ fiber' = [fiber EXCEPT ![c].pc = "write", ![c].out = 2]
            /\ epoll_worker_resume_events(c)
            /\ UNCHANGED <<tvars, open, sock, ready, running, freelist, made>>
         \/ /\ reply \in {"sendfile", "truncated"}
            /\ fiber' = [fiber EXCEPT ![c].pc = "fileheader", ![c].out = 1,
                                      ![c].truncated = (reply = "truncated")]
            /\ epoll_worker_resume_events(c)
            /\ UNCHANGED <<tvars, open, sock, ready, running, freelist, made>>
    /\ UNCHANGED avars
-----------------------------------------------------------------------------
(* The event mask epoll_wait reports. *)
In(s) == s.rx > 0 \/ s.fin \/ s.dead
Out(s) == s.room > 0 \/ s.dead

(* What http_server_idle_handler ignores: events == EPOLLOUT.              *)
OnlyWritable_masked(s) == Out(s)

OnlyWritable(s) == Out(s) /\ ~In(s)

(* ctx_pool_get: grows the pool when it is empty. *)
ctx_pool_get(c) ==
    LET grown == [i \in 1..NumStacks |-> made + NumStacks + 1 - i]
        list == IF freelist = <<>> THEN grown ELSE freelist
    IN /\ freelist = <<>> => made + NumStacks <= MaxCtx
       /\ c = Head(list)
       /\ freelist' = Tail(list)
       /\ made' = IF freelist = <<>> THEN made + NumStacks ELSE made

idle_handler_keep_linked(fd) == UNCHANGED tvars

(* Both http_server_idle_handler and the second half of http_server_yield  *)
(* unlink the descriptor they were resumed for.                            *)
Unlinked(fd) == T!Remove(fd)

http_server_idle_handler(fd) ==
    \E c \in Ctxs :
        /\ ctx_pool_get(c)
        /\ fiber' = [fiber EXCEPT ![c] = [NoFiber EXCEPT !.pc = "read", !.fd = fd]]
        /\ owner' = [owner EXCEPT ![fd] = c]
        /\ Unlinked(fd)
        /\ running' = c

Resume(fd) ==
    /\ Unlinked(fd)
    /\ running' = owner[fd]
    /\ UNCHANGED <<owner, freelist, made, fiber>>

(* The event loop takes the next edge and switches to the context the map  *)
(* names.  An edge whose condition has gone meanwhile is not reported.     *)
Dispatch(fd) ==
    /\ running = LOOP
    /\ fd \in ready
    /\ ready' = ready \ {fd}
    /\ LET s == sock[fd] IN
       \/ /\ \/ owner[fd] = LOOP
             \/ ~In(s) /\ ~Out(s)
             \/ owner[fd] = IDLE /\ OnlyWritable(s)
          /\ UNCHANGED <<tvars, owner, running, freelist, made, fiber>>
       \/ owner[fd] = IDLE /\ (In(s) \/ Out(s)) /\ ~OnlyWritable(s) /\ http_server_idle_handler(fd)
       \/ owner[fd] \in Ctxs /\ (In(s) \/ Out(s)) /\ Resume(fd)
    /\ UNCHANGED <<avars, open, sock>>

Full == Cardinality(open) + (IF reserved THEN 1 ELSE 0) >= MaxFiles

(* http_server_accept_connections: one connection per event.  A new socket *)
(* is writable, so adding it to epoll raises an edge.                      *)
Accepted_untimed(fd) ==
    /\ open' = open \cup {fd} /\ ready' = ready \cup {fd}
    /\ owner' = [owner EXCEPT ![fd] = IDLE]
    /\ UNCHANGED tvars

Accepted(fd) ==
    /\ open' = open \cup {fd} /\ ready' = ready \cup {fd}
    /\ owner' = [owner EXCEPT ![fd] = IDLE]
    /\ T!Add(fd)

Accept ==
    /\ running = LOOP /\ backlog > 0 /\ ~Full
    /\ backlog' = backlog - 1
    /\ \/ \E fd \in Fds \ open : Accepted(fd)
       \/ UNCHANGED <<tvars, open, owner, ready>>     \* ribs_epoll_add failed
    /\ UNCHANGED <<conns, enfile, reserved, sock, running, freelist, made, fiber>>

(* EMFILE: the reserved descriptor is given up to accept and close the     *)
(* connection, and opened again.                                           *)
accept_emfile ==
    /\ backlog' = IF reserved THEN backlog - 1 ELSE backlog
    /\ UNCHANGED reserved

(* ENFILE: another process may take the file that close() gave back, so    *)
(* the second accept4() and the open() can each fail.                      *)
accept_enfile ==
    /\ backlog' \in {backlog - 1, backlog}
    /\ reserved' \in BOOLEAN

AcceptFailed ==
    /\ running = LOOP /\ backlog > 0
    /\ \/ Full /\ accept_emfile /\ UNCHANGED enfile
       \/ enfile < MaxEnfile /\ enfile' = enfile + 1 /\ accept_enfile
    /\ UNCHANGED <<tvars, conns, open, sock, ready, owner, running, freelist, made, fiber>>

(* expiration_handler calls shutdown(SHUT_RDWR) on what is overdue, which  *)
(* raises an edge even on a socket that was shut down before.              *)
Expire ==
    /\ running = LOOP
    /\ \E hit \in SUBSET Fds :
         /\ T!Expire(hit)
         /\ sock' = [fd \in Fds |-> [sock[fd] EXCEPT !.dead = @ \/ fd \in hit]]
         /\ ready' = ready \cup hit
    /\ UNCHANGED <<avars, open, owner, running, freelist, made, fiber>>
-----------------------------------------------------------------------------
(* The clients and the network. *)
Connect ==
    /\ conns < MaxConns
    /\ conns' = conns + 1
    /\ backlog' = backlog + 1
    /\ UNCHANGED <<tvars, enfile, reserved, open, sock, ready, owner, running,
                   freelist, made, fiber>>

ResponseUnits(kind) == IF kind = "expect" THEN 3 ELSE 2

Answered(s) == s.kind # "none" /\ s.wrote >= ResponseUnits(s.kind)

Peer(fd, s, edge) ==
    /\ fd \in open
    /\ sock' = [sock EXCEPT ![fd] = s]
    /\ ready' = IF edge THEN ready \cup {fd} ELSE ready
    /\ UNCHANGED <<tvars, avars, open, owner, running, freelist, made, fiber>>

ClientSend(fd) ==
    LET s == sock[fd] IN
    /\ ~s.fin /\ ~s.dead
    /\ \/ /\ \/ s.kind = "none"
             \/ Answered(s) /\ s.read = s.wrote
          /\ s.reqs < MaxReqs
          /\ \E k \in Kinds :
               Peer(fd, [s EXCEPT !.rx = @ + 1, !.kind = k, !.sent = 1, !.wrote = 0,
                                  !.read = 0, !.reqs = @ + 1], TRUE)
       \/ /\ s.kind # "none" /\ s.sent < RequestUnits
          /\ Peer(fd, [s EXCEPT !.rx = @ + 1, !.sent = @ + 1], TRUE)

(* Reading makes room; the kernel reports it if the server ran out of it.  *)
ClientRead(fd) ==
    /\ sock[fd].room < TxCap
    /\ Peer(fd, [sock[fd] EXCEPT !.room = TxCap, !.read = sock[fd].wrote], sock[fd].room = 0)

ClientClose(fd) ==
    \/ ~sock[fd].fin /\ ~sock[fd].dead /\ Peer(fd, [sock[fd] EXCEPT !.fin = TRUE], TRUE)
    \/ ~sock[fd].dead /\ Peer(fd, [sock[fd] EXCEPT !.dead = TRUE, !.rx = 0], TRUE)

Init ==
    /\ T!Init
    /\ backlog = 0 /\ conns = 0 /\ enfile = 0 /\ reserved = TRUE
    /\ open = {} /\ ready = {}
    /\ sock = [fd \in Fds |-> NewSock]
    /\ owner = [fd \in Fds |-> LOOP]
    /\ running = LOOP
    /\ freelist = [i \in 1..NumStacks |-> NumStacks + 1 - i]
    /\ made = NumStacks
    /\ fiber = [c \in Ctxs |-> NoFiber]

FiberStep(c) == ReadRequest(c) \/ WriteOut(c) \/ user_func(c)

Next ==
    \/ \E c \in Ctxs : FiberStep(c) \/ UserSuspend(c) \/ UserResume(c)
    \/ \E fd \in Fds : Dispatch(fd) \/ ClientSend(fd) \/ ClientRead(fd) \/ ClientClose(fd)
    \/ Accept \/ AcceptFailed \/ Expire \/ Connect

(* epoll reports every edge in the end (its ready list is a queue: module  *)
(* EpollWorker), and the listening socket as long as it is readable; the   *)
(* timeout handler keeps its promise; a fiber that runs goes on, and the   *)
(* application returns.  Nothing is assumed of the clients.                *)
Fairness ==
    /\ T!Promise
    /\ SF_vars(Accept \/ AcceptFailed)
    /\ \A fd \in Fds : SF_vars(Dispatch(fd))
    /\ \A c \in Ctxs : /\ WF_vars(ReadRequest(c) \/ WriteOut(c))
                       /\ SF_vars(user_func(c))
                       /\ SF_vars(UserResume(c))

Spec == Init /\ [][Next]_vars /\ Fairness
-----------------------------------------------------------------------------
Socks == [rx : 0..RequestUnits, room : 0..TxCap, fin : BOOLEAN, dead : BOOLEAN,
          kind : Kinds \cup {"none"}, sent : 0..RequestUnits, wrote : 0..3,
          read : 0..3, reqs : 0..MaxReqs]

FiberStates == [pc : Waiting \cup {"free", "user"}, fd : Fds \cup {"none"},
                got : 0..RequestUnits, persistent : BOOLEAN, out : 0..2, truncated : BOOLEAN]

TypeOK ==
    /\ linked \subseteq Fds /\ shut \subseteq Fds
    /\ backlog \in 0..MaxConns /\ conns \in 0..MaxConns /\ enfile \in 0..MaxEnfile
    /\ reserved \in BOOLEAN
    /\ open \subseteq Fds /\ ready \subseteq open
    /\ sock \in [Fds -> Socks]
    /\ owner \in [Fds -> Ctxs \cup {LOOP, IDLE}]
    /\ running \in Ctxs \cup {LOOP}
    /\ freelist \in Seq(Ctxs) /\ made \in Ctxs
    /\ fiber \in [Ctxs -> FiberStates]

Serves(c, fd) == fiber[c].pc # "free" /\ fiber[c].fd = fd

Suspended(c) == fiber[c].pc \in Waiting /\ running # c

(* A descriptor is in the timeout chain exactly while its connection waits *)
(* for the peer: idle, or its fiber inside http_server_yield().  A running *)
(* fiber, the application and a closed descriptor are not in it; otherwise *)
(* the next timeout_handler_add_fd_data would link it twice and corrupt    *)
(* the list, or a connection would wait without a timeout.                 *)
LinkedIffWaiting ==
    \A fd \in Fds :
        fd \in linked <=> \/ owner[fd] = IDLE
                          \/ \E c \in Ctxs : Serves(c, fd) /\ Suspended(c)

(* The descriptor map and the fibers agree: an open connection is idle or  *)
(* served by exactly one fiber, its events go to that fiber unless the     *)
(* application runs, and no entry of the map names a context that has been *)
(* put back to the pool, or a closed descriptor.                           *)
EventsReachOwner ==
    /\ \A fd \in open :
         \/ owner[fd] = IDLE /\ \A c \in Ctxs : ~Serves(c, fd)
         \/ \E c \in Ctxs :
              /\ Serves(c, fd)
              /\ \A d \in Ctxs \ {c} : ~Serves(d, fd)
              /\ owner[fd] = IF fiber[c].pc = "user" THEN LOOP ELSE c
    /\ \A fd \in Fds \ open : owner[fd] = LOOP /\ \A c \in Ctxs : ~Serves(c, fd)

(* Every context ctx_pool_createstacks made is in the free list, once, or  *)
(* runs one request; so the pool grows only when every context is in use,  *)
(* and never has NumStacks more than there can be connections.             *)
PoolExact ==
    /\ \A i, j \in 1..Len(freelist) : i # j => freelist[i] # freelist[j]
    /\ \A c \in 1..made :
         (fiber[c].pc = "free") <=> \E i \in 1..Len(freelist) : freelist[i] = c
    /\ made < Cardinality(Fds) + NumStacks

(* No edge is consumed without its condition being acted on: a connection  *)
(* that waits for input and has some, or waits to write and has room, is   *)
(* still in epoll's ready list.  Edges that arrive while the application   *)
(* runs are thrown away by the event loop, and a write loop swallows those *)
(* of the input: clients that do not pipeline never lose one.              *)
NoLostEdge ==
    \A fd \in open : fd \notin ready =>
        /\ sock[fd].rx > 0 => owner[fd] # IDLE
        /\ \A c \in Ctxs : (Serves(c, fd) /\ Suspended(c)) =>
             /\ fiber[c].pc \in {"read", "body"} => sock[fd].rx = 0
             /\ (fiber[c].pc \notin {"read", "body"} /\ ~fiber[c].truncated) => sock[fd].room = 0

(* A connection goes back to the idle handler with its response written    *)
(* in full and once, or, if the application leaves none, with nothing but  *)
(* the interim 100: never after a part of it, however the writes were cut. *)
WholeResponse ==
    \A fd \in open :
        (owner[fd] = IDLE /\ sock[fd].kind # "none" /\ sock[fd].sent = RequestUnits
            /\ sock[fd].rx = 0 /\ ~sock[fd].dead) =>
            \/ sock[fd].wrote = ResponseUnits(sock[fd].kind)
            \/ "nothing" \in Replies /\ sock[fd].wrote = ResponseUnits(sock[fd].kind) - 2

(* Whatever a client does or omits, its connection ends: the timeout shuts *)
(* it down, and the edge that raises gets a fiber to close it.  Clients    *)
(* send a bounded number of requests here; none is assumed to read, to     *)
(* finish a request or to close.  One exception: a connection on which     *)
(* _http_server_sendfile sends a file that shrank is never closed, since   *)
(* sendfile() does not fail; its fiber wakes at every timeout and yields   *)
(* again.                                                                  *)
ConnectionsEnd ==
    \A fd \in Fds :
        fd \in open ~> \/ fd \notin open
                       \/ \E c \in Ctxs : Serves(c, fd) /\ SendsNothing(fiber[c])

(* Every connection in the backlog is accepted or refused, even when the   *)
(* process has no descriptor left.                                         *)
BacklogDrains == backlog > 0 ~> backlog = 0

(* The comment in http_server_accept_connections: out of descriptors, the  *)
(* server lets clients "know immediately", which takes the reserved one.   *)
AbleToRefuse == (Full /\ backlog > 0) => reserved
=============================================================================
