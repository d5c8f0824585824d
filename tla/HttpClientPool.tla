--------------------------- MODULE HttpClientPool ---------------------------
(***************************************************************************)
(* The HTTP client pool: callers (fibers of the application) create a      *)
(* client for a server (a key), send its request and yield; the client's   *)
(* own fiber writes what is left of the request, reads the response and    *)
(* returns to its caller, which frees the client.  Connections that can be *)
(* reused are kept in one list per key, under a second timeout handler.    *)
(*                                                                         *)
(* As in HttpServer, `running' has the processor until it yields, sockets  *)
(* are edge triggered and both timeout handlers are those of Timeouts.     *)
(* They share the link and the timestamp of a descriptor, hence `shut'.    *)
(* A response is ResponseUnits long: a unit of header, the rest body.      *)
(***************************************************************************)
EXTENDS Integers, SequencesExt

CONSTANTS Fds, Keys,
          Callers,      \* contexts that make requests
          NHeads,       \* list heads: RLIMIT_NOFILE of them
          Styles,       \* subset of AllStyles: how servers respond
          Usage,        \* subset of {"send", "swap"}: how callers use a client
          NumStacks,    \* initial size and growth of the context pool
          MaxCtx,       \* bound: contexts that can be created
          MaxReqs       \* bound: requests per caller

AllStyles == {"length", "connectionclose", "untilclose", "malformed"}

ASSUME ClientAssumption ==
    /\ Styles \subseteq AllStyles
    /\ Usage \subseteq {"send", "swap"}
    /\ {NHeads, NumStacks, MaxCtx, MaxReqs} \subseteq Nat \ {0}
    /\ Callers \cap (-1..MaxCtx) = {}

VARIABLES active,       \* pool->timeout_handler: descriptors linked
          persistent,   \* pool->timeout_handler_persistent
          shut,         \* timestamp {0,0}: shut down by one of them
          open, sock, ready, owner,     \* as in HttpServer
          running,      \* LOOP, a caller or a client's context
          client_heads, \* per key: idle connections, head first
          known,        \* keys in ht_persistent_clients
          freelist, made, client,       \* the context pool and its contexts
          caller        \* per caller: place, requests made and awaited, context in hand

tvars == <<active, persistent, shut>>
nvars == <<open, sock, ready, owner>>
pvars == <<client_heads, known>>
cvars == <<freelist, made, client>>
vars == <<tvars, nvars, pvars, cvars, running, caller>>

A == INSTANCE Timeouts WITH linked <- active
P == INSTANCE Timeouts WITH linked <- persistent

Ctxs == 1..MaxCtx
LOOP == 0
IDLE == -1
ResponseUnits == 2

NewSock == [up |-> FALSE, request |-> FALSE, style |-> "none", sent |-> 0, rx |-> 0,
            fin |-> FALSE, end |-> "no"]     \* end: "no", "shutdown", "reset"

NoClient == [pc |-> "free", fd |-> "none", key |-> "none", parent |-> "none",
             sent |-> FALSE, got |-> 0, persistent |-> FALSE]
-----------------------------------------------------------------------------
(* Pieces of the handlers. *)
ctx_pool_get(c) ==
    LET grown == [i \in 1..NumStacks |-> made + NumStacks + 1 - i]
        list == IF freelist = <<>> THEN grown ELSE freelist
    IN /\ freelist = <<>> => made + NumStacks <= MaxCtx
       /\ c = Head(list)
       /\ freelist' = Tail(list)
       /\ made' = IF freelist = <<>> THEN made + NumStacks ELSE made

ctx_pool_put_never(c) == client' = [client EXCEPT ![c] = NoClient] /\ UNCHANGED freelist

ctx_pool_put(c) ==
    /\ freelist' = <<c>> \o freelist
    /\ client' = [client EXCEPT ![c] = NoClient]

(* ribs_close *)
Closed(fd) ==
    /\ open' = open \ {fd}
    /\ ready' = ready \ {fd}
    /\ owner' = [owner EXCEPT ![fd] = LOOP]
    /\ sock' = [sock EXCEPT ![fd] = NewSock]

Return_stale_last_ctx(c, f) ==
    /\ client' = [client EXCEPT ![c] = [f EXCEPT !.pc = "done"]]
    /\ running' = client[c].parent
    /\ caller' = [caller EXCEPT ![client[c].parent].pc = "resumed",
                                ![client[c].parent].waits = @ - 1]
    /\ UNCHANGED <<tvars, pvars, freelist, made>>

(* The fiber of a client ends; its context stays allocated until its       *)
(* caller, which it returns to, frees it.                                  *)
Return(c, f) ==
    /\ client' = [client EXCEPT ![c] = [f EXCEPT !.pc = "done"]]
    /\ running' = client[c].parent
    /\ caller' = [caller EXCEPT ![client[c].parent].pc = "resumed",
                                ![client[c].parent].waits = @ - 1,
                                ![client[c].parent].ctx = c]      \* last_ctx
    /\ UNCHANGED <<tvars, pvars, freelist, made>>

CLIENT_ERROR_keep_persistent(c) ==
    /\ Closed(client[c].fd)
    /\ Return(c, client[c])

CLIENT_ERROR(c) ==
    /\ Closed(client[c].fd)
    /\ Return(c, [client[c] EXCEPT !.persistent = FALSE])

(* http_client_yield and http_client_yield_ignore_epollout, up to the      *)
(* yield; Dispatch has the rest.                                           *)
http_client_yield_untimed(fd) == running' = LOOP /\ UNCHANGED tvars

http_client_yield(fd) ==
    /\ A!Add(fd)
    /\ running' = LOOP
    /\ UNCHANGED persistent
-----------------------------------------------------------------------------
(* _http_client_pool_create_client: take the last idle connection of the   *)
(* key unless it has been shut down, else connect a new one.               *)
Usable(fd) == fd \notin shut

create_client(k, key) ==
    LET idle == client_heads[key]
        reusable == idle # <<>> /\ Usable(Last(idle))
        Start(fd, c) ==
            /\ ctx_pool_get(c)
            /\ client' = [client EXCEPT ![c] = [NoClient EXCEPT !.pc = "start", !.fd = fd,
                                                  !.key = key, !.parent = k]]
            /\ owner' = [owner EXCEPT ![fd] = c]
            /\ caller' = [caller EXCEPT ![k].pc = "send", ![k].reqs = @ + 1, ![k].ctx = c]
            /\ A!Add(fd)
    IN
    /\ running = k /\ caller[k].pc = "run" /\ caller[k].reqs < MaxReqs
    /\ \/ /\ reusable
          /\ client_heads' = [client_heads EXCEPT ![key] = Front(idle)]
          /\ persistent' = persistent \ {Last(idle)}
          /\ \E c \in Ctxs : Start(Last(idle), c)
          /\ sock' = [sock EXCEPT ![Last(idle)] = [@ EXCEPT !.request = FALSE, !.style = "none",
                                                            !.sent = 0]]
          /\ UNCHANGED <<open, ready>>
       \/ /\ ~reusable
          /\ \E fd \in Fds \ open, c \in Ctxs :
               /\ open' = open \cup {fd}
               /\ Start(fd, c)
          /\ UNCHANGED <<sock, ready, client_heads, persistent>>
    /\ UNCHANGED <<running, known>>

(* http_client_send_request, tried at once, and its callers here: on a     *)
(* failure they free the client.                                           *)
http_client_send_request(k) ==
    LET c == caller[k].ctx
        fd == client[c].fd
    IN /\ running = k /\ caller[k].pc = "send"
       /\ \/ /\ sock[fd].end # "no"
             /\ A!Remove(fd)
             /\ Closed(fd)
             /\ ctx_pool_put(c)
             /\ caller' = [caller EXCEPT ![k].pc = "run"]
             /\ UNCHANGED <<persistent, made>>
          \/ /\ sock[fd].end = "no"
             /\ client' = [client EXCEPT ![c].sent = sock[fd].up]
             /\ sock' = [sock EXCEPT ![fd].request = sock[fd].up]
             /\ caller' = [caller EXCEPT ![k].pc = "run", ![k].waits = @ + 1]
             /\ UNCHANGED <<tvars, open, ready, owner, freelist, made>>
       /\ "send" \in Usage
       /\ UNCHANGED <<pvars, running>>

CallerYield(k) ==
    /\ running = k /\ caller[k].pc = "run" /\ caller[k].waits > 0
    /\ caller' = [caller EXCEPT ![k].pc = "wait"]
    /\ running' = LOOP
    /\ UNCHANGED <<tvars, nvars, pvars, cvars>>

(* A caller that waits for nothing gives way, and runs again later.        *)
CallerSwitch ==
    \/ \E k \in Callers : /\ running = k /\ caller[k].pc = "run" /\ caller[k].waits = 0
                          /\ running' = LOOP
                          /\ UNCHANGED <<tvars, nvars, pvars, cvars, caller>>
    \/ \E k \in Callers : /\ running = LOOP /\ caller[k].pc = "run" /\ caller[k].reqs < MaxReqs
                          /\ running' = k
                          /\ UNCHANGED <<tvars, nvars, pvars, cvars, caller>>
-----------------------------------------------------------------------------
(* The other use of a client: no http_client_send_request, the caller      *)
(* switches to the new fiber at once and is resumed when it returns.  The  *)
(* fiber unlinks the descriptor first.                                     *)
SwapToClient(k) ==
    LET c == caller[k].ctx IN
    /\ "swap" \in Usage
    /\ running = k /\ caller[k].pc = "send" /\ caller[k].waits = 0
    /\ A!Remove(client[c].fd)
    /\ client' = [client EXCEPT ![c].pc = "write"]
    /\ caller' = [caller EXCEPT ![k].pc = "wait", ![k].waits = 1]
    /\ running' = c
    /\ UNCHANGED <<persistent, nvars, pvars, freelist, made>>

(* http_client_reuse_context: the same client runs again with the same     *)
(* request.  Its fiber unlinks the descriptor a second time; nothing has   *)
(* run since the first, so its old neighbours are still neighbours and     *)
(* list_remove changes nothing.                                            *)
http_client_reuse_context(k) ==
    LET c == caller[k].ctx IN
    /\ "swap" \in Usage
    /\ running = k /\ caller[k].pc = "resumed" /\ caller[k].waits = 0
    /\ client[c].persistent /\ caller[k].reqs < MaxReqs
    /\ client' = [client EXCEPT ![c] = [@ EXCEPT !.pc = "write", !.sent = FALSE, !.got = 0]]
    /\ sock' = [sock EXCEPT ![client[c].fd] = [@ EXCEPT !.request = FALSE, !.style = "none",
                                                        !.sent = 0]]
    /\ caller' = [caller EXCEPT ![k].pc = "wait", ![k].waits = 1, ![k].reqs = @ + 1]
    /\ running' = c
    /\ UNCHANGED <<tvars, open, ready, owner, pvars, freelist, made>>

(* http_client_free: a persistent connection goes to the tail of the list  *)
(* of its key.  Without a list head left it is closed, and the early       *)
(* return leaves the context out of the pool.                              *)
Pooled(c) ==
    /\ client_heads' = [client_heads EXCEPT ![client[c].key] = Append(@, client[c].fd)]
    /\ P!Add(client[c].fd)
    /\ UNCHANGED active

http_client_free(k) ==
    LET c == caller[k].ctx IN
    /\ running = k /\ caller[k].pc = "resumed"
    /\ caller' = [caller EXCEPT ![k].pc = "run"]
    /\ \/ /\ client[c].persistent
          /\ client[c].key \in known \/ Cardinality(known) < NHeads
          /\ known' = known \cup {client[c].key}
          /\ owner' = [owner EXCEPT ![client[c].fd] = IDLE]
          /\ Pooled(c)
          /\ ctx_pool_put(c)
          /\ UNCHANGED <<open, sock, ready>>
       \/ /\ client[c].persistent
          /\ client[c].key \notin known /\ Cardinality(known) = NHeads
          /\ Closed(client[c].fd)
          /\ UNCHANGED <<tvars, pvars, freelist, client>>
       \/ /\ ~client[c].persistent
          /\ ctx_pool_put(c)
          /\ UNCHANGED <<tvars, nvars, pvars>>
       \/ /\ client[c].persistent            \* http_client_close_free
          /\ Closed(client[c].fd)
          /\ ctx_pool_put(c)
          /\ UNCHANGED <<tvars, pvars>>
    /\ UNCHANGED <<made, running>>
-----------------------------------------------------------------------------
(* http_client_fiber_main, from its first instruction after the descriptor *)
(* has been unlinked.                                                      *)
http_client_write_request(c) ==
    LET fd == client[c].fd IN
    /\ running = c /\ client[c].pc = "write"
    /\ \/ /\ client[c].sent
          /\ client' = [client EXCEPT ![c].pc = "read"]
          /\ UNCHANGED <<tvars, nvars, pvars, freelist, made, running, caller>>
       \/ ~client[c].sent /\ sock[fd].end # "no" /\ CLIENT_ERROR(c)
       \/ /\ ~client[c].sent /\ sock[fd].end = "no" /\ sock[fd].up
          /\ client' = [client EXCEPT ![c].pc = "read", ![c].sent = TRUE]
          /\ sock' = [sock EXCEPT ![fd].request = TRUE]
          /\ UNCHANGED <<tvars, open, ready, owner, pvars, freelist, made, running, caller>>
       \/ /\ ~client[c].sent /\ sock[fd].end = "no" /\ ~sock[fd].up
          /\ http_client_yield(fd)
          /\ UNCHANGED <<nvars, pvars, cvars, caller>>

(* http_client_read_headers and http_client_read_body: read until the      *)
(* response is complete, end of file, an error, or nothing is left to      *)
(* read.  A response without a length ends with the connection, and is as  *)
(* persistent as its header says.                                          *)
ReadResponse(c) ==
    LET fd == client[c].fd
        s == sock[fd]
        got == client[c].got + s.rx
        f == [client[c] EXCEPT !.got = got,
                               !.persistent = got >= 1 /\ s.style # "connectionclose"]
        eof == s.fin \/ s.end = "shutdown"
        complete == \/ s.style \in {"length", "connectionclose"} /\ got = ResponseUnits
                    \/ s.style = "untilclose" /\ got >= 1 /\ eof
        failed == ~complete /\ (eof \/ s.end = "reset" \/ (s.style = "malformed" /\ got >= 1))
        Drained == /\ sock' = [sock EXCEPT ![fd].rx = 0]
                   /\ UNCHANGED <<open, ready, owner>>
    IN
    /\ running = c /\ client[c].pc = "read"
    /\ \/ /\ complete
          /\ IF f.persistent THEN Drained ELSE Closed(fd)
          /\ Return(c, f)
       \/ failed /\ CLIENT_ERROR(c)
       \/ /\ ~complete /\ ~failed
          /\ client' = [client EXCEPT ![c] = f]
          /\ Drained
          /\ http_client_yield(fd)
          /\ UNCHANGED <<pvars, freelist, made, caller>>
-----------------------------------------------------------------------------
(* The event mask epoll_wait reports. *)
In(s) == s.rx > 0 \/ s.fin \/ s.end # "no"
Out(s) == s.up \/ s.end # "no"

(* http_client_idle_handler *)
idle_handler_keep_listed(fd) == UNCHANGED client_heads

idle_handler_delist(fd) ==
    client_heads' = [key \in Keys |-> SelectSeq(client_heads[key], LAMBDA g : g # fd)]

http_client_idle_handler(fd) ==
    /\ idle_handler_delist(fd)
    /\ Closed(fd)
    /\ P!Remove(fd)
    /\ UNCHANGED <<active, running, client>>

Ignores_masked(c, s) == client[c].pc = "read" /\ Out(s)

(* A fiber waiting for its response ignores EPOLLOUT, a fiber that has not *)
(* started or waits to write takes any event.                              *)
Ignores(c, s) == client[c].pc = "read" /\ ~In(s)

Resume(fd) ==
    LET c == owner[fd] IN
    /\ A!Remove(fd)
    /\ running' = c
    /\ client' = [client EXCEPT ![c].pc = IF @ = "start" THEN "write" ELSE @]
    /\ ready' = ready \ {fd}
    /\ UNCHANGED <<persistent, open, sock, owner, client_heads>>

Dispatch(fd) ==
    /\ running = LOOP /\ fd \in ready
    /\ LET s == sock[fd]
           dropped == \/ owner[fd] = LOOP
                      \/ ~In(s) /\ ~Out(s)
                      \/ owner[fd] = IDLE /\ ~In(s)
                      \/ owner[fd] \in Ctxs /\ Ignores(owner[fd], s)
       IN \/ /\ dropped
             /\ ready' = ready \ {fd}
             /\ UNCHANGED <<tvars, open, sock, owner, client_heads, running, client>>
          \/ ~dropped /\ owner[fd] = IDLE /\ http_client_idle_handler(fd)
          \/ ~dropped /\ owner[fd] \in Ctxs /\ Resume(fd)
    /\ UNCHANGED <<known, freelist, made, caller>>

(* Either timeout handler expires: shutdown(SHUT_RDWR), which raises an    *)
(* edge.  What has been received can still be read.                        *)
Expire ==
    /\ running = LOOP
    /\ \E hit \in SUBSET Fds :
         /\ \/ A!Expire(hit) /\ UNCHANGED persistent
            \/ P!Expire(hit) /\ UNCHANGED active
         /\ sock' = [fd \in Fds |-> IF fd \in hit /\ sock[fd].end = "no"
                                      THEN [sock[fd] EXCEPT !.end = "shutdown"] ELSE sock[fd]]
         /\ ready' = ready \cup hit
    /\ UNCHANGED <<open, owner, pvars, cvars, running, caller>>
-----------------------------------------------------------------------------
(* The servers and the network. *)
Peer(fd, s) ==
    /\ fd \in open /\ sock[fd].end = "no"
    /\ sock' = [sock EXCEPT ![fd] = s]
    /\ ready' = ready \cup {fd}
    /\ UNCHANGED <<tvars, open, owner, pvars, cvars, running, caller>>

ServerStep(fd) ==
    LET s == sock[fd] IN
    \/ ~s.up /\ Peer(fd, [s EXCEPT !.up = TRUE])
    \/ /\ s.request /\ ~s.fin /\ s.sent < ResponseUnits
       /\ \E style \in (IF s.style = "none" THEN Styles ELSE {s.style}) :
            Peer(fd, [s EXCEPT !.style = style, !.sent = @ + 1, !.rx = @ + 1])
    \/ s.up /\ ~s.fin /\ Peer(fd, [s EXCEPT !.fin = TRUE])
    \/ Peer(fd, [s EXCEPT !.end = "reset", !.rx = 0])

Init ==
    /\ A!Init /\ P!Init
    /\ open = {} /\ ready = {}
    /\ sock = [fd \in Fds |-> NewSock]
    /\ owner = [fd \in Fds |-> LOOP]
    /\ running = LOOP
    /\ client_heads = [key \in Keys |-> <<>>] /\ known = {}
    /\ freelist = [i \in 1..NumStacks |-> NumStacks + 1 - i] /\ made = NumStacks
    /\ client = [c \in Ctxs |-> NoClient]
    /\ caller = [k \in Callers |-> [pc |-> "run", reqs |-> 0, waits |-> 0, ctx |-> 0]]

CallerStep(k) ==
    \/ \E key \in Keys : create_client(k, key)
    \/ http_client_send_request(k) \/ SwapToClient(k)
    \/ http_client_reuse_context(k) \/ http_client_free(k)
    \/ CallerYield(k)

FiberStep(c) == http_client_write_request(c) \/ ReadResponse(c)

Next ==
    \/ \E k \in Callers : CallerStep(k)
    \/ \E c \in Ctxs : FiberStep(c)
    \/ \E fd \in Fds : Dispatch(fd) \/ ServerStep(fd)
    \/ CallerSwitch \/ Expire

(* The timeout handlers keep their promise, epoll reports every edge in    *)
(* the end, and whoever has the processor goes on until it yields.         *)
(* Nothing is assumed of the servers.                                      *)
Fairness ==
    /\ A!Promise /\ P!Promise
    /\ \A fd \in Fds : SF_vars(Dispatch(fd))
    /\ \A c \in Ctxs : WF_vars(FiberStep(c))
    /\ \A k \in Callers : WF_vars(CallerStep(k))
    /\ WF_vars(CallerSwitch)

Spec == Init /\ [][Next]_vars /\ Fairness
-----------------------------------------------------------------------------
TypeOK ==
    /\ active \subseteq Fds /\ persistent \subseteq Fds /\ shut \subseteq Fds
    /\ open \subseteq Fds /\ ready \subseteq open
    /\ sock \in [Fds -> [up : BOOLEAN, request : BOOLEAN, style : Styles \cup {"none"},
                         sent : 0..ResponseUnits, rx : 0..ResponseUnits, fin : BOOLEAN,
                         end : {"no", "shutdown", "reset"}]]
    /\ owner \in [Fds -> Ctxs \cup {LOOP, IDLE}]
    /\ running \in Ctxs \cup Callers \cup {LOOP}
    /\ client_heads \in [Keys -> Seq(Fds)] /\ known \subseteq Keys
    /\ freelist \in Seq(Ctxs) /\ made \in Ctxs
    /\ client \in [Ctxs -> [pc : {"free", "start", "write", "read", "done"}, fd : Fds \cup {"none"},
                            key : Keys \cup {"none"}, parent : Callers \cup {"none"},
                            sent : BOOLEAN, got : 0..ResponseUnits, persistent : BOOLEAN]]
    /\ caller \in [Callers -> [pc : {"run", "send", "wait", "resumed"}, reqs : 0..MaxReqs,
                               waits : 0..MaxReqs, ctx : Ctxs \cup {0}]]

InFlight == {c \in Ctxs : client[c].pc \in {"start", "write", "read"}}

(* A descriptor is in the chain of the active handler exactly while its    *)
(* client waits (for its first event or inside http_client_yield), and in  *)
(* the chain of the persistent handler exactly while it is idle, which is  *)
(* when it stands in one list of idle connections, once.  The two handlers *)
(* share one link per descriptor: in two chains, both would be corrupted.  *)
OneChain ==
    \A fd \in Fds :
        /\ fd \in active <=> \E c \in InFlight : client[c].fd = fd /\ running # c
        /\ fd \in persistent <=> owner[fd] = IDLE
        /\ LET places == {p \in Keys \X (1..Cardinality(Fds)) :
                            p[2] <= Len(client_heads[p[1]]) /\ client_heads[p[1]][p[2]] = fd}
           IN Cardinality(places) = IF owner[fd] = IDLE THEN 1 ELSE 0

(* When the event loop runs, every entry of the descriptor map leads to a  *)
(* client that is waiting on that very descriptor, to the idle handler or  *)
(* to the event loop: an event never resumes a fiber that has returned or  *)
(* a context that has been given to another client, and two clients never  *)
(* share a connection.                                                     *)
EventsReachClient ==
    running = LOOP =>
        /\ \A fd \in Fds : owner[fd] \in Ctxs =>
             owner[fd] \in InFlight /\ client[owner[fd]].fd = fd
        /\ \A c \in InFlight : client[c].fd \in open /\ owner[client[c].fd] = c

(* Every request is reported to its caller once: the responses a caller    *)
(* still waits for are its clients in flight, and the one it has been      *)
(* resumed for is the client it takes for the last one.                    *)
ReportedOnce ==
    \A k \in Callers :
        /\ caller[k].waits + (IF caller[k].pc = "send" THEN 1 ELSE 0)
              = Cardinality({c \in InFlight : client[c].parent = k})
        /\ caller[k].pc = "resumed" =>
             client[caller[k].ctx].pc = "done" /\ client[caller[k].ctx].parent = k

(* A context is in the free list, once, or belongs to a client its caller  *)
(* has not freed.  The one way to lose a context is http_client_free with  *)
(* no list head left for a new key.                                        *)
PoolExact ==
    /\ IsInjective(freelist)
    /\ \A c \in 1..made :
         /\ client[c].pc = "free" <=> c \in ToSet(freelist)
         /\ client[c].pc = "done" =>
              \/ \E k \in Callers : caller[k].pc = "resumed" /\ caller[k].ctx = c
              \/ client[c].key \notin known /\ Cardinality(known) = NHeads

(* No edge a client needs is lost: one that waits for the response and has *)
(* something to read, or waits for its connection and is connected, is     *)
(* still in epoll's ready list.                                            *)
NoLostEdge ==
    \A c \in InFlight : (running = LOOP /\ client[c].fd \notin ready) =>
        LET s == sock[client[c].fd] IN
        /\ s.rx = 0
        /\ ~client[c].sent => ~s.up

(* Whatever the server does or omits, a caller that waits for a response   *)
(* gets one, an error at the least.                                        *)
RequestsReturn == \A k \in Callers : caller[k].pc = "wait" ~> caller[k].pc = "resumed"

(* The comment on http_client_idle_handler: an idle connection is closed   *)
(* "on any other event".  One whose server has closed it, or that has been *)
(* shut down, is about to be.                                              *)
IdleCloses ==
    \A fd \in Fds : (owner[fd] = IDLE /\ In(sock[fd])) => fd \in ready

(* The comment in _http_client_pool_create_client: "do not use already     *)
(* shutdown()".  A new client is not given a connection that a timeout     *)
(* handler has shut down.                                                  *)
NotAlreadyShutdown ==
    \A k \in Callers : caller[k].pc = "send" =>
        sock[client[caller[k].ctx].fd].end # "shutdown"
=============================================================================
