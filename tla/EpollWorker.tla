----------------------------- MODULE EpollWorker -----------------------------
(***************************************************************************)
(* The scheduler: contexts (fibers) that run one at a time and hand the    *)
(* processor over with ribs_swapcurcontext, the epoll instance, the map    *)
(* from descriptors to contexts, and the pipe that queues contexts which   *)
(* gave way voluntarily.                                                   *)
(*                                                                         *)
(* `current' is current_ctx; while `waiting' holds it is inside            *)
(* epoll_wait.  A step is the run of one context up to its next call of    *)
(* the scheduler.  Fibers follow no particular program: each performs up   *)
(* to MaxOps operations (receive, courtesy_yield, hand over to a new       *)
(* fiber) in any order and returns.  Every fiber owns one socket, which    *)
(* has the fiber's name.                                                   *)
(*                                                                         *)
(* The epoll instance and the pipe are the kernel's.  Ready descriptors    *)
(* are reported round robin, one per call; a level-triggered one is put    *)
(* back at the tail.  The pipe is an array of NPages pages of PageSize     *)
(* contexts: a write may fill up the last page, a page is freed when all   *)
(* of it has been read, EPOLLOUT means that a page is free, and a read     *)
(* from a pipe without a free page notifies the writers.                   *)
(***************************************************************************)
EXTENDS Integers, Lists

CONSTANTS NFibers,      \* contexts besides the loop and the pipe reader
          NPages, PageSize,
          MaxOps,       \* bound: operations a fiber performs
          Ops           \* what fibers do: receive, courtesy, handover

ASSUME EpollAssumption ==
    /\ NFibers \in Nat \ {0} /\ NPages \in Nat \ {0} /\ PageSize \in Nat \ {0}
    /\ MaxOps \in Nat
    /\ Ops \subseteq {"receive", "courtesy", "handover"}

VARIABLES current, waiting, last_fd, fd_map,    \* the event loop
          ep_ready,                             \* epoll's list of ready descriptors
          pipe, read_ofs,                       \* the context queue
          avail,                                \* unread input of a socket
          pc, ops, previous_context, save_ctx   \* fibers: place, locals

kernelVars == <<ep_ready, pipe, read_ofs, avail>>
loopVars == <<current, waiting, last_fd, fd_map>>
fiberVars == <<pc, ops, previous_context, save_ctx>>
epoll_vars == <<kernelVars, loopVars, fiberVars>>

Fibers == 1..NFibers
EventLoop == 0            \* event_loop_ctx
PipeCtx == -1             \* the context of pipe_to_context
QueueR == -1              \* pipefd[0]
QueueW == -2              \* pipefd[1], queue_ctx_fd

Contexts == Fibers \cup {EventLoop, PipeCtx}
Descriptors == Fibers \cup {QueueR, QueueW}
Places == {"new", "created", "run", "fd", "full", "queued", "done"}

(***************************************************************************)
(* The kernel.                                                             *)
(***************************************************************************)
PagesUsed == (read_ofs + Len(pipe) + PageSize - 1) \div PageSize
CanWrite == read_ofs + Len(pipe) < NPages * PageSize

Pollable(fd) == CASE fd = QueueR -> pipe # <<>>
                  [] fd = QueueW -> PagesUsed < NPages
                  [] OTHER -> TRUE

Notify(r, fd) == IF Contains(r, fd) THEN r ELSE Append(r, fd)

(* epoll_wait drops what is no longer ready and reports the first that is. *)
Reported == SelectInSeq(ep_ready, Pollable)

AfterReport ==
    LET rest == SubSeq(ep_ready, Reported + 1, Len(ep_ready))
    IN  IF ep_ready[Reported] = QueueR THEN Append(rest, QueueR) ELSE rest

(* Input arrives on a socket that is open; or the socket only becomes      *)
(* writable again while its fiber waits.                                   *)
SocketInput(f) ==
    /\ "receive" \in Ops
    /\ ~avail[f] /\ pc[f] \notin {"new", "done"}
    /\ avail' = [avail EXCEPT ![f] = TRUE]
    /\ ep_ready' = Notify(ep_ready, f)
    /\ UNCHANGED <<pipe, read_ofs, loopVars, fiberVars>>

SocketWritable(f) ==
    /\ pc[f] = "fd"
    /\ ep_ready' = Notify(ep_ready, f)
    /\ UNCHANGED <<pipe, read_ofs, avail, loopVars, fiberVars>>

(***************************************************************************)
(* The event loop.                                                         *)
(***************************************************************************)
Running(c) == ~waiting /\ current = c

(* yield, first half: enter epoll_wait.                                    *)
EnterWait == waiting' = TRUE /\ UNCHANGED current

yield_keep_last_fd ==
    /\ waiting /\ Reported # 0
    /\ ep_ready' = AfterReport
    /\ waiting' = FALSE
    /\ current' = fd_map[ep_ready[Reported]]
    /\ UNCHANGED <<last_fd, fd_map, pipe, read_ofs, avail, fiberVars>>

(* yield, second half: swap to the context the descriptor is mapped to.    *)
yield ==
    /\ waiting /\ Reported # 0
    /\ last_fd' = ep_ready[Reported]
    /\ ep_ready' = AfterReport
    /\ waiting' = FALSE
    /\ current' = fd_map[ep_ready[Reported]]
    /\ UNCHANGED <<fd_map, pipe, read_ofs, avail, fiberVars>>

event_loop ==
    /\ Running(EventLoop)
    /\ EnterWait
    /\ UNCHANGED <<last_fd, fd_map, kernelVars, fiberVars>>

(* Reads one context from the descriptor the last event was for.           *)
pipe_to_context ==
    /\ Running(PipeCtx)
    /\ IF last_fd = QueueR /\ pipe # <<>>
       THEN /\ current' = Head(pipe)
            /\ pipe' = Tail(pipe)
            /\ read_ofs' = IF Len(pipe) = 1 \/ read_ofs + 1 = PageSize
                           THEN 0 ELSE read_ofs + 1
            /\ ep_ready' = IF PagesUsed = NPages THEN Notify(ep_ready, QueueW) ELSE ep_ready
            /\ UNCHANGED waiting
       ELSE EnterWait /\ UNCHANGED <<ep_ready, pipe, read_ofs>>
    /\ UNCHANGED <<last_fd, fd_map, avail, fiberVars>>

(* queue_context_swap(f), with the ready list r, the map m and the fiber   *)
(* places p of the moment, and the swap to t that follows it in the        *)
(* caller; or, when the pipe is full, the wait for it to clear.            *)
Enqueue(f, r, m, p, t) ==
    /\ pipe' = Append(pipe, f)
    /\ ep_ready' = Notify(r, QueueR)
    /\ pc' = [p EXCEPT ![f] = "queued"]
    /\ current' = t
    /\ fd_map' = m
    /\ UNCHANGED <<waiting, previous_context>>

AwaitRoom_forget_previous(f, r, m, p) ==
    /\ previous_context' = [previous_context EXCEPT ![f] = EventLoop]
    /\ fd_map' = [m EXCEPT ![QueueW] = f]
    /\ pc' = [p EXCEPT ![f] = "full"]
    /\ ep_ready' = r
    /\ EnterWait
    /\ UNCHANGED pipe

AwaitRoom(f, r, m, p) ==
    /\ previous_context' = [previous_context EXCEPT ![f] = m[QueueW]]
    /\ fd_map' = [m EXCEPT ![QueueW] = f]
    /\ pc' = [p EXCEPT ![f] = "full"]
    /\ ep_ready' = r
    /\ EnterWait
    /\ UNCHANGED pipe

queue_context_swap(f, r, m, p, t) ==
    IF CanWrite THEN Enqueue(f, r, m, p, t) ELSE AwaitRoom(f, r, m, p)

(***************************************************************************)
(* What a fiber does.                                                      *)
(***************************************************************************)
At(f, place) == Running(f) /\ pc[f] = place

Begin(f, op) == op \in Ops /\ At(f, "run") /\ ops[f] < MaxOps

(* A non-blocking read; on EAGAIN the fiber takes over the events of its   *)
(* socket and yields, and gives them back to the event loop when it runs   *)
(* again (yield_if_eagain).                                                *)
Receive(f) ==
    /\ Begin(f, "receive") /\ avail[f]
    /\ avail' = [avail EXCEPT ![f] = FALSE]
    /\ ops' = [ops EXCEPT ![f] = @ + 1]
    /\ UNCHANGED <<ep_ready, pipe, read_ofs, loopVars, pc, previous_context, save_ctx>>

WaitForInput(f) ==
    /\ Begin(f, "receive") /\ ~avail[f]
    /\ fd_map' = [fd_map EXCEPT ![f] = f]
    /\ pc' = [pc EXCEPT ![f] = "fd"]
    /\ EnterWait
    /\ UNCHANGED <<last_fd, kernelVars, ops, previous_context, save_ctx>>

WakeFromInput(f) ==
    /\ At(f, "fd")
    /\ fd_map' = [fd_map EXCEPT ![f] = EventLoop]
    /\ pc' = [pc EXCEPT ![f] = "run"]
    /\ UNCHANGED <<current, waiting, last_fd, kernelVars, ops, previous_context, save_ctx>>

courtesy_yield_drop_event(f) ==
    /\ Begin(f, "courtesy") /\ Reported # 0
    /\ ops' = [ops EXCEPT ![f] = @ + 1]
    /\ last_fd' = ep_ready[Reported]
    /\ save_ctx' = [save_ctx EXCEPT ![f] = EventLoop]
    /\ queue_context_swap(f, AfterReport, fd_map, pc, EventLoop)
    /\ UNCHANGED <<read_ofs, avail>>

courtesy_yield_no_queue(f) ==
    /\ Begin(f, "courtesy") /\ Reported # 0
    /\ ops' = [ops EXCEPT ![f] = @ + 1]
    /\ last_fd' = ep_ready[Reported]
    /\ ep_ready' = AfterReport
    /\ pc' = [pc EXCEPT ![f] = "queued"]
    /\ current' = fd_map[ep_ready[Reported]]
    /\ UNCHANGED <<waiting, fd_map, pipe, read_ofs, avail, previous_context, save_ctx>>

(* courtesy_yield: nothing else is ready, or the current context queues    *)
(* itself and swaps to the context of the event it has just consumed.      *)
courtesy_yield(f) ==
    /\ Begin(f, "courtesy")
    /\ ops' = [ops EXCEPT ![f] = @ + 1]
    /\ IF Reported = 0
       THEN /\ ep_ready' = <<>>
            /\ UNCHANGED <<pipe, loopVars, pc, previous_context, save_ctx>>
       ELSE /\ last_fd' = ep_ready[Reported]
            /\ save_ctx' = [save_ctx EXCEPT ![f] = fd_map[ep_ready[Reported]]]
            /\ queue_context_swap(f, AfterReport, fd_map, pc, save_ctx'[f])
    /\ UNCHANGED <<read_ofs, avail>>

(* queue_current_ctx, then swap to a context that was just created.        *)
HandOver(f) ==
    /\ Begin(f, "handover")
    /\ ops' = [ops EXCEPT ![f] = @ + 1]
    /\ \E g \in Fibers :
         /\ pc[g] = "new" /\ \A h \in 1..(g - 1) : pc[h] # "new"
         /\ save_ctx' = [save_ctx EXCEPT ![f] = g]
         /\ queue_context_swap(f, ep_ready, fd_map, [pc EXCEPT ![g] = "created"], g)
    /\ UNCHANGED <<last_fd, read_ofs, avail>>

(* Back from the yield in queue_context_swap: restore the map, try again.  *)
WakeFromFull(f) ==
    /\ At(f, "full")
    /\ queue_context_swap(f, ep_ready, [fd_map EXCEPT ![QueueW] = previous_context[f]],
                          pc, save_ctx[f])
    /\ UNCHANGED <<last_fd, read_ofs, avail, ops, save_ctx>>

(* The first run of a created fiber, or the return from the swap that      *)
(* followed its queueing.                                                  *)
Continue(f) ==
    /\ At(f, "created") \/ At(f, "queued")
    /\ pc' = [pc EXCEPT ![f] = "run"]
    /\ UNCHANGED <<loopVars, kernelVars, ops, previous_context, save_ctx>>

(* The fiber closes its socket (ribs_close) and its function returns:      *)
(* __ribs_context_jump goes to the parent without saving anything.         *)
Finish(f) ==
    /\ At(f, "run")
    /\ pc' = [pc EXCEPT ![f] = "done"]
    /\ fd_map' = [fd_map EXCEPT ![f] = EventLoop]
    /\ ep_ready' = RemoveFirst(ep_ready, f)
    /\ avail' = [avail EXCEPT ![f] = FALSE]
    /\ current' = EventLoop
    /\ UNCHANGED <<waiting, last_fd, pipe, read_ofs, ops, previous_context, save_ctx>>

(* Fiber 1 is main_ctx after epoll_worker_init.                    *)
EpollInit ==
    /\ current = 1
    /\ waiting = FALSE
    /\ last_fd = QueueR
    /\ fd_map = [fd \in Descriptors |-> IF fd = QueueR THEN PipeCtx ELSE EventLoop]
    /\ ep_ready = <<QueueW>>
    /\ pipe = <<>>
    /\ read_ofs = 0
    /\ avail = [f \in Fibers |-> FALSE]
    /\ pc = [f \in Fibers |-> IF f = current THEN "run" ELSE "new"]
    /\ ops = [f \in Fibers |-> 0]
    /\ previous_context = [f \in Fibers |-> EventLoop]
    /\ save_ctx = [f \in Fibers |-> EventLoop]

RunFiber(f) == \/ Receive(f) \/ WaitForInput(f) \/ WakeFromInput(f)
               \/ courtesy_yield(f) \/ HandOver(f) \/ WakeFromFull(f)
               \/ Continue(f) \/ Finish(f)

Scheduler == yield \/ event_loop \/ pipe_to_context

EpollNext == \/ Scheduler
             \/ \E f \in Fibers : RunFiber(f) \/ SocketInput(f) \/ SocketWritable(f)

(* Code that runs makes progress, epoll_wait returns when something is     *)
(* ready, and every peer eventually sends.                                 *)
EpollFairness == /\ WF_epoll_vars(Scheduler)
                 /\ WF_epoll_vars(\E f \in Fibers : RunFiber(f))
                 /\ \A f \in Fibers : WF_epoll_vars(SocketInput(f))

EpollSpec == EpollInit /\ [][EpollNext]_epoll_vars /\ EpollFairness
-----------------------------------------------------------------------------
EpollTypeOK ==
    /\ current \in Contexts /\ waiting \in BOOLEAN /\ last_fd \in Descriptors
    /\ fd_map \in [Descriptors -> Contexts]
    /\ ep_ready \in Seq(Descriptors) /\ IsInjective(ep_ready)
    /\ pipe \in Seq(Fibers)
    /\ read_ofs \in 0..(PageSize - 1)
    /\ read_ofs + Len(pipe) <= NPages * PageSize
    /\ avail \in [Fibers -> BOOLEAN]
    /\ pc \in [Fibers -> Places] /\ ops \in [Fibers -> 0..MaxOps]
    /\ previous_context \in [Fibers -> Contexts]
    /\ save_ctx \in [Fibers -> Contexts]

(* A fiber whose function has returned is never swapped to: its stack may  *)
(* already belong to another fiber.                                        *)
NoResumeOfFinished == current \in Fibers => pc[current] # "done"

(* The contexts waiting for the full pipe form a stack: queue_ctx_fd is    *)
(* mapped to the last one and each remembers the one before it, down to    *)
(* the event loop.  Restoring previous_context after the yield in          *)
(* queue_context_swap must lose none of them.                              *)
WaitersStacked ==
    LET stack[n \in 0..Cardinality(Fibers)] ==
            IF n = 0 THEN {fd_map[QueueW]}
            ELSE stack[n - 1] \cup {previous_context[f] : f \in stack[n - 1] \cap Fibers}
    IN  {f \in Fibers : pc[f] = "full"} = stack[Cardinality(Fibers)] \ {EventLoop}

(* Nobody is lost: a fiber that queued itself and is not running again is  *)
(* in the pipe.                                                            *)
QueuedKept ==
    \A f \in Fibers : (pc[f] = "queued" /\ ~Running(f)) => \E i \in DOMAIN pipe : pipe[i] = f

(* And nobody is queued twice, or runs while its entry is in the pipe:     *)
(* without courtesy_yield, which may resume a fiber that has moved on.     *)
QueuedOnce ==
    \A f \in Fibers :
        Cardinality({i \in DOMAIN pipe : pipe[i] = f}) =
            IF pc[f] = "queued" /\ ~Running(f) THEN 1 ELSE 0

(* No lost wake-up: input for a fiber that waits for it has its event      *)
(* still to come, has just been delivered, or is held in save_ctx by a     *)
(* courtesy_yield that consumed it.                                        *)
NoLostWakeup ==
    \A f \in Fibers :
        (pc[f] = "fd" /\ avail[f] /\ ~Running(f)) =>
            \/ Contains(ep_ready, f)
            \/ \E g \in Fibers : pc[g] = "full" /\ save_ctx[g] = f

(* pipe_to_context reads whatever descriptor the last event was for, even  *)
(* when courtesy_yield swaps to it late: it must never be a socket, whose  *)
(* bytes it would take for a context pointer.                              *)
PipeReadsPipe == Running(PipeCtx) => last_fd \in {QueueR, QueueW}

(* Every fiber that was started returns in the end, however full the pipe: *)
(* each context that waits for room is told "when can write".              *)
EveryFiberReturns == <>[](\A f \in Fibers : pc[f] \in {"new", "done"})
=============================================================================
