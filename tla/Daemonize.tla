----------------------------- MODULE Daemonize ------------------------------
(***************************************************************************)
(* daemonize.c: the processes of a ribs server and the signals between     *)
(* them.  The launcher forks the main process (instance 0) and waits on a  *)
(* pipe until it is up; the main process forks the sub-processes 1..Kids,  *)
(* writes the pidfile, blocks SIGCHLD and SIGTERM and serves them from its *)
(* event loop through a signalfd.  Fibers of the main process fork workers *)
(* and wait for them (ribs_fork_and_wait).  A process may die, and the     *)
(* main process may be killed, at any moment.                              *)
(*                                                                         *)
(* `control' is what runs on the main process's only thread: its event     *)
(* loop, the fiber of _handle_signals, or the fiber that one resumed.      *)
(* Pending signals are a set: two SIGCHLD coalesce into one.               *)
(***************************************************************************)
EXTENDS Integers

CONSTANTS Kids,       \* bound: sub-processes
          Fibers,     \* fibers of the main process that fork and wait
          MaxDeaths   \* bound: unexpected deaths (sub-process, logger, main)

VARIABLES main,       \* "start", "fork", "signals", "ready", "loop", "kill", "wait", "gone", "dead"
          subs,       \* num_instances - 1: sub-processes asked for
          forked,     \* sub-processes forked so far
          kid,        \* per sub-process: state, death signal, pending SIGTERM
          slot,       \* children_pids[i] # 0
          logger,     \* the process _logger_init pipes the log to
          pidfile,    \* the file exists
          token,      \* daemon_finalize has written to child_is_up_pipe
          launcher,   \* "waiting", then its exit status
          pend,       \* signals pending for the main process
          masked,     \* _set_signals has blocked SIGCHLD and SIGTERM
          sigint,     \* how a SIGINT met the main process
          control,    \* who runs in the main process
          handler,    \* _handle_signals: "idle", "reaping", "room", "queued"
          worker,     \* the process each fiber forked
          waits,      \* fibers in ht_pid_to_ctx
          last,       \* last_sig_info.si_pid
          got,        \* what ribs_fork_and_wait returned, per fiber
          deaths

mainvars == <<main, forked, slot, pidfile, token, masked, sigint>>
loopvars == <<control, handler, waits, last, got>>
vars == <<subs, mainvars, loopvars, kid, logger, launcher, pend, worker, deaths>>

KidIds == 1..Kids
NoPid == "none"
Pending == "pending"
LoggerPid == "logger"
KidPid == "sub-process"
Alive(k) == kid[k].st \in {"born", "guarded", "masked", "loop"}
MainRuns == main \notin {"gone", "dead"}

Init ==
    /\ main = "start" /\ subs \in KidIds /\ forked = 0
    /\ kid = [k \in KidIds |-> [st |-> "none", pdeath |-> FALSE, term |-> FALSE, late |-> FALSE]]
    /\ slot = [k \in KidIds |-> FALSE]
    /\ logger = "none"
    /\ pidfile = FALSE /\ token = FALSE /\ launcher = "waiting"
    /\ pend = {} /\ masked = FALSE /\ sigint = "none"
    /\ control = "loop" /\ handler = "idle"
    /\ worker = [f \in Fibers |-> "none"]
    /\ waits = {} /\ last = NoPid /\ got = [f \in Fibers |-> Pending]
    /\ deaths = 0

(* A signal for the main process: lost while SIGCHLD has its default       *)
(* disposition, held for the signalfd once it is blocked.                  *)
Raise(sig) == pend' = IF masked /\ MainRuns THEN pend \cup {sig} ELSE pend

(* SIGTERM for a sub-process: it dies of it until it has blocked it.       *)
Terminated(r) ==
    IF r.st \in {"born", "guarded"} THEN [r EXCEPT !.st = "zombie"]
    ELSE IF r.st \in {"masked", "loop"} THEN [r EXCEPT !.term = TRUE]
    ELSE r

(* The main process ends: what it leaves behind belongs to init, and       *)
(* sub-processes that asked for a death signal get it.                     *)
LoseParent == [k \in KidIds |->
    LET r == IF kid[k].pdeath THEN Terminated(kid[k]) ELSE kid[k]
    IN  IF r.st = "zombie" THEN [r EXCEPT !.st = "gone"] ELSE r]
-----------------------------------------------------------------------------
(* The log goes through a pipe to a process; a log file is the case of a   *)
(* process that never ends.                                                *)
_logger_init ==
    /\ main = "start"
    /\ main' = "fork" /\ logger' = "alive"
    /\ UNCHANGED <<forked, slot, pidfile, token, masked, sigint, loopvars, kid, launcher, pend, worker, deaths>>

(* _fork_subprocesses, one turn of its loop.                               *)
fork_subprocess ==
    /\ main = "fork" /\ forked < subs
    /\ forked' = forked + 1
    /\ kid' = [kid EXCEPT ![forked + 1].st = "born"]
    /\ slot' = [slot EXCEPT ![forked + 1] = TRUE]
    /\ UNCHANGED <<main, pidfile, token, masked, sigint, loopvars, logger, launcher, pend, worker, deaths>>

set_pidfile ==
    /\ main = "fork" /\ forked = subs
    /\ main' = "signals" /\ pidfile' = TRUE
    /\ UNCHANGED <<forked, slot, token, masked, sigint, loopvars, kid, logger, launcher, pend, worker, deaths>>

set_signals ==
    /\ main = "signals"
    /\ main' = "ready" /\ masked' = TRUE
    /\ UNCHANGED <<forked, slot, pidfile, token, sigint, loopvars, kid, logger, launcher, pend, worker, deaths>>

daemon_finalize == token' = TRUE

(* ribs_server_start up to epoll_worker_loop.                              *)
start_loop ==
    /\ main = "ready"
    /\ daemon_finalize
    /\ main' = "loop"
    /\ UNCHANGED <<forked, slot, pidfile, masked, sigint, loopvars, kid, logger, launcher, pend, worker, deaths>>

(* An initialisation step fails and the program exits: a fork, the         *)
(* pidfile, the signals, or after daemon_finalize the epoll_ctl for sigfd. *)
init_failed ==
    /\ main \in {"start", "fork", "signals", "ready"}
    /\ \/ UNCHANGED token
       \/ main = "ready" /\ daemon_finalize
    /\ main' = "dead" /\ kid' = LoseParent
    /\ UNCHANGED <<forked, slot, pidfile, masked, sigint, loopvars, logger, launcher, pend, worker, deaths>>

(* The launcher reads child_is_up_pipe: the token, or end of file once no  *)
(* process holds the write side, which sub-processes never close.          *)
launcher_reads ==
    /\ launcher = "waiting"
    /\ \/ token /\ launcher' = "up"
       \/ /\ ~token /\ ~MainRuns /\ \A k \in KidIds : ~Alive(k)
          /\ launcher' = "failed"
    /\ UNCHANGED <<mainvars, loopvars, kid, logger, pend, worker, deaths>>
-----------------------------------------------------------------------------

(* The sub-process's side of _fork_subprocesses, _set_signals and          *)
(* ribs_server_start.  The death signal is not sent for a parent that is   *)
(* already gone when prctl is called.                                      *)
prctl_pdeathsig(k) ==
    [kid[k] EXCEPT !.st = "guarded", !.pdeath = MainRuns, !.late = ~MainRuns]

Becomes(k, r) ==
    /\ kid' = [kid EXCEPT ![k] = r]
    /\ UNCHANGED <<mainvars, loopvars, logger, launcher, worker>>

kid_starts(k) ==
    /\ \/ kid[k].st = "born" /\ Becomes(k, prctl_pdeathsig(k))
       \/ kid[k].st = "guarded" /\ Becomes(k, [kid[k] EXCEPT !.st = "masked"])
       \/ kid[k].st = "masked" /\ Becomes(k, [kid[k] EXCEPT !.st = "loop"])
    /\ UNCHANGED <<pend, deaths>>

Ended(k) == [kid[k] EXCEPT !.st = IF MainRuns THEN "zombie" ELSE "gone"]

(* SIGTERM read in its event loop: it returns from ribs_server_start.      *)
kid_exits(k) ==
    /\ kid[k].st = "loop" /\ kid[k].term
    /\ Becomes(k, Ended(k))
    /\ Raise("CHLD") /\ UNCHANGED deaths

kid_dies(k) ==
    /\ Alive(k) /\ deaths < MaxDeaths
    /\ Becomes(k, Ended(k))
    /\ Raise("CHLD") /\ deaths' = deaths + 1

logger_dies ==
    /\ logger = "alive" /\ deaths < MaxDeaths
    /\ logger' = "zombie"
    /\ Raise("CHLD") /\ deaths' = deaths + 1
    /\ UNCHANGED <<mainvars, loopvars, kid, launcher, worker>>

main_killed ==
    /\ MainRuns /\ deaths < MaxDeaths
    /\ main' = "dead" /\ kid' = LoseParent /\ deaths' = deaths + 1
    /\ UNCHANGED <<forked, slot, pidfile, token, masked, sigint, loopvars, logger, launcher, pend, worker>>
-----------------------------------------------------------------------------
(* The administrator's SIGTERM, once it is blocked.                        *)
sigterm ==
    /\ MainRuns /\ masked /\ "TERM" \notin pend
    /\ Raise("TERM")
    /\ UNCHANGED <<mainvars, loopvars, kid, logger, launcher, worker, deaths>>

(* signal_handler for SIGINT.  In the event loop it leaves for main_ctx and *)
(* so never returns: SIGINT stays blocked.  While ribs_server_start waits  *)
(* for a sub-process, main_ctx is current: nothing is left, but waitpid    *)
(* fails with EINTR and that sub-process is not waited for.                *)
signal_handler ==
    /\ sigint = "none"
    /\ \/ main = "loop" /\ main' = "kill" /\ sigint' = "left" /\ UNCHANGED slot
       \/ /\ main = "wait" /\ sigint' = "eintr" /\ UNCHANGED main
          /\ \E k \in KidIds : /\ slot[k] /\ \A j \in 1..(k - 1) : ~slot[j]
                               /\ slot' = [slot EXCEPT ![k] = FALSE]
    /\ UNCHANGED <<forked, pidfile, token, masked, loopvars, kid, logger, launcher, pend, worker, deaths>>

(* epoll_worker_exit: back to ribs_server_start, whoever was running.      *)
epoll_worker_exit == main' = "kill"

read_sigfd ==
    /\ main = "loop" /\ control = "loop" /\ handler = "idle"
    /\ \E s \in pend :
         /\ pend' = pend \ {s}
         /\ \/ s = "TERM" /\ epoll_worker_exit /\ UNCHANGED <<control, handler>>
            \/ s = "CHLD" /\ control' = "handler" /\ handler' = "reaping" /\ UNCHANGED main
    /\ UNCHANGED <<forked, slot, pidfile, token, masked, sigint, waits, last, got, kid, logger, launcher, worker, deaths>>

Reaping == main = "loop" /\ control = "handler" /\ handler = "reaping"

(* waitid finds no more children.                                          *)
never_resumed == control' = "loop" /\ handler' = "ignored"

resume_events == control' = "loop" /\ handler' = "idle"

reap_none ==
    /\ Reaping
    /\ logger # "zombie"
    /\ \A k \in KidIds : kid[k].st # "zombie"
    /\ \A f \in Fibers : worker[f] # "zombie"
    /\ resume_events /\ last' = NoPid
    /\ UNCHANGED <<mainvars, waits, got, kid, logger, launcher, pend, worker, deaths>>

reap_logger ==
    /\ Reaping /\ logger = "zombie"
    /\ logger' = "gone" /\ last' = LoggerPid
    /\ epoll_worker_exit
    /\ UNCHANGED <<forked, slot, pidfile, token, masked, sigint, control, handler, waits, got, kid, launcher, pend, worker, deaths>>

reap_kid(k) ==
    /\ Reaping /\ kid[k].st = "zombie"
    /\ kid' = [kid EXCEPT ![k].st = "gone"] /\ last' = KidPid
    /\ slot' = [slot EXCEPT ![k] = FALSE]
    /\ epoll_worker_exit
    /\ UNCHANGED <<forked, pidfile, token, masked, sigint, control, handler, waits, got, logger, launcher, pend, worker, deaths>>

(* The handler queues itself and swaps straight into the waiting fiber, so *)
(* that no other waitid runs before ribs_last_siginfo.                     *)
swap_later(f) == control' = "handler" /\ handler' = "reaping"

swap_to_waiter(f) == control' = f /\ handler' = "queued"

(* A full pipe makes queue_current_ctx yield until there is room, with the *)
(* fiber still in ht_pid_to_ctx and the events of sigfd still ignored.     *)
queue_and_swap(f) ==
    \/ waits' = waits \ {f} /\ swap_to_waiter(f)
    \/ UNCHANGED waits /\ control' = "loop" /\ handler' = "room"

reap_worker(f) ==
    /\ Reaping /\ worker[f] = "zombie" /\ f \in waits
    /\ worker' = [worker EXCEPT ![f] = "reaped"]
    /\ last' = f
    /\ queue_and_swap(f)
    /\ UNCHANGED <<mainvars, got, kid, logger, launcher, pend, deaths>>

room_in_queue(f) ==
    /\ main = "loop" /\ control = "loop" /\ handler = "room" /\ last = f
    /\ waits' = waits \ {f} /\ swap_to_waiter(f)
    /\ UNCHANGED <<mainvars, last, got, kid, logger, launcher, pend, worker, deaths>>

(* The fiber is back from yield() in ribs_fork_and_wait.                   *)
fiber_returns(f) ==
    /\ main = "loop" /\ worker[f] = "reaped" /\ f \notin waits /\ control \in {f, "loop"}
    /\ got' = [got EXCEPT ![f] = last]
    /\ worker' = [worker EXCEPT ![f] = "none"]
    /\ control' = "loop"
    /\ UNCHANGED <<mainvars, handler, waits, last, kid, logger, launcher, pend, deaths>>

handler_dequeued ==
    /\ main = "loop" /\ control = "loop" /\ handler = "queued"
    /\ control' = "handler" /\ handler' = "reaping"
    /\ UNCHANGED <<mainvars, waits, last, got, kid, logger, launcher, pend, worker, deaths>>

ribs_queue_waitpid(f) == f \notin waits /\ waits' = waits \cup {f}

(* A fiber forks, enters ht_pid_to_ctx and yields, without a gap.          *)
ribs_fork_and_wait(f) ==
    /\ main = "loop" /\ control = "loop" /\ worker[f] = "none"
    /\ worker' = [worker EXCEPT ![f] = "running"]
    /\ ribs_queue_waitpid(f)
    /\ got' = [got EXCEPT ![f] = Pending]
    /\ UNCHANGED <<mainvars, control, handler, last, kid, logger, launcher, pend, deaths>>

worker_ends(f) ==
    /\ worker[f] = "running" /\ MainRuns
    /\ worker' = [worker EXCEPT ![f] = "zombie"]
    /\ Raise("CHLD")
    /\ UNCHANGED <<mainvars, loopvars, kid, logger, launcher, deaths>>
-----------------------------------------------------------------------------
ribs_server_signal_children(s) ==
    [k \in KidIds |-> IF s[k] THEN Terminated(kid[k]) ELSE kid[k]]

(* ribs_server_start after epoll_worker_loop.                              *)
kill_children ==
    /\ main = "kill"
    /\ main' = "wait" /\ kid' = ribs_server_signal_children(slot)
    /\ UNCHANGED <<forked, slot, pidfile, token, masked, sigint, loopvars, logger, launcher, pend, worker, deaths>>

waited_for == KidIds

wait_child(k) ==
    /\ main = "wait" /\ slot[k] /\ kid[k].st = "zombie"
    /\ \A j \in 1..(k - 1) : ~slot[j]
    /\ kid' = [kid EXCEPT ![k].st = "gone"]
    /\ slot' = [slot EXCEPT ![k] = FALSE]
    /\ UNCHANGED <<main, forked, pidfile, token, masked, sigint, loopvars, logger, launcher, pend, worker, deaths>>

cleanup_pidfile ==
    /\ main = "wait" /\ \A k \in waited_for : ~slot[k]
    /\ main' = "gone" /\ pidfile' = FALSE
    /\ kid' = LoseParent
    /\ UNCHANGED <<forked, slot, token, masked, sigint, loopvars, logger, launcher, pend, worker, deaths>>
-----------------------------------------------------------------------------
MainStep == \/ _logger_init \/ fork_subprocess \/ set_pidfile \/ set_signals \/ start_loop
            \/ read_sigfd \/ reap_none \/ reap_logger \/ handler_dequeued
            \/ \E k \in KidIds : reap_kid(k) \/ wait_child(k)
            \/ \E f \in Fibers : reap_worker(f) \/ room_in_queue(f) \/ fiber_returns(f)
            \/ kill_children \/ cleanup_pidfile

KidStep(k) == kid_starts(k) \/ kid_exits(k)

Environment == \/ init_failed \/ main_killed \/ logger_dies
               \/ sigterm \/ signal_handler
               \/ \E k \in KidIds : kid_dies(k)
               \/ \E f \in Fibers : ribs_fork_and_wait(f) \/ worker_ends(f)

Next ==
    /\ MainStep \/ launcher_reads \/ Environment \/ \E k \in KidIds : KidStep(k)
    /\ UNCHANGED subs

(* Processes that can run do.  The queued fiber of the signal handler runs *)
(* even if other fibers keep the loop busy: the queue is a pipe that epoll *)
(* reports like any other descriptor.  waitid takes the oldest child that  *)
(* has ended first, so that none is passed over forever.                   *)
Fairness == /\ WF_vars(MainStep) /\ WF_vars(launcher_reads)
            /\ SF_vars(handler_dequeued) /\ SF_vars(read_sigfd)
            /\ SF_vars(\E k \in KidIds : reap_kid(k))
            /\ \A f \in Fibers : SF_vars(reap_worker(f))
            /\ \A k \in KidIds : WF_vars(KidStep(k))

Spec == Init /\ [][Next]_vars /\ Fairness
-----------------------------------------------------------------------------
(* An orderly stop leaves nothing running: when the main process returns   *)
(* from ribs_server_start every sub-process is over and reaped and the     *)
(* pidfile is gone, whatever died, and in whatever order, before.  Only a  *)
(* SIGINT that interrupts waitpid is excepted.                             *)
NothingLeftRunning ==
    main = "gone" /\ sigint # "eintr" =>
        ~pidfile /\ \A k \in 1..subs : kid[k].st = "gone"

(* ribs_fork_and_wait returns the fate of its own worker, although         *)
(* last_sig_info is one global that the next waitid overwrites.            *)
OwnWorker == \A f \in Fibers : got[f] \in {Pending, f}

(* The death of a sub-process stops the server, also when its SIGCHLD      *)
(* coalesced with that of a worker.  (A death before _set_signals is not   *)
(* covered: SIGCHLD is still ignored then.)                                *)
DeathNoticed ==
    (main = "loop" /\ "CHLD" \in pend /\ \E k \in KidIds : kid[k].st = "zombie")
        ~> main \in {"gone", "dead"}

(* A fiber that waits for its worker is resumed once the worker has ended, *)
(* unless the server stops first.                                          *)
WaiterResumed ==
    \A f \in Fibers : worker[f] = "zombie" ~> (worker[f] = "none" \/ main # "loop")

(* The launcher does not hang: it learns that the daemon is up or that it  *)
(* failed, although every sub-process holds the write side of its pipe.    *)
(* Excepted is a sub-process that asked for the death signal too late.     *)
LauncherAnswered ==
    <>(launcher # "waiting" \/ \E k \in KidIds : kid[k].late)
=============================================================================
