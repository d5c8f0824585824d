------------------------------- MODULE Timers -------------------------------
(***************************************************************************)
(* timer_worker.c: timerfds served by the event loop.                      *)
(* A timer worker is a fiber that _timer_worker_trigger starts afresh on   *)
(* its own stack whenever its timerfd expires; it may be suspended in the  *)
(* middle of a run, and it, or any other fiber, arms the timer again.      *)
(* Everything between two yields of a fiber is one step.                   *)
(***************************************************************************)
EXTENDS Integers

CONSTANTS Timers

VARIABLES left,      \* ticks until the timerfd expires, 0: disarmed
          ticks,     \* it holds an expiration nobody has read
          run,       \* the worker's fiber: "idle" or "suspended" in a run
          cut        \* workers restarted in the middle of a run

tvars == <<left, ticks, run, cut>>

TimersInit(initial) ==
    /\ left = initial
    /\ ticks = [t \in Timers |-> FALSE]
    /\ run = [t \in Timers |-> "idle"]
    /\ cut = {}

(* timerfd_settime: a zero value disarms; unread expirations are dropped;  *)
(* a negative value is refused and leaves the timer as it was.             *)
settime(f, t, d) == IF d < 0 THEN f ELSE [f EXCEPT ![t] = d]

timer_worker_schedule_next(t, d) ==
    /\ left' = settime(left, t, d)
    /\ ticks' = IF d < 0 THEN ticks ELSE [ticks EXCEPT ![t] = FALSE]

(* _timer_worker_trigger reads the expiration, rebuilds the worker's       *)
(* context and swaps into it: what a suspended run still had to do is lost.*)
timer_worker_trigger(t) ==
    /\ ticks[t]
    /\ cut' = IF run[t] = "suspended" THEN cut \cup {t} ELSE cut

(* Time passes.  The timerfds of timer workers are one-shot.               *)
Tick ==
    /\ left' = [t \in Timers |-> IF left[t] > 0 THEN left[t] - 1 ELSE 0]
    /\ ticks' = [t \in Timers |-> ticks[t] \/ left[t] = 1]
    /\ UNCHANGED <<run, cut>>
=============================================================================
