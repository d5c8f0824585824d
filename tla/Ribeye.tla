------------------------------- MODULE Ribeye -------------------------------
(***************************************************************************)
(* examples/ribeye: a health checker.  One timer worker per service sends  *)
(* an HTTP request, waits for the client pool to resume it and updates the *)
(* service's status after enough results in a row; HTTP requests switch    *)
(* the global status, /down?t=N with a timer that switches it back.        *)
(***************************************************************************)
EXTENDS Integers, Sequences, Timers

CONSTANTS Services,    \* monitored URLs
          AutoUp,      \* the timer of auto_up_worker
          healthy_count, unhealthy_count,
          Interval,    \* ticks between two probes of a service
          PerSecond,   \* 1000 * 1000
          IntMod,      \* 2^32, the range of an int
          Periods      \* the values of t

VARIABLES status, counter,   \* of each service
          recent,            \* its latest results, newest first
          global_status,
          held               \* /down without a period, and no /up since

svars == <<status, counter, recent>>
vars == <<tvars, svars, global_status, held>>

Longest == IF healthy_count > unhealthy_count THEN healthy_count ELSE unhealthy_count

Init ==
    /\ TimersInit([t \in Timers |-> IF t = AutoUp THEN 0 ELSE 1])
    /\ status = [s \in Services |-> 0]
    /\ counter = [s \in Services |-> 0]
    /\ recent = [s \in Services |-> <<>>]
    /\ global_status = 1
    /\ held = FALSE

count_without_reset(s, up, threshold) ==
    IF status[s] = up THEN [st |-> up, n |-> counter[s]]
    ELSE IF counter[s] + 1 = threshold THEN [st |-> up, n |-> 0]
    ELSE [st |-> status[s], n |-> counter[s] + 1]

update_service_status(s, up, threshold) ==
    IF status[s] = up THEN [st |-> up, n |-> 0]
    ELSE IF counter[s] + 1 = threshold THEN [st |-> up, n |-> 0]
    ELSE [st |-> status[s], n |-> counter[s] + 1]

Result(s, up) ==
    LET r == update_service_status(s, up, IF up = 1 THEN healthy_count ELSE unhealthy_count)
    IN  /\ status' = [status EXCEPT ![s] = r.st]
        /\ counter' = [counter EXCEPT ![s] = r.n]
        /\ recent' = [recent EXCEPT ![s] = SubSeq(<<up>> \o @, 1,
                        IF Len(@) < Longest THEN Len(@) + 1 ELSE Longest)]

Ends(s) == run' = [run EXCEPT ![s] = "idle"]

probe_again(s, up) == timer_worker_schedule_next(s, Interval)

arm_first(s) ==
    /\ timer_worker_trigger(s)
    /\ \/ /\ timer_worker_schedule_next(s, Interval)
          /\ run' = [run EXCEPT ![s] = "suspended"]
          /\ UNCHANGED svars
       \/ Result(s, 0) /\ probe_again(s, 0) /\ Ends(s)
    /\ UNCHANGED <<global_status, held>>

(* monitor_service_worker up to its yield: the request is on its way, or   *)
(* could not be made, which is a failure and ends the run.                 *)
probe(s) ==
    /\ timer_worker_trigger(s)
    /\ \/ /\ ticks' = [ticks EXCEPT ![s] = FALSE]
          /\ run' = [run EXCEPT ![s] = "suspended"]
          /\ UNCHANGED <<left, svars>>
       \/ Result(s, 0) /\ probe_again(s, 0) /\ Ends(s)
    /\ UNCHANGED <<global_status, held>>

(* The worker resumed, with status 200 or anything else (a timeout, too).  *)
answered(s) ==
    /\ run[s] = "suspended"
    /\ \E up \in {0, 1} : Result(s, up) /\ probe_again(s, up)
    /\ Ends(s)
    /\ UNCHANGED <<cut, global_status, held>>

auto_up_worker ==
    /\ timer_worker_trigger(AutoUp)
    /\ ticks' = [ticks EXCEPT ![AutoUp] = FALSE]
    /\ global_status' = 1
    /\ UNCHANGED <<left, run, svars, held>>

(* ribeye_request_handler for /up, and for /down?t=N: N * 1000 * 1000 is   *)
(* computed in an int, and a negative period is refused by timerfd_settime.*)
up_request ==
    /\ global_status' = 1 /\ held' = FALSE
    /\ UNCHANGED <<tvars, svars>>

microseconds(t) ==
    LET p == (t * PerSecond) % IntMod
    IN  IF p < IntMod \div 2 THEN p ELSE p - IntMod

schedule_up(t) == timer_worker_schedule_next(AutoUp, microseconds(t))

down_request(t) ==
    /\ global_status' = 0 /\ held' = (t = 0)
    /\ schedule_up(t)
    /\ UNCHANGED <<run, cut, svars>>

Passes == Tick /\ UNCHANGED <<svars, global_status, held>>

Next == \/ \E s \in Services : probe(s) \/ answered(s)
        \/ auto_up_worker
        \/ up_request
        \/ \E t \in Periods : down_request(t)
        \/ Passes

(* Time passes; epoll reports readable timerfds; the client pool resumes   *)
(* every caller, at the latest after its timeout (module HttpClientPool).  *)
Fairness == /\ WF_vars(Passes) /\ WF_vars(auto_up_worker)
            /\ \A s \in Services : WF_vars(probe(s)) /\ WF_vars(answered(s))

Spec == Init /\ [][Next]_vars /\ Fairness
-----------------------------------------------------------------------------
(* A status is only left after as many contrary results in a row as the    *)
(* service asks for, whatever the results before them were.                *)
StatusEarned ==
    [][\A s \in Services : status'[s] # status[s] =>
         LET n == IF status'[s] = 1 THEN healthy_count ELSE unhealthy_count
         IN  Len(recent'[s]) >= n /\ \A i \in 1..n : recent'[s][i] = status'[s]]_vars

(* A service whose probes all end the same way from some point on is in    *)
(* the end reported so.                                                    *)
SteadyReported ==
    \A s \in Services : \A up \in {0, 1} :
        <>[](Len(recent[s]) > 0 /\ recent[s][1] = up) => <>[](status[s] = up)

(* Every service is probed again and again: each way through               *)
(* monitor_service_worker arms its timer.                                  *)
ProbedForever == \A s \in Services : []<>(run[s] = "idle" /\ left[s] = Interval)

(* A probe is never cut short: rebuilding the worker's context is safe     *)
(* because the timer is armed at the very end of a run.                    *)
NotCutShort == cut = {}

(* /down without a period lasts until /up: an automatic switch that an     *)
(* earlier /down?t=N scheduled is called off, even one that has already    *)
(* expired but was not read.                                               *)
DownHolds == held => global_status = 0

(* /down?t=N is undone when its time is over, if no other /down comes, for *)
(* every N whose microseconds fit in an int (others never arm the timer).  *)
UpAgain ==
    <>[][\A t \in Periods : ~down_request(t)]_vars =>
        (left[AutoUp] > 0) ~> (global_status = 1 \/ held)
=============================================================================
