------------------------------- MODULE Sleep --------------------------------
(***************************************************************************)
(* sleep.c and the sleeps of ribify.c: a fiber arms a timerfd that epoll   *)
(* watches for it and yields.  Nobody reads the timerfd, so that it stays  *)
(* readable, and epoll (level triggered) keeps resuming the fiber, until   *)
(* it is armed again or closed.  Between sleeps the fiber also waits for   *)
(* other descriptors.                                                      *)
(***************************************************************************)
EXTENDS Integers

CONSTANTS Fibers, Delays

VARIABLES tfd,      \* per fiber: "closed", "own" (ribs_sleep_init) or "call"
          left, readable,
          at,       \* what the fiber waits for: "run", "sleep", "io"
          owes,     \* ticks the current sleep still has to last
          ready,    \* the fiber's other descriptor is ready
          early     \* fibers whose timerfd ended a wait that was not over

vars == <<tfd, left, readable, at, owes, ready, early>>

Init ==
    /\ tfd = [f \in Fibers |-> "closed"]
    /\ left = [f \in Fibers |-> 0]
    /\ readable = [f \in Fibers |-> FALSE]
    /\ at = [f \in Fibers |-> "run"]
    /\ owes = [f \in Fibers |-> 0]
    /\ ready = [f \in Fibers |-> FALSE]
    /\ early = {}

ribs_sleep_init(f) ==
    /\ at[f] = "run" /\ tfd[f] = "closed"
    /\ tfd' = [tfd EXCEPT ![f] = "own"]
    /\ UNCHANGED <<left, readable, at, owes, ready, early>>

(* timerfd_settime drops an old expiration; a zero delay disarms.          *)
settime(f, d) ==
    left' = [left EXCEPT ![f] = d] /\ readable' = [readable EXCEPT ![f] = FALSE]

close(f) ==
    /\ tfd' = [tfd EXCEPT ![f] = "closed"]
    /\ left' = [left EXCEPT ![f] = 0] /\ readable' = [readable EXCEPT ![f] = FALSE]

(* A timerfd that cannot be set is closed, whoever it belongs to.          *)
ribs_nanosleep(f, d, kind) ==
    /\ \/ /\ settime(f, d)
          /\ at' = [at EXCEPT ![f] = "sleep"]
          /\ owes' = [owes EXCEPT ![f] = d]
          /\ tfd' = [tfd EXCEPT ![f] = kind]
       \/ close(f) /\ UNCHANGED <<at, owes>>
    /\ UNCHANGED <<ready, early>>

ribs_sleep(f, d) == at[f] = "run" /\ tfd[f] = "own" /\ ribs_nanosleep(f, d, "own")

(* _ribified_nanosleep: a timerfd of its own for every call.               *)
ribified_nanosleep(f, d) ==
    /\ at[f] = "run" /\ tfd[f] = "closed"
    /\ ribs_nanosleep(f, d, "call")

(* ribs_close of the timerfd of the call, once the fiber is back.          *)
close_after(f) ==
    IF tfd[f] = "call" /\ at[f] = "sleep" THEN close(f) ELSE UNCHANGED <<tfd, left, readable>>

(* The fiber waits for a descriptor other than its timerfd.                *)
wait_io(f) ==
    /\ at[f] = "run"
    /\ at' = [at EXCEPT ![f] = "io"]
    /\ UNCHANGED <<tfd, left, readable, owes, ready, early>>

(* yield() of some fiber finds the timerfd readable and swaps to its owner.*)
resumed_by_timer(f) ==
    /\ readable[f] /\ at[f] # "run"
    /\ at' = [at EXCEPT ![f] = "run"]
    /\ early' = IF (at[f] = "sleep" /\ owes[f] > 0) \/ (at[f] = "io" /\ ~ready[f] /\ tfd[f] # "own")
                THEN early \cup {f} ELSE early
    /\ close_after(f)
    /\ UNCHANGED <<owes, ready>>

(* Or finds the other descriptor ready, even while the fiber sleeps:       *)
(* neither the sleep nor the read it interrupted looks at who resumed it.  *)
resumed_by_io(f) ==
    /\ ready[f] /\ at[f] # "run"
    /\ at' = [at EXCEPT ![f] = "run"]
    /\ ready' = [ready EXCEPT ![f] = FALSE]
    /\ close_after(f)
    /\ UNCHANGED <<owes, early>>

io_ready(f) ==
    /\ ready' = [ready EXCEPT ![f] = TRUE]
    /\ UNCHANGED <<tfd, left, readable, at, owes, early>>

Tick ==
    /\ left' = [f \in Fibers |-> IF left[f] > 0 THEN left[f] - 1 ELSE 0]
    /\ owes' = [f \in Fibers |-> IF owes[f] > 0 THEN owes[f] - 1 ELSE 0]
    /\ readable' = [f \in Fibers |-> readable[f] \/ left[f] = 1]
    /\ UNCHANGED <<tfd, at, ready, early>>

Next == \/ \E f \in Fibers : \/ ribs_sleep_init(f) \/ wait_io(f)
                             \/ resumed_by_timer(f) \/ resumed_by_io(f) \/ io_ready(f)
                             \/ \E d \in Delays : ribs_sleep(f, d) \/ ribified_nanosleep(f, d)
        \/ Tick

Fairness == WF_vars(Tick) /\ \A f \in Fibers : WF_vars(resumed_by_timer(f))

Spec == Init /\ [][Next]_vars /\ Fairness
-----------------------------------------------------------------------------
(* No timerfd ends a sleep before its time, although expirations are never *)
(* read and a sleep that another descriptor ended leaves its timer armed;  *)
(* and a fiber that sleeps through the ribified calls is never resumed by  *)
(* an old timerfd while it waits for something else.  (One that keeps a    *)
(* timerfd of ribs_sleep_init is: that is its caller's to handle.)         *)
NotEarly == early = {}

(* Every sleep of a positive time ends.  (A zero time disarms the timerfd  *)
(* and the fiber is not resumed.)                                          *)
SleepEnds == \A f \in Fibers : (at[f] = "sleep" /\ owes[f] > 0) ~> (at[f] = "run")
=============================================================================
