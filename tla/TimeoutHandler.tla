--------------------------- MODULE TimeoutHandler ---------------------------
(***************************************************************************)
(* One struct timeout_handler: the chain of descriptors whose owner is     *)
(* suspended, the timestamp each was given when it was inserted, and the   *)
(* single timerfd that serves them all.  The owners (the fibers of the     *)
(* HTTP server and of the HTTP client pool) insert a descriptor before     *)
(* they yield and remove it when they run again; expiration_handler runs   *)
(* when the timerfd becomes readable, shuts down what is overdue and arms  *)
(* the timer again.                                                        *)
(*                                                                         *)
(* Time is relative: `age[fd]' is gettimeofday() minus the timestamp of    *)
(* fd, `armed' the time left on the timerfd (0: disarmed).  Ages stop      *)
(* growing at MaxAge, which is beyond every value the code compares with.  *)
(* Timestamps come from the wall clock and the timerfd from                *)
(* CLOCK_MONOTONIC, so the wall clock may be stepped under the handler:    *)
(* at most MaxSteps times, by StepSize in either direction.                *)
(***************************************************************************)
EXTENDS Integers, Sequences

CONSTANTS Fds,        \* descriptors that may be watched
          Timeout,    \* timeout_handler->timeout, in ticks
          MaxAge,     \* bound: ages saturate here
          MaxSteps,   \* bound: how often the wall clock is stepped
          StepSize    \* by how much

ASSUME TimeoutAssumption ==
    /\ Timeout \in Nat \ {0}
    /\ MaxSteps \in Nat
    /\ StepSize \in Nat
    /\ MaxAge \in Nat
    /\ MaxAge >= Timeout

VARIABLES chain,      \* timeout_chain, head first
          age,        \* now - timestamp, for the descriptors in the chain
          epoch,      \* descriptors whose timestamp is {0,0}: shut down
          armed,      \* ticks until the timerfd fires, 0 when disarmed
          expired,    \* the timerfd holds an unread expiration
          steps       \* wall clock steps so far

vars == <<chain, age, epoch, armed, expired, steps>>

InChain(fd) == \E i \in 1..Len(chain) : chain[i] = fd

(* list_remove of the k-th entry. *)
Skip(k, i) == IF i < k THEN i ELSE i + 1

Unlink(s, k) == [i \in 1..(Len(s) - 1) |-> s[Skip(k, i)]]

(* Still in the chain and not yet shut down. *)
Live(fd) == InChain(fd) /\ fd \notin epoch

Older(a) == IF a < MaxAge THEN a + 1 ELSE MaxAge
-----------------------------------------------------------------------------
timeout_handler_init ==
    /\ chain = <<>>
    /\ age = [fd \in Fds |-> 0]
    /\ epoch = {}
    /\ armed = 0
    /\ expired = FALSE
    /\ steps = 0

list_insert_head(s, fd) == <<fd>> \o s

list_insert_tail(s, fd) == Append(s, fd)

never_arm == UNCHANGED <<armed, expired>>

(* The timerfd is set only when the chain was empty; setting it discards   *)
(* an expiration nobody has read yet.                                      *)
arm_if_empty ==
    IF chain = <<>> THEN armed' = Timeout /\ expired' = FALSE
                    ELSE UNCHANGED <<armed, expired>>

timeout_handler_add_fd_data(fd) ==
    /\ ~InChain(fd)
    /\ age' = [age EXCEPT ![fd] = 0]
    /\ epoch' = epoch \ {fd}
    /\ arm_if_empty
    /\ chain' = list_insert_tail(chain, fd)
    /\ UNCHANGED steps

(* The owner runs again, because of an event on fd, and unlinks it.        *)
TIMEOUT_HANDLER_REMOVE_FD_DATA(fd) ==
    /\ \E k \in 1..Len(chain) : chain[k] = fd /\ chain' = Unlink(chain, k)
    /\ UNCHANGED <<age, epoch, armed, expired, steps>>

(* Entries the scan of expiration_handler stops at, and those it shuts.    *)
Fresh(i) == chain[i] \notin epoch /\ age[chain[i]] < Timeout

Overdue(i) == chain[i] \notin epoch /\ \A j \in 1..i : ~Fresh(j)

rearm_full_period == armed' = IF chain = <<>> THEN armed ELSE Timeout

(* The timer after an expiration: untouched if the chain is empty, a full  *)
(* period if the scan reached its end, else the rest of the first fresh    *)
(* entry's period.                                                         *)
rearm ==
    \/ chain = <<>> /\ UNCHANGED armed
    \/ chain # <<>> /\ (\A i \in 1..Len(chain) : ~Fresh(i)) /\ armed' = Timeout
    \/ \E f \in 1..Len(chain) :
         /\ Fresh(f)
         /\ \A j \in 1..(f - 1) : ~Fresh(j)
         /\ armed' = Timeout - age[chain[f]]

expiration_handler ==
    /\ expired
    /\ expired' = FALSE
    /\ epoch' = epoch \cup {chain[i] : i \in {j \in 1..Len(chain) : Overdue(j)}}
    /\ rearm
    /\ UNCHANGED <<chain, age, steps>>

(* Both clocks advance; the timerfd fires once and is then disarmed.       *)
Tick ==
    /\ age' = [fd \in Fds |-> Older(age[fd])]
    /\ armed' = IF armed > 0 THEN armed - 1 ELSE 0
    /\ expired' = (expired \/ armed = 1)
    /\ UNCHANGED <<chain, epoch, steps>>

(* The wall clock is set; the timerfd does not notice.                     *)
ClockStep ==
    /\ steps < MaxSteps
    /\ steps' = steps + 1
    /\ \E d \in {0 - StepSize, StepSize} :
         age' = [fd \in Fds |-> IF age[fd] + d > MaxAge THEN MaxAge ELSE age[fd] + d]
    /\ UNCHANGED <<chain, epoch, armed, expired>>

Init == timeout_handler_init

Next == \/ \E fd \in Fds : \/ timeout_handler_add_fd_data(fd)
                           \/ TIMEOUT_HANDLER_REMOVE_FD_DATA(fd)
        \/ expiration_handler
        \/ Tick
        \/ ClockStep

(* Time passes, and epoll reports a readable timerfd (level triggered)     *)
(* until it is read.  Nothing is assumed of the owners or their peers.     *)
Fairness == WF_vars(Tick) /\ WF_vars(expiration_handler)

Spec == Init /\ [][Next]_vars /\ Fairness
-----------------------------------------------------------------------------
(* Types; a descriptor is linked at most once (list_remove relies on it).  *)
TypeOK ==
    /\ chain \in Seq(Fds)
    /\ \A i, j \in 1..Len(chain) : i < j => chain[i] # chain[j]
    /\ age \in [Fds -> Int]
    /\ \A fd \in Fds : age[fd] <= MaxAge
    /\ epoch \subseteq Fds
    /\ armed \in Nat
    /\ expired \in BOOLEAN
    /\ steps \in 0..MaxSteps

(* The scan of expiration_handler stops at the first fresh entry, so       *)
(* entries behind it must be younger.  True while the wall clock has not   *)
(* been stepped.                                                           *)
ChainSorted ==
    steps = 0 =>
        \A i, j \in 1..Len(chain) :
            (i < j /\ chain[j] \notin epoch) =>
                (chain[i] \in epoch \/ age[chain[i]] >= age[chain[j]])

(* The one timerfd covers every live entry: it fires, or has fired, no     *)
(* later than the moment that entry becomes overdue.                       *)
DeadlineCovered ==
    steps = 0 =>
        \A i \in 1..Len(chain) : chain[i] \notin epoch =>
            \/ expired
            \/ armed > 0 /\ armed + age[chain[i]] <= Timeout

(* Without clock steps no timestamp is in the future and the timerfd is    *)
(* never set for longer than one period.                                   *)
WithinPeriod ==
    steps = 0 => armed <= Timeout /\ \A fd \in Fds : age[fd] >= 0

(* No connection outlives its timeout unnoticed: while no expiration is    *)
(* waiting for expiration_handler, no live entry is overdue.  Arming for   *)
(* the head only, never on insertion into a non-empty chain, is enough.    *)
PromptExpiry ==
    (steps = 0 /\ ~expired) => \A fd \in Fds : Live(fd) => age[fd] < Timeout

(* Even when the wall clock is stepped, the timerfd is never left disarmed *)
(* while a descriptor is linked: timeout_handler_add_fd_data arms only an  *)
(* empty chain, so expiration_handler must re-arm whenever it leaves a     *)
(* chain behind, even one of shut down descriptors only.                   *)
ArmedWhileLinked ==
    chain # <<>> => (armed > 0 \/ expired)

(* The inductive invariant: PromptExpiry and ArmedWhileLinked rest on the  *)
(* order of the chain, which the early exit of the scan needs, and on how  *)
(* far ahead the one timerfd may be set.                                   *)
IInv == TypeOK /\ ChainSorted /\ WithinPeriod /\ DeadlineCovered /\ ArmedWhileLinked

(* The handler implements what its users rely on (module Timeouts): it     *)
(* shuts down linked descriptors only, each once, and in the end every one *)
(* that stays linked, even when the wall clock is stepped.                 *)
Linked == {chain[i] : i \in 1..Len(chain)}

Abstract == INSTANCE Timeouts WITH linked <- Linked, shut <- epoch

ImplementsTimeouts == Abstract!Spec
=============================================================================
