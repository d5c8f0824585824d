------------------------------ MODULE Timeouts ------------------------------
(***************************************************************************)
(* What a struct timeout_handler promises its users, without clocks: a     *)
(* descriptor that is linked may be shut down at any moment, and is shut   *)
(* down if it stays linked.  Module TimeoutHandler implements it with one  *)
(* chain and one timerfd; HttpServer and HttpClientPool rely on it.        *)
(***************************************************************************)
CONSTANT Fds

VARIABLES linked,     \* descriptors in the chain
          shut        \* descriptors shut down since they were last linked

vars == <<linked, shut>>

Init == linked = {} /\ shut = {}

(* timeout_handler_add_fd_data; linking twice would corrupt the list.      *)
Add(fd) ==
    /\ fd \notin linked
    /\ linked' = linked \cup {fd}
    /\ shut' = shut \ {fd}

(* TIMEOUT_HANDLER_REMOVE_FD_DATA *)
Remove(fd) ==
    /\ fd \in linked
    /\ linked' = linked \ {fd}
    /\ UNCHANGED shut

(* expiration_handler, when it finds overdue descriptors. *)
Expire(S) ==
    /\ S # {} /\ S \subseteq linked \ shut
    /\ shut' = shut \cup S
    /\ UNCHANGED linked

Next == \/ \E fd \in Fds : Add(fd) \/ Remove(fd)
        \/ \E S \in SUBSET Fds : Expire(S)

(* Nothing stays linked for ever without being shut down. *)
Promise == \A fd \in Fds : []<>(fd \notin linked \/ fd \in shut)

Spec == Init /\ [][Next]_vars /\ Promise
=============================================================================
