------------------------------ MODULE Multimap ------------------------------
(***************************************************************************)
(* What a hash table promises: for every key the records inserted under    *)
(* it, oldest first.  Lookups see the oldest, removals take it away, and   *)
(* what is done to one key changes no other.                               *)
(***************************************************************************)
EXTENDS Sequences

CONSTANTS Keys, Recs

VARIABLE map

Init == map = [k \in Keys |-> <<>>]

Insert(q, new) == \E r \in Recs : new = Append(q, r)

Remove(q, new) == q # <<>> /\ new = Tail(q)

(* A new record in place of the oldest. *)
Put(q, new) == q # <<>> /\ \E r \in Recs : new = <<r>> \o Tail(q)

Next ==
    LET was == map
        is == map'
    IN \E k \in Keys :
         /\ \A j \in Keys \ {k} : is[j] = was[j]
         /\ Insert(was[k], is[k]) \/ Remove(was[k], is[k]) \/ Put(was[k], is[k])

Step == [Next]_map

Spec == Init /\ [][Next]_map
=============================================================================
