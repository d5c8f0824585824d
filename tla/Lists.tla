-------------------------------- MODULE Lists --------------------------------
(***************************************************************************)
(* The few operators on sequences that the event loop and the connection   *)
(* pool are written with.  They mean what the operators of these names in  *)
(* the community module SequencesExt mean; a module that is proved about   *)
(* keeps its context small.                                                *)
(***************************************************************************)
EXTENDS Integers, Sequences, FiniteSetsExt, Functions

ToSet(s) == {s[i] : i \in DOMAIN s}

Contains(s, e) == \E i \in 1..Len(s) : s[i] = e

Last(s) == s[Len(s)]

Front(s) == SubSeq(s, 1, Len(s) - 1)

RemoveAt(s, i) == SubSeq(s, 1, i - 1) \o SubSeq(s, i + 1, Len(s))

(* The place of the first element that passes Test, or 0.                  *)
SelectInSeq(s, Test(_)) ==
    LET I == {i \in 1..Len(s) : Test(s[i])}
    IN  IF I # {} THEN Min(I) ELSE 0

RemoveFirst(s, e) ==
    IF Contains(s, e) THEN RemoveAt(s, SelectInSeq(s, LAMBDA v : v = e)) ELSE s
=============================================================================
