------------------------------ MODULE Probing ------------------------------
(***************************************************************************)
(* Open addressing with linear probing, as hashtable.c, thashtable.c,      *)
(* lhashtable.c and hashtable_vect.h each spell it out: buckets are probed *)
(* from the ideal one upwards, around the end, to the first empty one.     *)
(*                                                                         *)
(* A table of n buckets is a function from 0..(n-1) to records, 0 for an   *)
(* empty bucket; `hc' gives the hashcode of a record.  (The code also      *)
(* keeps the hashcode in the bucket.  That of an empty bucket is stale and *)
(* decides nothing.)                                                       *)
(***************************************************************************)
EXTENDS Integers, Sequences

(* The number of buckets probed from b on before the first empty one.      *)
ChainLength(B, n, b) ==
    CHOOSE d \in 0..(n - 1) :
        B[(b + d) % n] = 0 /\ \A e \in 0..(d - 1) : B[(b + e) % n] # 0

FirstFree(B, n, b) == (b + ChainLength(B, n, b)) % n

(* The records a probe from b looks at, in order. *)
Chain(B, n, b) == [i \in 1..ChainLength(B, n, b) |-> B[(b + i - 1) % n]]

(* A record goes to the first bucket that is free once its own is.         *)
Replace(B, n, hc, b) ==
    IF B[b] = 0 THEN B
    ELSE LET freed == [B EXCEPT ![b] = 0]
         IN [freed EXCEPT ![FirstFree(freed, n, hc[B[b]] % n)] = B[b]]

(* The same without freeing the bucket first: a record that is not in its  *)
(* ideal bucket moves on even when it could stay.                          *)
ReplaceOccupied(B, n, hc, b) ==
    IF B[b] = 0 \/ hc[B[b]] % n = b THEN B
    ELSE [B EXCEPT ![FirstFree(B, n, hc[B[b]] % n)] = B[b], ![b] = 0]

(* Op(B, n, hc, b) for the buckets b = begin, ..., end - 1 in turn.        *)
MoveRange(Op(_, _, _, _), B, n, hc, begin, end) ==
    LET moved[b \in begin..end] ==
            IF b = begin THEN B ELSE Op(moved[b - 1], n, hc, b - 1)
    IN moved[end]

(* Twice the buckets.  The pass starts behind the first empty bucket, so   *)
(* that a chain that wraps around is moved from its beginning.             *)
Grow(Op(_, _, _, _), B, n, hc) ==
    LET wide == [b \in 0..(2 * n - 1) |-> IF b < n THEN B[b] ELSE 0]
        start == FirstFree(B, n, 0)
        high == MoveRange(Op, wide, 2 * n, hc, start, n)
    IN MoveRange(Op, high, 2 * n, hc, 0, start)

(* After a removal: every record of the chain that starts at b moves up    *)
(* to the first free bucket from its ideal one.                            *)
FixChainDown(B, n, hc, b) ==
    LET fixed[d \in 0..ChainLength(B, n, b)] ==
            IF d = 0 THEN B ELSE Replace(fixed[d - 1], n, hc, (b + d - 1) % n)
    IN fixed[ChainLength(B, n, b)]
=============================================================================
