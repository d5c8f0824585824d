----------------------------- MODULE THashTable -----------------------------
(***************************************************************************)
(* struct thashtable (thashtable.c): the hash table of a fiber's memory    *)
(* pool.  It holds one record per key; records are allocated for good (the *)
(* pool goes with the fiber).                                              *)
(***************************************************************************)
EXTENDS Probing, FiniteSets

CONSTANTS Keys,
          Hashes,       \* values the hash function may take
          InitialSize,  \* THASHTABLE_INITIAL_SIZE
          MaxRecs       \* bound: records allocated

VARIABLES hash,         \* hashcode()
          buckets,      \* bucket -> record
          mask, size,
          recs          \* record -> key

vars == <<hash, buckets, mask, size, recs>>

Recs == 1..MaxRecs

hashcodes == [r \in 1..Len(recs) |-> hash[recs[r]]]

Found(k) ==
    SelectSeq(Chain(buckets, mask + 1, hash[k] % (mask + 1)),
              LAMBDA r : recs[r] = k)

thashtable_lookup(k) == IF Found(k) = <<>> THEN 0 ELSE Head(Found(k))
-----------------------------------------------------------------------------
thashtable_move_bucket(B, n, hc, b) == Replace(B, n, hc, b)

thashtable_grow(B, n) == Grow(thashtable_move_bucket, B, n, hashcodes)

(* _thashtable_check_resize: before the key is looked for, so a table can  *)
(* grow without a record being added.                                      *)
thashtable_check_resize == size > mask \div 2

Slots == IF thashtable_check_resize THEN 2 * (mask + 1) ELSE mask + 1

Resized == IF thashtable_check_resize THEN thashtable_grow(buckets, mask + 1) ELSE buckets

Resize == buckets' = Resized /\ mask' = Slots - 1

thashtable_new_rec(k) ==
    /\ Len(recs) < MaxRecs
    /\ recs' = Append(recs, k)

(* The empty bucket that ends the probe gets a new record. *)
InsertNew(k) ==
    /\ thashtable_lookup(k) = 0
    /\ thashtable_new_rec(k)
    /\ buckets' = [Resized EXCEPT ![FirstFree(Resized, Slots, hash[k] % Slots)] = Len(recs')]
    /\ mask' = Slots - 1
    /\ size' = size + 1

thashtable_insert(k) ==
    \/ InsertNew(k)
    \/ thashtable_lookup(k) # 0 /\ Resize /\ UNCHANGED <<size, recs>>

put_existing == size

thashtable_put(k) ==
    \/ InsertNew(k)
    \/ /\ thashtable_lookup(k) # 0
       /\ thashtable_new_rec(k)
       /\ buckets' = [b \in 0..(Slots - 1) |->
                        IF Resized[b] = thashtable_lookup(k) THEN Len(recs') ELSE Resized[b]]
       /\ mask' = Slots - 1
       /\ size' = put_existing

(* As insert, but for its answer when there is a record of another size.   *)
thashtable_insert_alloc(k) == thashtable_insert(k)

fix_chain_down_to_next(B, b) == Replace(B, mask + 1, hashcodes, b)

thashtable_fix_chain_down(B, b) == FixChainDown(B, mask + 1, hashcodes, b)

thashtable_remove(k) ==
    LET b == CHOOSE i \in 0..mask : buckets[i] = thashtable_lookup(k)
    IN /\ thashtable_lookup(k) # 0
       /\ size' = size - 1
       /\ buckets' = thashtable_fix_chain_down([buckets EXCEPT ![b] = 0], (b + 1) % (mask + 1))
       /\ UNCHANGED <<mask, recs>>

thashtable_create ==
    /\ buckets = [b \in 0..(InitialSize - 1) |-> 0]
    /\ mask = InitialSize - 1 /\ size = 0 /\ recs = <<>>

Init == hash \in [Keys -> Hashes] /\ thashtable_create

Next ==
    /\ \E k \in Keys :
         \/ thashtable_insert(k)
         \/ thashtable_put(k)
         \/ thashtable_insert_alloc(k)
         \/ thashtable_remove(k)
    /\ UNCHANGED hash

Spec == Init /\ [][Next]_vars
-----------------------------------------------------------------------------
Stored == {b \in 0..mask : buckets[b] # 0}

(* Every key has one record, a probe finds it, and size counts them: a     *)
(* put or an insertion of a key whose record lies behind others, or has    *)
(* been moved by a removal or by growth, never adds a second one.          *)
OneRecordPerKey ==
    /\ Cardinality(Stored) = size
    /\ \A b \in Stored : thashtable_lookup(recs[buckets[b]]) = buckets[b]

(* The abstract table, whose queues hold at most one record here.          *)
Abstract == INSTANCE Multimap WITH map <- [k \in Keys |-> Found(k)]
=============================================================================
