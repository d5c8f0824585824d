----------------------------- MODULE HashTable -----------------------------
(***************************************************************************)
(* struct hashtable (hashtable.c): a header, vectors of buckets and        *)
(* records, all offsets into one growing file or mapping.  Removed records *)
(* go to a free list, from which one of exactly the size asked for is      *)
(* taken again.  A record is its number in the order of allocation; the    *)
(* hash function is any.                                                   *)
(***************************************************************************)
EXTENDS Probing, FiniteSets

CONSTANTS Keys,
          Hashes,       \* values the hash function may take
          InitialSize,  \* HASHTABLE_INITIAL_SIZE
          LongKeys,     \* keys whose records are longer than the others'
          MaxRecs       \* bound: records allocated

VARIABLES hash,         \* hashcode()
          buckets,      \* bucket -> record
          mask, size, free_list,
          recs          \* record -> [key, len]

vars == <<hash, buckets, mask, size, free_list, recs>>

Recs == 1..MaxRecs

NoKey == "free"         \* the free list's link is written over the record

hashcodes == [r \in {q \in 1..Len(recs) : recs[q].key # NoKey} |-> hash[recs[r].key]]

(* The records of the key, in the order in which a probe meets them.       *)
Found(k) ==
    SelectSeq(Chain(buckets, mask + 1, hash[k] % (mask + 1)),
              LAMBDA r : recs[r].key = k)

hashtable_lookup(k) == IF Found(k) = <<>> THEN 0 ELSE Head(Found(k))
-----------------------------------------------------------------------------
RecLen(k) == IF k \in LongKeys THEN 2 ELSE 1

(* Any free record of that size: the first one in the list. *)
Matching(len) == {i \in 1..Len(free_list) : recs[free_list[i]].len = len}

alloc_from_freelist(i) ==
    SubSeq(free_list, 1, i - 1) \o SubSeq(free_list, i + 1, Len(free_list))

(* The record is written over the one that was freed, or appended.         *)
hashtable_alloc_rec(k, len, r) ==
    \/ \E i \in Matching(len) :
         /\ \A j \in Matching(len) : i <= j
         /\ r = free_list[i]
         /\ free_list' = alloc_from_freelist(i)
         /\ recs' = [recs EXCEPT ![r].key = k]
    \/ /\ Matching(len) = {}
       /\ r = Len(recs) + 1 /\ r \in Recs
       /\ recs' = Append(recs, [key |-> k, len |-> len])
       /\ UNCHANGED free_list

hashtable_move_bucket(B, n, hc, b) == Replace(B, n, hc, b)

hashtable_grow(B, n) == Grow(hashtable_move_bucket, B, n, hashcodes)

must_grow == size > mask \div 2

(* The table to insert into, after hashtable_check_resize. *)
Resized == IF must_grow THEN hashtable_grow(buckets, mask + 1) ELSE buckets

Slots == IF must_grow THEN 2 * (mask + 1) ELSE mask + 1

(* hashtable_insert and hashtable_insert_alloc, which leaves the value to  *)
(* the caller, do not look for the key.                                    *)
hashtable_insert(k) ==
    \E r \in Recs :
        /\ hashtable_alloc_rec(k, RecLen(k), r)
        /\ buckets' = [Resized EXCEPT ![FirstFree(Resized, Slots, hash[k] % Slots)] = r]
        /\ mask' = Slots - 1
        /\ size' = size + 1
        /\ UNCHANGED hash

(* Looks first: grows only on its way to insert.                           *)
hashtable_lookup_insert(k) ==
    hashtable_lookup(k) = 0 /\ hashtable_insert(k)

fix_chain_down_never(B, b) == B

hashtable_fix_chain_down(B, b) ==
    FixChainDown(B, mask + 1, hashcodes, b)

hashtable_remove(k) ==
    LET r == hashtable_lookup(k)
        b == CHOOSE i \in 0..mask : buckets[i] = r
    IN /\ r # 0
       /\ free_list' = <<r>> \o free_list
       /\ size' = size - 1
       /\ buckets' = hashtable_fix_chain_down([buckets EXCEPT ![b] = 0], (b + 1) % (mask + 1))
       /\ recs' = [recs EXCEPT ![r].key = NoKey]
       /\ UNCHANGED <<hash, mask>>

hashtable_init ==
    /\ buckets = [b \in 0..(InitialSize - 1) |-> 0]
    /\ mask = InitialSize - 1 /\ size = 0
    /\ free_list = <<>> /\ recs = <<>>

Init == hash \in [Keys -> Hashes] /\ hashtable_init

Next == \E k \in Keys : \/ hashtable_insert(k)
                        \/ hashtable_lookup_insert(k)
                        \/ hashtable_remove(k)

Spec == Init /\ [][Next]_vars
-----------------------------------------------------------------------------
Stored == {b \in 0..mask : buckets[b] # 0}

(* A probe meets every record that was inserted and not removed, however   *)
(* the table grew and whatever chains removals went through; hashcodes     *)
(* that differ only above the mask, and chains that wrap around the end,   *)
(* included.                                                               *)
EveryRecordReached ==
    /\ Cardinality(Stored) = size
    /\ \A b \in Stored : LET k == recs[buckets[b]].key IN
         \E i \in 1..Len(Found(k)) : Found(k)[i] = buckets[b]

(* A record is in one bucket or in the free list, once: no insertion       *)
(* writes over a record that is still in use.                              *)
RecordsExclusive ==
    /\ \A b, c \in Stored : b # c => buckets[b] # buckets[c]
    /\ \A i, j \in 1..Len(free_list) : i # j => free_list[i] # free_list[j]
    /\ \A b \in Stored, i \in 1..Len(free_list) : buckets[b] # free_list[i]
    /\ Cardinality(Stored) + Len(free_list) = Len(recs)

(* There is always an empty bucket, without which no probe would end.      *)
NeverFull == size <= mask

(* The table keeps a queue of records for every key: growing and removing  *)
(* other keys change no queue, and removal takes the oldest.               *)
Queues == [k \in Keys |-> Found(k)]

Abstract == INSTANCE Multimap WITH map <- Queues
=============================================================================
