--------------------------- MODULE HashTableVect ----------------------------
(***************************************************************************)
(* hashtable_vect.c and _hashtable_vect.c: a hash table without removal    *)
(* whose values lie one after the other in a vector of their own.  Its     *)
(* three files (buckets, entries, values) can be opened again.             *)
(*                                                                         *)
(* Entries are numbered as they are inserted.  An entry takes one unit and *)
(* KeyLen units for its key, of the `entries' file; a value one unit.      *)
(***************************************************************************)
EXTENDS Integers, Sequences, FiniteSets, Probing

CONSTANTS Keys, Hashes, KeyLen,
          InitialSize,  \* a power of 2
          MaxInserts, MaxOpens

VARIABLES hash,         \* key -> hashcode
          ins,          \* the entries: key, offset, offset of the value; as history
                        \* whether the table had been reopened and was killed meanwhile
          buckets, mask, size,
          ebuf,         \* unit of the entries file -> entry written there
          ewloc, vwloc, \* wlocpos of the entries and of the values
          isopen, opens

vars == <<hash, ins, buckets, mask, size, ebuf, ewloc, vwloc, isopen, opens>>

EntrySize == 1 + KeyLen

hc == [i \in 1..Len(ins) |-> hash[ins[i].key]]

(* The key and value offset that a reader finds at offset o: those of the  *)
(* entry that wrote all of it, or garbage that equals no key.              *)
EntryAt(o) ==
    IF \E i \in 1..Len(ins) : ins[i].ofs = o /\ \A u \in o..(o + KeyLen) : ebuf[u] = i
      THEN ins[ebuf[o]] ELSE [key |-> "garbage", val |-> -1]

hashtable_vect_init ==
    /\ hash \in [Keys -> Hashes]
    /\ ins = <<>> /\ size = 0
    /\ mask = 2 * InitialSize - 1
    /\ buckets = [b \in 0..(2 * InitialSize - 1) |-> 0]
    /\ ebuf = [u \in 0..(EntrySize * (MaxInserts + 1)) |-> 0]
    /\ ewloc = 1       \* the first offset is reserved
    /\ vwloc = 0 /\ isopen = TRUE /\ opens = 0

check_resize(s, m) == s > m \div 2

(* Only a bucket that is not the ideal one is moved, and to a bucket that  *)
(* is free before its own is.                                              *)
hashtable_vect_grow(B, m, h) == Grow(ReplaceOccupied, B, m + 1, h)

insert_bucket(B, m, h, i) == [B EXCEPT ![FirstFree(B, m + 1, h % (m + 1))] = i]

(* _hashtable_vect_insert up to the size; a key that is there already gets *)
(* another entry.  An entry at offset 0 leaves its bucket unused.          *)
add_entry(k, counted) ==
    LET grows == check_resize(size, mask)
        m == IF grows THEN 2 * mask + 1 ELSE mask
        B == IF grows THEN hashtable_vect_grow(buckets, mask, hc) ELSE buckets
        i == Len(ins) + 1
    IN /\ isopen /\ Len(ins) < MaxInserts
       /\ ins' = Append(ins, [key |-> k, ofs |-> ewloc, val |-> vwloc,
                              reopened |-> opens > 0, counted |-> counted])
       /\ ebuf' = [u \in DOMAIN ebuf |-> IF u \in ewloc..(ewloc + KeyLen) THEN i ELSE ebuf[u]]
       /\ buckets' = IF ewloc = 0 THEN B ELSE insert_bucket(B, m, hash[k], i)
       /\ mask' = m
       /\ size' = IF counted THEN size + 1 ELSE size
       /\ UNCHANGED <<hash, opens>>

(* hashtable_vect_insert and hashtable_vect_insert_alloc.                  *)
hashtable_vect_insert(k) ==
    /\ add_entry(k, TRUE)
    /\ ewloc' = ewloc + EntrySize /\ vwloc' = vwloc + 1
    /\ UNCHANGED isopen

(* hashtable_vect_lookup: the offset of the value, or -1. *)
Matches(k) ==
    {j \in 1..ChainLength(buckets, mask + 1, hash[k] % (mask + 1)) :
        LET i == Chain(buckets, mask + 1, hash[k] % (mask + 1))[j]
        IN hc[i] = hash[k] /\ EntryAt(ins[i].ofs).key = k}

hashtable_vect_lookup(k) ==
    IF Matches(k) = {} THEN -1
    ELSE LET j == CHOOSE x \in Matches(k) : \A y \in Matches(k) : x <= y
         IN EntryAt(ins[Chain(buckets, mask + 1, hash[k] % (mask + 1))[j]].ofs).val

(* hashtable_vect_close cuts the files to wlocpos; without it they keep    *)
(* the length they are mapped with.                                        *)
hashtable_vect_close ==
    /\ isopen /\ opens < MaxOpens
    /\ isopen' = FALSE
    /\ UNCHANGED <<hash, ins, buckets, mask, size, ebuf, ewloc, vwloc, opens>>

(* The process is killed: between two calls, or in an insertion after the  *)
(* bucket was written, before or after the entry was counted.              *)
Crash ==
    /\ isopen /\ opens < MaxOpens
    /\ isopen' = FALSE
    /\ vwloc' = vwloc + 1 /\ ewloc' = ewloc + 1
    /\ \/ UNCHANGED <<hash, ins, buckets, mask, size, ebuf, opens>>
       \/ \E k \in Keys, counted \in BOOLEAN : add_entry(k, counted)

opened_vect(n) == n

(* Both locations are computed from the size in the header; for the        *)
(* entries that leaves out the keys and the reserved offset.               *)
hashtable_vect_open ==
    /\ ~isopen
    /\ isopen' = TRUE /\ opens' = opens + 1
    /\ ewloc' = size
    /\ vwloc' = opened_vect(size)
    /\ UNCHANGED <<hash, ins, buckets, mask, size, ebuf>>

Init == hashtable_vect_init

Next == \/ \E k \in Keys : hashtable_vect_insert(k)
        \/ hashtable_vect_close \/ Crash \/ hashtable_vect_open

Spec == Init /\ [][Next]_vars
-----------------------------------------------------------------------------
OldestOf(k) == CHOOSE i \in 1..Len(ins) : ins[i].key = k /\ \A j \in 1..(i - 1) : ins[j].key # k

AllFound == \A i \in 1..Len(ins) : hashtable_vect_lookup(ins[i].key) = ins[OldestOf(ins[i].key)].val

(* Up to the size it was created for the table does not grow, and every    *)
(* key is found with the value inserted first, also after the table is     *)
(* opened again, until something is inserted into a reopened table.        *)
(* (Growing may lose entries: a displaced one leaves a hole before its new *)
(* bucket.  An insertion after reopening writes over old entries, or is     *)
(* not found itself: FoundReopened does not hold.)                         *)
FoundWhileSized ==
    Len(ins) <= InitialSize =>
        /\ mask = 2 * InitialSize - 1
        /\ (\A i \in 1..Len(ins) : ~ins[i].reopened) => AllFound

(* "Recover in case of crash" (hashtable_vect_open): a reopened table can  *)
(* be used like one that was never closed.                                 *)
FoundReopened == Len(ins) <= InitialSize => AllFound

(* "It stores all values sequentially in a secondary buffer with no        *)
(* holes": hashtable_vect_begin to hashtable_vect_end are the values in    *)
(* order, also after the table is opened again, closed in order or not.    *)
(* Only an entry that a killed process did not count has no value of its   *)
(* own: the next one takes its place.                                      *)
ValuesInOrder ==
    LET counted(n) == Cardinality({i \in 1..n : ins[i].counted}) IN
    /\ \A i \in 1..Len(ins) : ins[i].val = counted(i - 1)
    /\ isopen => vwloc = size /\ size = counted(Len(ins))
=============================================================================
