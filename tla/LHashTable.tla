----------------------------- MODULE LHashTable -----------------------------
(***************************************************************************)
(* struct lhashtable (lhashtable.c): a hash table in a mapped file, split  *)
(* into sub-tables that grow on their own.  A sub-table allocates records  *)
(* from blocks it gets from the file and recycles them through one free    *)
(* list per size.  LHT_FLAG_FIN in the header marks a clean shutdown.      *)
(*                                                                         *)
(* A record is named by its place, block * BlockSize + offset, in units of *)
(* the allocator (block 0 is reserved, so no place is 0); record and key   *)
(* take one unit, a value one or none.  Stores to the mapping survive the  *)
(* process, but a process killed in the middle of an operation leaves the  *)
(* table torn; what operations do to a torn table is not modelled.         *)
(***************************************************************************)
EXTENDS Probing, FiniteSets

CONSTANTS Keys,
          SubTables,    \* 0..(LHT_NUM_SUB_TABLES - 1)
          Hashes,       \* values of the hashcode
          InitialSize,  \* LHT_SUB_TABLE_INITIAL_SIZE
          BlockSize,    \* LHT_BLOCK_SIZE
          Data,         \* contents of a value
          MaxBlocks,    \* bound: blocks of a sub-table
          MaxCrashes    \* bound: processes killed

VARIABLES hash,         \* key -> [sub, hc]
          tbl,          \* sub-table -> struct lhashtable_table and its records
          hsize,        \* header->size
          fin,          \* LHT_FLAG_FIN
          open,         \* lht->fd >= 0
          torn,         \* killed inside an operation
          reported,     \* "dirty table detected" was logged
          crashes

vars == <<hash, tbl, hsize, fin, open, torn, reported, crashes>>

Undefined == "undefined"

Vals == [data : Data \cup {Undefined}, len : {0, 1}]

Units(v) == 1 + v.len       \* LHT_X_ALIGN(sizeof(record) + key_len + val_len)

hashcodes(t) == [p \in DOMAIN t.recs |-> hash[t.recs[p].key].hc]

Sub(k) == tbl[hash[k].sub]

Found(k) ==
    LET t == Sub(k) IN
    SelectSeq(Chain(t.buckets, t.mask + 1, hash[k].hc % (t.mask + 1)),
              LAMBDA p : t.recs[p].key = k)

lhashtable_get(k) == IF Found(k) = <<>> THEN 0 ELSE Head(Found(k))
-----------------------------------------------------------------------------
no_resize(t) == t.size < (t.mask + 1) \div 2

lhashtable_move_bucket(B, n, hc, b) == Replace(B, n, hc, b)

lhashtable_resize_table_if_needed(t) ==
    IF no_resize(t) THEN t
    ELSE [t EXCEPT !.buckets = Grow(lhashtable_move_bucket, t.buckets, t.mask + 1, hashcodes(t)),
                   !.mask = 2 * t.mask + 1]

(* The new place, and the sub-table without it. *)
alloc_from_freelist(t, n) ==
    [place |-> Head(t.freelist[n]), rest |-> [t EXCEPT !.freelist[n] = Tail(@)]]

does_not_fit(t, n) == BlockSize - t.next_alloc < n

alloc_from_block(t, n) ==
    LET u == IF does_not_fit(t, n)
               THEN [t EXCEPT !.block = @ + 1, !.next_alloc = 0] ELSE t
    IN [place |-> u.block * BlockSize + u.next_alloc,
        rest |-> [u EXCEPT !.next_alloc = @ + n]]

lhashtable_sub_alloc(t, n) ==
    IF t.freelist[n] # <<>> THEN alloc_from_freelist(t, n) ELSE alloc_from_block(t, n)

(* The free list's link is written over the record. *)
add_to_freelist(t, p) ==
    [t EXCEPT !.freelist[Units(t.recs[p].val)] = <<p>> \o @,
              !.recs = [q \in DOMAIN t.recs \ {p} |-> t.recs[q]]]

WithRecord(t, p, r) ==
    [t EXCEPT !.recs = [q \in DOMAIN t.recs \cup {p} |-> IF q = p THEN r ELSE t.recs[q]]]

(* The empty bucket that ends the probe gets the new record. *)
PutNew(t, k, v) ==
    LET a == lhashtable_sub_alloc(t, Units(v))
        b == FirstFree(t.buckets, t.mask + 1, hash[k].hc % (t.mask + 1))
    IN WithRecord([a.rest EXCEPT !.buckets[b] = a.place, !.size = @ + 1],
                  a.place, [key |-> k, val |-> v])

(* A value of another size moves to a new place; then the old one is free. *)
PutExisting(t, k, p, v) ==
    LET b == CHOOSE i \in 0..t.mask : t.buckets[i] = p
        a == lhashtable_sub_alloc(t, Units(v))
    IN IF Units(v) = Units(t.recs[p].val)
         THEN [t EXCEPT !.recs[p].val = v]
         ELSE WithRecord(add_to_freelist([a.rest EXCEPT !.buckets[b] = a.place], p),
                         a.place, [key |-> k, val |-> v])

Working == open /\ ~torn /\ UNCHANGED <<hash, fin, open, torn, reported, crashes>>

Put(k, v) ==
    LET t == lhashtable_resize_table_if_needed(Sub(k))
        p == lhashtable_get(k)
    IN /\ Working
       /\ tbl' = [tbl EXCEPT ![hash[k].sub] = IF p = 0 THEN PutNew(t, k, v) ELSE PutExisting(t, k, p, v)]
       /\ hsize' = IF p = 0 THEN hsize + 1 ELSE hsize
       /\ tbl'[hash[k].sub].block <= MaxBlocks

lhashtable_put(k) == \E d \in Data, n \in {0, 1} : Put(k, [data |-> d, len |-> n])

(* The caller fills the value in: a new one is undefined, as is one that   *)
(* became longer; otherwise it is the beginning of the old one.            *)
lhashtable_put_key(k) ==
    LET p == lhashtable_get(k) IN
    \E n \in {0, 1} :
        Put(k, [data |-> IF p = 0 \/ n > Sub(k).recs[p].val.len THEN Undefined
                         ELSE Sub(k).recs[p].val.data, len |-> n])

fix_chain_down(t, b) == FixChainDown(t.buckets, t.mask + 1, hashcodes(t), b)

lhashtable_del(k) ==
    LET t == Sub(k)
        p == lhashtable_get(k)
        b == CHOOSE i \in 0..t.mask : t.buckets[i] = p
        u == [add_to_freelist(t, p) EXCEPT !.buckets[b] = 0, !.size = @ - 1]
    IN /\ Working /\ p # 0
       /\ tbl' = [tbl EXCEPT ![hash[k].sub] =
                    [u EXCEPT !.buckets = fix_chain_down(u, (b + 1) % (t.mask + 1))]]
       /\ hsize' = hsize - 1
-----------------------------------------------------------------------------
NewTable == [buckets |-> [b \in 0..(InitialSize - 1) |-> 0], mask |-> InitialSize - 1,
             size |-> 0, freelist |-> [n \in 1..2 |-> <<>>], next_alloc |-> BlockSize,
             block |-> 0, recs |-> [p \in {} |-> 0]]

(* lhashtable_init with a new file. *)
Create ==
    /\ tbl = [s \in SubTables |-> NewTable]
    /\ hsize = 0 /\ fin = FALSE /\ open = TRUE

init_clear_fin == fin' = FALSE

(* lhashtable_init with an existing file: a torn table is reported and     *)
(* used all the same.                                                      *)
lhashtable_init ==
    /\ ~open /\ open' = TRUE
    /\ reported' = (reported \/ ~fin)
    /\ init_clear_fin
    /\ UNCHANGED <<hash, tbl, hsize, torn, crashes>>

lhashtable_close ==
    /\ open /\ open' = FALSE /\ fin' = TRUE
    /\ UNCHANGED <<hash, tbl, hsize, torn, reported, crashes>>

(* The process is killed, in the middle of an operation or between two.    *)
Crash ==
    /\ open /\ crashes < MaxCrashes
    /\ open' = FALSE /\ crashes' = crashes + 1
    /\ torn' \in {torn, TRUE}
    /\ UNCHANGED <<hash, tbl, hsize, fin, reported>>

Init ==
    /\ hash \in [Keys -> [sub : SubTables, hc : Hashes]]
    /\ Create
    /\ torn = FALSE /\ reported = FALSE /\ crashes = 0

Next == \/ \E k \in Keys : lhashtable_put(k) \/ lhashtable_put_key(k) \/ lhashtable_del(k)
        \/ lhashtable_init \/ lhashtable_close \/ Crash

Spec == Init /\ [][Next]_vars
-----------------------------------------------------------------------------
Stored(t) == {b \in 0..t.mask : t.buckets[b] # 0}

(* A probe finds every key that was put and not deleted, in its sub-table, *)
(* and both counts of keys are right.                                      *)
EveryKeyReached ==
    /\ \A s \in SubTables : LET t == tbl[s] IN
         /\ Cardinality(Stored(t)) = t.size
         /\ \A b \in Stored(t) : lhashtable_get(t.recs[t.buckets[b]].key) = t.buckets[b]
    /\ hsize = Cardinality({k \in Keys : lhashtable_get(k) # 0})

Span(p, n) == p..(p + n - 1)

Used(t) == {Span(t.buckets[b], Units(t.recs[t.buckets[b]].val)) : b \in Stored(t)}

FreeSpans(t) == UNION {{Span(t.freelist[n][i], n) : i \in 1..Len(t.freelist[n])} : n \in 1..2}

(* The records in use and the free ones lie apart from each other, inside  *)
(* one block each and never at the reserved place 0.                       *)
RecordsApart ==
    \A s \in SubTables : LET t == tbl[s] IN
        /\ Cardinality(FreeSpans(t)) = Len(t.freelist[1]) + Len(t.freelist[2])
        /\ \A x, y \in Used(t) \cup FreeSpans(t) : x # y => x \cap y = {}
        /\ Used(t) \cap FreeSpans(t) = {}
        /\ \A x \in Used(t) \cup FreeSpans(t) : \E b \in 1..t.block : x \subseteq Span(b * BlockSize, BlockSize)

(* As a map from keys to values: putting, growing, moving and deleting     *)
(* change the key they are called for and no other.                        *)
Abstract == INSTANCE Multimap WITH
    Recs <- Vals,
    map <- [k \in Keys |-> [i \in 1..Len(Found(k)) |-> Sub(k).recs[Found(k)[i]].val]]

(* "Clean shutdown" can be relied on: a table that a killed process left   *)
(* torn is either still marked or was reported when it was opened next.    *)
TornReported == torn => (~fin \/ reported)
=============================================================================
