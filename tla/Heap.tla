-------------------------------- MODULE Heap --------------------------------
(***************************************************************************)
(* heap.c and _heap.c: a binary heap of locations.  ofs[i] is the location *)
(* of the item at index i, and each location has a value and a key, which  *)
(* is meant to be the index of the item there (heap_remove uses it) but    *)
(* which every move sets to a location.  Locations behind num_items are    *)
(* free; their values, which nothing reads, are 0 here.                    *)
(***************************************************************************)
EXTENDS Integers, Sequences, FiniteSets

CONSTANTS Values,       \* integers, compared by compar
          InitialSize, MaxSize

VARIABLES ofs, key, val, num_items, max_size,
          indexed,      \* history: an item was removed by index or location
          misled,       \* history: heap_remove did not remove the item it was given
          kept          \* history: until then, locations inserted and not removed

vars == <<ofs, key, val, num_items, max_size, indexed, misled, kept>>

H == [ofs |-> ofs, key |-> key]

(* The item at index i of h has a smaller value than the one at j. *)
Less(h, i, j) == val[h.ofs[i]] < val[h.ofs[j]]

(* Two indexes change items; the keys are set to locations. *)
Swap(h, i, j) ==
    [ofs |-> [h.ofs EXCEPT ![i] = h.ofs[j], ![j] = h.ofs[i]],
     key |-> [h.key EXCEPT ![h.ofs[i]] = h.ofs[j], ![h.ofs[j]] = h.ofs[i]]]

greater_child(h, n, i) ==
    IF 2 * i + 2 < n /\ Less(h, 2 * i + 1, 2 * i + 2) THEN 2 * i + 2 ELSE 2 * i + 1

half_swap(h, i, j) ==
    [ofs |-> [h.ofs EXCEPT ![i] = h.ofs[j]],
     key |-> [h.key EXCEPT ![h.ofs[i]] = h.ofs[j], ![h.ofs[j]] = h.ofs[i]]]

swap_child(h, i, j) == Swap(h, i, j)

(* _heap_fix_down from index i, with n items; at most Len of a path steps. *)
heap_fix_down(h, n, i) ==
    LET down[k \in 0..max_size] ==
            IF k = 0 THEN [h |-> h, i |-> i, done |-> FALSE]
            ELSE LET x == down[k - 1] IN
                 IF x.done \/ 2 * x.i + 1 >= n THEN [x EXCEPT !.done = TRUE]
                 ELSE LET c == greater_child(x.h, n, x.i) IN
                      IF Less(x.h, x.i, c) THEN [h |-> swap_child(x.h, x.i, c), i |-> c, done |-> FALSE]
                      ELSE [x EXCEPT !.done = TRUE]
    IN down[max_size].h

heap_init ==
    /\ max_size = InitialSize /\ num_items = 0
    /\ ofs = [i \in 0..(InitialSize - 1) |-> i]
    /\ key = [i \in 0..(InitialSize - 1) |-> -1]
    /\ val = [i \in 0..(InitialSize - 1) |-> 0]
    /\ indexed = FALSE /\ kept = {} /\ misled = FALSE

(* The calls made have left the items at S.                                *)
Keeps(S) == UNCHANGED misled /\ kept' = IF misled THEN {} ELSE S

Wider(f, Default(_), n) == [i \in 0..(n - 1) |-> IF i \in DOMAIN f THEN f[i] ELSE Default(i)]

(* heap_insert: the room is doubled if full, the free location at the end  *)
(* moves up past every parent that is less than v.                         *)
heap_insert(v) ==
    LET full == num_items = max_size
        size == IF full THEN 2 * max_size ELSE max_size
        Same(i) == i
        Minus1(i) == -1
        Zero(i) == 0
        h0 == [ofs |-> Wider(ofs, Same, size), key |-> Wider(key, Minus1, size)]
        up[k \in 0..size] ==
            IF k = 0 THEN [h |-> h0, pos |-> num_items, done |-> FALSE]
            ELSE LET x == up[k - 1]
                     parent == (x.pos - 1) \div 2
                 IN IF x.done \/ x.pos = 0 \/ val[x.h.ofs[parent]] >= v THEN [x EXCEPT !.done = TRUE]
                    ELSE [h |-> Swap(x.h, x.pos, parent), pos |-> parent, done |-> FALSE]
        end == up[size]
        loc == end.h.ofs[end.pos]
    IN /\ size <= MaxSize
       /\ max_size' = size
       /\ ofs' = end.h.ofs
       /\ key' = [end.h.key EXCEPT ![loc] = end.pos]
       /\ val' = [Wider(val, Zero, size) EXCEPT ![loc] = v]
       /\ num_items' = num_items + 1
       /\ Keeps(kept \cup {loc})
       /\ UNCHANGED indexed

(* heap_remove_item: the last item takes its place and is fixed down.      *)
remove_at(index) ==
    LET n == num_items - 1
        o == ofs[index]
        k1 == [key EXCEPT ![o] = -1]
        h == heap_fix_down([ofs |-> [ofs EXCEPT ![index] = ofs[n], ![n] = o],
                            key |-> [k1 EXCEPT ![ofs[n]] = index]], n, index)
    IN IF index \in 0..(num_items - 1)
         THEN /\ num_items' = n
              /\ ofs' = h.ofs /\ key' = h.key
              /\ val' = [val EXCEPT ![o] = 0]
              /\ indexed' = TRUE
              /\ UNCHANGED max_size
         ELSE UNCHANGED <<ofs, key, val, num_items, max_size, indexed>>

heap_remove_item(index) ==
    remove_at(index) /\ Keeps(kept \ {ofs[index]})

heap_remove(loc) ==
    /\ remove_at(key[loc])
    /\ IF key[loc] \in 0..(num_items - 1) /\ ofs[key[loc]] = loc
         THEN Keeps(kept \ {loc})
         ELSE misled' = TRUE /\ kept' = {}

heap_remove_top ==
    LET n == num_items - 1
        k1 == [key EXCEPT ![ofs[0]] = @ - 1]
        h == heap_fix_down([ofs |-> [ofs EXCEPT ![0] = ofs[n], ![n] = ofs[0]],
                            key |-> [k1 EXCEPT ![ofs[n]] = 0]], n, 0)
    IN /\ num_items > 0
       /\ num_items' = n
       /\ ofs' = h.ofs /\ key' = h.key
       /\ val' = [val EXCEPT ![ofs[0]] = 0]
       /\ Keeps(kept \ {ofs[0]})
       /\ UNCHANGED <<max_size, indexed>>

last_parent(n) == n \div 2

heap_build ==
    LET built[k \in 0..(last_parent(num_items) + 1)] ==
            IF k = 0 THEN H
            ELSE heap_fix_down(built[k - 1], num_items, last_parent(num_items) + 1 - k)
        h == built[last_parent(num_items) + 1]
    IN /\ indexed
       /\ ofs' = h.ofs /\ key' = h.key
       /\ indexed' = FALSE
       /\ UNCHANGED <<val, num_items, max_size, misled, kept>>

Live == {ofs[i] : i \in 0..(num_items - 1)}

Init == heap_init

Next == \/ \E v \in Values : heap_insert(v)
        \/ \E i \in 0..(num_items - 1) : heap_remove_item(i)
        \/ \E l \in Live : heap_remove(l)
        \/ heap_remove_top \/ heap_build

Spec == Init /\ [][Next]_vars
-----------------------------------------------------------------------------
(* Every location is at one index: no two items share one and no free one  *)
(* is lost, through growing, removing and rebuilding.                      *)
LocationsOnce == {ofs[i] : i \in 0..(max_size - 1)} = 0..(max_size - 1)

(* The items in the heap are those that were inserted and not removed: a   *)
(* removal, by index or at the top, takes the item it names and no other   *)
(* out, however the moves relabelled the rest; until heap_remove has been  *)
(* misled by a key: given the location heap_insert returned, as heap.h     *)
(* shows it, it may take another item out.                                 *)
ItemsKept == ~misled => Live = kept

(* heap_top is the greatest item, and heap order holds below it, as long   *)
(* as items are only removed at the top, and again after heap_build.       *)
TopIsGreatest ==
    ~indexed => \A i \in 1..(num_items - 1) : val[ofs[(i - 1) \div 2]] >= val[ofs[i]]
=============================================================================
