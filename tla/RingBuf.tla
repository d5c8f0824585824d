------------------------------ MODULE RingBuf -------------------------------
(***************************************************************************)
(* The ring buffer of ringbuf.c and _ringbuf.c: `capacity' units mapped    *)
(* twice in a row, so that a record never wraps, and two locations into    *)
(* the double mapping.  A record takes RecSize units and a unit is written *)
(* with the record it belongs to.                                          *)
(***************************************************************************)
EXTENDS Integers, Sequences

CONSTANTS Capacity, RecSize, Values

ASSUME RingAssumption ==
    /\ Capacity \in Nat /\ RecSize \in Nat \ {0}
    /\ RecSize <= Capacity

VARIABLES mem,        \* the units, as the double mapping shows them once
          read_loc, write_loc,
          queue       \* history: what was pushed and is still in the ring

vars == <<mem, read_loc, write_loc, queue>>

(* The second mapping shows the same memory. *)
Unit(o) == IF o < Capacity THEN o ELSE o - Capacity

ringbuf_size == write_loc - read_loc

ringbuf_avail == Capacity - (write_loc - read_loc)

ringbuf_init ==
    /\ read_loc = 0 /\ write_loc = 0
    /\ mem \in [0..(Capacity - 1) -> Values]
    /\ queue = <<>>

Stored_at_read(at, v) == [u \in 0..(Capacity - 1) |->
                            IF \E k \in 0..(RecSize - 1) : u = Unit(read_loc + k) THEN v ELSE mem[u]]

(* Stores a record at write_loc, by way of ringbuf_wloc. *)
Stored(at, v) == [u \in 0..(Capacity - 1) |->
                    IF \E k \in 0..(RecSize - 1) : u = Unit(at + k) THEN v ELSE mem[u]]

(* ringbuf_rseek: both locations go back to the first mapping. *)
ringbuf_rseek(r, w, by) ==
    IF r + by >= Capacity THEN [r |-> r + by - Capacity, w |-> w - Capacity]
                          ELSE [r |-> r + by, w |-> w]

(* The caller checks ringbuf_avail. *)
ringbuf_push(v) ==
    /\ ringbuf_avail >= RecSize
    /\ mem' = Stored(write_loc, v)
    /\ write_loc' = write_loc + RecSize
    /\ queue' = Append(queue, v)
    /\ UNCHANGED read_loc

(* The caller checks ringbuf_empty. *)
ringbuf_pop ==
    /\ read_loc # write_loc
    /\ read_loc' = ringbuf_rseek(read_loc, write_loc, RecSize).r
    /\ write_loc' = ringbuf_rseek(read_loc, write_loc, RecSize).w
    /\ queue' = Tail(queue)
    /\ UNCHANGED mem

(* Drops the oldest record when there is no room; one is enough, since     *)
(* all have the same size.                                                 *)
ringbuf_rolling_push(v) ==
    /\ ringbuf_avail < RecSize
    /\ LET s == ringbuf_rseek(read_loc, write_loc, RecSize) IN
         /\ mem' = Stored(s.w, v)
         /\ read_loc' = s.r
         /\ write_loc' = s.w + RecSize
    /\ queue' = Append(Tail(queue), v)

Init == ringbuf_init

Next == \/ \E v \in Values : ringbuf_push(v) \/ ringbuf_rolling_push(v)
        \/ ringbuf_pop

Spec == Init /\ [][Next]_vars
-----------------------------------------------------------------------------
(* The next record can be stored, and the next one read, without leaving   *)
(* the double mapping.                                                     *)
InsideMapping ==
    /\ read_loc < Capacity
    /\ read_loc <= write_loc /\ write_loc - read_loc <= Capacity

(* The locations and the history agree on how much is in the ring.         *)
SizeIsQueue == ringbuf_size = Len(queue) * RecSize

(* A reader finds the records in the order they were pushed, each of them  *)
(* whole, however often both locations went round.                         *)
RingFifo ==
    \A i \in 1..Len(queue) : \A k \in 0..(RecSize - 1) :
        mem[Unit(read_loc + (i - 1) * RecSize + k)] = queue[i]
=============================================================================
