---------------------------- MODULE RingBufProofs ----------------------------
(***************************************************************************)
(* The ring buffer is a queue for every capacity and every record size:    *)
(* Good, the invariant, says that the units between the two locations hold *)
(* the records of the history, in order.  Dropping the oldest record keeps *)
(* it although both locations may jump back by the capacity, and storing   *)
(* one keeps it because no two offsets of the window share a unit.         *)
(***************************************************************************)
EXTENDS RingBuf, TLAPS

Good(m, r, w, q) ==
    /\ r \in Nat /\ w \in Nat
    /\ m \in [0..(Capacity - 1) -> Values]
    /\ q \in Seq(Values)
    /\ r < Capacity
    /\ r <= w /\ w - r <= Capacity
    /\ w - r = Len(q) * RecSize
    /\ \A i \in 1..Len(q) : \A k \in 0..(RecSize - 1) :
           m[Unit(r + (i - 1) * RecSize + k)] = q[i]

RingInv == Good(mem, read_loc, write_loc, queue)

(* Where the i-th of n records of one size lies.                           *)
LEMMA Slots ==
    ASSUME NEW R \in Nat, NEW n \in Nat, NEW i \in 1..n
    PROVE  /\ (i - 1) * R \in Nat
           /\ (i - 1) * R + R <= n * R
           /\ (i - 1) * R + R = i * R
<1>1. (i - 1) * R + R = i * R
    OBVIOUS
<1>2. (n - i) * R \in Nat /\ (i - 1) * R \in Nat
    OBVIOUS
<1>3. n * R = i * R + (n - i) * R
    OBVIOUS
<1>4. QED
    BY <1>1, <1>2, <1>3

(* One record more.                                                        *)
LEMMA OneMore ==
    ASSUME NEW R \in Nat, NEW n \in Nat
    PROVE  (n + 1) * R = n * R + R /\ n * R \in Nat
OBVIOUS

(* Two offsets of the window are two units of the memory.                  *)
LEMMA UnitsApart ==
    ASSUME NEW r \in Nat, r < Capacity,
           NEW a \in Int, NEW b \in Int, r <= a, a < b, b < r + Capacity
    PROVE  Unit(a) # Unit(b) /\ Unit(a) \in 0..(Capacity - 1) /\ Unit(b) \in 0..(Capacity - 1)
BY RingAssumption DEF Unit

(* ringbuf_rseek over the oldest record leaves the others where they are.  *)
LEMMA Dropped ==
    ASSUME NEW m, NEW r, NEW w, NEW q, Good(m, r, w, q), Len(q) > 0
    PROVE  Good(m, ringbuf_rseek(r, w, RecSize).r, ringbuf_rseek(r, w, RecSize).w, Tail(q))
<1> DEFINE s == ringbuf_rseek(r, w, RecSize)
           n == Len(q)
<1>1. /\ Capacity \in Nat /\ RecSize \in Nat /\ RecSize > 0 /\ RecSize <= Capacity
      /\ r \in Nat /\ w \in Nat /\ n \in Nat /\ n > 0 /\ r < Capacity
      /\ w - r <= Capacity /\ w - r = n * RecSize
      /\ q \in Seq(Values) /\ m \in [0..(Capacity - 1) -> Values]
    BY RingAssumption DEF Good
<1>2. Tail(q) \in Seq(Values) /\ Len(Tail(q)) = n - 1 /\ \A i \in 1..(n - 1) : Tail(q)[i] = q[i + 1]
    BY <1>1
<1>3. n * RecSize = (n - 1) * RecSize + RecSize /\ (n - 1) * RecSize \in Nat
    <2>1. n - 1 \in Nat /\ (n - 1) + 1 = n
        BY <1>1
    <2>2. QED
        BY <2>1, <1>1, OneMore
<1> HIDE DEF n
<1>4. /\ s.r \in Nat /\ s.w \in Nat /\ s.r < Capacity /\ s.w - s.r = (n - 1) * RecSize
      /\ s.r <= s.w /\ s.w - s.r <= Capacity
    BY <1>1, <1>3 DEF ringbuf_rseek
<1>5. ASSUME NEW i \in 1..(n - 1), NEW k \in 0..(RecSize - 1)
      PROVE  m[Unit(s.r + (i - 1) * RecSize + k)] = Tail(q)[i]
    <2>1. i + 1 \in 1..n /\ n \in Nat /\ i \in Nat
        BY <1>1, <1>5
    <2>2. /\ (i - 1) * RecSize \in Nat /\ (i - 1) * RecSize + RecSize = i * RecSize
          /\ i * RecSize + RecSize <= n * RecSize
        <3>1. (i - 1) * RecSize \in Nat /\ (i - 1) * RecSize + RecSize = i * RecSize
            BY <1>1, <1>5, Slots
        <3>2. ((i + 1) - 1) * RecSize + RecSize <= n * RecSize
            BY <1>1, <2>1, Slots
        <3>3. (i + 1) - 1 = i
            BY <2>1
        <3>4. QED
            BY <3>1, <3>2, <3>3
    <2> DEFINE x == (i - 1) * RecSize
    <2>3. x \in Nat /\ i * RecSize = x + RecSize /\ x + RecSize + RecSize <= w - r
        BY <1>1, <2>2
    <2>4. m[Unit(r + ((i + 1) - 1) * RecSize + k)] = q[i + 1]
        BY <2>1, <1>5 DEF Good, n
    <2>5. r + ((i + 1) - 1) * RecSize + k = r + RecSize + x + k
        <3>1. (i + 1) - 1 = i
            BY <2>1
        <3>2. r + i * RecSize + k = r + RecSize + x + k
            BY <2>3, <1>1, <1>5
        <3>3. QED
            BY <3>1, <3>2
    <2> HIDE DEF x
    <2>6. Unit(s.r + x + k) = Unit(r + RecSize + x + k)
        BY <1>1, <1>5, <2>3 DEF Unit, ringbuf_rseek
    <2>7. Tail(q)[i] = q[i + 1]
        BY <1>2, <1>5
    <2>8. QED
        BY <2>4, <2>5, <2>6, <2>7 DEF x
<1>6. QED
    BY <1>1, <1>2, <1>4, <1>5 DEF Good

(* ringbuf_push stores a record after the newest one and touches none of   *)
(* the others.                                                             *)
LEMMA StoredAfter ==
    ASSUME NEW r, NEW w, NEW q, NEW v \in Values, Good(mem, r, w, q),
           Capacity - (w - r) >= RecSize
    PROVE  Good(Stored(w, v), r, w + RecSize, Append(q, v))
<1> DEFINE n == Len(q)
           p == Append(q, v)
<1>1. /\ Capacity \in Nat /\ RecSize \in Nat /\ RecSize > 0
      /\ r \in Nat /\ w \in Nat /\ n \in Nat /\ r < Capacity /\ r <= w
      /\ w - r = n * RecSize /\ w + RecSize - r <= Capacity
      /\ q \in Seq(Values) /\ mem \in [0..(Capacity - 1) -> Values]
    BY RingAssumption DEF Good
<1>2. /\ p \in Seq(Values) /\ Len(p) = n + 1 /\ p[n + 1] = v
      /\ \A i \in 1..n : p[i] = q[i]
    BY <1>1
<1>3. (n + 1) * RecSize = n * RecSize + RecSize /\ n * RecSize \in Nat
    BY <1>1, OneMore
<1>4. Stored(w, v) \in [0..(Capacity - 1) -> Values]
    BY <1>1 DEF Stored
<1> HIDE DEF n, p
<1>5. ASSUME NEW i \in 1..n, NEW k \in 0..(RecSize - 1)
      PROVE  Stored(w, v)[Unit(r + (i - 1) * RecSize + k)] = p[i]
    <2> DEFINE o == r + (i - 1) * RecSize + k
    <2>1. (i - 1) * RecSize \in Nat /\ (i - 1) * RecSize + RecSize <= n * RecSize
        BY <1>1, <1>5, Slots
    <2>2. o \in Int /\ r <= o /\ o < w
        BY <2>1, <1>1, <1>5
    <2>3. mem[Unit(o)] = q[i]
        BY <1>5 DEF Good, n
    <2> HIDE DEF o
    <2>4. Unit(o) \in 0..(Capacity - 1)
        BY <2>2, <1>1, UnitsApart
    <2>5. ASSUME NEW j \in 0..(RecSize - 1) PROVE Unit(o) # Unit(w + j)
        BY <2>2, <1>1, UnitsApart
    <2>6. Stored(w, v)[Unit(o)] = mem[Unit(o)]
        BY <2>4, <2>5 DEF Stored
    <2>7. QED
        BY <2>3, <2>6, <1>2, <1>5 DEF o
<1>6. ASSUME NEW k \in 0..(RecSize - 1)
      PROVE  Stored(w, v)[Unit(r + n * RecSize + k)] = v
    <2>1. r + n * RecSize + k = w + k
        BY <1>1, <1>3, <1>6
    <2>2. Unit(w + k) \in 0..(Capacity - 1)
        BY <1>1, <1>6 DEF Unit
    <2>3. Stored(w, v)[Unit(w + k)] = v
        BY <2>2, <1>6 DEF Stored
    <2>4. QED
        BY <2>1, <2>3
<1>7. ASSUME NEW i \in 1..(n + 1), NEW k \in 0..(RecSize - 1)
      PROVE  Stored(w, v)[Unit(r + (i - 1) * RecSize + k)] = p[i]
    <2>1. CASE i \in 1..n
        BY <2>1, <1>5, <1>7
    <2>2. CASE i = n + 1
        <3>1. i - 1 = n
            BY <2>2, <1>1
        <3>2. QED
            BY <3>1, <2>2, <1>2, <1>6, <1>7
    <2>3. QED
        BY <2>1, <2>2, <1>1, <1>7
<1>8. w + RecSize \in Nat /\ r <= w + RecSize /\ (w + RecSize) - r <= Capacity
      /\ (w + RecSize) - r = (n + 1) * RecSize
    BY <1>1, <1>3
<1>9. QED
    BY <1>1, <1>2, <1>4, <1>7, <1>8 DEF Good, p

(* A full ring holds a record to drop, and dropping it makes room.         *)
LEMMA RoomAfterDrop ==
    ASSUME NEW m, NEW r, NEW w, NEW q, Good(m, r, w, q), Capacity - (w - r) < RecSize
    PROVE  /\ Len(q) > 0
           /\ LET s == ringbuf_rseek(r, w, RecSize) IN Capacity - (s.w - s.r) >= RecSize
<1>1. /\ Capacity \in Nat /\ RecSize \in Nat /\ RecSize > 0 /\ RecSize <= Capacity
      /\ r \in Nat /\ w \in Nat /\ Len(q) \in Nat /\ w - r <= Capacity
      /\ w - r = Len(q) * RecSize
    BY RingAssumption DEF Good
<1>2. Len(q) # 0
    <2>1. SUFFICES ASSUME Len(q) = 0 PROVE FALSE
        OBVIOUS
    <2>2. w - r = 0
        BY <1>1, <2>1
    <2>3. QED
        BY <1>1, <2>2
<1>3. QED
    BY <1>1, <1>2 DEF ringbuf_rseek

(* Every operation of the ring keeps the invariant.                        *)
LEMMA RingStep == RingInv /\ [Next]_vars => RingInv'
<1>1. SUFFICES ASSUME RingInv, [Next]_vars PROVE RingInv'
    OBVIOUS
<1>2. ASSUME NEW v \in Values, ringbuf_push(v) PROVE RingInv'
    <2>1. Good(Stored(write_loc, v), read_loc, write_loc + RecSize, Append(queue, v))
        BY <1>1, <1>2, StoredAfter DEF RingInv, ringbuf_push, ringbuf_avail
    <2>2. QED
        BY <1>2, <2>1 DEF RingInv, ringbuf_push, Good
<1>3. ASSUME NEW v \in Values, ringbuf_rolling_push(v) PROVE RingInv'
    <2> DEFINE s == ringbuf_rseek(read_loc, write_loc, RecSize)
    <2>1. Len(queue) > 0 /\ Capacity - (s.w - s.r) >= RecSize
        BY <1>1, <1>3, RoomAfterDrop DEF RingInv, ringbuf_rolling_push, ringbuf_avail
    <2>2. Good(mem, s.r, s.w, Tail(queue))
        BY <1>1, <2>1, Dropped DEF RingInv
    <2>3. mem' = Stored(s.w, v) /\ read_loc' = s.r /\ write_loc' = s.w + RecSize
          /\ queue' = Append(Tail(queue), v)
        BY <1>3 DEF ringbuf_rolling_push
    <2> HIDE DEF s
    <2>4. Good(Stored(s.w, v), s.r, s.w + RecSize, Append(Tail(queue), v))
        BY <2>1, <2>2, StoredAfter
    <2>5. QED
        BY <2>3, <2>4 DEF RingInv, Good
<1>4. ASSUME ringbuf_pop PROVE RingInv'
    <2> DEFINE s == ringbuf_rseek(read_loc, write_loc, RecSize)
    <2>1. Len(queue) > 0
        <3>1. /\ write_loc - read_loc = Len(queue) * RecSize /\ Len(queue) \in Nat
              /\ read_loc \in Nat /\ write_loc \in Nat /\ read_loc # write_loc /\ RecSize \in Nat
            BY <1>1, <1>4, RingAssumption DEF RingInv, Good, ringbuf_pop
        <3>2. Len(queue) = 0 => Len(queue) * RecSize = 0
            BY <3>1
        <3>3. QED
            BY <3>1, <3>2
    <2>2. Good(mem, s.r, s.w, Tail(queue))
        BY <1>1, <2>1, Dropped DEF RingInv
    <2>3. mem' = mem /\ read_loc' = s.r /\ write_loc' = s.w /\ queue' = Tail(queue)
        BY <1>4 DEF ringbuf_pop
    <2> HIDE DEF s
    <2>4. QED
        BY <2>2, <2>3 DEF RingInv, Good
<1>5. ASSUME UNCHANGED vars PROVE RingInv'
    BY <1>1, <1>5 DEF RingInv, Good, vars
<1>6. QED
    BY <1>1, <1>2, <1>3, <1>4, <1>5 DEF Next

(* For every capacity and record size, a reader of the ring finds whole    *)
(* records in the order they were pushed.                                  *)
THEOREM RingIsQueue == Spec => [](InsideMapping /\ SizeIsQueue /\ RingFifo)
<1>1. Init => RingInv
    <2>1. SUFFICES ASSUME Init PROVE RingInv
        OBVIOUS
    <2>2. Len(<<>>) = 0 /\ <<>> \in Seq(Values) /\ 0 * RecSize = 0 /\ 0 < Capacity /\ Capacity \in Nat
        BY RingAssumption
    <2>3. QED
        BY <2>1, <2>2 DEF Init, ringbuf_init, RingInv, Good
<1>2. RingInv /\ [Next]_vars => RingInv'
    BY RingStep
<1>3. RingInv => InsideMapping /\ SizeIsQueue /\ RingFifo
    BY DEF RingInv, Good, InsideMapping, SizeIsQueue, ringbuf_size, RingFifo
<1>4. QED
    BY <1>1, <1>2, <1>3, PTL DEF Spec
=============================================================================
