------------------------------- MODULE VmBuf --------------------------------
(***************************************************************************)
(* Growing buffers in mapped memory: struct vmbuf (anonymous, or of fixed  *)
(* size), struct vmfile (a mapped file that is cut to its data when it is  *)
(* closed) and struct vmallocator (the same, and it can be opened again).  *)
(*                                                                         *)
(* A buffer is a record.  An operation is the set of its outcomes, since   *)
(* each mremap may fail; `ok' is what it returned.  Callers stop using a   *)
(* buffer that reported an error, one of fixed size until it is reset.     *)
(* `top' is the end of what was ever stored in the current mapping;        *)
(* `overrun' says that an operation stored outside it.                     *)
(***************************************************************************)
EXTENDS Integers

CONSTANTS Page,        \* 4096
          Header,      \* sizeof(struct vmbuf_header)
          Align,       \* 8: alignment of vmbuf_alloc_aligned
          Kinds,       \* \subseteq {"anon", "fixed", "file", "allocator"}
          Lengths,     \* what is stored at once
          MaxCapacity  \* bound: the mapping cannot grow beyond this

VARIABLES buf,         \* the buffer, and flen, the length of the file behind it
          open,
          clean        \* length of the data at the last orderly close, or -1

vars == <<buf, open, clean>>

RoundUp(n, s) == ((n + s - 1) \div s) * s

Larger(a, b) == IF a > b THEN a ELSE b

IsFile(b) == b.kind \in {"file", "allocator"}

wavail(b) == b.cap - b.wloc

(* Stores up to offset `to'. *)
Touch(b, to) == [b EXCEPT !.top = Larger(@, to)]

Failed(b) == [b EXCEPT !.ok = FALSE]

(* mem_resize of _mem_funcs_*; ftruncate and mremap of a file: the file    *)
(* has its new length even if the mapping fails.                           *)
resize_mapping_first(b, cap) == {Failed(b)} \cup (IF cap <= MaxCapacity THEN {[b EXCEPT !.cap = cap]} ELSE {})

mem_resize(b, cap) ==
    {Failed(b)} \cup
    (IF b.kind = "fixed" \/ cap > MaxCapacity THEN {}
     ELSE IF IsFile(b) THEN {[b EXCEPT !.cap = cap, !.flen = cap], [Failed(b) EXCEPT !.flen = cap]}
     ELSE {[b EXCEPT !.cap = cap]})

(* _vmbuf_change_capacity: the rounding includes the header. *)
vmbuf_change_capacity(b, n) == mem_resize(b, RoundUp(n + Header, Page) - Header)

vmbuf_add_capacity(b) == vmbuf_change_capacity(b, 2 * b.cap)

vmbuf_resize_by(b, n) == vmbuf_change_capacity(b, b.cap + n)

vmfile_resize_to(b, n) == mem_resize(b, RoundUp(n, Page))

(* vmfile_resize_no_check: doubled until more than n is available. *)
vmfile_resize_no_check(b, n) ==
    LET d == CHOOSE i \in 1..8 : /\ b.cap * 2 ^ i - b.wloc > n
                                 /\ \A j \in 1..(i - 1) : b.cap * 2 ^ j - b.wloc <= n
    IN vmfile_resize_to(b, b.cap * 2 ^ d)

resize_if_full(b) ==
    IF b.wloc # b.cap THEN {b}
    ELSE IF IsFile(b) THEN vmfile_resize_to(b, 2 * b.cap) ELSE vmbuf_add_capacity(b)

wseek(b, n) == resize_if_full([b EXCEPT !.wloc = @ + n])

(* Grows x in rounds of Step while Short(x); 3 rounds pass MaxCapacity. *)
While(Short(_), Step(_), b) ==
    LET after[i \in 0..3] == IF i = 0 THEN {b}
                             ELSE UNION {IF x.ok /\ Short(x) THEN Step(x) ELSE {x} : x \in after[i - 1]}
    IN after[3]

vmbuf_resize_if_less(b, n) == LET Short(x) == n > wavail(x) IN While(Short, vmbuf_add_capacity, b)

resize_if_less(b, n) ==
    IF ~IsFile(b) THEN vmbuf_resize_if_less(b, n)
    ELSE IF n <= wavail(b) THEN {b} ELSE vmfile_resize_no_check(b, n)

too_long(b, n) == n >= wavail(b)

(* vmbuf_vsprintf: n characters and a \0 that wseek does not count.        *)
vmbuf_vsprintf(b, n) ==
    LET Short(x) == too_long(x, n)
        Step(x) == IF IsFile(x) THEN vmfile_resize_no_check(Touch(x, x.cap), n)
                                ELSE vmbuf_add_capacity(Touch(x, x.cap))
    IN UNION {IF x.ok THEN wseek(Touch(x, x.wloc + n + 1), n) ELSE {x} : x \in While(Short, Step, b)}

(* strftime() reports the lack of room by 0. *)
vmbuf_strftime(b, n) ==
    LET Short(x) == n >= wavail(x)
        Step(x) == IF IsFile(x) THEN vmfile_resize_to(x, x.cap + Page) ELSE vmbuf_resize_by(x, Page)
    IN UNION {IF x.ok THEN wseek(Touch(x, x.wloc + n + 1), n) ELSE {x} : x \in While(Short, Step, b)}

(* Stores n in pieces that fill the buffer, which grows in between         *)
(* (vmbuf_strcpy, vmbuf_read).                                             *)
InPieces(b, n) ==
    LET piece(x) == IF x.n < wavail(x.b) THEN x.n ELSE wavail(x.b)
        stored(x) == {[b |-> y, n |-> x.n - piece(x)] :
                        y \in wseek(Touch(x.b, x.b.wloc + piece(x)), piece(x))}
        after[i \in 0..3] == IF i = 0 THEN {[b |-> b, n |-> n]}
                             ELSE UNION {IF x.b.ok /\ x.n > 0 THEN stored(x) ELSE {x} : x \in after[i - 1]}
    IN {x.b : x \in after[3]}

vmbuf_strcpy(b, n) ==
    {IF x.ok THEN Touch(x, x.wloc + 1) ELSE x : x \in InPieces(b, n)}

(* vmbuf_read of n bytes that have arrived. *)
vmbuf_read(b, n) == InPieces(b, n)

vmbuf_chrcpy(b) == wseek(Touch(b, b.wloc + 1), 1)

(* The result of the resize is not looked at. *)
vmbuf_memcpy(b, n) ==
    UNION {wseek([Touch(x, x.wloc + n) EXCEPT !.ok = TRUE, !.overrun = ~x.ok], n) : x \in resize_if_less(b, n)}

vmbuf_alloc(b, n) == UNION {IF x.ok THEN wseek(Touch(x, x.wloc + n), n) ELSE {x} : x \in resize_if_less(b, n)}

vmbuf_alloc_aligned(b, n) == vmbuf_alloc([b EXCEPT !.wloc = RoundUp(@, Align)], n)

(* Zeroes what S allocated, at offset -1 if that failed. *)
Zeroed(S) == {[x EXCEPT !.overrun = ~x.ok] : x \in S}

vmbuf_alloczero(b, n) == Zeroed(vmbuf_alloc(b, n))

(* From offset 0.  Again the result of the resize is not looked at; a      *)
(* vmfile is not resized.                                                  *)
vmbuf_memset(b, n) ==
    {[Touch(x, n) EXCEPT !.ok = TRUE, !.overrun = ~x.ok \/ n > x.cap] :
        x \in IF b.cap < n /\ ~IsFile(b) THEN vmbuf_resize_if_less(b, n) ELSE {b}}

(* Removes the last character if it is the given one. *)
vmbuf_remove_last_if(b) == IF b.wloc > 0 THEN {b, [b EXCEPT !.wloc = @ - 1]} ELSE {b}

(* vmbuf_write of what the peer takes. *)
vmbuf_write(b) == {[b EXCEPT !.rloc = r] : r \in b.rloc..b.wloc}

vmbuf_reset(b) == [b EXCEPT !.wloc = 0, !.rloc = 0]
-----------------------------------------------------------------------------
vmallocator_check_resize(b, n) ==
    IF wavail(b) >= n THEN {b}
    ELSE mem_resize(b, CHOOSE p \in {2 ^ i : i \in 0..8} :
                           p >= b.wloc + n /\ \A i \in 0..8 : 2 ^ i >= b.wloc + n => 2 ^ i >= p)

vmallocator_alloc(b, n) ==
    {IF x.ok THEN [Touch(x, x.wloc + n) EXCEPT !.wloc = @ + n] ELSE x : x \in vmallocator_check_resize(b, n)}

vmallocator_alloc_aligned(b, n) == vmallocator_alloc([b EXCEPT !.wloc = RoundUp(@, Align)], n)

vmallocator_alloczero(b, n) == Zeroed(vmallocator_alloc(b, n) \cup vmallocator_alloc_aligned(b, n))
-----------------------------------------------------------------------------
Buffer(k, cap) == [kind |-> k, cap |-> cap, wloc |-> 0, rloc |-> 0, top |-> 0,
                   ok |-> TRUE, overrun |-> FALSE, flen |-> IF k \in {"file", "allocator"} THEN cap ELSE 0]

vmbuf_init == \E k \in Kinds \ {"file", "allocator"} : buf = Buffer(k, Page - Header)

(* vmfile_attachfd, and vmallocator_open of a file that is created. *)
vmfile_init == \E k \in Kinds \cap {"file", "allocator"} : buf = Buffer(k, Page)

Init == (vmbuf_init \/ vmfile_init) /\ open = TRUE /\ clean = -1

Outcomes(b, n) ==
    IF b.kind = "allocator"
      THEN vmallocator_alloc(b, n) \cup vmallocator_alloc_aligned(b, n) \cup vmallocator_alloczero(b, n)
    ELSE vmbuf_vsprintf(b, n) \cup vmbuf_strftime(b, n) \cup vmbuf_strcpy(b, n) \cup vmbuf_read(b, n)
           \cup vmbuf_chrcpy(b) \cup vmbuf_memcpy(b, n) \cup vmbuf_alloc(b, n)
           \cup vmbuf_alloc_aligned(b, n) \cup vmbuf_alloczero(b, n)
           \cup vmbuf_memset(b, n) \cup vmbuf_write(b)
           \* callers remove only what they have not written out yet
           \cup IF b.rloc < b.wloc THEN vmbuf_remove_last_if(b) ELSE {}

Use ==
    /\ open /\ buf.ok /\ ~buf.overrun
    /\ \E n \in Lengths : buf' \in Outcomes(buf, n)
    /\ UNCHANGED <<open, clean>>

(* vmbuf_init of a buffer in use.  A failed mremap has left MAP_FAILED in  *)
(* vmbuf->mem: such a buffer cannot be reset, its header is gone.          *)
Reset ==
    /\ open /\ ~IsFile(buf)
    /\ buf.kind = "anon" => (buf.ok /\ ~buf.overrun)
    /\ buf' = [vmbuf_reset(buf) EXCEPT !.ok = TRUE, !.overrun = FALSE, !.top = 0]
    /\ UNCHANGED <<open, clean>>

close_length == buf.wloc

Closed(flen) ==
    /\ open' = FALSE
    /\ buf' = [buf EXCEPT !.flen = flen]
    /\ clean' = buf.wloc

vmfile_close == open /\ buf.kind = "file" /\ Closed(buf.wloc)

(* A file that looks as long as its data is not cut. *)
vmallocator_close ==
    /\ open /\ buf.kind = "allocator"
    /\ Closed(IF buf.cap # buf.wloc THEN close_length ELSE buf.flen)

(* The process ends without closing: the file keeps the mapped length.     *)
Crash ==
    /\ open /\ buf.kind = "allocator"
    /\ open' = FALSE /\ clean' = -1
    /\ UNCHANGED buf

(* Opened again for writing: what is in the file is data, and the mapping  *)
(* is rounded up to pages.                                                 *)
open_capacity == Larger(Page, RoundUp(buf.flen, Page))

vmallocator_open ==
    /\ ~open /\ buf.kind = "allocator"
    /\ open' = TRUE
    /\ buf' = [Buffer("allocator", open_capacity) EXCEPT !.wloc = buf.flen, !.top = buf.flen]
    /\ UNCHANGED clean

Next == Use \/ Reset \/ vmfile_close \/ vmallocator_close \/ Crash \/ vmallocator_open

Spec == Init /\ [][Next]_vars
-----------------------------------------------------------------------------
(* Nothing is stored outside the mapping, a trailing \0 included, whether  *)
(* or not the mapping could grow; except that vmbuf_memcpy, vmbuf_memset   *)
(* and the alloczero functions store even after the growth they need has   *)
(* failed, and that vmfile_memset does not check.                          *)
StoresInside == (open /\ ~buf.overrun) => buf.top <= buf.cap

(* There is always room for one more after an operation that succeeded:    *)
(* the next read() asks for at least one byte, so that 0 means the end of  *)
(* the connection, and vmbuf_chrcpy need not check.  Aligning wloc keeps   *)
(* within the capacity because that is a multiple of the alignment.        *)
RoomLeft == (open /\ buf.ok /\ ~buf.overrun /\ buf.kind # "allocator") => buf.wloc < buf.cap

(* What is mapped is backed by the file (a store beyond its end would be   *)
(* a SIGBUS), also when growing failed half way.                           *)
FileBacksMapping == (open /\ IsFile(buf)) => buf.cap <= buf.flen

(* A file closed in order is found again as it was: as long as its data,   *)
(* and data is what the next writer appends to.  Unless its data filled    *)
(* the mapping when this failed to grow after the file had: then it is     *)
(* closed, and found, as long as it would have become.                     *)
DataFoundAgain ==
    [][(~open /\ open' /\ clean >= 0) =>
          /\ buf'.wloc = clean \/ (~buf.ok /\ clean = buf.cap)
          /\ buf'.wloc <= buf'.cap]_vars
=============================================================================
