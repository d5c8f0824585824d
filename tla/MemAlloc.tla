------------------------------ MODULE MemAlloc ------------------------------
(***************************************************************************)
(* The memory of fibers: mempool.c keeps free chunks by size, memalloc.c   *)
(* carves a context's allocations out of blocks that double in size, and   *)
(* __ribs_context_cleanup gives the blocks back when the fiber ends.       *)
(* Libraries whose malloc() is redirected to ribify.c allocate there too;  *)
(* what they keep beyond the end of the fiber is told by a count of their  *)
(* malloc()s and free()s.                                                  *)
(*                                                                         *)
(* Sizes are in units; the header of a block takes one.  An allocation is  *)
(* [chunk, from, to), and its owner is the context or "library"; or        *)
(* "spoilt" if it is a library's and its fiber ended with a count that a   *)
(* free() of another fiber's memory had put wrong.                         *)
(***************************************************************************)
EXTENDS Integers, Sequences, FiniteSets

CONSTANTS Ctxs,
          InitialBlock,  \* MEMALLOC_INITIAL_BLOCK_SIZE
          MaxBlock,      \* MAX_CHUNK_SIZE
          Lengths,       \* lengths callers ask for
          MaxChunks,     \* bound: chunks mapped
          MaxAllocs      \* bound: allocations in use at once

VARIABLES memchunks,     \* size -> free chunks, head first
          csize,         \* chunk -> its size
          blocks,        \* ctx -> memblocks: [chunk, type]
          cur,           \* ctx -> chunk that ma->mem points into, 0: none
          capacity, avail,
          refcount,      \* ribify_memalloc_refcount
          foreign,       \* history: fibers in which another's memory was free()d
          allocs,        \* what was allocated and is still in use
          lost           \* chunks left to libraries for good

mvars == <<blocks, cur, capacity, avail>>
vars == <<memchunks, csize, mvars, refcount, foreign, allocs, lost>>

Header == 1

Pow2Sizes == {InitialBlock * 2 ^ i : i \in 0..3} \cap 1..MaxBlock

Chunks == 1..Len(csize)
-----------------------------------------------------------------------------

(* mempool_alloc_chunk: ch becomes the caller's. *)
mempool_alloc_chunk(s, pool, sizes) ==
    IF pool[s] # <<>>
      THEN [ch |-> Head(pool[s]), pool |-> [pool EXCEPT ![s] = Tail(@)], sizes |-> sizes]
      ELSE [ch |-> Len(sizes) + 1, pool |-> pool, sizes |-> Append(sizes, s)]

mempool_free_chunk(ch, pool) == [pool EXCEPT ![csize[ch]] = <<ch>> \o @]

(* The state of one struct memalloc with the pool behind it. *)
State(c) == [pool |-> memchunks, sizes |-> csize, blocks |-> blocks[c],
             cur |-> cur[c], capacity |-> capacity[c], avail |-> avail[c]]

memalloc_new_block(m) ==
    LET size == IF m.capacity = 0 THEN InitialBlock ELSE 2 * m.capacity
        a == mempool_alloc_chunk(size, m.pool, m.sizes)
    IN [pool |-> a.pool, sizes |-> a.sizes,
        blocks |-> Append(m.blocks, [chunk |-> a.ch, type |-> "malloc"]),
        cur |-> a.ch, capacity |-> size, avail |-> size - Header]

(* memalloc_resize_if_less: new blocks until n units are available; at     *)
(* most four blocks fit below MaxBlock.                                    *)
Enlarged(m, n) ==
    LET grown[i \in 0..4] ==
            IF i = 0 THEN m
            ELSE LET g == grown[i - 1] IN
                 IF g.avail >= n \/ 2 * g.capacity > MaxBlock THEN g ELSE memalloc_new_block(g)
    IN grown[4]

memalloc_seek(m, n) == [m EXCEPT !.avail = @ - n]

Position(m) == IF m.cur = 0 THEN 0 ELSE m.sizes[m.cur] - m.avail

(* Writes the state back, within the bounds.                               *)
Becomes(c, m) ==
    /\ Len(m.sizes) <= MaxChunks /\ Cardinality(allocs') <= MaxAllocs
    /\ memchunks' = m.pool /\ csize' = m.sizes
    /\ blocks' = [blocks EXCEPT ![c] = m.blocks]
    /\ cur' = [cur EXCEPT ![c] = m.cur]
    /\ capacity' = [capacity EXCEPT ![c] = m.capacity]
    /\ avail' = [avail EXCEPT ![c] = m.avail]
    /\ UNCHANGED lost

(* memalloc_alloc, memalloc_memcpy; and memalloc_strcpy, memalloc_vsprintf *)
(* and memalloc_strftime, which need one more for the \0.                  *)
memalloc_alloc(c, n, owner) ==
    LET m == Enlarged(State(c), n) IN
    /\ m.avail >= n
    /\ allocs' = allocs \cup {[chunk |-> m.cur, from |-> Position(m), to |-> Position(m) + n,
                               owner |-> owner]}
    /\ Becomes(c, memalloc_seek(m, n))

memalloc_strcpy(c, n) == memalloc_alloc(c, n + 1, c)

(* memalloc_strcat_vsprintf adds n characters to the string a, the last    *)
(* one of the block, over its \0; or to a copy of it in a new block.       *)
Last(c, a) == a.owner = c /\ a.chunk = cur[c] /\ a.to = Position(State(c))

copy_length(a) == a.to - a.from

strcat_extends(c, a, n) ==
    /\ n < avail[c] + 1 /\ avail[c] # 0
    /\ allocs' = (allocs \ {a}) \cup {[a EXCEPT !.to = @ + n]}
    /\ Becomes(c, memalloc_seek(State(c), n))

strcat_copies(c, a, n) ==
    LET m == Enlarged(memalloc_new_block(State(c)), copy_length(a) + n) IN
    /\ ~(n < avail[c] + 1 /\ avail[c] # 0)
    /\ 2 * capacity[c] <= MaxBlock
    /\ m.avail >= copy_length(a) + n
    /\ allocs' = (allocs \ {a}) \cup
                   {[chunk |-> m.cur, from |-> Position(m),
                     to |-> Position(m) + (a.to - a.from) + n, owner |-> c]}
    /\ Becomes(c, memalloc_seek(m, copy_length(a) + n))

memalloc_strcat_vsprintf(c) ==
    \E a \in allocs, n \in Lengths :
        Last(c, a) /\ (strcat_extends(c, a, n) \/ strcat_copies(c, a, n)) /\ UNCHANGED <<refcount, foreign>>

(* The character before the \0 goes if it is the one to remove (any may    *)
(* be).  If the string is empty, that is the last byte of the allocation   *)
(* before it, and the string loses its own only byte.                      *)
memalloc_str_remove_last_if(c) ==
    \E a \in allocs :
        /\ Last(c, a)
        /\ \/ a.to - a.from > 1 /\ allocs' = (allocs \ {a}) \cup {[a EXCEPT !.to = @ - 1]}
           \/ /\ a.to - a.from = 1
              /\ \E b \in allocs : b.chunk = a.chunk /\ b.to = a.from
              /\ allocs' = allocs \ {a}
        /\ Becomes(c, memalloc_seek(State(c), -1))
        /\ UNCHANGED <<refcount, foreign>>

(* A buffer with a block of its own (vmbuf_init_tmp). *)
memalloc_alloc_raw(c) ==
    LET a == mempool_alloc_chunk(InitialBlock, memchunks, csize) IN
    /\ allocs' = allocs \cup {[chunk |-> a.ch, from |-> Header, to |-> InitialBlock, owner |-> c]}
    /\ Becomes(c, [State(c) EXCEPT !.pool = a.pool, !.sizes = a.sizes,
                                   !.blocks = Append(@, [chunk |-> a.ch, type |-> "buf"])])
    /\ UNCHANGED <<refcount, foreign>>

memalloc_free_raw(c) ==
    \E i \in 1..Len(blocks[c]) :
        /\ blocks[c][i].type = "buf"
        /\ blocks' = [blocks EXCEPT ![c] = SubSeq(@, 1, i - 1) \o SubSeq(@, i + 1, Len(@))]
        /\ memchunks' = mempool_free_chunk(blocks[c][i].chunk, memchunks)
        /\ allocs' = {a \in allocs : ~(a.chunk = blocks[c][i].chunk /\ a.owner = c)}
        /\ UNCHANGED <<csize, cur, capacity, avail, refcount, foreign, lost>>

ribs_malloc(c) ==
    \E n \in Lengths : (memalloc_alloc(c, n, c) \/ memalloc_strcpy(c, n)) /\ UNCHANGED <<refcount, foreign>>
-----------------------------------------------------------------------------
is_mine(c, a) == \E i \in 1..Len(blocks[c]) : blocks[c][i].chunk = a.chunk

Library == "library"
Spoilt == "spoilt"
Libraries == {Library, Spoilt}

ribified_malloc(c) ==
    /\ \E n \in Lengths : memalloc_alloc(c, n, Library)
    /\ refcount' = [refcount EXCEPT ![c] = @ + 1]
    /\ UNCHANGED foreign

(* history: c's count goes down for memory that c's count did not go up for *)
Unbalances(c, a) == foreign' = IF a.owner = Library /\ is_mine(c, a) THEN foreign ELSE foreign \cup {c}

(* The memory itself is not given back.  The current fiber's count goes    *)
(* down, whichever fiber called malloc().                                  *)
ribified_free(c) ==
    \E a \in allocs :
        /\ a.owner \in Libraries
        /\ refcount[c] >= 0                        \* bound
        /\ allocs' = allocs \ {a}
        /\ refcount' = [refcount EXCEPT ![c] = @ - 1]
        /\ Unbalances(c, a)
        /\ UNCHANGED <<memchunks, csize, mvars, lost>>

realloc_freed(c, a) == IF is_mine(c, a) THEN 1 ELSE 0

(* realloc() of memory from an earlier fiber is expected: only one's own   *)
(* counts as freed.                                                        *)
ribified_realloc(c) ==
    \E a \in allocs, n \in Lengths :
        LET m == Enlarged(State(c), n) IN
        /\ a.owner \in Libraries
        /\ m.avail >= n
        /\ allocs' = (allocs \ {a}) \cup {[chunk |-> m.cur, from |-> Position(m),
                                           to |-> Position(m) + n, owner |-> Library]}
        /\ Becomes(c, memalloc_seek(m, n))
        /\ refcount' = [refcount EXCEPT ![c] = @ - realloc_freed(c, a) + 1]
        /\ IF is_mine(c, a) THEN Unbalances(c, a) ELSE UNCHANGED foreign

freed_types_any(c) == {"malloc", "buf"}

freed_types(c) == IF refcount[c] = 0 THEN {"malloc", "buf"} ELSE {"buf"}

(* The end of the fiber: memalloc_reset, or memalloc_reset2 with           *)
(* MEMALLOC_MEM_TYPE_BUF if a library did not free() everything.           *)
ribs_context_cleanup(c) ==
    LET gone == {blocks[c][i].chunk : i \in {j \in 1..Len(blocks[c]) : blocks[c][j].type \in freed_types(c)}}
        kept == {blocks[c][i].chunk : i \in 1..Len(blocks[c])} \ gone
        freed[i \in 0..Len(blocks[c])] ==
            IF i = 0 THEN memchunks
            ELSE IF blocks[c][i].chunk \in gone THEN mempool_free_chunk(blocks[c][i].chunk, freed[i - 1])
            ELSE freed[i - 1]
    IN /\ blocks[c] # <<>> \/ refcount[c] # 0
       /\ memchunks' = freed[Len(blocks[c])]
       /\ blocks' = [blocks EXCEPT ![c] = <<>>]
       /\ cur' = [cur EXCEPT ![c] = 0]
       /\ capacity' = [capacity EXCEPT ![c] = 0]
       /\ avail' = [avail EXCEPT ![c] = 0]
       /\ refcount' = [refcount EXCEPT ![c] = 0]
       /\ lost' = lost \cup kept
       /\ foreign' = foreign \ {c}
       /\ allocs' = {IF c \in foreign /\ a.chunk \in gone THEN [a EXCEPT !.owner = Spoilt] ELSE a :
                       a \in {b \in allocs : b.owner # c}}
       /\ UNCHANGED csize

Init ==
    /\ memchunks = [s \in Pow2Sizes |-> <<>>] /\ csize = <<>>
    /\ blocks = [c \in Ctxs |-> <<>>] /\ cur = [c \in Ctxs |-> 0]
    /\ capacity = [c \in Ctxs |-> 0] /\ avail = [c \in Ctxs |-> 0]
    /\ refcount = [c \in Ctxs |-> 0] /\ foreign = {} /\ allocs = {} /\ lost = {}

Next == \E c \in Ctxs :
    \/ ribs_malloc(c) \/ memalloc_strcat_vsprintf(c) \/ memalloc_str_remove_last_if(c)
    \/ memalloc_alloc_raw(c) \/ memalloc_free_raw(c)
    \/ ribified_malloc(c) \/ ribified_free(c) \/ ribified_realloc(c)
    \/ ribs_context_cleanup(c)

Spec == Init /\ [][Next]_vars
-----------------------------------------------------------------------------
FreeChunks == UNION {{memchunks[s][i] : i \in 1..Len(memchunks[s])} : s \in Pow2Sizes}

OwnedBy(c) == {blocks[c][i].chunk : i \in 1..Len(blocks[c])}

(* A chunk is free, in the blocks of one context or left to a library:     *)
(* never in two of these, whatever order fibers end in.                    *)
ChunksOnce ==
    /\ \A c, d \in Ctxs : c # d => OwnedBy(c) \cap OwnedBy(d) = {}
    /\ \A c \in Ctxs : OwnedBy(c) \cap (FreeChunks \cup lost) = {}
    /\ FreeChunks \cap lost = {}
    /\ Chunks = FreeChunks \cup lost \cup UNION {OwnedBy(c) : c \in Ctxs}

(* Allocations lie inside their chunk behind its header and overlap no     *)
(* other, through growing strings that are extended in place, copied or    *)
(* shortened.  Excepted is memory that was spoilt (UsedMemoryKept), and an *)
(* empty string that memalloc_str_remove_last_if was called for.           *)
AllocationsApart ==
    /\ \A a \in allocs : Header <= a.from /\ a.from < a.to /\ a.to <= csize[a.chunk]
    /\ \A a, b \in allocs :
         (a # b /\ a.chunk = b.chunk /\ Spoilt \notin {a.owner, b.owner}) =>
             (a.to <= b.from \/ b.to <= a.from)

(* Memory in use, a library's that outlives its fiber included, is not in  *)
(* the pool of free chunks, nor in a block of a fiber that will reuse it,  *)
(* whichever fibers ended and whatever was freed in which.  Only a fiber   *)
(* in which a library freed memory of another fiber may end with a count   *)
(* of 0 while a library still uses memory of its own, which is then reused.*)
UsedMemoryKept ==
    \A a \in allocs : a.owner # Spoilt =>
        /\ a.chunk \notin FreeChunks
        /\ a.owner \in Ctxs => is_mine(a.owner, a)
=============================================================================
