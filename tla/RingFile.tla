------------------------------ MODULE RingFile ------------------------------
(***************************************************************************)
(* ringfile.c and _ringfile.c: the ring buffer in a mapped file, whose     *)
(* header keeps the locations, so that it survives the process.  When it   *)
(* is opened with another capacity its records are moved through a new     *)
(* file and rename(), one step at a time here.  The process may end        *)
(* between two steps, and between two stores of one: the stores of an      *)
(* operation are a sequence of files, the last of which is its result.     *)
(* Records have one unit and the reserved area one value.                  *)
(***************************************************************************)
EXTENDS Integers, Sequences, SequencesExt

CONSTANTS Capacities,  \* rounded to pages
          Values,      \* records
          Reserved,    \* contents of the reserved area
          MaxCrashes   \* bound

VARIABLES main, temp,  \* the file and <file>.new.temp
          pc,          \* "closed", "open", or the step a resize is at
          target,      \* capacity asked for
          mode,        \* "evict", "safe" or "plain": how the file is opened
          hist,        \* history: the last records pushed, oldest first
          before,      \* history: the records when the resize began
          crashes,
          torn         \* history: the process ended between the stores of both locations

vars == <<main, temp, pc, target, mode, hist, before, crashes, torn>>

NoFile == [cap |-> 0]

ringfile_size(f) == f.w - f.r

ringfile_avail(f) == f.cap - (f.w - f.r)

(* The mapping is double. *)
At(f, o) == f.cells[IF o < f.cap THEN o ELSE o - f.cap]

Contents(f) == [i \in 1..ringfile_size(f) |-> At(f, f.r + i - 1)]

rseek_stores(f, by) ==
    LET g == [f EXCEPT !.r = @ + by]
        h == [g EXCEPT !.r = @ - f.cap]
    IN IF g.r < f.cap THEN <<g>> ELSE <<g, h, [h EXCEPT !.w = @ - f.cap]>>

ringfile_rseek(f, by) == Last(rseek_stores(f, by))

rseek_reverse_stores(f, by) ==
    LET g == [f EXCEPT !.r = @ + f.cap]
        h == [g EXCEPT !.w = @ + f.cap]
    IN IF f.r < by THEN <<g, h, [h EXCEPT !.r = @ - by]>> ELSE <<[f EXCEPT !.r = @ - by]>>

ringfile_rseek_reverse(f, by) == Last(rseek_reverse_stores(f, by))

reset_stores(f) == <<[f EXCEPT !.w = 0], [f EXCEPT !.w = 0, !.r = 0]>>

(* ringfile_push moves the write location, then its caller stores there.   *)
push_stores(f, v) ==
    LET g == [f EXCEPT !.w = @ + 1]
    IN <<g, [g EXCEPT !.cells[IF f.w < f.cap THEN f.w ELSE f.w - f.cap] = v]>>

Put(f, v) == Last(push_stores(f, v))

Unfinished == 0             \* not one of Values

NewFile(cap) == [cap |-> cap, r |-> 0, w |-> 0, cells |-> [o \in 0..(cap - 1) |-> 0], res |-> 0]

LastOf(s, n) == SubSeq(s, Len(s) - n + 1, Len(s))

AtMost(s, n) == IF Len(s) <= n THEN s ELSE LastOf(s, n)
-----------------------------------------------------------------------------
(* Operations on the open file.                                            *)
ringfile_push(v) ==
    /\ pc = "open" /\ ringfile_avail(main) >= 1
    /\ main' = Put(main, v)
    /\ hist' = AtMost(Append(hist, v), main.cap)
    /\ UNCHANGED <<temp, pc, target, mode, before, crashes, torn>>

ringfile_rolling_push(v) ==
    /\ pc = "open" /\ ringfile_avail(main) < 1
    /\ main' = Put(ringfile_rseek(main, 1), v)
    /\ hist' = AtMost(Append(hist, v), main.cap)
    /\ UNCHANGED <<temp, pc, target, mode, before, crashes, torn>>

ringfile_pop ==
    /\ pc = "open" /\ ringfile_size(main) > 0
    /\ main' = ringfile_rseek(main, 1)
    /\ UNCHANGED <<temp, pc, target, mode, hist, before, crashes, torn>>

(* Back to a record that was read and is not overwritten yet. *)
ReadAgain ==
    /\ pc = "open" /\ Len(hist) > ringfile_size(main)
    /\ main' = ringfile_rseek_reverse(main, 1)
    /\ UNCHANGED <<temp, pc, target, mode, hist, before, crashes, torn>>

ringfile_reset ==
    /\ pc = "open"
    /\ main' = Last(reset_stores(main))
    /\ hist' = <<>>
    /\ UNCHANGED <<temp, pc, target, mode, before, crashes, torn>>

UseReserved ==
    /\ pc = "open"
    /\ \E x \in Reserved : main' = [main EXCEPT !.res = x]
    /\ UNCHANGED <<temp, pc, target, mode, hist, before, crashes, torn>>

(* munmap, or the end of the process: the file is what was mapped.         *)
ringfile_free ==
    /\ pc = "open" /\ pc' = "closed"
    /\ UNCHANGED <<main, temp, target, mode, hist, before, crashes, torn>>
-----------------------------------------------------------------------------

(* ringfile_init_with_resize, ringfile_init_safe_resize (an error leaves   *)
(* the file alone) and ringfile_init begin.                                *)
refused(m, cap) == m = "safe" /\ main # NoFile /\ cap < main.cap

needs_resize(m, cap) == m # "plain" /\ main # NoFile /\ main.cap # cap

open_ringfile ==
    /\ pc = "closed" /\ ~torn
    /\ \E m \in {"evict", "safe", "plain"}, cap \in Capacities :
         /\ ~refused(m, cap)
         /\ mode' = m /\ target' = cap
         /\ before' = IF main = NoFile THEN <<>> ELSE Contents(main)
         /\ pc' = IF needs_resize(m, cap) THEN "evict" ELSE "init"
    /\ UNCHANGED <<main, temp, hist, crashes, torn>>

(* evict_one_rec, or one ringfile_rseek: in the old file itself. *)
evicted(f, cap) == IF ringfile_size(f) > cap THEN ringfile_size(f) - cap ELSE 0

resize_evict ==
    /\ pc = "evict" /\ pc' = "create"
    /\ main' = ringfile_rseek(main, evicted(main, target))
    /\ UNCHANGED <<temp, target, mode, hist, before, crashes, torn>>

resize_create ==
    /\ pc = "create" /\ pc' = "copy"
    /\ temp' = NewFile(target)
    /\ UNCHANGED <<main, target, mode, hist, before, crashes, torn>>

copied_data_only(new, old) ==
    [new EXCEPT !.cells = [o \in DOMAIN @ |-> IF o < ringfile_size(old) THEN At(old, old.r + o) ELSE @[o]],
                !.w = ringfile_size(old)]

copied(new, old) ==
    [new EXCEPT !.res = old.res,
                !.cells = [o \in DOMAIN @ |-> IF o < ringfile_size(old) THEN At(old, old.r + o) ELSE @[o]],
                !.w = ringfile_size(old)]

resize_copy ==
    /\ pc = "copy" /\ pc' = "rename"
    /\ temp' = copied(temp, main)
    /\ UNCHANGED <<main, target, mode, hist, before, crashes, torn>>

resize_rename ==
    /\ pc = "rename" /\ pc' = "init"
    /\ main' = temp /\ temp' = NoFile
    /\ hist' = LastOf(hist, ringfile_size(temp))
    /\ UNCHANGED <<target, mode, before, crashes, torn>>

(* ftruncate, map; another capacity than the header's resets the locations.*)
ringfile_init ==
    /\ pc = "init" /\ pc' = "open"
    /\ main' = IF main = NoFile THEN NewFile(target)
               ELSE IF main.cap = target THEN main
               ELSE [NewFile(target) EXCEPT !.res = main.res]
    /\ hist' = IF main # NoFile /\ main.cap = target THEN hist ELSE <<>>
    /\ target' = 0 /\ mode' = "plain" /\ before' = <<>>
    /\ UNCHANGED <<temp, crashes, torn>>

(* The process has made some of the stores only. *)
Inside(stores) == \E i \in 1..(Len(stores) - 1) : main' = stores[i]

BetweenLocations ==
    \/ pc = "open" /\ ringfile_size(main) > 0 /\ Inside(rseek_stores(main, 1))
    \/ pc = "open" /\ Len(hist) > ringfile_size(main) /\ Inside(rseek_reverse_stores(main, 1))
    \/ pc = "open" /\ Inside(reset_stores(main))
    \/ pc = "evict" /\ Inside(rseek_stores(main, evicted(main, target)))
    \/ \* ringfile_init has cut the file, which still says how long it was
       /\ pc = "init" /\ main # NoFile /\ target < main.cap
       /\ main' = [main EXCEPT !.cells = [o \in DOMAIN @ |-> IF o < target THEN @[o] ELSE 0]]

(* After BetweenLocations the model ends. *)
Crash ==
    /\ pc # "closed" /\ crashes < MaxCrashes
    /\ crashes' = crashes + 1
    /\ pc' = "closed"
    /\ target' = 0 /\ mode' = "plain" /\ before' = <<>>
    /\ \/ UNCHANGED <<main, hist, torn>>
       \/ /\ pc = "open" /\ ringfile_avail(main) >= 1
          /\ Inside(push_stores(main, Unfinished))
          /\ hist' = AtMost(Append(hist, Unfinished), main.cap)
          /\ UNCHANGED torn
       \/ BetweenLocations /\ torn' = TRUE /\ UNCHANGED hist
    /\ UNCHANGED temp

Init ==
    /\ main = NoFile /\ temp = NoFile /\ pc = "closed"
    /\ target = 0 /\ mode = "plain" /\ hist = <<>> /\ before = <<>> /\ crashes = 0
    /\ torn = FALSE

Next ==
    \/ \E v \in Values : ringfile_push(v) \/ ringfile_rolling_push(v)
    \/ ringfile_pop \/ ReadAgain \/ ringfile_reset \/ UseReserved \/ ringfile_free
    \/ open_ringfile \/ resize_evict \/ resize_create \/ resize_copy \/ resize_rename
    \/ ringfile_init \/ Crash

Spec == Init /\ [][Next]_vars
-----------------------------------------------------------------------------
(* f holds the last records pushed; what is where the process ended before *)
(* it stored the record is not known.                                      *)
HoldsLast(f) ==
    LET s == LastOf(hist, ringfile_size(f)) IN
    \A i \in 1..ringfile_size(f) : s[i] \in {Contents(f)[i], Unfinished}

(* The file holds the records pushed last, in order, also behind the read  *)
(* location as far as they are not overwritten; whatever resizes happened, *)
(* and wherever the process ended, unless between the stores of the two    *)
(* locations, or in an open that discards the records.                     *)
FileFifo ==
    (main # NoFile /\ ~torn) =>
        /\ ringfile_size(main) <= Len(hist)
        /\ HoldsLast(main)
        /\ \A k \in 1..(Len(hist) - ringfile_size(main)) : HoldsLast(ringfile_rseek_reverse(main, k))

(* A resize, cut short at any step or not, keeps the newest records that   *)
(* fit; and all of them if it must not shrink (ringfile_init_safe_resize). *)
ResizeKeepsNewest ==
    (mode # "plain" /\ pc \in {"evict", "create", "copy", "rename", "init"} /\ main # NoFile) =>
        /\ IsSuffix(Contents(main), before)
        /\ ringfile_size(main) >= IF Len(before) < target THEN Len(before) ELSE target
        /\ mode = "safe" => Contents(main) = before

(* The reserved area is carried over to the new file. *)
ReservedKept == [][(pc \in {"copy", "rename", "init"} /\ main # NoFile) => main'.res = main.res]_vars
=============================================================================
