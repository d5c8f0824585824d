----------------------------- MODULE DsVarField -----------------------------
(***************************************************************************)
(* A column of values of varying length in a file: ds_var_field.c writes   *)
(* it through file_writer (_file_writer.c), which maps one window of the   *)
(* file at a time, and reads it back from a mapping.  The file begins with *)
(* a header [type, ofs_table, element_type] and ends with the table of row *)
(* offsets.  Each call of the writer is a step, and the process may end    *)
(* between any two; a reader may try to load the file at any time.         *)
(*                                                                         *)
(* The file is a function from offsets to cells.  A word takes Word cells, *)
(* its number in the first; a byte of row i is the cell 100 + i.           *)
(***************************************************************************)
EXTENDS Integers, Sequences, FiniteSets

CONSTANTS Buffer,    \* buffer_size: a power of 2, multiple of Word
          Word,      \* 8
          Lengths,   \* lengths of rows
          MaxRows

VARIABLES file,      \* offset -> cell
          fw,        \* struct file_writer: [base, next, loc, cap]
          table,     \* ofs_table
          rows,      \* history: length of every row
          pc,
          stray      \* history: something was stored outside the window

vars == <<file, fw, table, rows, pc, stray>>

HeaderSize == 3 * Word

Resized(f, n) == [o \in 0..(n - 1) |-> IF o \in DOMAIN f THEN f[o] ELSE 0]

Words(s) == [k \in 1..(Len(s) * Word) |-> IF k % Word = 1 THEN s[(k \div Word) + 1] ELSE 0]

Bytes(i, n) == [k \in 1..n |-> 100 + i]
-----------------------------------------------------------------------------
(* file_writer on [f |-> file, w |-> fw, ok]: each returns the new one.    *)

file_writer_attachfd ==
    [f |-> [o \in 0..(Buffer - 1) |-> 0],
     w |-> [base |-> 0, next |-> Buffer, loc |-> 0, cap |-> Buffer], ok |-> TRUE]

file_writer_wseek(x, n) ==
    LET loc == x.w.loc + n
        cap == IF loc = x.w.cap THEN x.w.cap + Buffer ELSE x.w.cap
    IN IF loc # x.w.next THEN [x EXCEPT !.w.loc = loc]
       ELSE [x EXCEPT !.w = [base |-> loc, next |-> loc + Buffer, loc |-> loc, cap |-> cap],
                      !.f = Resized(@, cap)]

(* memcpy to file_writer_wloc: inside the window and the file, or stray.   *)
Store(x, s) ==
    [x EXCEPT !.f = [o \in DOMAIN @ |-> IF o \in x.w.loc..(x.w.loc + Len(s) - 1)
                                          THEN s[o - x.w.loc + 1] ELSE @[o]],
              !.ok = @ /\ (s # <<>> =>
                             /\ x.w.base <= x.w.loc
                             /\ x.w.loc + Len(s) <= x.w.base + Buffer
                             /\ x.w.loc + Len(s) <= Cardinality(DOMAIN x.f))]

(* file_writer_write: in pieces up to the capacity. *)
file_writer_write(x, s) ==
    LET n(y) == IF y.x.w.cap - y.x.w.loc >= Len(y.s) THEN Len(y.s) ELSE y.x.w.cap - y.x.w.loc
        piece(y) == [x |-> file_writer_wseek(Store(y.x, SubSeq(y.s, 1, n(y))), n(y)),
                     s |-> SubSeq(y.s, n(y) + 1, Len(y.s))]
        after[k \in 0..Len(s)] == IF k = 0 THEN piece([x |-> x, s |-> s])
                                  ELSE IF after[k - 1].s = <<>> THEN after[k - 1] ELSE piece(after[k - 1])
    IN after[Len(s)].x

file_writer_align(x) == file_writer_wseek(x, ((x.w.loc + Word - 1) \div Word) * Word - x.w.loc)

(* file_writer_lseek with SEEK_SET. *)
file_writer_lseek(x, ofs) ==
    LET cap == IF ofs > x.w.cap THEN ((ofs + Buffer - 1) \div Buffer) * Buffer ELSE x.w.cap
        base == (ofs \div Buffer) * Buffer
    IN [x EXCEPT !.w = [base |-> base, next |-> base + Buffer, loc |-> ofs, cap |-> cap],
                 !.f = Resized(@, cap)]

file_writer_close(x) == [x EXCEPT !.f = Resized(@, x.w.loc)]

Now == [f |-> file, w |-> fw, ok |-> ~stray]

Becomes(x) == file' = x.f /\ fw' = x.w /\ stray' = ~x.ok
-----------------------------------------------------------------------------
initial_type == -1

(* ds_var_field_writer_init2: file_writer_init, and a header that does not *)
(* load.  ofs_table is the greatest size_t.                                *)
Greatest == 1000

ds_var_field_writer_init2 ==
    LET x == file_writer_write(file_writer_attachfd, Words(<<initial_type, Greatest, -1>>))
    IN file = x.f /\ fw = x.w /\ stray = ~x.ok

ds_var_field_writer_new_row == table' = Append(table, fw.loc)

ds_var_field_writer_write(n) ==
    /\ pc = "writing" /\ Len(rows) < MaxRows
    /\ ds_var_field_writer_new_row
    /\ Becomes(file_writer_write(Now, Bytes(Len(rows) + 1, n)))
    /\ rows' = Append(rows, n)
    /\ UNCHANGED pc

(* More of the last row. *)
ds_var_field_writer_append(n) ==
    /\ pc = "writing" /\ rows # <<>> /\ rows[Len(rows)] + n <= Buffer
    /\ Becomes(file_writer_write(Now, Bytes(Len(rows), n)))
    /\ rows' = [rows EXCEPT ![Len(rows)] = @ + n]
    /\ UNCHANGED <<table, pc>>

(* ds_var_field_writer_close, call by call. *)
close_end ==
    /\ pc = "writing" /\ pc' = "table"
    /\ ds_var_field_writer_new_row
    /\ Becomes(file_writer_align(Now))
    /\ UNCHANGED rows

close_table ==
    /\ pc = "table" /\ pc' = "type"
    /\ Becomes(file_writer_write(Now, Words(table)))
    /\ UNCHANGED <<table, rows>>

ofs_last == fw.loc

(* Seeks to the header, whose window stays mapped for the two stores.      *)
close_type ==
    /\ pc = "type" /\ pc' = "ofs"
    /\ LET x == file_writer_lseek(Now, 0)
       IN file' = [x.f EXCEPT ![0] = -@] /\ UNCHANGED <<fw, stray>>
    /\ UNCHANGED <<table, rows>>

TableOffset == ((table[Len(table)] + Word - 1) \div Word) * Word

close_ofs ==
    /\ pc = "ofs" /\ pc' = "truncate"
    /\ file' = [file EXCEPT ![Word] = TableOffset]
    /\ UNCHANGED <<fw, table, rows, stray>>

(* Back to the end, and the file is cut there. *)
close_truncate ==
    /\ pc = "truncate" /\ pc' = "closed"
    /\ Becomes(file_writer_close(file_writer_lseek(Now, ofs_last)))
    /\ UNCHANGED <<table, rows>>

Crash ==
    /\ pc \notin {"closed", "crashed"} /\ pc' = "crashed"
    /\ UNCHANGED <<file, fw, table, rows, stray>>
-----------------------------------------------------------------------------
(* ds_var_field_init: the lengths of the rows, or an error.                *)
Error == <<-1>>

end_matches(f, ofs, n) == ((f[ofs + n * Word] + Word - 1) \div Word) * Word = ofs

ds_var_field_init(f) ==
    LET fsize == Cardinality(DOMAIN f)
        ofs == f[Word]
        tsize == fsize - ofs
        n == (tsize \div Word) - 1
    IN IF fsize < HeaderSize THEN Error
       ELSE IF ofs >= fsize THEN Error
       ELSE IF tsize % Word # 0 \/ tsize < Word THEN Error
       ELSE IF ~end_matches(f, ofs, n) THEN Error
       ELSE IF f[0] # 1 THEN Error
       ELSE [i \in 1..n |-> f[ofs + i * Word] - f[ofs + (i - 1) * Word]]

(* The bytes of row i, as ds_var_field_get finds them. *)
ds_var_field_get(f, i) ==
    LET at == f[f[Word] + (i - 1) * Word]
    IN [k \in 1..(f[f[Word] + i * Word] - at) |-> f[at + k - 1]]

Init == ds_var_field_writer_init2 /\ table = <<>> /\ rows = <<>> /\ pc = "writing"

Next == \/ \E n \in Lengths : ds_var_field_writer_write(n) \/ ds_var_field_writer_append(n)
        \/ close_end \/ close_table \/ close_type \/ close_ofs \/ close_truncate \/ Crash

Spec == Init /\ [][Next]_vars
-----------------------------------------------------------------------------
(* The writer stores inside the mapped window and inside the file, also    *)
(* when a row or the table crosses from one window to the next.            *)
StoresInWindow == ~stray

(* Whenever a reader opens the file, even while it is written or after the *)
(* writer died, it loads either all rows or nothing.                       *)
AllRowsOrNone ==
    \/ ds_var_field_init(file) = Error
    \/ /\ pc = "closed"
       /\ ds_var_field_init(file) = rows
       /\ \A i \in 1..Len(rows) : ds_var_field_get(file, i) = Bytes(i, rows[i])

(* A file that was closed loads. *)
ClosedLoads == pc = "closed" => ds_var_field_init(file) = rows
=============================================================================
