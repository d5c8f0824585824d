---------------------------- MODULE MysqlHelper -----------------------------
(***************************************************************************)
(* mysql_helper.c: the statement life cycle of one struct mysql_helper.    *)
(* A call prepares a statement, binds its parameters, lays out the result  *)
(* arrays and string columns in `buf', and executes; timestamps given as   *)
(* parameters are converted into `time_buf', which must never move because *)
(* the bindings point into it.  Any step of libmysqlclient may fail.       *)
(* mysql_helper_stmt, _vstmt and _hstmt differ in where arguments come     *)
(* from; _stmt_col_map also binds timestamps and checks column names.      *)
(*                                                                         *)
(* A mapping is identified by its capacity: it moves only when it grows.   *)
(* A column is 0 (a number, stored by the caller) or the maximal length of *)
(* a string.                                                               *)
(***************************************************************************)
EXTENDS Integers, Sequences, SequencesExt

CONSTANTS Word,        \* alignment of vmbuf_alloc_aligned and size of a pointer
          Page,        \* initial capacity and growth of buf
          Columns,     \* result shapes: sequences of column lengths
          TimeCap,     \* MYSQL_TIME values that fit time_buf (102)
          Stamps,      \* numbers of timestamps a call binds
          MaxPos       \* bound: how far failed calls fill buf

VARIABLES stmt,        \* "none", "open" (prepared), "executed", "rows"
          open,        \* statement handles not closed
          buf,         \* [pos, cap]
          time_buf,    \* MYSQL_TIME values written since the last reset
          num_fields, is_str,
          bound,       \* what the bindings point to: [cap, cols]
          length,      \* mysql_helper->length, Unset until a row stored one
          wrote,       \* terminators written by the last fetch: <<column, at>>
          unbound,     \* the last execution used a binding never filled in
          failed       \* history: a call left no statement since time_buf was reset

vars == <<stmt, open, buf, time_buf, num_fields, is_str, bound, length, wrote,
          unbound, failed>>

Unset == -1

Nothing == [cap |-> 0, cols |-> <<>>]

mysql_helper_connect ==
    /\ stmt = "none" /\ open = 0
    /\ buf = [pos |-> 0, cap |-> Page] /\ time_buf = 0
    /\ num_fields = 0 /\ is_str = <<>> /\ bound = Nothing
    /\ length = <<>> /\ wrote = {} /\ unbound = FALSE /\ failed = FALSE

Aligned(n) == ((n + Word - 1) \div Word) * Word

alloc_aligned(b, n) ==
    LET end == Aligned(b.pos) + n
    IN  [pos |-> end, cap |-> IF end < b.cap THEN b.cap ELSE (end \div Page + 1) * Page]

(* data, length, is_error, is_null and is_str, for n columns.              *)
alloc_arrays(b, n) == FoldLeft(alloc_aligned, b, <<Word * n, Word * n, n, n, n>>)

string_size(len) == len + 1

(* One pass over the columns: the strings' offsets and the grown buffer.   *)
alloc_string(acc, len) ==
    IF len = 0 THEN [acc EXCEPT !.cols = Append(@, [ofs |-> 0, len |-> 0])]
    ELSE LET b == alloc_aligned(acc.b, string_size(len))
         IN  [b |-> b, cols |-> Append(acc.cols, [ofs |-> Aligned(acc.b.pos), len |-> len])]

alloc_strings(b, cols) == FoldLeft(alloc_string, [b |-> b, cols |-> <<>>], cols)

(* The pointers are computed from the buffer as it is when this is called. *)
bind_before_strings(arrays, strings) == [cap |-> arrays.cap, cols |-> strings.cols]

bind_result(arrays, strings) == [cap |-> strings.b.cap, cols |-> strings.cols]
-----------------------------------------------------------------------------

(* Step 0 of a call: close what the previous one left and reuse buf and,   *)
(* in a call with column maps, time_buf.  A call that failed in            *)
(* report_stmt_error has left no statement, and then nothing is reset.     *)
cleanup(map) ==
    IF stmt = "none" THEN [open |-> open, pos |-> buf.pos, stamps |-> time_buf, reset |-> FALSE]
    ELSE [open |-> open - 1, pos |-> 0, stamps |-> IF map THEN 0 ELSE time_buf, reset |-> map]

report_stmt_error(o) == stmt' = "none" /\ open' = o - 1

left_open(o) == stmt' = "open" /\ open' = o

(* mysql_stmt_init fails, prepare fails, or the parameters do not match.   *)
fails_before_binding(c) ==
    /\ \/ stmt' = "none" /\ open' = c.open
       \/ report_stmt_error(c.open + 1)
       \/ left_open(c.open + 1)
    /\ buf' = [buf EXCEPT !.pos = c.pos]
    /\ time_buf' = c.stamps
    /\ UNCHANGED <<num_fields, is_str, bound, length>>

(* _mysql_helper_init_bind_map for ts timestamps: it stops, and its caller *)
(* does not look, when time_buf is full.                                   *)
init_bind_map(before, ts) ==
    [stamps |-> IF before + ts <= TimeCap THEN before + ts ELSE TimeCap,
     all    |-> before + ts <= TimeCap]

(* The parameters are bound; metadata is missing or has another number of  *)
(* columns.                                                                *)
fails_before_layout(c, ts) ==
    /\ report_stmt_error(c.open + 1) \/ left_open(c.open + 1)
    /\ buf' = [buf EXCEPT !.pos = c.pos]
    /\ time_buf' = init_bind_map(c.stamps, ts).stamps
    /\ UNCHANGED <<num_fields, is_str, bound, length>>

(* data, length, is_error, is_null, is_str and the strings.  What the      *)
(* lengths hold now is what was in buf before.                             *)
result_bindings(c, cols) ==
    LET arrays == alloc_arrays([pos |-> c.pos, cap |-> buf.cap], Len(cols))
        strings == alloc_strings(arrays, cols)
    IN  /\ buf' = strings.b
        /\ num_fields' = Len(cols)
        /\ is_str' = [i \in DOMAIN cols |-> cols[i] > 0]
        /\ bound' = bind_result(arrays, strings)
        /\ length' = [i \in DOMAIN cols |-> Unset]

(* Then a column name differs from the map's (the statement stays open),   *)
(* execute or bind_result fails, or all is well.                           *)
lays_out(c, map, ts, cols) ==
    /\ time_buf' = init_bind_map(c.stamps, ts).stamps
    /\ \/ /\ cols = <<>> /\ buf' = [buf EXCEPT !.pos = c.pos]
          /\ UNCHANGED <<num_fields, is_str, bound, length>>
       \/ cols # <<>> /\ result_bindings(c, cols)
    /\ \/ map /\ cols # <<>> /\ left_open(c.open + 1)
       \/ report_stmt_error(c.open + 1)
       \/ /\ stmt' = IF cols = <<>> THEN "executed" ELSE "rows"
          /\ open' = c.open + 1

statement(map, ts, cols) ==
    LET c == cleanup(map)
    IN  /\ c.pos <= MaxPos
        /\ wrote' = {}
        /\ \/ fails_before_binding(c)
           \/ fails_before_layout(c, ts)
           \/ lays_out(c, map, ts, cols)
        /\ unbound' = (stmt' \in {"executed", "rows"} /\ ~init_bind_map(c.stamps, ts).all)
        /\ failed' = (stmt' = "none" \/ (failed /\ ~c.reset))

mysql_helper_stmt(cols) == statement(FALSE, 0, cols)

mysql_helper_vstmt(cols) == statement(FALSE, 0, cols)

mysql_helper_stmt_col_map(ts, cols) == statement(TRUE, ts, cols)

Strings == {i \in 1..num_fields : is_str[i]}

(* A row, whose strings are NULL, empty or of maximal length.  The client  *)
(* library stores no length for a NULL, and the terminator goes where the  *)
(* one before put it; for a length never stored, that place is unknown and *)
(* is not followed.                                                        *)
fetch_row ==
    /\ \E nulls \in SUBSET Strings, full \in BOOLEAN :
         length' = [i \in 1..num_fields |->
                    IF i \in nulls \/ ~is_str[i] THEN length[i]
                    ELSE IF full THEN bound.cols[i].len ELSE 0]
    /\ wrote' = {<<i, bound.cols[i].ofs + length'[i]>> : i \in {j \in Strings : length'[j] # Unset}}
    /\ UNCHANGED <<stmt, open, failed>>

(* No more rows or a truncated one; an error, which closes the statement;  *)
(* or a row.                                                               *)
mysql_helper_fetch ==
    /\ stmt \in {"executed", "rows"}
    /\ \/ wrote' = {} /\ stmt = "rows" /\ UNCHANGED <<stmt, open, length, failed>>
       \/ wrote' = {} /\ report_stmt_error(open) /\ failed' = TRUE /\ UNCHANGED length
       \/ stmt = "rows" /\ fetch_row
    /\ UNCHANGED <<buf, time_buf, num_fields, is_str, bound, unbound>>

(* The helper is freed and, if it is used again, connected anew.           *)
mysql_helper_free ==
    /\ stmt' = "none" /\ open' = IF stmt = "none" THEN open ELSE open - 1
    /\ buf' = [pos |-> 0, cap |-> Page] /\ time_buf' = 0
    /\ num_fields' = 0 /\ is_str' = <<>> /\ bound' = Nothing
    /\ length' = <<>> /\ wrote' = {} /\ unbound' = FALSE /\ failed' = FALSE

Next == \/ \E cols \in Columns : mysql_helper_stmt(cols) \/ mysql_helper_vstmt(cols)
        \/ \E cols \in Columns, ts \in Stamps : mysql_helper_stmt_col_map(ts, cols)
        \/ mysql_helper_fetch
        \/ mysql_helper_free

Init == mysql_helper_connect

Spec == Init /\ [][Next]_vars
-----------------------------------------------------------------------------
(* At most one statement handle is open, whatever failed before: each call *)
(* closes what the one before it left.                                     *)
OneStatement == open = IF stmt = "none" THEN 0 ELSE 1

(* While rows may be fetched, every binding points into the mapping buf    *)
(* has now, although laying out the strings may have moved it.             *)
BindingsCurrent == stmt = "rows" => bound.cap = buf.cap

(* mysql_helper_fetch terminates every string inside the room laid out for *)
(* its own column, also one that is NULL, whose length is an older row's.  *)
(* Excepted is a column that has been NULL since the statement was         *)
(* executed: mysql_helper->length was never initialised for it.            *)
TerminatorsApart ==
    \A w \in wrote : \A i \in 1..num_fields :
        LET c == bound.cols[i] IN
        /\ w[2] < buf.pos
        /\ is_str[i] /\ i # w[1] => w[2] \notin c.ofs .. (c.ofs + c.len)

(* A call executes with all of its timestamps bound: time_buf, which holds *)
(* as many as one call may have, starts empty.  Only calls that failed     *)
(* fill it for those after them, because their timestamps stay.            *)
StampsBound == unbound => failed
=============================================================================
