---------------------------- MODULE MysqlDumper -----------------------------
(***************************************************************************)
(* mysql_dumper.c: mysql_dumper_dump writes a query's result column by     *)
(* column, one file per column; a row is the entries at the same position  *)
(* of all files.  Rows with a conversion error in any column are skipped.  *)
(* Creating, writing and closing a file may fail, and so may the server.   *)
(***************************************************************************)
EXTENDS Integers, Sequences, SequencesExt

CONSTANTS Cols,     \* number of columns
          VarCols,  \* those of variable length: is_var_length_field
          MaxRows   \* bound: rows of the result

VARIABLES pc,       \* "open", "fetch", "write", "close", "returned"
          col,      \* the column the loops are at
          row,      \* rows fetched so far
          bad,      \* fetched rows with an error in some column
          file,     \* rows given to the writer, per column
          stuck,    \* columns whose file could not be made longer, unnoticed
          ofs,      \* offsets recorded: variable columns close with them
          err, served

vars == <<pc, col, row, bad, file, stuck, ofs, err, served>>

Init ==
    /\ pc = "open" /\ col = 1 /\ row = 0 /\ bad = {}
    /\ file = [c \in 1..Cols |-> <<>>] /\ stuck = {}
    /\ ofs = [c \in 1..Cols |-> "none"]
    /\ err = 0 /\ served = "rows"

Goto(p) == pc' = p /\ col' = 1

(* The loop over the metadata: a file per column.                          *)
open_column ==
    /\ pc = "open" /\ col <= Cols
    /\ \/ ofs' = [ofs EXCEPT ![col] = "open"] /\ col' = col + 1 /\ UNCHANGED <<pc, err>>
       \/ err' = -1 /\ Goto("close") /\ UNCHANGED ofs
    /\ UNCHANGED <<row, bad, file, stuck, served>>

execute ==
    /\ pc = "open" /\ col > Cols
    /\ \/ Goto("fetch") /\ UNCHANGED err
       \/ Goto("close") /\ err' = -1
    /\ UNCHANGED <<row, bad, file, stuck, ofs, served>>

after_fetch(isbad) == IF isbad THEN "fetch" ELSE "write"

(* mysql_stmt_fetch: a row, no more data, or an error.                     *)
fetch_row ==
    /\ pc = "fetch"
    /\ \/ /\ row < MaxRows /\ row' = row + 1
          /\ \E isbad \in BOOLEAN :
               /\ bad' = IF isbad THEN bad \cup {row + 1} ELSE bad
               /\ Goto(after_fetch(isbad))
          /\ UNCHANGED <<err, served>>
       \/ served' = "all" /\ Goto("close") /\ UNCHANGED <<err, row, bad>>
       \/ served' = "failed" /\ err' = -1 /\ Goto("close") /\ UNCHANGED <<row, bad>>
    /\ UNCHANGED <<file, stuck, ofs>>

(* file_writer_write returns 0 also if file_writer_wseek could not make    *)
(* the file longer, and goes on in the part of the file it had mapped; and *)
(* ds_var_field_writer_write returns what that does.  So the code behind   *)
(* dumper_error is never reached.                                          *)
write_column ==
    /\ pc = "write"
    /\ \/ col > Cols /\ Goto("fetch") /\ UNCHANGED <<file, stuck, err>>
       \/ /\ col <= Cols
          /\ file' = [file EXCEPT ![col] = Append(@, row)]
          /\ stuck' \in {stuck, stuck \cup {col}}
          /\ col' = col + 1 /\ UNCHANGED <<pc, err>>
    /\ UNCHANGED <<row, bad, ofs, served>>

close_error == -1

(* Finalising: a variable column writes its offsets when it is closed,     *)
(* which may fail; the result of closing a fixed one is not looked at.     *)
(* (After an open that failed, the loop also comes to columns whose type   *)
(* was never set; the dump has failed whatever that does.)                 *)
close_column ==
    /\ pc = "close"
    /\ \/ col > Cols /\ pc' = "returned" /\ UNCHANGED <<col, ofs, err>>
       \/ /\ col <= Cols /\ col' = col + 1
          /\ ofs' = [ofs EXCEPT ![col] = IF @ = "open" THEN "closed" ELSE @]
          /\ UNCHANGED <<pc, err>>
       \/ /\ col \in VarCols /\ col' = col + 1
          /\ err' = close_error
          /\ UNCHANGED <<pc, ofs>>
       \/ /\ col \in (1..Cols) \ VarCols /\ col' = col + 1
          /\ UNCHANGED <<pc, ofs, err>>
    /\ UNCHANGED <<row, bad, file, stuck, served>>

Done == pc = "returned" /\ UNCHANGED vars

Next == open_column \/ execute \/ fetch_row \/ write_column \/ close_column \/ Done

Spec == Init /\ [][Next]_vars /\ WF_vars(Next)
-----------------------------------------------------------------------------
Good == SelectSeq([i \in 1..row |-> i], LAMBDA r : r \notin bad)

(* A dump that reports success is complete and its columns agree: every    *)
(* file was given exactly the good rows, in order, and variable columns    *)
(* have their offsets.  Except for a column whose file could not be made   *)
(* longer, which file_writer_write does not report; and closing a fixed    *)
(* column may fail unnoticed.                                              *)
SuccessIsComplete ==
    pc = "returned" /\ err = 0 =>
        /\ served = "all"
        /\ \A c \in (1..Cols) \ stuck : file[c] = Good
        /\ \A c \in VarCols : ofs[c] = "closed"

(* Between rows all columns are equally long and hold no row with an error *)
(* in any column: a skipped row is skipped in all of them.                 *)
ColumnsInStep ==
    pc = "fetch" => \A c \in 1..Cols : file[c] = Good
=============================================================================
