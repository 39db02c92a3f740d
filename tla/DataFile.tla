------------------------------ MODULE DataFile ------------------------------
(***************************************************************************)
(* What one worker writes: Env::write_data_file of engine/src/cli.rs over  *)
(* writer::Env of engine/src/writer.rs.                                    *)
(*                                                                         *)
(* A template has one main table, number 1, and derived tables: in its     *)
(* grammar (create_table in parser.pest) every table after the first       *)
(* follows a FOR EACH ROW directive, so that write_row has one root.  Each *)
(* row of the main table is followed by the rows derived from it,          *)
(* recursively, each in the file of its own table.  All the tables share   *)
(* the worker's State, so row_num and sub_row_num are global to the        *)
(* recursion, which is kept here as an explicit stack.  A file is the      *)
(* sequence of the units the format writes; a unit counts for one byte of  *)
(* the target size.                                                        *)
(***************************************************************************)
EXTENDS Integers, FiniteSets, SequencesExt

CONSTANTS
  None,
  Derived,      \* Derived[t]: the tables derived from t, in their order
  MaxChildren,  \* MaxChildren[t]: bound on the rows of t for one row of its parent
  InsertRows,   \* rows of the main table in each INSERT of the file
  FirstRowNum,  \* row_num of the file's first row
  Formats,      \* the output formats considered
  FileSize      \* --size, or None

Tables == 1..Len(Derived)

\* A table is registered with its parent when it is read, so it comes later in
\* the template, and it has one parent.
ASSUME DataFileAssumption ==
  /\ Derived \in Seq(Seq(Nat)) /\ Derived # <<>>
  /\ \A t \in Tables : \A i \in 1..Len(Derived[t]) : Derived[t][i] \in (t + 1)..Len(Derived)
  /\ \A t, u \in Tables : \A i \in 1..Len(Derived[t]), j \in 1..Len(Derived[u]) :
       Derived[t][i] = Derived[u][j] => t = u /\ i = j
  /\ MaxChildren \in [Tables -> Nat]
  /\ InsertRows \in Seq(Nat)
  /\ FirstRowNum \in Nat \ {0}
  /\ Formats \subseteq {"sql", "csv", "csv_headers", "insert_set"}
  /\ FileSize \in Nat \cup {None}

VARIABLES
  format,       \* the format of this run
  phase,        \* "writing", "done" or "failed"
  insert,       \* INSERT statements completed
  in_insert,    \* rows of the main table in the current one
  row_num,      \* State::row_num
  sub_row_num,  \* State::sub_row_num
  stack,        \* the calls of write_one_row in progress
  empty,        \* TableState::empty, per table
  written_size, \* FormatWriter::written_size, per table
  text,         \* the files of each table, each the units written to it
  out,          \* history: the rows of each table
  asked         \* history: for each row of its parent, the rows of t asked for

vars == <<format, phase, insert, in_insert, row_num, sub_row_num, stack,
          empty, written_size, text, out, asked>>

----------------------------------------------------------------------------
(* The formats (engine/src/format.rs).                                     *)

FileHeader(fmt)   == IF fmt = "csv_headers" THEN <<"names">> ELSE <<>>
Header(fmt)       == IF fmt \in {"sql", "insert_set"} THEN <<"INSERT">> ELSE <<>>
RowSeparator(fmt) == CASE fmt = "sql"        -> <<"comma">>
                       [] fmt = "insert_set" -> <<"end">>
                       [] OTHER              -> <<"newline">>
Trailer(fmt)      == IF fmt \in {"sql", "insert_set"} THEN <<"end">> ELSE <<"newline">>

----------------------------------------------------------------------------
Frame(t) == [table |-> t, child |-> 0, count |-> 0, r |-> 0]

Top == Last(stack)
WithTop(frame) == [stack EXCEPT ![Len(stack)] = frame]

\* The units are appended to the current file of table t.
Write(t, units) ==
  /\ text' = [text EXCEPT ![t][Len(text[t])] = @ \o units]
  /\ written_size' = [written_size EXCEPT ![t] = @ + Len(units)]

Init ==
  /\ format \in Formats
  /\ phase = "writing"
  /\ insert = 0
  /\ in_insert = 0
  /\ row_num = FirstRowNum
  /\ sub_row_num = 1
  /\ stack = <<>>
  /\ empty = [t \in Tables |-> TRUE]
  /\ written_size = [t \in Tables |-> Len(FileHeader(format))]
  /\ text = [t \in Tables |-> << FileHeader(format) >>]
  /\ out = [t \in Tables |-> <<>>]
  /\ asked = [t \in Tables |-> <<>>]

\* What the code writes before a row: the header of the INSERT statement, or a
\* separator.
Lead(t) == IF empty[t] THEN Header(format) ELSE RowSeparator(format)

\* write_one_row up to its derived tables: `up' is the row of the parent.
BeginRow(t, sub, up) ==
  /\ empty' = [empty EXCEPT ![t] = FALSE]
  /\ sub_row_num' = sub
  /\ \/ /\ Write(t, Append(Lead(t), "row"))
        /\ out' = [out EXCEPT ![t] = Append(@,
                     [row_num |-> row_num, sub |-> sub, up |-> up, insert |-> insert,
                      file |-> Len(text[t])])]
        /\ phase' = phase
     \/ \* an expression of the row fails: the separator is already there
        /\ Write(t, Lead(t))
        /\ phase' = "failed"
        /\ out' = out

\* write_row: the row of the main table.
StartRow ==
  /\ phase = "writing"
  /\ stack = <<>>
  /\ insert < Len(InsertRows)
  /\ in_insert < InsertRows[insert + 1]
  /\ BeginRow(1, 1, 0)
  /\ stack' = << Frame(1) >>
  /\ UNCHANGED <<format, insert, in_insert, row_num, asked>>

\* The count of the next derived table is evaluated; it may be an error.
NextChild ==
  /\ phase = "writing"
  /\ stack # <<>>
  /\ Top.r = Top.count
  /\ Top.child < Len(Derived[Top.table])
  /\ LET c == Derived[Top.table][Top.child + 1] IN
     \/ \E n \in 0..MaxChildren[c] :
          /\ stack' = WithTop([Top EXCEPT !.child = @ + 1, !.count = n, !.r = 0])
          /\ asked' = [asked EXCEPT ![c] = Append(@, n)]
          /\ phase' = phase
     \/ phase' = "failed" /\ UNCHANGED <<stack, asked>>
  /\ UNCHANGED <<format, insert, in_insert, row_num, sub_row_num,
                 empty, written_size, text, out>>

\* Mutant: the loop is 0..count.
NextSubFromZero == Top.r

\* The number of the next derived row: the loop is 1..=count.
NextSub == Top.r + 1

\* The next derived row, with sub_row_num set just before its recursive call.
ChildRow ==
  /\ phase = "writing"
  /\ stack # <<>>
  /\ Top.r < Top.count
  /\ LET c == Derived[Top.table][Top.child] IN
     /\ BeginRow(c, NextSub, Len(out[Top.table]))
     /\ stack' = Append(WithTop([Top EXCEPT !.r = @ + 1]), Frame(c))
  /\ UNCHANGED <<format, insert, in_insert, row_num, asked>>

\* Mutant: row_num is increased once per row of any table.
RowNumCountsEveryTable == row_num + 1

\* row_num is increased when write_row is done, not by each row it wrote.
RowNumAfterRow == IF Len(stack) = 1 THEN row_num + 1 ELSE row_num

\* write_one_row returns; when it was the row of the main table, so does
\* write_row, which increases row_num.
EndRow ==
  /\ phase = "writing"
  /\ stack # <<>>
  /\ Top.r = Top.count
  /\ Top.child = Len(Derived[Top.table])
  /\ stack' = Front(stack)
  /\ row_num' = RowNumAfterRow
  /\ in_insert' = IF Len(stack) = 1 THEN in_insert + 1 ELSE in_insert
  /\ UNCHANGED <<format, phase, insert, sub_row_num, empty, written_size, text, out, asked>>

----------------------------------------------------------------------------
(* The end of an INSERT statement, for every table at once.                *)

\* The current file of t with the trailer that its statement needs, if any.
Closed(t) == Last(text[t]) \o IF empty[t] THEN <<>> ELSE Trailer(format)
ClosedSize(t) == written_size[t] + IF empty[t] THEN 0 ELSE Len(Trailer(format))

\* try_rotate.
Rotates(t) == FileSize # None /\ ClosedSize(t) >= FileSize

\* Mutants: the trailer leaves `empty' alone; rotation does not reset the size.
EmptyKept == empty
SizeKept(t) == ClosedSize(t)

EmptyAfterTrailer == [t \in Tables |-> TRUE]

\* A new file starts with its header.
SizeAfter(t) == IF Rotates(t) THEN Len(FileHeader(format)) ELSE ClosedSize(t)

FilesAfter(t) ==
  LET files == [text[t] EXCEPT ![Len(text[t])] = Closed(t)]
  IN  IF Rotates(t) THEN Append(files, FileHeader(format)) ELSE files

\* The trailers are written, then every table whose file has reached the
\* target size starts a new file, with the file header of the format.
EndInsert ==
  /\ phase = "writing"
  /\ stack = <<>>
  /\ insert < Len(InsertRows)
  /\ in_insert = InsertRows[insert + 1]
  /\ text' = [t \in Tables |-> FilesAfter(t)]
  /\ written_size' = [t \in Tables |-> SizeAfter(t)]
  /\ empty' = EmptyAfterTrailer
  /\ insert' = insert + 1
  /\ in_insert' = 0
  /\ UNCHANGED <<format, phase, row_num, sub_row_num, stack, out, asked>>

Finish ==
  /\ phase = "writing"
  /\ insert = Len(InsertRows)
  /\ phase' = "done"
  /\ UNCHANGED <<format, insert, in_insert, row_num, sub_row_num, stack,
                 empty, written_size, text, out, asked>>

Terminated == phase \in {"done", "failed"} /\ UNCHANGED vars

Next == StartRow \/ NextChild \/ ChildRow \/ EndRow \/ EndInsert \/ Finish \/ Terminated

Spec == Init /\ [][Next]_vars
----------------------------------------------------------------------------
(* Properties.                                                             *)

\* The units that may follow each other in a file of a format ("start" and
\* "stop" are its two ends): what a loader of that format accepts.
Follows(fmt) ==
  CASE fmt = "sql" ->
         { <<"start", "INSERT">>, <<"INSERT", "row">>, <<"row", "comma">>,
           <<"comma", "row">>, <<"row", "end">>, <<"end", "INSERT">>,
           <<"start", "stop">>, <<"end", "stop">> }
    [] fmt = "insert_set" ->
         { <<"start", "INSERT">>, <<"INSERT", "row">>, <<"row", "end">>,
           <<"end", "INSERT">>, <<"start", "stop">>, <<"end", "stop">> }
    [] fmt = "csv" ->
         { <<"start", "row">>, <<"row", "newline">>, <<"newline", "row">>,
           <<"start", "stop">>, <<"newline", "stop">> }
    [] OTHER ->
         { <<"start", "names">>, <<"names", "row">>, <<"row", "newline">>,
           <<"newline", "row">>, <<"names", "stop">>, <<"newline", "stop">> }

Unit(file, i) ==
  IF i = 0 THEN "start" ELSE IF i = Len(file) + 1 THEN "stop" ELSE file[i]

WellFormed(fmt, file) ==
  \A i \in 0..Len(file) : <<Unit(file, i), Unit(file, i + 1)>> \in Follows(fmt)

\* Between two INSERT statements every file of every table is one a loader
\* accepts, also where a statement had no row of a derived table and wrote
\* nothing (TableState::empty), and where the file was rotated.
FilesLoadable ==
  in_insert = 0 /\ stack = <<>> /\ phase # "failed" =>
    \A t \in Tables : \A k \in 1..Len(text[t]) : WellFormed(format, text[t][k])

\* The rows of t derived from row number p of its parent table.
RowsUnder(t, p) == {i \in 1..Len(out[t]) : out[t][i].up = p}

\* They are n rows, numbered 1 to n in the order they are written.
NumberedTo(t, p, n) ==
  /\ {out[t][i].sub : i \in RowsUnder(t, p)} = 1..n
  /\ \A i, j \in RowsUnder(t, p) : i < j => out[t][i].sub < out[t][j].sub

\* Between two rows of the main table, each row of a parent has exactly the
\* rows that its count asked for, numbered 1, 2, ... by subrownum, with its own
\* rownum ("parent.child_count is an actual count of rows in child table").
ChildrenCounted ==
  stack = <<>> /\ phase # "failed" =>
    \A parent \in Tables : \A k \in 1..Len(Derived[parent]) :
      LET t == Derived[parent][k] IN
      /\ Len(asked[t]) = Len(out[parent])
      /\ \A p \in 1..Len(asked[t]) : NumberedTo(t, p, asked[t][p])
      /\ \A i \in 1..Len(out[t]) :
           /\ out[t][i].up \in 1..Len(out[parent])
           /\ out[t][i].row_num = out[parent][out[t][i].up].row_num

\* Rows of t that statement i has written to file k.
RowsOf(t, k, i) == Cardinality({n \in 1..Len(out[t]) : out[t][n].file = k /\ out[t][n].insert = i})

\* The rows of the main table carry consecutive row numbers, whatever was
\* derived from them, so that the next file may start where this one ends; and
\* each INSERT statement has its number of them, in one file.
MainRowsConsecutive ==
  /\ \A i \in 1..Len(out[1]) : out[1][i].row_num = FirstRowNum + i - 1
  /\ phase = "done" =>
       /\ row_num = FirstRowNum + Len(out[1])
       /\ \A i \in 1..Len(InsertRows) :
            InsertRows[i] > 0 => \E k \in 1..Len(text[1]) : RowsOf(1, k, i - 1) = InsertRows[i]

\* Units of an INSERT statement with n rows.
StatementSize(n) == IF n = 0 THEN 0 ELSE Len(Header(format)) + 2 * n

\* A file that was rotated away has reached the target size, and, unless that is
\* less than a file header, had not before its last statement; no statement is
\* split over two files.
TargetSizeRespected ==
  \A t \in Tables :
    /\ \A m, n \in 1..Len(out[t]) :
         out[t][m].insert = out[t][n].insert => out[t][m].file = out[t][n].file
    /\ \A k \in 1..(Len(text[t]) - 1) :
         /\ Len(text[t][k]) >= FileSize
         /\ FileSize > Len(FileHeader(format)) =>
              \E i \in 0..(insert - 1) :
                /\ RowsOf(t, k, i) > 0
                /\ \A n \in 1..Len(out[t]) : out[t][n].file = k => out[t][n].insert <= i
                /\ Len(text[t][k]) - StatementSize(RowsOf(t, k, i)) < FileSize
=============================================================================
