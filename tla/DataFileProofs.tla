---------------------------- MODULE DataFileProofs ----------------------------
(***************************************************************************)
(* Proofs about DataFile, for any tree of tables, any INSERT statements    *)
(* and any target size: the files are well formed, rows are numbered and   *)
(* counted as the template asks, and rotation happens where it should.     *)
(* And about FileNames, for any base, any number of workers and of files:  *)
(* no two files have the same name, and the names sort as the data does.   *)
(***************************************************************************)
EXTENDS DataFile, FileNames, FiniteSetTheorems, SequenceTheorems, WellFoundedInduction, TLAPS

----------------------------------------------------------------------------
(* The stack of write_one_row: the tables of the frames go down the tree,  *)
(* so that no table has two frames.                                        *)

FrameType == [table : Tables, child : Nat, count : Nat, r : Nat]
Units == {"names", "INSERT", "row", "comma", "end", "newline"}
RowType == [row_num : Nat, sub : Nat, up : Nat, insert : Nat, file : Nat]

TypeInv ==
  /\ format \in Formats
  /\ phase \in {"writing", "done", "failed"}
  /\ insert \in 0..Len(InsertRows)
  /\ in_insert \in Nat
  /\ row_num \in Nat
  /\ stack \in Seq(FrameType)
  /\ empty \in [Tables -> BOOLEAN]
  /\ written_size \in [Tables -> Nat]
  /\ text \in [Tables -> Seq(Seq(Units))]
  /\ \A t \in Tables : text[t] # <<>>
  /\ out \in [Tables -> Seq(RowType)]
  /\ asked \in [Tables -> Seq(Nat)]

\* A frame is inside its loops, and the next one is for a row of its table.
FrameInv ==
  /\ \A j \in 1..Len(stack) :
       /\ stack[j].child <= Len(Derived[stack[j].table])
       /\ stack[j].r <= stack[j].count
       /\ stack[j].child = 0 => stack[j].count = 0
  /\ \A i, j \in 1..Len(stack) : i < j => stack[i].table < stack[j].table
  /\ stack # <<>> => stack[1].table = 1

\* Where write_data_file is in its loops.
LoopInv ==
  /\ insert < Len(InsertRows) => in_insert <= InsertRows[insert + 1]
  /\ insert = Len(InsertRows) => in_insert = 0
  /\ stack # <<>> => insert < Len(InsertRows) /\ in_insert < InsertRows[insert + 1]
  /\ phase = "done" => stack = <<>> /\ insert = Len(InsertRows)

ControlInv == TypeInv /\ FrameInv /\ LoopInv

----------------------------------------------------------------------------
(* The text of the files.                                                  *)

Current(t) == text[t][Len(text[t])]

\* What has been written of a file so far may be continued by its last unit.
Open(fmt, file) ==
  \A i \in 0..(Len(file) - 1) : <<Unit(file, i), Unit(file, i + 1)>> \in Follows(fmt)
LastUnit(file) == Unit(file, Len(file))

\* The units after which a table is between two statements.
Between(fmt) ==
  CASE fmt = "sql" -> {"start", "end"}
    [] fmt = "csv" -> {"start", "newline"}
    [] OTHER       -> {"names", "newline"}

TextInv ==
  format # "insert_set" =>
    /\ \A t \in Tables : \A k \in 1..(Len(text[t]) - 1) : WellFormed(format, text[t][k])
    /\ phase # "failed" =>
         \A t \in Tables :
           /\ Open(format, Current(t))
           /\ LastUnit(Current(t)) \in IF empty[t] THEN Between(format) ELSE {"row"}

\* Before the first row of a statement no table has a row in it.
EmptyInv == phase # "failed" /\ stack = <<>> /\ in_insert = 0 => \A t \in Tables : empty[t]

----------------------------------------------------------------------------
(* The rows of the main table.                                             *)

MainInv ==
  /\ \A i \in 1..Len(out[1]) : out[1][i].row_num = FirstRowNum + i - 1
  /\ phase # "failed" => Len(out[1]) = row_num - FirstRowNum + IF stack = <<>> THEN 0 ELSE 1

----------------------------------------------------------------------------
(* The rows of a statement, and the size of the files.                     *)

RowsNow(t) == RowsOf(t, Len(text[t]), insert)

\* Units of the statement so far.
PartialSize(n) == IF n = 0 THEN 0 ELSE Len(Header(format)) + 2 * n - 1

\* A row is in a file that exists, the rows of a statement are in one file, and
\* those of the current statement in the current one.
PlaceInv ==
  \A t \in Tables : \A n \in 1..Len(out[t]) :
    /\ out[t][n].insert <= insert
    /\ out[t][n].file \in 1..Len(text[t])
    /\ out[t][n].insert = insert => out[t][n].file = Len(text[t])
    /\ \A m \in 1..Len(out[t]) :
         out[t][m].insert = out[t][n].insert => out[t][m].file = out[t][n].file

\* What a statement adds to its file: nothing yet, or a header and its rows.
SizeInv ==
  phase # "failed" =>
    \A t \in Tables :
      /\ written_size[t] = Len(Current(t))
      /\ empty[t] <=> RowsNow(t) = 0
      /\ FileSize # None /\ FileSize > Len(FileHeader(format)) =>
           written_size[t] - PartialSize(RowsNow(t)) < FileSize

RotatedInv ==
  \A t \in Tables : \A k \in 1..(Len(text[t]) - 1) :
    /\ FileSize # None
    /\ Len(text[t][k]) >= FileSize
    /\ FileSize > Len(FileHeader(format)) =>
         \E i \in 0..(insert - 1) :
           /\ RowsOf(t, k, i) > 0
           /\ \A n \in 1..Len(out[t]) : out[t][n].file = k => out[t][n].insert <= i
           /\ Len(text[t][k]) - StatementSize(RowsOf(t, k, i)) < FileSize

StatementInv ==
  phase # "failed" =>
    /\ RowsNow(1) = in_insert + IF stack = <<>> THEN 0 ELSE 1
    /\ \A i \in 1..insert :
         InsertRows[i] > 0 => \E k \in 1..Len(text[1]) : RowsOf(1, k, i - 1) = InsertRows[i]

----------------------------------------------------------------------------
(* The rows of the derived tables.  Of the rows of a table only the last   *)
(* can still be expanded, when the table has a frame: the derived tables   *)
(* before the frame's `child' are done, `r' rows of that one are begun,    *)
(* and those after it have not been asked for.                             *)

OnStack(p) == \E j \in 1..Len(stack) : stack[j].table = p

\* Row n of its parent has the rows of t that were asked for.
ChildDone(t, n) == n <= Len(asked[t]) /\ NumberedTo(t, n, asked[t][n])

\* The frame f of the last row of p, at or not yet at t, its k-th derived table.
Expanding(p, k, t, f) ==
  /\ Len(out[p]) > 0
  /\ out[p][Len(out[p])].row_num = row_num
  /\ k < f.child => Len(asked[t]) = Len(out[p]) /\ ChildDone(t, Len(out[p]))
  /\ k = f.child => /\ Len(asked[t]) = Len(out[p])
                    /\ asked[t][Len(out[p])] = f.count
                    /\ NumberedTo(t, Len(out[p]), f.r)
  /\ k > f.child => Len(asked[t]) = Len(out[p]) - 1 /\ NumberedTo(t, Len(out[p]), 0)

ChildPair(p, k, t) ==
  /\ \A i \in 1..Len(out[t]) :
       /\ out[t][i].up \in 1..Len(out[p])
       /\ out[t][i].row_num = out[p][out[t][i].up].row_num
  /\ \A n \in 1..(Len(out[p]) - 1) : ChildDone(t, n)
  /\ ~ OnStack(p) => /\ Len(asked[t]) = Len(out[p])
                     /\ Len(out[p]) > 0 => ChildDone(t, Len(out[p]))
  /\ \A j \in 1..Len(stack) : stack[j].table = p => Expanding(p, k, t, stack[j])

ChildInv ==
  phase # "failed" =>
    \A p \in Tables : \A k \in 1..Len(Derived[p]) : ChildPair(p, k, Derived[p][k])

----------------------------------------------------------------------------
(* The types, the stack and the loops.                                     *)

LEMMA TablesFacts ==
  /\ Len(Derived) \in Nat \ {0}
  /\ 1 \in Tables /\ Tables \subseteq Nat
  /\ \A t \in Tables : Derived[t] \in Seq(Nat) /\ Len(Derived[t]) \in Nat
  /\ \A t \in Tables : \A k \in 1..Len(Derived[t]) : Derived[t][k] \in Tables /\ Derived[t][k] > t
<1>1. Derived \in Seq(Seq(Nat)) /\ Derived # <<>>
  BY DataFileAssumption
<1>2. Len(Derived) \in Nat \ {0}
  BY <1>1, EmptySeq
<1>3. \A t \in Tables : Derived[t] \in Seq(Nat)
  BY <1>1, ElementOfSeq DEF Tables
<1>4. \A t \in Tables : Len(Derived[t]) \in Nat
  BY <1>3, LenProperties
<1>. QED BY <1>2, <1>3, <1>4, DataFileAssumption DEF Tables

LEMMA FormatUnits ==
  /\ FileHeader(format) \in Seq(Units) /\ Header(format) \in Seq(Units)
  /\ RowSeparator(format) \in Seq(Units) /\ Trailer(format) \in Seq(Units)
  /\ Len(FileHeader(format)) \in {0, 1} /\ Len(Header(format)) \in {0, 1}
  /\ Len(RowSeparator(format)) = 1 /\ Len(Trailer(format)) = 1
<1>1. \A u \in Units : <<u>> \in Seq(Units) /\ Len(<<u>>) = 1
  OBVIOUS
<1>2. <<>> \in Seq(Units) /\ Len(<<>>) = 0
  OBVIOUS
<1>3. {"names", "INSERT", "comma", "end", "newline"} \subseteq Units
  BY DEF Units
<1>4. FileHeader(format) \in {<<"names">>, <<>>}
  BY DEF FileHeader
<1>5. Header(format) \in {<<"INSERT">>, <<>>}
  BY DEF Header
<1>6. RowSeparator(format) \in {<<"comma">>, <<"end">>, <<"newline">>}
  BY DEF RowSeparator
<1>7. Trailer(format) \in {<<"end">>, <<"newline">>}
  BY DEF Trailer
<1>8. FileHeader(format) \in Seq(Units) /\ Len(FileHeader(format)) \in {0, 1}
  BY <1>1, <1>2, <1>3, <1>4
<1>9. Header(format) \in Seq(Units) /\ Len(Header(format)) \in {0, 1}
  BY <1>1, <1>2, <1>3, <1>5
<1>10. RowSeparator(format) \in Seq(Units) /\ Len(RowSeparator(format)) = 1
  BY <1>1, <1>3, <1>6
<1>11. Trailer(format) \in Seq(Units) /\ Len(Trailer(format)) = 1
  BY <1>1, <1>3, <1>7
<1>. QED BY <1>8, <1>9, <1>10, <1>11

\* The lead of a row, and the lead with the row.
LEMMA LeadUnits ==
  ASSUME NEW t \in Tables
  PROVE  /\ Lead(t) \in Seq(Units) /\ Append(Lead(t), "row") \in Seq(Units)
         /\ Len(Append(Lead(t), "row")) = Len(Lead(t)) + 1
         /\ Len(Lead(t)) = IF empty[t] THEN Len(Header(format)) ELSE 1
<1>1. Lead(t) \in Seq(Units) /\ Len(Lead(t)) = IF empty[t] THEN Len(Header(format)) ELSE 1
  BY FormatUnits DEF Lead
<1>2. "row" \in Units
  BY DEF Units
<1>. QED BY <1>1, <1>2, AppendProperties

\* The current file of a table, and the files with a longer current one.
LEMMA CurrentFile ==
  ASSUME TypeInv, NEW t \in Tables
  PROVE  /\ text[t] \in Seq(Seq(Units)) /\ Len(text[t]) \in Nat \ {0}
         /\ Current(t) \in Seq(Units) /\ Len(Current(t)) \in Nat
<1>1. text[t] \in Seq(Seq(Units)) /\ text[t] # <<>>
  BY DEF TypeInv
<1>2. Len(text[t]) \in Nat \ {0}
  BY <1>1, EmptySeq
<1>3. Current(t) \in Seq(Units)
  BY <1>1, <1>2, ElementOfSeq DEF Current
<1>. QED BY <1>1, <1>2, <1>3, LenProperties

LEMMA ReplacedCurrent ==
  ASSUME TypeInv, NEW t \in Tables, NEW file \in Seq(Units)
  PROVE  LET files == [text[t] EXCEPT ![Len(text[t])] = file] IN
         /\ files \in Seq(Seq(Units)) /\ files # <<>>
         /\ Len(files) = Len(text[t])
         /\ files[Len(text[t])] = file
         /\ \A k \in 1..(Len(text[t]) - 1) : files[k] = text[t][k]
<1> DEFINE files == [text[t] EXCEPT ![Len(text[t])] = file]
<1>1. text[t] \in Seq(Seq(Units)) /\ Len(text[t]) \in 1..Len(text[t])
  BY CurrentFile
<1>2. /\ files \in Seq(Seq(Units)) /\ Len(files) = Len(text[t])
      /\ \A j \in 1..Len(text[t]) : files[j] = IF j = Len(text[t]) THEN file ELSE text[t][j]
  BY <1>1, ExceptSeq
<1>3. files # <<>>
  BY <1>1, <1>2, EmptySeq, CurrentFile
<1>. QED BY <1>1, <1>2, <1>3, CurrentFile

\* What BeginRow does, with the units that it writes.
RowAt(t, sub, up) ==
  [row_num |-> row_num, sub |-> sub, up |-> up, insert |-> insert, file |-> Len(text[t])]

Written(t, sub, up, units) ==
  /\ empty' = [empty EXCEPT ![t] = FALSE]
  /\ text' = [text EXCEPT ![t] = [text[t] EXCEPT ![Len(text[t])] = Current(t) \o units]]
  /\ written_size' = [written_size EXCEPT ![t] = @ + Len(units)]
  /\ \/ /\ units = Append(Lead(t), "row")
        /\ out' = [out EXCEPT ![t] = Append(out[t], RowAt(t, sub, up))]
        /\ phase' = phase
     \/ units = Lead(t) /\ out' = out /\ phase' = "failed"

LEMMA BeginRowWrites ==
  ASSUME TypeInv, NEW t \in Tables, NEW sub \in Nat, NEW up \in Nat, BeginRow(t, sub, up)
  PROVE  \E units \in Seq(Units) : Written(t, sub, up, units)
<1>1. ASSUME NEW units, Write(t, units)
      PROVE  /\ text' = [text EXCEPT ![t] = [text[t] EXCEPT ![Len(text[t])] = Current(t) \o units]]
             /\ written_size' = [written_size EXCEPT ![t] = @ + Len(units)]
  BY <1>1 DEF Write, Current, TypeInv
<1>2. empty' = [empty EXCEPT ![t] = FALSE]
  BY DEF BeginRow
<1>3. CASE /\ Write(t, Append(Lead(t), "row"))
           /\ out' = [out EXCEPT ![t] = Append(@, RowAt(t, sub, up))]
           /\ phase' = phase
  BY <1>1, <1>2, <1>3, LeadUnits DEF Written
<1>4. CASE Write(t, Lead(t)) /\ phase' = "failed" /\ out' = out
  BY <1>1, <1>2, <1>4, LeadUnits DEF Written
<1>. QED BY <1>3, <1>4 DEF BeginRow, RowAt

\* The frame on top, and the stack after a frame is changed, pushed or popped.
LEMMA TopFrame ==
  ASSUME TypeInv, stack # <<>>
  PROVE  /\ Len(stack) \in Nat \ {0}
         /\ Top = stack[Len(stack)] /\ Top \in FrameType
         /\ Top.table \in Tables /\ Top.child \in Nat /\ Top.count \in Nat /\ Top.r \in Nat
<1>1. stack \in Seq(FrameType) /\ Len(stack) \in Nat \ {0}
  BY EmptySeq DEF TypeInv
<1>2. Top = stack[Len(stack)] /\ Top \in FrameType
  BY <1>1, ElementOfSeq DEF Top, Last
<1>. QED BY <1>1, <1>2 DEF FrameType

LEMMA ReplacedTop ==
  ASSUME TypeInv, stack # <<>>, NEW f \in FrameType
  PROVE  /\ WithTop(f) \in Seq(FrameType) /\ Len(WithTop(f)) = Len(stack)
         /\ \A j \in 1..(Len(stack) - 1) : WithTop(f)[j] = stack[j]
         /\ WithTop(f)[Len(stack)] = f
         /\ WithTop(f) # <<>>
<1>1. stack \in Seq(FrameType) /\ Len(stack) \in 1..Len(stack)
  BY TopFrame DEF TypeInv
<1>2. /\ WithTop(f) \in Seq(FrameType) /\ Len(WithTop(f)) = Len(stack)
      /\ \A j \in 1..Len(stack) : WithTop(f)[j] = IF j = Len(stack) THEN f ELSE stack[j]
  BY <1>1, ExceptSeq DEF WithTop
<1>3. WithTop(f) # <<>>
  BY <1>1, <1>2, EmptySeq, TopFrame
<1>. QED BY <1>1, <1>2, <1>3, TopFrame

LEMMA PushedFrame ==
  ASSUME TypeInv, stack # <<>>, NEW f \in FrameType, NEW g \in FrameType
  PROVE  LET pushed == Append(WithTop(f), g) IN
         /\ pushed \in Seq(FrameType) /\ Len(pushed) = Len(stack) + 1 /\ pushed # <<>>
         /\ \A j \in 1..(Len(stack) - 1) : pushed[j] = stack[j]
         /\ pushed[Len(stack)] = f
         /\ pushed[Len(stack) + 1] = g
BY ReplacedTop, TopFrame, AppendProperties

LEMMA PoppedFrame ==
  ASSUME TypeInv, stack # <<>>
  PROVE  /\ Front(stack) \in Seq(FrameType) /\ Len(Front(stack)) = Len(stack) - 1
         /\ \A j \in 1..(Len(stack) - 1) : Front(stack)[j] = stack[j]
         /\ Front(stack) = <<>> <=> Len(stack) = 1
<1>1. stack \in Seq(FrameType) /\ Len(stack) \in Nat \ {0}
  BY TopFrame DEF TypeInv
<1>2. \A i \in 1..(Len(stack) - 1) : stack[i] \in FrameType
  BY <1>1, ElementOfSeq
<1>3. /\ Front(stack) \in Seq(FrameType)
      /\ Len(Front(stack)) = IF 1 <= Len(stack) - 1 THEN Len(stack) - 1 - 1 + 1 ELSE 0
      /\ \A i \in 1..(Len(stack) - 1 - 1 + 1) : Front(stack)[i] = stack[1 + i - 1]
  BY <1>1, <1>2, SubSeqProperties DEF Front
<1>4. Len(Front(stack)) = Len(stack) - 1
  <2>1. ASSUME NEW n \in Nat \ {0} PROVE (IF 1 <= n - 1 THEN n - 1 - 1 + 1 ELSE 0) = n - 1
    OBVIOUS
  <2>. QED BY <1>1, <1>3, <2>1
<1>5. \A i \in 1..(Len(stack) - 1) : Front(stack)[i] = stack[i]
  BY <1>1, <1>3
<1>6. Front(stack) = <<>> <=> Len(Front(stack)) = 0
  BY <1>3, EmptySeq
<1>. QED BY <1>1, <1>3, <1>4, <1>5, <1>6

\* The table of the next derived row.
LEMMA ChildTable ==
  ASSUME ControlInv, stack # <<>>, Top.r < Top.count
  PROVE  /\ Top.child \in 1..Len(Derived[Top.table])
         /\ Derived[Top.table][Top.child] \in Tables
         /\ Derived[Top.table][Top.child] > Top.table
<1>1. TypeInv /\ FrameInv
  BY DEF ControlInv
<1>2. Top.child <= Len(Derived[Top.table]) /\ Top.child # 0
  BY <1>1, TopFrame DEF FrameInv
<1>3. Top.child \in 1..Len(Derived[Top.table])
  BY <1>1, <1>2, TopFrame, TablesFacts
<1>. QED BY <1>1, <1>3, TopFrame, TablesFacts

LEMMA InsertRowsTypes ==
  /\ Len(InsertRows) \in Nat
  /\ \A i \in 1..Len(InsertRows) : InsertRows[i] \in Nat
BY DataFileAssumption, LenProperties, ElementOfSeq

LEMMA ControlInit == Init => ControlInv
<1> SUFFICES ASSUME Init PROVE ControlInv
  OBVIOUS
<1>1. TypeInv
  <2>1. FileHeader(format) \in Seq(Units) /\ Len(FileHeader(format)) \in Nat
    BY FormatUnits
  <2>2. << FileHeader(format) >> \in Seq(Seq(Units)) /\ << FileHeader(format) >> # <<>>
    BY <2>1
  <2>3. /\ <<>> \in Seq(FrameType) /\ <<>> \in Seq(RowType) /\ <<>> \in Seq(Nat)
    OBVIOUS
  <2>. QED BY <2>1, <2>2, <2>3, InsertRowsTypes, DataFileAssumption DEF Init, TypeInv
<1>2. FrameInv
  BY DEF Init, FrameInv
<1>3. LoopInv
  <2>1. insert = 0 /\ in_insert = 0 /\ stack = <<>> /\ phase = "writing"
    BY DEF Init
  <2>2. 0 < Len(InsertRows) => InsertRows[1] \in Nat
    BY InsertRowsTypes
  <2>. QED BY <2>1, <2>2, InsertRowsTypes DEF LoopInv
<1>. QED BY <1>1, <1>2, <1>3 DEF ControlInv

\* Writing a row keeps the types of the files, the rows and the sizes.
LEMMA WrittenTypes ==
  ASSUME TypeInv, NEW t \in Tables, NEW sub \in Nat, NEW up \in Nat,
         NEW units \in Seq(Units), Written(t, sub, up, units)
  PROVE  /\ empty' \in [Tables -> BOOLEAN]
         /\ written_size' \in [Tables -> Nat]
         /\ text' \in [Tables -> Seq(Seq(Units))]
         /\ \A u \in Tables : text'[u] # <<>>
         /\ out' \in [Tables -> Seq(RowType)]
         /\ phase' \in {phase, "failed"}
<1>1. empty' \in [Tables -> BOOLEAN]
  BY DEF Written, TypeInv
<1>2. written_size' \in [Tables -> Nat]
  BY LenProperties DEF Written, TypeInv
<1> DEFINE files == [text[t] EXCEPT ![Len(text[t])] = Current(t) \o units]
<1>3. Current(t) \o units \in Seq(Units)
  BY CurrentFile, ConcatProperties
<1>4. files \in Seq(Seq(Units)) /\ files # <<>>
  BY <1>3, ReplacedCurrent
<1>5. text' = [text EXCEPT ![t] = files]
  BY DEF Written
<1>6. text' \in [Tables -> Seq(Seq(Units))] /\ \A u \in Tables : text'[u] # <<>>
  <2> HIDE DEF files
  <2>. QED BY <1>4, <1>5 DEF TypeInv
<1>7. RowAt(t, sub, up) \in RowType
  BY CurrentFile DEF RowAt, RowType, TypeInv
<1>8. out[t] \in Seq(RowType)
  BY DEF TypeInv
<1>9. Append(out[t], RowAt(t, sub, up)) \in Seq(RowType)
  BY <1>7, <1>8, AppendProperties
<1>10. out' \in [Tables -> Seq(RowType)]
  BY <1>9 DEF Written, TypeInv
<1>. QED BY <1>1, <1>2, <1>6, <1>10 DEF Written

\* The files of a table after the end of a statement.
LEMMA ClosedFile ==
  ASSUME TypeInv, NEW t \in Tables
  PROVE  /\ Closed(t) \in Seq(Units)
         /\ Closed(t) = Current(t) \o IF empty[t] THEN <<>> ELSE Trailer(format)
         /\ Len(Closed(t)) = Len(Current(t)) + IF empty[t] THEN 0 ELSE 1
<1> DEFINE trailer == IF empty[t] THEN <<>> ELSE Trailer(format)
<1>1. trailer \in Seq(Units) /\ Len(trailer) = IF empty[t] THEN 0 ELSE 1
  BY FormatUnits, EmptySeq
<1>2. Closed(t) = Current(t) \o trailer
  BY DEF Closed, Current, Last
<1> HIDE DEF trailer
<1>3. Closed(t) \in Seq(Units) /\ Len(Closed(t)) = Len(Current(t)) + Len(trailer)
  BY <1>1, <1>2, CurrentFile, ConcatProperties
<1>. QED BY <1>1, <1>2, <1>3 DEF trailer

LEMMA ClosedSizes ==
  ASSUME TypeInv, NEW t \in Tables
  PROVE  /\ ClosedSize(t) = written_size[t] + IF empty[t] THEN 0 ELSE 1
         /\ ClosedSize(t) \in Nat /\ SizeAfter(t) \in Nat
<1>1. ClosedSize(t) = written_size[t] + IF empty[t] THEN 0 ELSE 1
  BY FormatUnits DEF ClosedSize
<1>2. written_size[t] \in Nat
  BY DEF TypeInv
<1>3. ClosedSize(t) \in Nat
  BY <1>1, <1>2
<1>. QED BY <1>1, <1>3, FormatUnits DEF SizeAfter

LEMMA FilesAfterFacts ==
  ASSUME TypeInv, NEW t \in Tables
  PROVE  /\ FilesAfter(t) \in Seq(Seq(Units)) /\ FilesAfter(t) # <<>>
         /\ Len(FilesAfter(t)) = Len(text[t]) + IF Rotates(t) THEN 1 ELSE 0
         /\ \A k \in 1..(Len(text[t]) - 1) : FilesAfter(t)[k] = text[t][k]
         /\ FilesAfter(t)[Len(text[t])] = Closed(t)
         /\ Rotates(t) => FilesAfter(t)[Len(text[t]) + 1] = FileHeader(format)
<1> DEFINE files == [text[t] EXCEPT ![Len(text[t])] = Closed(t)]
<1>1. /\ files \in Seq(Seq(Units)) /\ files # <<>> /\ Len(files) = Len(text[t])
      /\ files[Len(text[t])] = Closed(t)
      /\ \A k \in 1..(Len(text[t]) - 1) : files[k] = text[t][k]
  BY ClosedFile, ReplacedCurrent
<1>2. FilesAfter(t) = IF Rotates(t) THEN Append(files, FileHeader(format)) ELSE files
  BY DEF FilesAfter
<1>3. FileHeader(format) \in Seq(Units) /\ Len(text[t]) \in Nat \ {0}
  BY FormatUnits, CurrentFile
<1> HIDE DEF files
<1>4. CASE Rotates(t)
  <2> DEFINE more == Append(files, FileHeader(format))
  <2>1. FilesAfter(t) = more
    BY <1>2, <1>4
  <2>2. /\ more \in Seq(Seq(Units)) /\ more # <<>>
        /\ Len(more) = Len(files) + 1
        /\ \A i \in 1..Len(files) : more[i] = files[i]
        /\ more[Len(files) + 1] = FileHeader(format)
    BY <1>1, <1>3, AppendProperties
  <2> HIDE DEF more
  <2>3. more[Len(text[t])] = Closed(t)
    <3>1. Len(text[t]) \in 1..Len(files)
      BY <1>1, <1>3
    <3>. QED BY <1>1, <2>2, <3>1
  <2>4. \A k \in 1..(Len(text[t]) - 1) : more[k] = text[t][k]
    BY <1>1, <1>3, <2>2
  <2>. QED BY <1>1, <1>4, <2>1, <2>2, <2>3, <2>4
<1>5. CASE ~ Rotates(t)
  <2>1. FilesAfter(t) = files
    BY <1>2, <1>5
  <2>2. Len(text[t]) + (IF Rotates(t) THEN 1 ELSE 0) = Len(text[t])
    BY <1>3, <1>5
  <2>3. Len(FilesAfter(t)) = Len(text[t]) + IF Rotates(t) THEN 1 ELSE 0
    BY <1>1, <2>1, <2>2
  <2>. QED BY <1>1, <1>5, <2>1, <2>3
<1>. QED BY <1>4, <1>5

LEMMA ControlStart == ControlInv /\ StartRow => ControlInv'
<1> SUFFICES ASSUME ControlInv, StartRow PROVE ControlInv'
  OBVIOUS
<1>1. TypeInv /\ FrameInv /\ LoopInv
  BY DEF ControlInv
<1>2. PICK units \in Seq(Units) : Written(1, 1, 0, units)
  BY <1>1, BeginRowWrites, TablesFacts DEF StartRow
<1>3. /\ stack' = << Frame(1) >> /\ Frame(1) \in FrameType
      /\ stack = <<>> /\ phase = "writing"
      /\ insert < Len(InsertRows) /\ in_insert < InsertRows[insert + 1]
      /\ UNCHANGED <<format, insert, in_insert, row_num, asked>>
  BY TablesFacts DEF StartRow, Frame, FrameType
<1>4. TypeInv'
  <2>1. /\ empty' \in [Tables -> BOOLEAN]
        /\ written_size' \in [Tables -> Nat]
        /\ text' \in [Tables -> Seq(Seq(Units))]
        /\ \A u \in Tables : text'[u] # <<>>
        /\ out' \in [Tables -> Seq(RowType)]
        /\ phase' \in {phase, "failed"}
    BY <1>1, <1>2, TablesFacts, WrittenTypes
  <2>2. stack' \in Seq(FrameType)
    BY <1>3
  <2>. QED BY <1>1, <1>3, <2>1, <2>2 DEF TypeInv
<1>5. FrameInv'
  BY <1>3, TablesFacts DEF FrameInv, Frame
<1>6. LoopInv'
  BY <1>1, <1>2, <1>3 DEF LoopInv, Written
<1>. QED BY <1>4, <1>5, <1>6 DEF ControlInv

\* The frame of a table that goes on to its next derived table.
LEMMA NextFrame ==
  ASSUME NEW frame \in FrameType, NEW n \in Nat
  PROVE  LET next == [frame EXCEPT !.child = @ + 1, !.count = n, !.r = 0] IN
         /\ next \in FrameType /\ next.table = frame.table
         /\ next.child = frame.child + 1 /\ next.count = n /\ next.r = 0
<1>1. \A c \in Nat : [frame EXCEPT !.child = c, !.count = n, !.r = 0] \in FrameType
  BY DEF FrameType
<1>2. frame.child + 1 \in Nat
  BY DEF FrameType
<1>. QED BY <1>1, <1>2 DEF FrameType

LEMMA ControlNextChild == ControlInv /\ NextChild => ControlInv'
<1> SUFFICES ASSUME ControlInv, NextChild PROVE ControlInv'
  OBVIOUS
<1>1. TypeInv /\ FrameInv /\ LoopInv /\ stack # <<>> /\ Top.child < Len(Derived[Top.table])
  BY DEF ControlInv, NextChild
<1>2. UNCHANGED <<format, insert, in_insert, row_num, sub_row_num, empty, written_size, text, out>>
  BY DEF NextChild
<1>3. CASE phase' = "failed" /\ UNCHANGED <<stack, asked>>
  BY <1>1, <1>2, <1>3 DEF ControlInv, TypeInv, FrameInv, LoopInv
<1>4. ASSUME NEW c \in Tables, NEW n \in 0..MaxChildren[c],
             stack' = WithTop([Top EXCEPT !.child = @ + 1, !.count = n, !.r = 0]),
             asked' = [asked EXCEPT ![c] = Append(@, n)], phase' = phase
      PROVE  ControlInv'
  <2> DEFINE f == [Top EXCEPT !.child = @ + 1, !.count = n, !.r = 0]
  <2>1. n \in Nat
    BY DataFileAssumption
  <2>2. /\ f \in FrameType /\ f.table = Top.table /\ f.child = Top.child + 1
        /\ f.count = n /\ f.r = 0
    <3>1. Top \in FrameType
      BY <1>1, TopFrame
    <3>. QED BY <2>1, <3>1, NextFrame
  <2> HIDE DEF f
  <2>3. /\ stack' \in Seq(FrameType) /\ Len(stack') = Len(stack) /\ stack' # <<>>
        /\ \A j \in 1..(Len(stack) - 1) : stack'[j] = stack[j]
        /\ stack'[Len(stack)] = f
    BY <1>1, <1>4, <2>2, ReplacedTop DEF f
  <2>4. asked[c] \in Seq(Nat) /\ Append(asked[c], n) \in Seq(Nat)
    BY <1>1, <2>1, AppendProperties DEF TypeInv
  <2>5. TypeInv'
    BY <1>1, <1>2, <1>4, <2>3, <2>4 DEF TypeInv
  <2>6. Len(stack) \in Nat \ {0} /\ Top = stack[Len(stack)] /\ Top.child \in Nat
    BY <1>1, TopFrame
  <2>7. \A j \in 1..Len(stack') : stack'[j].table = stack[j].table
    BY <2>2, <2>3, <2>6
  <2>8. Top.child + 1 <= Len(Derived[Top.table])
    BY <1>1, <2>6, TopFrame, TablesFacts
  <2>9. FrameInv'
    <3>1. \A j \in 1..Len(stack') :
            /\ stack'[j].child <= Len(Derived[stack'[j].table])
            /\ stack'[j].r <= stack'[j].count
            /\ stack'[j].child = 0 => stack'[j].count = 0
      <4> SUFFICES ASSUME NEW j \in 1..Len(stack')
                   PROVE  /\ stack'[j].child <= Len(Derived[stack'[j].table])
                          /\ stack'[j].r <= stack'[j].count
                          /\ stack'[j].child = 0 => stack'[j].count = 0
        OBVIOUS
      <4>1. CASE j = Len(stack)
        BY <2>1, <2>2, <2>3, <2>6, <2>8, <4>1
      <4>2. CASE j < Len(stack)
        BY <1>1, <2>3, <2>6, <4>2 DEF FrameInv
      <4>. QED BY <2>3, <2>6, <4>1, <4>2
    <3>2. \A i, j \in 1..Len(stack') : i < j => stack'[i].table < stack'[j].table
      BY <1>1, <2>3, <2>7 DEF FrameInv
    <3>3. stack'[1].table = 1
      BY <1>1, <2>3, <2>6, <2>7 DEF FrameInv
    <3>. QED BY <3>1, <3>2, <3>3 DEF FrameInv
  <2>10. LoopInv'
    BY <1>1, <1>2, <1>4, <2>3 DEF LoopInv, NextChild
  <2>. QED BY <2>5, <2>9, <2>10 DEF ControlInv
<1>5. Derived[Top.table][Top.child + 1] \in Tables
  <2>1. Top.table \in Tables /\ Top.child \in Nat
    BY <1>1, TopFrame
  <2>2. Top.child + 1 \in 1..Len(Derived[Top.table])
    BY <1>1, <2>1, TablesFacts
  <2>. QED BY <2>1, <2>2, TablesFacts
<1>. QED BY <1>3, <1>4, <1>5 DEF NextChild

\* What ChildRow does to the stack.
NextRowFrame == [Top EXCEPT !.r = @ + 1]
ChildOfTop == Derived[Top.table][Top.child]

LEMMA RowFrame ==
  ASSUME NEW frame \in FrameType
  PROVE  LET next == [frame EXCEPT !.r = @ + 1] IN
         /\ next \in FrameType /\ next.table = frame.table
         /\ next.child = frame.child /\ next.count = frame.count /\ next.r = frame.r + 1
<1>1. \A c \in Nat : [frame EXCEPT !.r = c] \in FrameType
  BY DEF FrameType
<1>2. frame.r + 1 \in Nat
  BY DEF FrameType
<1>. QED BY <1>1, <1>2 DEF FrameType

LEMMA ChildRowFacts ==
  ASSUME ControlInv, ChildRow
  PROVE  /\ stack # <<>> /\ Top.r < Top.count /\ phase = "writing"
         /\ Top.child \in 1..Len(Derived[Top.table])
         /\ ChildOfTop \in Tables /\ ChildOfTop > Top.table
         /\ \E units \in Seq(Units) : Written(ChildOfTop, Top.r + 1, Len(out[Top.table]), units)
         /\ stack' \in Seq(FrameType) /\ Len(stack') = Len(stack) + 1 /\ stack' # <<>>
         /\ \A j \in 1..(Len(stack) - 1) : stack'[j] = stack[j]
         /\ stack'[Len(stack)] = NextRowFrame
         /\ NextRowFrame.table = Top.table /\ NextRowFrame.child = Top.child
         /\ NextRowFrame.count = Top.count /\ NextRowFrame.r = Top.r + 1
         /\ stack'[Len(stack) + 1] = Frame(ChildOfTop)
         /\ Top.r + 1 \in Nat /\ Len(out[Top.table]) \in Nat
         /\ UNCHANGED <<format, insert, in_insert, row_num, asked>>
<1>1. TypeInv /\ stack # <<>> /\ Top.r < Top.count /\ phase = "writing"
  BY DEF ControlInv, ChildRow
<1>2. /\ Top.child \in 1..Len(Derived[Top.table])
      /\ ChildOfTop \in Tables /\ ChildOfTop > Top.table
  BY <1>1, ChildTable DEF ChildOfTop
<1>3. /\ BeginRow(ChildOfTop, Top.r + 1, Len(out[Top.table]))
      /\ stack' = Append(WithTop(NextRowFrame), Frame(ChildOfTop))
      /\ UNCHANGED <<format, insert, in_insert, row_num, asked>>
  BY DEF ChildRow, ChildOfTop, NextRowFrame, NextSub
<1>4. Top \in FrameType /\ Top.r \in Nat /\ Top.table \in Tables
  BY <1>1, TopFrame
<1>5. /\ NextRowFrame \in FrameType
      /\ NextRowFrame.table = Top.table /\ NextRowFrame.child = Top.child
      /\ NextRowFrame.count = Top.count /\ NextRowFrame.r = Top.r + 1
  BY <1>4, RowFrame DEF NextRowFrame
<1>6. Frame(ChildOfTop) \in FrameType
  BY <1>2 DEF Frame, FrameType
<1>7. /\ stack' \in Seq(FrameType) /\ Len(stack') = Len(stack) + 1 /\ stack' # <<>>
      /\ \A j \in 1..(Len(stack) - 1) : stack'[j] = stack[j]
      /\ stack'[Len(stack)] = NextRowFrame
      /\ stack'[Len(stack) + 1] = Frame(ChildOfTop)
  BY <1>1, <1>3, <1>5, <1>6, PushedFrame
<1>8. Top.r + 1 \in Nat /\ Len(out[Top.table]) \in Nat
  BY <1>1, <1>4, LenProperties DEF TypeInv
<1>9. \E units \in Seq(Units) : Written(ChildOfTop, Top.r + 1, Len(out[Top.table]), units)
  BY <1>1, <1>2, <1>3, <1>8, BeginRowWrites
<1>. QED BY <1>1, <1>2, <1>3, <1>5, <1>7, <1>8, <1>9

LEMMA ControlChildRow == ControlInv /\ ChildRow => ControlInv'
<1> SUFFICES ASSUME ControlInv, ChildRow PROVE ControlInv'
  OBVIOUS
<1>1. TypeInv /\ FrameInv /\ LoopInv
  BY DEF ControlInv
<1>2. /\ stack # <<>> /\ Top.r < Top.count
      /\ Top.child \in 1..Len(Derived[Top.table])
      /\ ChildOfTop \in Tables /\ ChildOfTop > Top.table
      /\ stack' \in Seq(FrameType) /\ Len(stack') = Len(stack) + 1 /\ stack' # <<>>
      /\ \A j \in 1..(Len(stack) - 1) : stack'[j] = stack[j]
      /\ stack'[Len(stack)] = NextRowFrame
      /\ NextRowFrame.table = Top.table /\ NextRowFrame.child = Top.child
      /\ NextRowFrame.count = Top.count /\ NextRowFrame.r = Top.r + 1
      /\ stack'[Len(stack) + 1] = Frame(ChildOfTop)
      /\ UNCHANGED <<format, insert, in_insert, row_num, asked>>
  BY ChildRowFacts
<1>3. PICK units \in Seq(Units) : Written(ChildOfTop, Top.r + 1, Len(out[Top.table]), units)
  BY ChildRowFacts
<1>4. /\ Len(stack) \in Nat \ {0} /\ Top = stack[Len(stack)]
      /\ Top.table \in Tables /\ Top.r \in Nat /\ Top.count \in Nat /\ Top.child \in Nat
  BY <1>1, <1>2, TopFrame
<1>5. Top.r + 1 \in Nat /\ Len(out[Top.table]) \in Nat
  BY <1>1, <1>4, LenProperties DEF TypeInv
<1>6. TypeInv'
  <2>1. /\ empty' \in [Tables -> BOOLEAN]
        /\ written_size' \in [Tables -> Nat]
        /\ text' \in [Tables -> Seq(Seq(Units))]
        /\ \A u \in Tables : text'[u] # <<>>
        /\ out' \in [Tables -> Seq(RowType)]
        /\ phase' \in {phase, "failed"}
    BY <1>1, <1>2, <1>3, <1>5, WrittenTypes
  <2>. QED BY <1>1, <1>2, <2>1 DEF TypeInv
<1>7. FrameInv'
  <2>1. \A j \in 1..Len(stack') :
          /\ stack'[j].child <= Len(Derived[stack'[j].table])
          /\ stack'[j].r <= stack'[j].count
          /\ stack'[j].child = 0 => stack'[j].count = 0
    <3> SUFFICES ASSUME NEW j \in 1..Len(stack')
                 PROVE  /\ stack'[j].child <= Len(Derived[stack'[j].table])
                        /\ stack'[j].r <= stack'[j].count
                        /\ stack'[j].child = 0 => stack'[j].count = 0
      OBVIOUS
    <3>1. CASE j < Len(stack)
      <4>1. j \in 1..Len(stack) /\ j \in 1..(Len(stack) - 1)
        BY <1>2, <1>4, <3>1
      <4>2. stack'[j] = stack[j]
        BY <1>2, <4>1
      <4>3. /\ stack[j].child <= Len(Derived[stack[j].table])
            /\ stack[j].r <= stack[j].count
            /\ stack[j].child = 0 => stack[j].count = 0
        BY <1>1, <4>1 DEF FrameInv
      <4>. QED BY <4>2, <4>3
    <3>2. CASE j = Len(stack)
      <4>1. Len(Derived[Top.table]) \in Nat
        BY <1>4, TablesFacts
      <4>. QED BY <1>2, <1>4, <3>2, <4>1
    <3>3. CASE j = Len(stack) + 1
      <4>1. stack'[j] = Frame(ChildOfTop) /\ Len(Derived[ChildOfTop]) \in Nat
        BY <1>2, <3>3, TablesFacts
      <4>. QED BY <4>1 DEF Frame
    <3>. QED BY <1>2, <1>4, <3>1, <3>2, <3>3
  <2>2. \A j \in 1..Len(stack) : stack'[j].table = stack[j].table /\ stack[j].table \in Nat
    <3>1. \A j \in 1..Len(stack) : stack[j] \in FrameType
      BY <1>1, ElementOfSeq DEF TypeInv
    <3>2. \A j \in 1..Len(stack) : stack[j].table \in Nat
      BY <3>1, TablesFacts DEF FrameType
    <3>3. \A j \in 1..Len(stack) : stack'[j].table = stack[j].table
      <4> TAKE j \in 1..Len(stack)
      <4>1. CASE j = Len(stack)
        BY <1>2, <1>4, <4>1
      <4>2. CASE j \in 1..(Len(stack) - 1)
        BY <1>2, <4>2
      <4>. QED BY <1>4, <4>1, <4>2
    <3>. QED BY <3>2, <3>3
  <2>3. stack'[Len(stack) + 1].table = ChildOfTop
    BY <1>2 DEF Frame
  <2>4. \A i, j \in 1..Len(stack') : i < j => stack'[i].table < stack'[j].table
    <3> SUFFICES ASSUME NEW i \in 1..Len(stack'), NEW j \in 1..Len(stack'), i < j
                 PROVE  stack'[i].table < stack'[j].table
      OBVIOUS
    <3>1. CASE j <= Len(stack)
      <4>1. i \in 1..Len(stack) /\ j \in 1..Len(stack)
        BY <1>2, <1>4, <3>1
      <4>2. stack[i].table < stack[j].table
        BY <1>1, <4>1 DEF FrameInv
      <4>. QED BY <2>2, <4>1, <4>2
    <3>2. CASE j = Len(stack) + 1
      <4>1. i \in 1..Len(stack) /\ stack[i].table \in Nat
        BY <1>2, <1>4, <2>2, <3>2
      <4>2. stack[i].table <= Top.table
        BY <1>1, <1>4, <2>2, <4>1 DEF FrameInv
      <4>. QED BY <1>2, <1>4, <2>2, <2>3, <3>2, <4>1, <4>2, TablesFacts
    <3>. QED BY <1>2, <1>4, <3>1, <3>2
  <2>5. stack'[1].table = 1
    BY <1>1, <1>2, <1>4, <2>2 DEF FrameInv
  <2>. QED BY <2>1, <2>4, <2>5 DEF FrameInv
<1>8. LoopInv'
  BY <1>1, <1>2, <1>3, ChildRowFacts DEF LoopInv, Written
<1>. QED BY <1>6, <1>7, <1>8 DEF ControlInv

LEMMA ControlEndRow == ControlInv /\ EndRow => ControlInv'
<1> SUFFICES ASSUME ControlInv, EndRow PROVE ControlInv'
  OBVIOUS
<1>1. TypeInv /\ FrameInv /\ LoopInv
  BY DEF ControlInv
<1>2. /\ stack # <<>> /\ phase = "writing" /\ stack' = Front(stack)
      /\ row_num' = IF Len(stack) = 1 THEN row_num + 1 ELSE row_num
      /\ in_insert' = IF Len(stack) = 1 THEN in_insert + 1 ELSE in_insert
      /\ UNCHANGED <<format, phase, insert, sub_row_num, empty, written_size, text, out, asked>>
  BY DEF EndRow, RowNumAfterRow
<1>3. /\ stack' \in Seq(FrameType) /\ Len(stack') = Len(stack) - 1
      /\ \A j \in 1..(Len(stack) - 1) : stack'[j] = stack[j]
      /\ stack' = <<>> <=> Len(stack) = 1
      /\ Len(stack) \in Nat \ {0}
  BY <1>1, <1>2, PoppedFrame, TopFrame
<1>4. TypeInv'
  BY <1>1, <1>2, <1>3 DEF TypeInv
<1>5. FrameInv'
  <2>1. \A j \in 1..Len(stack') : j \in 1..Len(stack) /\ stack'[j] = stack[j]
    BY <1>3
  <2>2. \A j \in 1..Len(stack') :
          /\ stack'[j].child <= Len(Derived[stack'[j].table])
          /\ stack'[j].r <= stack'[j].count
          /\ stack'[j].child = 0 => stack'[j].count = 0
    BY <1>1, <2>1 DEF FrameInv
  <2>3. \A i, j \in 1..Len(stack') : i < j => stack'[i].table < stack'[j].table
    BY <1>1, <2>1 DEF FrameInv
  <2>4. stack' # <<>> => stack'[1].table = 1
    BY <1>1, <1>2, <1>3 DEF FrameInv
  <2>. QED BY <2>2, <2>3, <2>4 DEF FrameInv
<1>6. LoopInv'
  <2>1. /\ insert < Len(InsertRows) /\ in_insert < InsertRows[insert + 1]
        /\ insert \in Nat /\ in_insert \in Nat /\ InsertRows[insert + 1] \in Nat
    <3>1. insert \in Nat /\ in_insert \in Nat /\ insert < Len(InsertRows)
      BY <1>1, <1>2 DEF LoopInv, TypeInv
    <3>2. insert + 1 \in 1..Len(InsertRows)
      BY <3>1, InsertRowsTypes
    <3>. QED BY <1>1, <1>2, <3>1, <3>2, InsertRowsTypes DEF LoopInv
  <2>2. in_insert' <= InsertRows[insert + 1]
    BY <1>2, <2>1
  <2>3. stack' # <<>> => in_insert' = in_insert
    BY <1>2, <1>3
  <2>. QED BY <1>2, <2>1, <2>2, <2>3, InsertRowsTypes DEF LoopInv
<1>. QED BY <1>4, <1>5, <1>6 DEF ControlInv

LEMMA ControlEndInsert == ControlInv /\ EndInsert => ControlInv'
<1> SUFFICES ASSUME ControlInv, EndInsert PROVE ControlInv'
  OBVIOUS
<1>1. TypeInv /\ FrameInv /\ LoopInv
  BY DEF ControlInv
<1>2. /\ stack = <<>> /\ phase = "writing" /\ insert < Len(InsertRows)
      /\ text' = [t \in Tables |-> FilesAfter(t)]
      /\ written_size' = [t \in Tables |-> SizeAfter(t)]
      /\ empty' = [t \in Tables |-> TRUE]
      /\ insert' = insert + 1 /\ in_insert' = 0
      /\ UNCHANGED <<format, phase, row_num, sub_row_num, stack, out, asked>>
  BY DEF EndInsert, EmptyAfterTrailer
<1>3. insert + 1 \in 1..Len(InsertRows)
  BY <1>1, <1>2, InsertRowsTypes DEF TypeInv
<1>4. TypeInv'
  <2>1. text' \in [Tables -> Seq(Seq(Units))] /\ \A t \in Tables : text'[t] # <<>>
    BY <1>1, <1>2, FilesAfterFacts
  <2>2. written_size' \in [Tables -> Nat]
    BY <1>1, <1>2, ClosedSizes
  <2>3. insert' \in 0..Len(InsertRows)
    BY <1>2, <1>3, InsertRowsTypes
  <2>. QED BY <1>1, <1>2, <2>1, <2>2, <2>3 DEF TypeInv
<1>5. FrameInv'
  BY <1>1, <1>2 DEF FrameInv
<1>6. LoopInv'
  <2>1. insert + 1 < Len(InsertRows) => InsertRows[insert + 1 + 1] \in Nat
    BY <1>3, InsertRowsTypes
  <2>. QED BY <1>2, <1>3, <2>1, InsertRowsTypes DEF LoopInv
<1>. QED BY <1>4, <1>5, <1>6 DEF ControlInv

LEMMA ControlFinish == ControlInv /\ Finish => ControlInv'
<1> SUFFICES ASSUME ControlInv, Finish PROVE ControlInv'
  OBVIOUS
<1>1. /\ TypeInv /\ FrameInv /\ LoopInv /\ insert = Len(InsertRows) /\ phase' = "done"
      /\ UNCHANGED <<format, insert, in_insert, row_num, sub_row_num, stack,
                     empty, written_size, text, out, asked>>
  BY DEF ControlInv, Finish
<1>2. TypeInv' /\ FrameInv'
  BY <1>1 DEF TypeInv, FrameInv
<1>3. LoopInv'
  BY <1>1, InsertRowsTypes DEF LoopInv
<1>. QED BY <1>2, <1>3 DEF ControlInv

LEMMA ControlNext == ControlInv /\ [Next]_vars => ControlInv'
<1>1. ASSUME ControlInv, UNCHANGED vars PROVE ControlInv'
  BY <1>1 DEF ControlInv, TypeInv, FrameInv, LoopInv, vars
<1>. QED BY <1>1, ControlStart, ControlNextChild, ControlChildRow, ControlEndRow,
            ControlEndInsert, ControlFinish DEF Next, Terminated

\* The frames of write_one_row are of ever lower tables of the tree, each within
\* its loops, and inside one row of the loops of write_data_file.
THEOREM ControlInvariance == Spec => []ControlInv
BY ControlInit, ControlNext, PTL DEF Spec

----------------------------------------------------------------------------
(* What a row changes: the files of its table, and its rows.               *)

LEMMA WrittenText ==
  ASSUME TypeInv, NEW t \in Tables, NEW sub, NEW up,
         NEW units \in Seq(Units), Written(t, sub, up, units)
  PROVE  /\ \A u \in Tables : u # t =>
              text'[u] = text[u] /\ empty'[u] = empty[u] /\ written_size'[u] = written_size[u]
         /\ Len(text'[t]) = Len(text[t])
         /\ \A k \in 1..(Len(text[t]) - 1) : text'[t][k] = text[t][k]
         /\ text'[t][Len(text[t])] = Current(t) \o units
         /\ ~ empty'[t]
         /\ written_size'[t] = written_size[t] + Len(units)
<1> DEFINE files == [text[t] EXCEPT ![Len(text[t])] = Current(t) \o units]
<1>1. Current(t) \o units \in Seq(Units)
  BY CurrentFile, ConcatProperties
<1>2. /\ Len(files) = Len(text[t]) /\ files[Len(text[t])] = Current(t) \o units
      /\ \A k \in 1..(Len(text[t]) - 1) : files[k] = text[t][k]
  BY <1>1, ReplacedCurrent
<1>3. /\ text' = [text EXCEPT ![t] = files]
      /\ empty' = [empty EXCEPT ![t] = FALSE]
      /\ written_size' = [written_size EXCEPT ![t] = @ + Len(units)]
  BY DEF Written
<1> HIDE DEF files
<1>4. text'[t] = files /\ \A u \in Tables : u # t => text'[u] = text[u]
  BY <1>3 DEF TypeInv
<1>. QED BY <1>2, <1>3, <1>4 DEF TypeInv

LEMMA WrittenRows ==
  ASSUME TypeInv, NEW t \in Tables, NEW sub \in Nat, NEW up \in Nat,
         NEW units, Written(t, sub, up, units), phase' # "failed"
  PROVE  /\ phase' = phase /\ units = Append(Lead(t), "row")
         /\ \A u \in Tables : u # t => out'[u] = out[u]
         /\ Len(out[t]) \in Nat /\ Len(out'[t]) = Len(out[t]) + 1
         /\ \A i \in 1..Len(out[t]) : out'[t][i] = out[t][i]
         /\ out'[t][Len(out[t]) + 1] = RowAt(t, sub, up)
<1>1. /\ units = Append(Lead(t), "row")
      /\ out' = [out EXCEPT ![t] = Append(out[t], RowAt(t, sub, up))]
      /\ phase' = phase
  BY DEF Written
<1>2. RowAt(t, sub, up) \in RowType /\ out[t] \in Seq(RowType)
  BY CurrentFile DEF RowAt, RowType, TypeInv
<1>3. /\ out'[t] = Append(out[t], RowAt(t, sub, up))
      /\ \A u \in Tables : u # t => out'[u] = out[u]
  BY <1>1 DEF TypeInv
<1>. QED BY <1>1, <1>2, <1>3, AppendProperties, LenProperties

LEMMA FailedKeepsRows ==
  ASSUME NEW t, NEW sub, NEW up, NEW units, Written(t, sub, up, units), phase' = "failed",
         phase = "writing"
  PROVE  out' = out
BY DEF Written

LEMMA StartRowFacts ==
  ASSUME ControlInv, StartRow
  PROVE  /\ \E units \in Seq(Units) : Written(1, 1, 0, units)
         /\ stack = <<>> /\ stack' = << Frame(1) >> /\ stack' # <<>> /\ phase = "writing"
         /\ UNCHANGED <<format, insert, in_insert, row_num, asked>>
<1>1. TypeInv
  BY DEF ControlInv
<1>2. stack' = << Frame(1) >> /\ stack' # <<>>
  BY DEF StartRow
<1>. QED BY <1>1, <1>2, BeginRowWrites, TablesFacts DEF StartRow

LEMMA EndRowFacts ==
  ASSUME ControlInv, EndRow
  PROVE  /\ stack # <<>> /\ phase = "writing" /\ phase' = "writing"
         /\ Top.r = Top.count /\ Top.child = Len(Derived[Top.table])
         /\ stack' \in Seq(FrameType) /\ Len(stack') = Len(stack) - 1
         /\ Len(stack) \in Nat \ {0}
         /\ \A j \in 1..(Len(stack) - 1) : stack'[j] = stack[j]
         /\ stack' = <<>> <=> Len(stack) = 1
         /\ row_num' = IF stack' = <<>> THEN row_num + 1 ELSE row_num
         /\ in_insert' = IF stack' = <<>> THEN in_insert + 1 ELSE in_insert
         /\ UNCHANGED <<format, insert, sub_row_num, empty, written_size, text, out, asked>>
<1>1. TypeInv /\ stack # <<>> /\ stack' = Front(stack)
  BY DEF ControlInv, EndRow
<1>. QED BY <1>1, PoppedFrame, TopFrame DEF EndRow, RowNumAfterRow

LEMMA NextChildStack ==
  ASSUME ControlInv, NextChild
  PROVE  stack # <<>> /\ stack' # <<>> /\ phase = "writing"
<1>1. TypeInv /\ stack # <<>> /\ phase = "writing"
  BY DEF ControlInv, NextChild
<1>2. stack \in Seq(FrameType) /\ Len(stack) \in Nat \ {0}
  BY <1>1, TopFrame DEF TypeInv
<1>3. ASSUME NEW f, stack' = WithTop(f) PROVE stack' # <<>>
  BY <1>2, <1>3 DEF WithTop
<1>. QED BY <1>1, <1>3 DEF NextChild

----------------------------------------------------------------------------
(* The rows of the main table.                                             *)

LEMMA MainInit == Init => MainInv
BY TablesFacts, DataFileAssumption DEF Init, MainInv

\* Only StartRow writes rows of the main table.
LEMMA MainNext == ControlInv /\ MainInv /\ [Next]_vars => MainInv'
<1> SUFFICES ASSUME ControlInv, MainInv, [Next]_vars PROVE MainInv'
  OBVIOUS
<1> USE DEF MainInv
<1>1. /\ TypeInv /\ 1 \in Tables /\ row_num \in Nat /\ FirstRowNum \in Nat
      /\ out[1] \in Seq(RowType) /\ Len(out[1]) \in Nat
  <2>1. TypeInv
    BY DEF ControlInv
  <2>2. out[1] \in Seq(RowType)
    BY <2>1, TablesFacts DEF TypeInv
  <2>. QED BY <2>1, <2>2, TablesFacts, LenProperties, DataFileAssumption DEF TypeInv
<1>2. CASE StartRow
  <2>1. PICK units \in Seq(Units) : Written(1, 1, 0, units)
    BY <1>2, StartRowFacts
  <2>2. stack = <<>> /\ stack' # <<>> /\ row_num' = row_num /\ phase = "writing"
    BY <1>2, StartRowFacts
  <2>3. CASE phase' = "failed"
    BY <2>1, <2>2, <2>3, FailedKeepsRows
  <2>4. CASE phase' # "failed"
    <3>1. /\ Len(out'[1]) = Len(out[1]) + 1
          /\ \A i \in 1..Len(out[1]) : out'[1][i] = out[1][i]
          /\ out'[1][Len(out[1]) + 1] = RowAt(1, 1, 0)
      BY <1>1, <2>1, <2>4, WrittenRows
    <3>2. Len(out[1]) = row_num - FirstRowNum
      BY <1>1, <2>2
    <3>3. out'[1][Len(out[1]) + 1].row_num = row_num
      BY <3>1 DEF RowAt
    <3>4. \A i \in 1..Len(out'[1]) : out'[1][i].row_num = FirstRowNum + i - 1
      <4> SUFFICES ASSUME NEW i \in 1..Len(out'[1])
                   PROVE  out'[1][i].row_num = FirstRowNum + i - 1
        OBVIOUS
      <4>1. CASE i \in 1..Len(out[1])
        BY <3>1, <4>1
      <4>2. CASE i = Len(out[1]) + 1
        BY <1>1, <3>2, <3>3, <4>2
      <4>. QED BY <1>1, <3>1, <4>1, <4>2
    <3>. QED BY <1>1, <2>2, <3>1, <3>2, <3>4
  <2>. QED BY <2>3, <2>4
<1>3. CASE ChildRow
  <2>1. PICK units \in Seq(Units) :
          Written(ChildOfTop, Top.r + 1, Len(out[Top.table]), units)
    BY <1>3, ChildRowFacts
  <2>2. /\ ChildOfTop \in Tables /\ ChildOfTop > Top.table /\ stack # <<>> /\ stack' # <<>>
        /\ row_num' = row_num /\ phase = "writing"
    BY <1>3, ChildRowFacts
  <2>3. ChildOfTop # 1
    BY <1>1, <2>2, TopFrame DEF Tables
  <2>4. Top.r + 1 \in Nat /\ Len(out[Top.table]) \in Nat
    BY <1>3, ChildRowFacts
  <2>5. out'[1] = out[1]
    <3>1. CASE phase' = "failed"
      BY <2>1, <2>2, <3>1, FailedKeepsRows
    <3>2. CASE phase' # "failed"
      BY <1>1, <2>1, <2>2, <2>3, <2>4, <3>2, WrittenRows
    <3>. QED BY <3>1, <3>2
  <2>. QED BY <2>2, <2>5
<1>4. CASE EndRow
  <2>1. phase = "writing" /\ stack # <<>> /\ out' = out
        /\ row_num' = IF stack' = <<>> THEN row_num + 1 ELSE row_num
    BY <1>4, EndRowFacts
  <2>. QED BY <1>1, <2>1
<1>5. CASE NextChild
  <2>1. stack # <<>> /\ stack' # <<>> /\ phase = "writing" /\ out' = out /\ row_num' = row_num
    BY <1>5, NextChildStack DEF NextChild
  <2>. QED BY <2>1
<1>6. CASE EndInsert \/ Finish
  BY <1>6 DEF EndInsert, Finish
<1>7. CASE Terminated \/ UNCHANGED vars
  BY <1>7 DEF Terminated, vars
<1>. QED BY <1>2, <1>3, <1>4, <1>5, <1>6, <1>7 DEF Next

----------------------------------------------------------------------------
(* The text of the files: a unit may follow the last one.                  *)

LEMMA OneMoreUnit ==
  ASSUME NEW fmt, NEW file \in Seq(Units), NEW u \in Units, Open(fmt, file),
         <<LastUnit(file), u>> \in Follows(fmt)
  PROVE  /\ file \o <<u>> \in Seq(Units)
         /\ Open(fmt, file \o <<u>>) /\ LastUnit(file \o <<u>>) = u
<1> DEFINE more == file \o <<u>>
<1>1. Len(file) \in Nat /\ <<u>> \in Seq(Units) /\ Len(<<u>>) = 1 /\ <<u>>[1] = u
  BY LenProperties
<1>2. /\ more \in Seq(Units) /\ Len(more) = Len(file) + 1
      /\ \A i \in 1..(Len(file) + 1) :
           more[i] = IF i <= Len(file) THEN file[i] ELSE <<u>>[i - Len(file)]
  BY <1>1, ConcatProperties
<1> HIDE DEF more
<1>3. more[Len(file) + 1] = u
  <2>1. Len(file) + 1 - Len(file) = 1
    BY <1>1
  <2>. QED BY <1>1, <1>2, <2>1
<1>4. \A i \in 0..Len(file) : Unit(more, i) = Unit(file, i)
  BY <1>1, <1>2 DEF Unit
<1>5. Unit(more, Len(file) + 1) = u
  BY <1>1, <1>2, <1>3 DEF Unit
<1>6. Open(fmt, more)
  <2> SUFFICES ASSUME NEW i \in 0..Len(file)
               PROVE  <<Unit(more, i), Unit(more, i + 1)>> \in Follows(fmt)
    BY <1>1, <1>2 DEF Open
  <2>1. CASE i = Len(file)
    BY <1>1, <1>4, <1>5, <2>1 DEF LastUnit
  <2>2. CASE i \in 0..(Len(file) - 1)
    BY <1>1, <1>4, <2>2 DEF Open
  <2>. QED BY <1>1, <2>1, <2>2
<1>7. LastUnit(more) = u
  BY <1>2, <1>5 DEF LastUnit
<1>. QED BY <1>2, <1>6, <1>7 DEF more

LEMMA TwoMoreUnits ==
  ASSUME NEW fmt, NEW file \in Seq(Units), NEW u \in Units, NEW v \in Units, Open(fmt, file),
         <<LastUnit(file), u>> \in Follows(fmt), <<u, v>> \in Follows(fmt)
  PROVE  Open(fmt, file \o Append(<<u>>, v)) /\ LastUnit(file \o Append(<<u>>, v)) = v
<1>1. <<u>> \in Seq(Units) /\ <<v>> \in Seq(Units)
  OBVIOUS
<1>2. file \o Append(<<u>>, v) = (file \o <<u>>) \o <<v>>
  BY <1>1, AppendIsConcat, ConcatAssociative
<1> DEFINE more == file \o <<u>>
<1>3. more \in Seq(Units) /\ Open(fmt, more) /\ LastUnit(more) = u
  BY OneMoreUnit
<1>4. file \o Append(<<u>>, v) = more \o <<v>>
  BY <1>2
<1> HIDE DEF more
<1>5. Open(fmt, more \o <<v>>) /\ LastUnit(more \o <<v>>) = v
  BY <1>3, OneMoreUnit
<1>. QED BY <1>4, <1>5

LEMMA StoppedFile ==
  ASSUME NEW fmt, NEW file \in Seq(Units), Open(fmt, file),
         <<LastUnit(file), "stop">> \in Follows(fmt)
  PROVE  WellFormed(fmt, file)
<1>1. Len(file) \in Nat
  BY LenProperties
<1>2. Unit(file, Len(file) + 1) = "stop"
  BY <1>1 DEF Unit
<1> SUFFICES ASSUME NEW i \in 0..Len(file)
             PROVE  <<Unit(file, i), Unit(file, i + 1)>> \in Follows(fmt)
  BY DEF WellFormed
<1>3. CASE i = Len(file)
  BY <1>2, <1>3 DEF LastUnit
<1>4. CASE i \in 0..(Len(file) - 1)
  BY <1>4 DEF Open
<1>. QED BY <1>1, <1>3, <1>4

\* Formats of which several rows may be in one statement.
Loadable == {"sql", "csv", "csv_headers"}

LEMMA LoadableFormat ==
  ASSUME TypeInv, format # "insert_set"
  PROVE  format \in Loadable
BY DataFileAssumption DEF TypeInv, Loadable

\* What each format lets follow: a row, a trailer, the end of the file.
LEMMA RowFollows ==
  ASSUME format \in Loadable, NEW t \in Tables,
         NEW u \in IF empty[t] THEN Between(format) ELSE {"row"}
  PROVE  \/ Lead(t) = <<>> /\ <<u, "row">> \in Follows(format)
         \/ \E a \in Units : /\ Lead(t) = <<a>>
                             /\ <<u, a>> \in Follows(format) /\ <<a, "row">> \in Follows(format)
<1>1. CASE format = "sql"
  BY <1>1 DEF Lead, Header, RowSeparator, Follows, Between, Units
<1>2. CASE format = "csv"
  BY <1>2 DEF Lead, Header, RowSeparator, Follows, Between, Units
<1>3. CASE format = "csv_headers"
  BY <1>3 DEF Lead, Header, RowSeparator, Follows, Between, Units
<1>. QED BY <1>1, <1>2, <1>3 DEF Loadable

LEMMA TrailerFollows ==
  ASSUME format \in Loadable
  PROVE  \E a \in Units : /\ Trailer(format) = <<a>> /\ <<"row", a>> \in Follows(format)
                          /\ a \in Between(format)
<1>1. CASE format = "sql"
  BY <1>1 DEF Trailer, Follows, Between, Units
<1>2. CASE format = "csv"
  BY <1>2 DEF Trailer, Follows, Between, Units
<1>3. CASE format = "csv_headers"
  BY <1>3 DEF Trailer, Follows, Between, Units
<1>. QED BY <1>1, <1>2, <1>3 DEF Loadable

LEMMA StopFollows ==
  ASSUME NEW fmt \in Loadable, NEW u \in Between(fmt)
  PROVE  <<u, "stop">> \in Follows(fmt)
BY DEF Loadable, Follows, Between

LEMMA HeaderOpens ==
  ASSUME NEW fmt \in Loadable
  PROVE  Open(fmt, FileHeader(fmt)) /\ LastUnit(FileHeader(fmt)) \in Between(fmt)
<1>1. CASE fmt \in {"sql", "csv"}
  <2>1. FileHeader(fmt) = <<>> /\ Len(<<>>) = 0
    BY <1>1 DEF FileHeader
  <2>2. "start" \in Between(fmt)
    BY <1>1 DEF Between
  <2>. QED BY <2>1, <2>2 DEF Open, LastUnit, Unit
<1>2. CASE fmt = "csv_headers"
  <2>1. /\ FileHeader(fmt) = <<"names">> /\ Len(<<"names">>) = 1 /\ <<"names">>[1] = "names"
        /\ "names" \in Between(fmt) /\ <<"start", "names">> \in Follows(fmt)
    BY <1>2 DEF FileHeader, Between, Follows
  <2>2. Unit(<<"names">>, 0) = "start" /\ Unit(<<"names">>, 1) = "names"
    BY <2>1 DEF Unit
  <2>. QED BY <2>1, <2>2 DEF Open, LastUnit
<1>. QED BY <1>1, <1>2 DEF Loadable

LEMMA TextInit == Init => TextInv /\ EmptyInv
<1> SUFFICES ASSUME Init, format # "insert_set" PROVE TextInv /\ EmptyInv
  BY DEF TextInv, Init, EmptyInv
<1>1. format \in Loadable
  BY ControlInit, LoadableFormat DEF ControlInv
<1>2. \A t \in Tables : Len(text[t]) = 1 /\ text[t][1] = FileHeader(format) /\ empty[t]
  BY DEF Init
<1>3. \A t \in Tables : Current(t) = FileHeader(format)
  BY <1>2 DEF Current
<1>4. Open(format, FileHeader(format)) /\ LastUnit(FileHeader(format)) \in Between(format)
  BY <1>1, HeaderOpens
<1>5. \A t \in Tables : \A k \in 1..(Len(text[t]) - 1) : WellFormed(format, text[t][k])
  <2>1. 1..(1 - 1) = {}
    OBVIOUS
  <2>2. \A t \in Tables : 1..(Len(text[t]) - 1) = {}
    BY <1>2, <2>1
  <2>. QED BY <2>2
<1>6. TextInv
  <2>1. \A t \in Tables : /\ Open(format, Current(t))
                          /\ LastUnit(Current(t)) \in IF empty[t] THEN Between(format) ELSE {"row"}
    BY <1>2, <1>3, <1>4
  <2>. QED BY <1>5, <2>1 DEF TextInv
<1>7. EmptyInv
  BY <1>2 DEF EmptyInv
<1>. QED BY <1>6, <1>7

\* A row is written: the file of its table goes on, the others are as they were.
LEMMA TextRow ==
  ASSUME TypeInv, TextInv, phase = "writing", format' = format,
         NEW t \in Tables, NEW sub \in Nat, NEW up \in Nat, NEW units \in Seq(Units),
         Written(t, sub, up, units)
  PROVE  TextInv'
<1> SUFFICES ASSUME format # "insert_set" PROVE TextInv'
  BY DEF TextInv
<1>1. /\ \A u \in Tables : u # t => text'[u] = text[u] /\ empty'[u] = empty[u]
      /\ Len(text'[t]) = Len(text[t])
      /\ \A k \in 1..(Len(text[t]) - 1) : text'[t][k] = text[t][k]
      /\ text'[t][Len(text[t])] = Current(t) \o units
      /\ ~ empty'[t]
  BY WrittenText
<1>2. format \in Loadable
  BY LoadableFormat
<1>3. ASSUME phase' # "failed", NEW u \in Tables
      PROVE  /\ Open(format, Current(u)')
             /\ LastUnit(Current(u)') \in IF empty'[u] THEN Between(format) ELSE {"row"}
  <2>1. CASE u # t
    BY <1>1, <1>3, <2>1 DEF TextInv, Current
  <2>2. CASE u = t
    <3>1. units = Append(Lead(t), "row")
      BY <1>3, WrittenRows
    <3>2. Current(t)' = Current(t) \o units
      BY <1>1 DEF Current
    <3>3. /\ Current(t) \in Seq(Units) /\ Open(format, Current(t)) /\ "row" \in Units
          /\ LastUnit(Current(t)) \in IF empty[t] THEN Between(format) ELSE {"row"}
      BY CurrentFile DEF TextInv, Units
    <3>4. Open(format, Current(t) \o units) /\ LastUnit(Current(t) \o units) = "row"
      <4>1. CASE Lead(t) = <<>> /\ <<LastUnit(Current(t)), "row">> \in Follows(format)
        <5>1. units = <<"row">>
          BY <3>1, <4>1
        <5>. QED BY <3>3, <4>1, <5>1, OneMoreUnit
      <4>2. ASSUME NEW a \in Units, Lead(t) = <<a>>,
                   <<LastUnit(Current(t)), a>> \in Follows(format),
                   <<a, "row">> \in Follows(format)
            PROVE  Open(format, Current(t) \o units) /\ LastUnit(Current(t) \o units) = "row"
        BY <3>1, <3>3, <4>2, TwoMoreUnits
      <4>. QED BY <1>2, <3>3, <4>1, <4>2, RowFollows
    <3>. QED BY <1>1, <2>2, <3>2, <3>4
  <2>. QED BY <2>1, <2>2
<1>4. \A u \in Tables : \A k \in 1..(Len(text'[u]) - 1) : WellFormed(format, text'[u][k])
  BY <1>1 DEF TextInv
<1>. QED BY <1>3, <1>4 DEF TextInv

\* A statement ends: the file is closed, and either goes on or is followed by one
\* that has its header.
LEMMA TextEndInsert == ControlInv /\ TextInv /\ EndInsert => TextInv'
<1> SUFFICES ASSUME ControlInv, TextInv, EndInsert, format # "insert_set" PROVE TextInv'
  BY DEF TextInv, EndInsert
<1>1. /\ TypeInv /\ phase = "writing" /\ phase' = phase /\ format' = format
      /\ \A t \in Tables : text'[t] = FilesAfter(t) /\ empty'[t] = TRUE
  BY DEF ControlInv, EndInsert, EmptyAfterTrailer
<1>2. format \in Loadable
  BY <1>1, LoadableFormat
<1>3. ASSUME NEW t \in Tables
      PROVE  /\ Closed(t) \in Seq(Units) /\ Open(format, Closed(t))
             /\ LastUnit(Closed(t)) \in Between(format)
  <2>1. /\ Current(t) \in Seq(Units) /\ Open(format, Current(t))
        /\ LastUnit(Current(t)) \in IF empty[t] THEN Between(format) ELSE {"row"}
    BY <1>1, CurrentFile DEF TextInv
  <2>2. CASE empty[t]
    <3>1. Closed(t) = Current(t)
      BY <1>1, <2>1, <2>2, ClosedFile, ConcatEmptySeq
    <3>. QED BY <2>1, <2>2, <3>1
  <2>3. CASE ~ empty[t]
    <3>1. PICK a \in Units : /\ Trailer(format) = <<a>> /\ <<"row", a>> \in Follows(format)
                             /\ a \in Between(format)
      BY <1>2, TrailerFollows
    <3>2. Closed(t) = Current(t) \o <<a>>
      BY <1>1, <2>3, <3>1, ClosedFile
    <3>. QED BY <2>1, <2>3, <3>1, <3>2, OneMoreUnit
  <2>. QED BY <2>2, <2>3
<1>4. ASSUME NEW t \in Tables
      PROVE  /\ Open(format, Current(t)') /\ LastUnit(Current(t)') \in Between(format)
             /\ \A k \in 1..(Len(text'[t]) - 1) : WellFormed(format, text'[t][k])
  <2>1. /\ Len(text[t]) \in Nat \ {0}
        /\ Len(text'[t]) = Len(text[t]) + IF Rotates(t) THEN 1 ELSE 0
        /\ \A k \in 1..(Len(text[t]) - 1) : text'[t][k] = text[t][k]
        /\ text'[t][Len(text[t])] = Closed(t)
        /\ Rotates(t) => text'[t][Len(text[t]) + 1] = FileHeader(format)
    <3>1. /\ Len(text[t]) \in Nat \ {0}
          /\ Len(FilesAfter(t)) = Len(text[t]) + IF Rotates(t) THEN 1 ELSE 0
          /\ \A k \in 1..(Len(text[t]) - 1) : FilesAfter(t)[k] = text[t][k]
          /\ FilesAfter(t)[Len(text[t])] = Closed(t)
          /\ Rotates(t) => FilesAfter(t)[Len(text[t]) + 1] = FileHeader(format)
      BY <1>1, CurrentFile, FilesAfterFacts
    <3>. QED BY <1>1, <3>1
  <2>2. \A k \in 1..(Len(text[t]) - 1) : WellFormed(format, text'[t][k])
    BY <2>1 DEF TextInv
  <2>3. CASE ~ Rotates(t)
    <3>1. Len(text'[t]) = Len(text[t])
      BY <2>1, <2>3
    <3>2. Current(t)' = Closed(t)
      BY <2>1, <3>1 DEF Current
    <3>. QED BY <1>3, <2>2, <3>1, <3>2
  <2>4. CASE Rotates(t)
    <3>1. Len(text'[t]) = Len(text[t]) + 1 /\ Current(t)' = FileHeader(format)
      BY <2>1, <2>4 DEF Current
    <3>2. WellFormed(format, Closed(t))
      BY <1>2, <1>3, StopFollows, StoppedFile
    <3>3. \A k \in 1..Len(text[t]) : WellFormed(format, text'[t][k])
      BY <2>1, <2>2, <3>2
    <3>4. Len(text'[t]) - 1 = Len(text[t])
      <4> DEFINE before == Len(text[t])
                 after == Len(text'[t])
      <4>1. before \in Nat /\ after = before + 1
        BY <2>1, <3>1
      <4> HIDE DEF before, after
      <4>2. after - 1 = before
        BY <4>1
      <4>. QED BY <4>2 DEF before, after
    <3>5. \A k \in 1..(Len(text'[t]) - 1) : WellFormed(format, text'[t][k])
      BY <3>3, <3>4
    <3>6. Open(format, Current(t)') /\ LastUnit(Current(t)') \in Between(format)
      BY <1>2, <3>1, HeaderOpens
    <3>. QED BY <3>5, <3>6
  <2>. QED BY <2>3, <2>4
<1>. QED BY <1>1, <1>4 DEF TextInv

LEMMA TextNext == ControlInv /\ TextInv /\ [Next]_vars => TextInv'
<1> SUFFICES ASSUME ControlInv, TextInv, [Next]_vars PROVE TextInv'
  OBVIOUS
<1>1. TypeInv
  BY DEF ControlInv
<1>2. CASE StartRow
  BY <1>1, <1>2, StartRowFacts, TablesFacts, TextRow
<1>3. CASE ChildRow
  BY <1>1, <1>3, ChildRowFacts, TextRow
<1>4. CASE EndInsert
  BY <1>4, TextEndInsert
<1>5. CASE EndRow \/ NextChild \/ Finish \/ Terminated \/ UNCHANGED vars
  <2>1. UNCHANGED <<format, text, empty>> /\ (phase' # "failed" => phase # "failed")
    BY <1>5 DEF EndRow, NextChild, Finish, Terminated, vars
  <2>. QED BY <2>1 DEF TextInv, Current
<1>. QED BY <1>2, <1>3, <1>4, <1>5 DEF Next

LEMMA EmptyNext == ControlInv /\ EmptyInv /\ [Next]_vars => EmptyInv'
<1> SUFFICES ASSUME ControlInv, EmptyInv, [Next]_vars PROVE EmptyInv'
  OBVIOUS
<1>1. CASE StartRow \/ ChildRow \/ NextChild
  BY <1>1, StartRowFacts, ChildRowFacts, NextChildStack DEF EmptyInv
<1>2. CASE EndRow
  <2>1. in_insert \in Nat
    BY DEF ControlInv, TypeInv
  <2>. QED BY <1>2, <2>1, EndRowFacts DEF EmptyInv
<1>3. CASE EndInsert
  BY <1>3 DEF EndInsert, EmptyAfterTrailer, EmptyInv
<1>4. CASE Finish \/ Terminated \/ UNCHANGED vars
  BY <1>4 DEF Finish, Terminated, vars, EmptyInv
<1>. QED BY <1>1, <1>2, <1>3, <1>4 DEF Next

\* Between two statements every file is one that a loader of its format accepts,
\* for any tree of derived tables; the INSERT-SET format is the exception that a
\* run shows.
THEOREM FilesLoadableTheorem == Spec => [](format # "insert_set" => FilesLoadable)
<1>1. Spec => [](ControlInv /\ TextInv /\ EmptyInv)
  BY ControlInit, TextInit, ControlNext, TextNext, EmptyNext, PTL DEF Spec
<1>2. ControlInv /\ TextInv /\ EmptyInv => (format # "insert_set" => FilesLoadable)
  <2> SUFFICES ASSUME ControlInv, TextInv, EmptyInv, format # "insert_set",
                      in_insert = 0, stack = <<>>, phase # "failed",
                      NEW t \in Tables, NEW k \in 1..Len(text[t])
               PROVE  WellFormed(format, text[t][k])
    BY DEF FilesLoadable
  <2>1. TypeInv /\ format \in Loadable
    BY LoadableFormat DEF ControlInv
  <2>2. Len(text[t]) \in Nat \ {0} /\ Current(t) \in Seq(Units)
    BY <2>1, CurrentFile
  <2>3. Open(format, Current(t)) /\ LastUnit(Current(t)) \in Between(format)
    BY DEF TextInv, EmptyInv
  <2>4. WellFormed(format, Current(t))
    BY <2>1, <2>2, <2>3, StopFollows, StoppedFile
  <2>. QED BY <2>2, <2>4 DEF TextInv, Current
<1>. QED BY <1>1, <1>2, PTL

----------------------------------------------------------------------------
(* Where the rows are: their number in a file and a statement.             *)

RowSet(t, k, i) == {n \in 1..Len(out[t]) : out[t][n].file = k /\ out[t][n].insert = i}

LEMMA RowsAreNat ==
  ASSUME TypeInv, NEW t \in Tables, NEW k, NEW i
  PROVE  /\ IsFiniteSet(RowSet(t, k, i)) /\ RowsOf(t, k, i) = Cardinality(RowSet(t, k, i))
         /\ RowsOf(t, k, i) \in Nat
<1>1. IsFiniteSet(1..Len(out[t]))
  <2>1. Len(out[t]) \in Nat
    BY LenProperties DEF TypeInv
  <2>. QED BY <2>1, FS_Interval
<1>2. RowSet(t, k, i) \subseteq 1..Len(out[t])
  BY DEF RowSet
<1>3. IsFiniteSet(RowSet(t, k, i))
  BY <1>1, <1>2, FS_Subset
<1>. QED BY <1>3, FS_CardinalityType DEF RowSet, RowsOf

LEMMA NoRows ==
  ASSUME NEW t \in Tables, NEW k, NEW i,
         \A n \in 1..Len(out[t]) : ~ (out[t][n].file = k /\ out[t][n].insert = i)
  PROVE  RowsOf(t, k, i) = 0
<1>1. {n \in 1..Len(out[t]) : out[t][n].file = k /\ out[t][n].insert = i} = {}
  OBVIOUS
<1>. QED BY <1>1, FS_EmptySet DEF RowsOf

LEMMA OneMoreRow ==
  ASSUME TypeInv, NEW t \in Tables, NEW sub \in Nat, NEW up \in Nat,
         NEW units, Written(t, sub, up, units), phase' # "failed"
  PROVE  /\ \A k, i : RowsOf(t, k, i)' =
              RowsOf(t, k, i) + IF k = Len(text[t]) /\ i = insert THEN 1 ELSE 0
         /\ \A u \in Tables : u # t => \A k, i : RowsOf(u, k, i)' = RowsOf(u, k, i)
<1>1. /\ \A u \in Tables : u # t => out'[u] = out[u]
      /\ Len(out[t]) \in Nat /\ Len(out'[t]) = Len(out[t]) + 1
      /\ \A j \in 1..Len(out[t]) : out'[t][j] = out[t][j]
      /\ out'[t][Len(out[t]) + 1] = RowAt(t, sub, up)
  BY WrittenRows
<1>2. out'[t][Len(out[t]) + 1].file = Len(text[t]) /\ out'[t][Len(out[t]) + 1].insert = insert
  BY <1>1 DEF RowAt
<1>3. \A u \in Tables : u # t => \A k, i : RowsOf(u, k, i)' = RowsOf(u, k, i)
  BY <1>1 DEF RowsOf
<1>4. ASSUME NEW k, NEW i
      PROVE  RowsOf(t, k, i)' = RowsOf(t, k, i) + IF k = Len(text[t]) /\ i = insert THEN 1 ELSE 0
  <2> DEFINE before == RowSet(t, k, i)
             after  == {n \in 1..Len(out'[t]) : out'[t][n].file = k /\ out'[t][n].insert = i}
             new    == Len(out[t]) + 1
  <2>1. IsFiniteSet(before) /\ RowsOf(t, k, i) = Cardinality(before) /\ RowsOf(t, k, i) \in Nat
    BY RowsAreNat
  <2>2. RowsOf(t, k, i)' = Cardinality(after)
    BY DEF RowsOf
  <2>3. new \notin before
    BY <1>1 DEF RowSet
  <2>4. \A n \in 1..Len(out[t]) : n \in after <=> n \in before
    BY <1>1 DEF RowSet
  <2>5. new \in after <=> k = Len(text[t]) /\ i = insert
    BY <1>1, <1>2
  <2>6. before \subseteq 1..Len(out[t]) /\ after \subseteq 1..Len(out[t]) \cup {new}
    BY <1>1 DEF RowSet
  <2> HIDE DEF before, after, new
  <2>7. CASE k = Len(text[t]) /\ i = insert
    <3>1. after = before \cup {new}
      BY <2>4, <2>5, <2>6, <2>7
    <3>2. Cardinality(after) = Cardinality(before) + 1
      BY <2>1, <2>3, <3>1, FS_AddElement
    <3>. QED BY <2>1, <2>2, <2>7, <3>2
  <2>8. CASE ~ (k = Len(text[t]) /\ i = insert)
    <3>1. after = before
      BY <2>4, <2>5, <2>6, <2>8
    <3>2. RowsOf(t, k, i)' = RowsOf(t, k, i)
      BY <2>1, <2>2, <3>1
    <3>. QED BY <2>1, <2>8, <3>2
  <2>. QED BY <2>7, <2>8
<1>. QED BY <1>3, <1>4

LEMMA FileSizeType == FileSize # None => FileSize \in Nat
BY DataFileAssumption

PlacesInv == PlaceInv /\ SizeInv /\ RotatedInv

LEMMA PlacesInit == Init => PlacesInv
<1> SUFFICES ASSUME Init PROVE PlacesInv
  OBVIOUS
<1>1. /\ insert = 0
      /\ \A t \in Tables :
           /\ Len(text[t]) = 1 /\ text[t][1] = FileHeader(format) /\ empty[t]
           /\ written_size[t] = Len(FileHeader(format)) /\ Len(out[t]) = 0
  BY DEF Init
<1>2. PlaceInv
  BY <1>1 DEF PlaceInv
<1>3. SizeInv
  <2>1. \A t \in Tables : RowsNow(t) = 0
    BY <1>1, NoRows DEF RowsNow
  <2>2. Len(FileHeader(format)) \in Nat
    BY FormatUnits
  <2>. QED BY <1>1, <2>1, <2>2, FileSizeType DEF SizeInv, PartialSize, Current
<1>4. RotatedInv
  <2>1. 1..(1 - 1) = {}
    OBVIOUS
  <2>2. \A t \in Tables : 1..(Len(text[t]) - 1) = {}
    BY <1>1, <2>1
  <2>. QED BY <2>2 DEF RotatedInv
<1>. QED BY <1>2, <1>3, <1>4 DEF PlacesInv

\* A step that leaves the files rotated away, and their rows, as they are.
LEMMA RotatedKept ==
  ASSUME RotatedInv, format' = format, insert' = insert,
         \A t \in Tables : Len(text'[t]) = Len(text[t]),
         \A t \in Tables : \A k \in 1..(Len(text[t]) - 1) :
           /\ text'[t][k] = text[t][k]
           /\ \A i : RowsOf(t, k, i)' = RowsOf(t, k, i)
           /\ \A n \in 1..Len(out'[t]) :
                out'[t][n].file = k => n \in 1..Len(out[t]) /\ out'[t][n] = out[t][n]
  PROVE  RotatedInv'
<1> SUFFICES ASSUME NEW t \in Tables, NEW k \in 1..(Len(text'[t]) - 1)
             PROVE  /\ FileSize # None
                    /\ Len(text'[t][k]) >= FileSize
                    /\ FileSize > Len(FileHeader(format)') =>
                         \E i \in 0..(insert' - 1) :
                           /\ RowsOf(t, k, i)' > 0
                           /\ \A n \in 1..Len(out'[t]) :
                                out'[t][n].file = k => out'[t][n].insert <= i
                           /\ Len(text'[t][k]) - StatementSize(RowsOf(t, k, i))' < FileSize
  BY DEF RotatedInv
<1>1. k \in 1..(Len(text[t]) - 1)
  OBVIOUS
<1>2. /\ text'[t][k] = text[t][k] /\ FileHeader(format)' = FileHeader(format)
      /\ \A i : RowsOf(t, k, i)' = RowsOf(t, k, i)
      /\ \A i : StatementSize(RowsOf(t, k, i))' = StatementSize(RowsOf(t, k, i))
  BY <1>1 DEF StatementSize, FileHeader, Header
<1>3. /\ FileSize # None
      /\ Len(text[t][k]) >= FileSize
      /\ FileSize > Len(FileHeader(format)) =>
           \E i \in 0..(insert - 1) :
             /\ RowsOf(t, k, i) > 0
             /\ \A n \in 1..Len(out[t]) : out[t][n].file = k => out[t][n].insert <= i
             /\ Len(text[t][k]) - StatementSize(RowsOf(t, k, i)) < FileSize
  BY <1>1 DEF RotatedInv
<1>4. CASE ~ (FileSize > Len(FileHeader(format)))
  BY <1>2, <1>3, <1>4
<1>5. CASE FileSize > Len(FileHeader(format))
  <2>1. PICK i \in 0..(insert - 1) :
          /\ RowsOf(t, k, i) > 0
          /\ \A n \in 1..Len(out[t]) : out[t][n].file = k => out[t][n].insert <= i
          /\ Len(text[t][k]) - StatementSize(RowsOf(t, k, i)) < FileSize
    BY <1>3, <1>5
  <2>2. \A n \in 1..Len(out'[t]) : out'[t][n].file = k => out'[t][n].insert <= i
    BY <1>1, <2>1
  <2>. QED BY <1>2, <1>3, <2>1, <2>2
<1>. QED BY <1>4, <1>5

\* A row is written: it is one more of the current statement, in the current file.
LEMMA PlacesRow ==
  ASSUME TypeInv, PlacesInv, phase = "writing", format' = format, insert' = insert,
         NEW t \in Tables, NEW sub \in Nat, NEW up \in Nat, NEW units \in Seq(Units),
         Written(t, sub, up, units)
  PROVE  PlacesInv'
<1>1. /\ \A u \in Tables : u # t =>
           text'[u] = text[u] /\ empty'[u] = empty[u] /\ written_size'[u] = written_size[u]
      /\ Len(text'[t]) = Len(text[t])
      /\ \A k \in 1..(Len(text[t]) - 1) : text'[t][k] = text[t][k]
      /\ text'[t][Len(text[t])] = Current(t) \o units
      /\ ~ empty'[t]
      /\ written_size'[t] = written_size[t] + Len(units)
  BY WrittenText
<1>2. /\ Len(text[t]) \in Nat \ {0} /\ insert \in Nat /\ written_size[t] \in Nat
      /\ Current(t) \in Seq(Units)
  BY CurrentFile, InsertRowsTypes DEF TypeInv
<1>3. CASE phase' = "failed"
  <2>1. out' = out
    BY <1>3, FailedKeepsRows
  <2>2. \A u \in Tables : Len(text'[u]) = Len(text[u])
    BY <1>1
  <2>3. PlaceInv'
    BY <2>1, <2>2 DEF PlacesInv, PlaceInv
  <2>4. \A u \in Tables : \A k \in 1..(Len(text[u]) - 1) : text'[u][k] = text[u][k]
    BY <1>1
  <2>5. \A u \in Tables : \A k, i : RowsOf(u, k, i)' = RowsOf(u, k, i)
    BY <2>1 DEF RowsOf
  <2>6. RotatedInv'
    BY <2>1, <2>2, <2>4, <2>5, RotatedKept DEF PlacesInv
  <2>. QED BY <1>3, <2>3, <2>6 DEF PlacesInv, SizeInv
<1>4. CASE phase' # "failed"
  <2>1. /\ units = Append(Lead(t), "row")
        /\ \A u \in Tables : u # t => out'[u] = out[u]
        /\ Len(out[t]) \in Nat /\ Len(out'[t]) = Len(out[t]) + 1
        /\ \A i \in 1..Len(out[t]) : out'[t][i] = out[t][i]
        /\ out'[t][Len(out[t]) + 1] = RowAt(t, sub, up)
    BY <1>4, WrittenRows
  <2>2. /\ \A k, i : RowsOf(t, k, i)' =
             RowsOf(t, k, i) + IF k = Len(text[t]) /\ i = insert THEN 1 ELSE 0
        /\ \A u \in Tables : u # t => \A k, i : RowsOf(u, k, i)' = RowsOf(u, k, i)
    BY <1>4, OneMoreRow
  <2>3. out'[t][Len(out[t]) + 1].file = Len(text[t]) /\ out'[t][Len(out[t]) + 1].insert = insert
    BY <2>1 DEF RowAt
  <2>4. \A n \in 1..Len(out'[t]) : n \in 1..Len(out[t]) \/ n = Len(out[t]) + 1
    BY <2>1
  <2>5. PlaceInv'
    <3> SUFFICES ASSUME NEW u \in Tables, NEW n \in 1..Len(out'[u])
                 PROVE  /\ out'[u][n].insert <= insert
                        /\ out'[u][n].file \in 1..Len(text'[u])
                        /\ out'[u][n].insert = insert => out'[u][n].file = Len(text'[u])
                        /\ \A m \in 1..Len(out'[u]) :
                             out'[u][m].insert = out'[u][n].insert =>
                               out'[u][m].file = out'[u][n].file
      BY DEF PlaceInv
    <3>1. CASE u # t
      <4>1. out'[u] = out[u] /\ text'[u] = text[u]
        BY <1>1, <2>1, <3>1
      <4>2. /\ out[u][n].insert <= insert
            /\ out[u][n].file \in 1..Len(text[u])
            /\ out[u][n].insert = insert => out[u][n].file = Len(text[u])
            /\ \A m \in 1..Len(out[u]) :
                 out[u][m].insert = out[u][n].insert => out[u][m].file = out[u][n].file
        BY <4>1 DEF PlacesInv, PlaceInv
      <4>. QED BY <4>1, <4>2
    <3>2. CASE u = t
      <4>0. \A m \in 1..Len(out[t]) :
              /\ out[t][m].insert <= insert
              /\ out[t][m].file \in 1..Len(text[t])
              /\ out[t][m].insert = insert => out[t][m].file = Len(text[t])
              /\ \A l \in 1..Len(out[t]) :
                   out[t][l].insert = out[t][m].insert => out[t][l].file = out[t][m].file
        BY DEF PlacesInv, PlaceInv
      <4>1. /\ out'[t][n].insert <= insert
            /\ out'[t][n].file \in 1..Len(text'[t])
            /\ out'[t][n].insert = insert => out'[t][n].file = Len(text'[t])
        <5>1. CASE n \in 1..Len(out[t])
          BY <1>1, <2>1, <4>0, <5>1
        <5>2. CASE n = Len(out[t]) + 1
          <6>1. insert <= insert /\ Len(text[t]) \in 1..Len(text[t])
            BY <1>2
          <6>. QED BY <1>1, <2>3, <5>2, <6>1
        <5>. QED BY <2>4, <3>2, <5>1, <5>2
      <4>2. ASSUME NEW m \in 1..Len(out'[t]), out'[t][m].insert = out'[t][n].insert
            PROVE  out'[t][m].file = out'[t][n].file
        <5>1. CASE n \in 1..Len(out[t]) /\ m \in 1..Len(out[t])
          BY <2>1, <4>0, <4>2, <5>1
        <5>2. CASE n = Len(out[t]) + 1 /\ m \in 1..Len(out[t])
          BY <2>1, <2>3, <4>0, <4>2, <5>2
        <5>3. CASE n \in 1..Len(out[t]) /\ m = Len(out[t]) + 1
          BY <2>1, <2>3, <4>0, <4>2, <5>3
        <5>. QED BY <2>4, <3>2, <5>1, <5>2, <5>3
      <4>. QED BY <3>2, <4>1, <4>2
    <3>. QED BY <3>1, <3>2
  <2>6. SizeInv'
    <3>1. /\ RowsNow(t)' = RowsNow(t) + 1 /\ RowsNow(t) \in Nat
          /\ \A u \in Tables : u # t => RowsNow(u)' = RowsNow(u)
      BY <1>1, <2>2, RowsAreNat DEF RowsNow
    <3>2. /\ Len(Header(format)) \in Nat /\ Len(FileHeader(format)) \in Nat
          /\ Len(units) = IF empty[t] THEN Len(Header(format)) + 1 ELSE 2
      <4>1. Len(Header(format)) \in Nat /\ Len(FileHeader(format)) \in Nat
        BY FormatUnits
      <4>2. /\ Len(units) = Len(Lead(t)) + 1
            /\ Len(Lead(t)) = IF empty[t] THEN Len(Header(format)) ELSE 1
        BY <2>1, LeadUnits
      <4>. QED BY <4>1, <4>2
    <3>3. Len(Current(t)') = Len(Current(t)) + Len(units)
      <4>1. Current(t)' = Current(t) \o units
        BY <1>1 DEF Current
      <4>. QED BY <1>2, <4>1, ConcatProperties
    <3>4. /\ written_size[t] = Len(Current(t)) /\ (empty[t] <=> RowsNow(t) = 0)
          /\ FileSize # None /\ FileSize > Len(FileHeader(format)) =>
               written_size[t] - PartialSize(RowsNow(t)) < FileSize
      BY DEF PlacesInv, SizeInv
    <3>5. written_size[t]' - PartialSize(RowsNow(t) + 1) =
            written_size[t] - PartialSize(RowsNow(t))
      <4> DEFINE n == RowsNow(t)
                 h == Len(Header(format))
                 w == written_size[t]
                 l == Len(units)
      <4>1. /\ n \in Nat /\ h \in Nat /\ w \in Nat
            /\ l = IF n = 0 THEN h + 1 ELSE 2
            /\ written_size[t]' = w + l
            /\ PartialSize(n) = IF n = 0 THEN 0 ELSE h + 2 * n - 1
        BY <1>1, <1>2, <3>1, <3>2, <3>4 DEF PartialSize
      <4>2. n + 1 # 0
        BY <4>1
      <4>3. PartialSize(n + 1) = h + 2 * (n + 1) - 1
        BY <4>2 DEF PartialSize
      <4> HIDE DEF n, h, w, l
      <4>4. written_size[t]' - PartialSize(n + 1) = w - PartialSize(n)
        BY <4>1, <4>3
      <4>. QED BY <4>4 DEF n, w
    <3>6. PartialSize(RowsNow(t))' = PartialSize(RowsNow(t) + 1)
      BY <3>1 DEF PartialSize
    <3>7. /\ written_size[t]' = Len(Current(t)') /\ (empty[t]' <=> RowsNow(t)' = 0)
          /\ FileSize # None /\ FileSize > Len(FileHeader(format)) =>
               written_size[t]' - PartialSize(RowsNow(t))' < FileSize
      BY <1>1, <3>1, <3>3, <3>4, <3>5, <3>6
    <3>8. ASSUME NEW u \in Tables, u # t
          PROVE  /\ written_size[u]' = Len(Current(u)') /\ (empty[u]' <=> RowsNow(u)' = 0)
                 /\ FileSize # None /\ FileSize > Len(FileHeader(format)) =>
                      written_size[u]' - PartialSize(RowsNow(u))' < FileSize
      BY <1>1, <3>1, <3>8 DEF PlacesInv, SizeInv, Current, PartialSize
    <3>. QED BY <3>7, <3>8 DEF SizeInv
  <2>7. RotatedInv'
    <3>1. ASSUME NEW u \in Tables, NEW k \in 1..(Len(text[u]) - 1)
          PROVE  /\ text'[u][k] = text[u][k]
                 /\ \A i : RowsOf(u, k, i)' = RowsOf(u, k, i)
                 /\ \A n \in 1..Len(out'[u]) :
                      out'[u][n].file = k => n \in 1..Len(out[u]) /\ out'[u][n] = out[u][n]
      <4>1. CASE u # t
        BY <1>1, <2>1, <2>2, <4>1
      <4>2. CASE u = t
        <5>1. k # Len(text[t])
          BY <1>2, <4>2
        <5>2. \A i : RowsOf(t, k, i) \in Nat
          BY RowsAreNat
        <5>3. \A i : RowsOf(t, k, i)' = RowsOf(t, k, i)
          BY <2>2, <5>1, <5>2
        <5>. QED BY <1>1, <2>1, <2>3, <2>4, <4>2, <5>1, <5>3
      <4>. QED BY <4>1, <4>2
    <3>2. \A u \in Tables : Len(text'[u]) = Len(text[u])
      BY <1>1
    <3>. QED BY <3>1, <3>2, RotatedKept DEF PlacesInv
  <2>. QED BY <2>5, <2>6, <2>7 DEF PlacesInv
<1>. QED BY <1>3, <1>4

\* A statement ends: it is in one file, which either goes on or is rotated away
\* with it as the last statement.
LEMMA PlacesEndInsert == ControlInv /\ PlacesInv /\ EndInsert => PlacesInv'
<1> SUFFICES ASSUME ControlInv, PlacesInv, EndInsert PROVE PlacesInv'
  OBVIOUS
<1>1. /\ TypeInv /\ phase = "writing" /\ format' = format /\ out' = out
      /\ insert' = insert + 1 /\ insert \in Nat
      /\ \A t \in Tables : /\ text'[t] = FilesAfter(t) /\ empty'[t] = TRUE
                           /\ written_size'[t] = SizeAfter(t)
  BY InsertRowsTypes DEF ControlInv, TypeInv, EndInsert, EmptyAfterTrailer
<1>2. ASSUME NEW t \in Tables
      PROVE  /\ Len(text[t]) \in Nat \ {0}
             /\ Rotates(t) => Len(text'[t]) = Len(text[t]) + 1
             /\ ~ Rotates(t) => Len(text'[t]) = Len(text[t])
             /\ \A k \in 1..Len(text[t]) : k \in 1..Len(text'[t])
             /\ \A k \in 1..(Len(text'[t]) - 1) :
                  k \in 1..(Len(text[t]) - 1) \/ (k = Len(text[t]) /\ Rotates(t))
             /\ \A k \in 1..(Len(text[t]) - 1) : text'[t][k] = text[t][k]
             /\ text'[t][Len(text[t])] = Closed(t)
             /\ Rotates(t) => text'[t][Len(text[t]) + 1] = FileHeader(format)
  <2> DEFINE before == Len(text[t])
             after  == Len(text'[t])
  <2>1. /\ Len(text[t]) \in Nat \ {0}
        /\ Len(FilesAfter(t)) = Len(text[t]) + IF Rotates(t) THEN 1 ELSE 0
        /\ \A k \in 1..(Len(text[t]) - 1) : FilesAfter(t)[k] = text[t][k]
        /\ FilesAfter(t)[Len(text[t])] = Closed(t)
        /\ Rotates(t) => FilesAfter(t)[Len(text[t]) + 1] = FileHeader(format)
    BY <1>1, CurrentFile, FilesAfterFacts
  <2>2. before \in Nat \ {0} /\ after = before + IF Rotates(t) THEN 1 ELSE 0
    BY <1>1, <2>1
  <2> HIDE DEF before, after
  <2>3. /\ Rotates(t) => after = before + 1
        /\ ~ Rotates(t) => after = before
        /\ \A k \in 1..before : k \in 1..after
        /\ \A k \in 1..(after - 1) : k \in 1..(before - 1) \/ (k = before /\ Rotates(t))
    BY <2>2
  <2>. QED BY <1>1, <2>1, <2>3 DEF before, after
<1>3. ASSUME NEW t \in Tables
      PROVE  /\ \A n \in 1..Len(out[t]) :
                  /\ out[t][n].insert <= insert
                  /\ out[t][n].insert \in Nat
                  /\ out[t][n].file \in 1..Len(text[t])
                  /\ \A m \in 1..Len(out[t]) :
                       out[t][m].insert = out[t][n].insert => out[t][m].file = out[t][n].file
             /\ written_size[t] = Len(Current(t)) /\ written_size[t] \in Nat
             /\ empty[t] <=> RowsNow(t) = 0
             /\ RowsNow(t) \in Nat
             /\ FileSize # None /\ FileSize > Len(FileHeader(format)) =>
                  written_size[t] - PartialSize(RowsNow(t)) < FileSize
  <2>1. \A n \in 1..Len(out[t]) : out[t][n].insert \in Nat
    <3>1. out[t] \in Seq(RowType)
      BY <1>1 DEF TypeInv
    <3>2. \A n \in 1..Len(out[t]) : out[t][n] \in RowType
      BY <3>1, ElementOfSeq
    <3>. QED BY <3>2 DEF RowType
  <2>2. RowsNow(t) \in Nat /\ written_size[t] \in Nat
    BY <1>1, RowsAreNat DEF RowsNow, TypeInv
  <2>. QED BY <1>1, <2>1, <2>2 DEF PlacesInv, PlaceInv, SizeInv
<1>4. \A t \in Tables : \A k, i : RowsOf(t, k, i)' = RowsOf(t, k, i)
  BY <1>1 DEF RowsOf
<1>5. /\ Len(Header(format)) \in Nat /\ Len(FileHeader(format)) \in Nat
      /\ \A n : StatementSize(n)' = StatementSize(n) /\ PartialSize(n)' = PartialSize(n)
      /\ FileHeader(format)' = FileHeader(format)
  BY <1>1, FormatUnits DEF StatementSize, PartialSize, Header, FileHeader
<1>6. PlaceInv'
  <2> SUFFICES ASSUME NEW t \in Tables, NEW n \in 1..Len(out[t])
               PROVE  /\ out[t][n].insert <= insert + 1
                      /\ out[t][n].file \in 1..Len(text'[t])
                      /\ out[t][n].insert # insert + 1
                      /\ \A m \in 1..Len(out[t]) :
                           out[t][m].insert = out[t][n].insert => out[t][m].file = out[t][n].file
    BY <1>1 DEF PlaceInv
  <2>1. out[t][n].insert <= insert + 1 /\ out[t][n].insert # insert + 1
    BY <1>1, <1>3
  <2>2. out[t][n].file \in 1..Len(text'[t])
    BY <1>2, <1>3
  <2>. QED BY <1>3, <2>1, <2>2
<1>7. SizeInv'
  <2> SUFFICES ASSUME NEW t \in Tables
               PROVE  /\ written_size'[t] = Len(Current(t)')
                      /\ empty'[t] <=> RowsNow(t)' = 0
                      /\ FileSize # None /\ FileSize > Len(FileHeader(format)) =>
                           written_size'[t] - PartialSize(RowsNow(t))' < FileSize
    BY <1>5 DEF SizeInv
  <2>1. RowsNow(t)' = 0
    <3>1. RowsOf(t, Len(text'[t]), insert + 1) = 0
      <4>1. \A n \in 1..Len(out[t]) : out[t][n].insert # insert + 1
        BY <1>1, <1>3
      <4>. QED BY <4>1, NoRows
    <3>. QED BY <1>1, <1>4, <3>1 DEF RowsNow
  <2>2. PartialSize(RowsNow(t))' = 0
    BY <2>1 DEF PartialSize
  <2>3. /\ ClosedSize(t) = Len(Closed(t)) /\ ClosedSize(t) \in Nat
    BY <1>1, <1>3, ClosedFile, ClosedSizes
  <2>4. CASE Rotates(t)
    <3>1. Len(text'[t]) = Len(text[t]) + 1
      BY <1>2, <2>4
    <3>2. Current(t)' = FileHeader(format)
      BY <1>2, <2>4, <3>1 DEF Current
    <3>3. written_size'[t] = Len(FileHeader(format))
      BY <1>1, <2>4 DEF SizeAfter
    <3>. QED BY <1>1, <1>5, <2>1, <2>2, <3>2, <3>3, FileSizeType
  <2>5. CASE ~ Rotates(t)
    <3>1. Len(text'[t]) = Len(text[t])
      BY <1>2, <2>5
    <3>2. Current(t)' = Closed(t)
      BY <1>2, <3>1 DEF Current
    <3>3. written_size'[t] = ClosedSize(t)
      BY <1>1, <2>5 DEF SizeAfter
    <3>4. FileSize # None => ClosedSize(t) < FileSize
      BY <2>3, <2>5, FileSizeType DEF Rotates
    <3>. QED BY <1>1, <2>1, <2>2, <2>3, <3>2, <3>3, <3>4
  <2>. QED BY <2>4, <2>5
<1>8. RotatedInv'
  <2> SUFFICES ASSUME NEW t \in Tables, NEW k \in 1..(Len(text'[t]) - 1)
               PROVE  /\ FileSize # None
                      /\ Len(text'[t][k]) >= FileSize
                      /\ FileSize > Len(FileHeader(format)) =>
                           \E i \in 0..insert :
                             /\ RowsOf(t, k, i) > 0
                             /\ \A n \in 1..Len(out[t]) :
                                  out[t][n].file = k => out[t][n].insert <= i
                             /\ Len(text'[t][k]) - StatementSize(RowsOf(t, k, i)) < FileSize
    <3>1. insert' - 1 = insert
      BY <1>1
    <3>2. ASSUME NEW t \in Tables, NEW k \in 1..(Len(text'[t]) - 1)
          PROVE  /\ FileSize # None
                 /\ Len(text'[t][k]) >= FileSize
                 /\ FileSize > Len(FileHeader(format)') =>
                      \E i \in 0..(insert' - 1) :
                        /\ RowsOf(t, k, i)' > 0
                        /\ \A n \in 1..Len(out'[t]) :
                             out'[t][n].file = k => out'[t][n].insert <= i
                        /\ Len(text'[t][k]) - StatementSize(RowsOf(t, k, i))' < FileSize
      <4>1. /\ \A i : RowsOf(t, k, i)' = RowsOf(t, k, i)
            /\ \A i : StatementSize(RowsOf(t, k, i))' = StatementSize(RowsOf(t, k, i))
        BY <1>1, <1>4 DEF StatementSize, Header
      <4>. QED BY <1>1, <1>5, <3>1, <3>2, <4>1
    <3>. QED BY <3>2 DEF RotatedInv
  <2>1. CASE k \in 1..(Len(text[t]) - 1)
    <3>1. text'[t][k] = text[t][k]
      BY <1>2, <2>1
    <3>2. /\ FileSize # None
          /\ Len(text[t][k]) >= FileSize
          /\ FileSize > Len(FileHeader(format)) =>
               \E i \in 0..(insert - 1) :
                 /\ RowsOf(t, k, i) > 0
                 /\ \A n \in 1..Len(out[t]) : out[t][n].file = k => out[t][n].insert <= i
                 /\ Len(text[t][k]) - StatementSize(RowsOf(t, k, i)) < FileSize
      BY <2>1 DEF PlacesInv, RotatedInv
    <3>3. \A i \in 0..(insert - 1) : i \in 0..insert
      BY <1>1
    <3>. QED BY <3>1, <3>2, <3>3
  <2>2. CASE k \notin 1..(Len(text[t]) - 1)
    <3>1. k = Len(text[t]) /\ Rotates(t)
      BY <1>2, <2>2
    <3>2. /\ text'[t][k] = Closed(t) /\ ClosedSize(t) = Len(Closed(t)) /\ ClosedSize(t) \in Nat
          /\ ClosedSize(t) = written_size[t] + IF empty[t] THEN 0 ELSE 1
          /\ FileSize \in Nat /\ FileSize # None /\ ClosedSize(t) >= FileSize
      <4>1. text'[t][k] = Closed(t)
        BY <1>2, <3>1
      <4>2. /\ ClosedSize(t) = written_size[t] + IF empty[t] THEN 0 ELSE 1
            /\ ClosedSize(t) \in Nat
        BY <1>1, ClosedSizes
      <4>3. Len(Closed(t)) = Len(Current(t)) + IF empty[t] THEN 0 ELSE 1
        BY <1>1, ClosedFile
      <4>4. FileSize \in Nat /\ FileSize # None /\ ClosedSize(t) >= FileSize
        BY <3>1, FileSizeType DEF Rotates
      <4>. QED BY <1>3, <4>1, <4>2, <4>3, <4>4
    <3>3. ASSUME FileSize > Len(FileHeader(format))
          PROVE  /\ RowsOf(t, k, insert) > 0
                 /\ Len(text'[t][k]) - StatementSize(RowsOf(t, k, insert)) < FileSize
      <4> DEFINE n == RowsNow(t)
                 h == Len(Header(format))
                 w == written_size[t]
                 c == ClosedSize(t)
      <4>1. n = RowsOf(t, k, insert)
        BY <3>1 DEF RowsNow
      <4>2. /\ n \in Nat /\ h \in Nat /\ w \in Nat /\ c \in Nat /\ FileSize \in Nat
            /\ c = w + IF n = 0 THEN 0 ELSE 1
            /\ c >= FileSize
            /\ w - (IF n = 0 THEN 0 ELSE h + 2 * n - 1) < FileSize
        BY <1>3, <1>5, <3>2, <3>3 DEF PartialSize
      <4>3. StatementSize(n) = IF n = 0 THEN 0 ELSE h + 2 * n
        BY DEF StatementSize
      <4>4. Len(text'[t][k]) = c
        BY <3>2
      <4> HIDE DEF n, h, w, c
      <4>5. n > 0
        BY <4>2
      <4>6. c - StatementSize(n) < FileSize
        BY <4>2, <4>3, <4>5
      <4>. QED BY <4>1, <4>4, <4>5, <4>6
    <3>4. insert \in 0..insert
      BY <1>1
    <3>5. \A n \in 1..Len(out[t]) : out[t][n].insert <= insert
      BY <1>3
    <3>. QED BY <3>2, <3>3, <3>4, <3>5
  <2>. QED BY <2>1, <2>2
<1>. QED BY <1>6, <1>7, <1>8 DEF PlacesInv

LEMMA PlacesNext == ControlInv /\ PlacesInv /\ [Next]_vars => PlacesInv'
<1> SUFFICES ASSUME ControlInv, PlacesInv, [Next]_vars PROVE PlacesInv'
  OBVIOUS
<1>1. TypeInv
  BY DEF ControlInv
<1>2. CASE StartRow
  BY <1>1, <1>2, StartRowFacts, TablesFacts, PlacesRow
<1>3. CASE ChildRow
  BY <1>1, <1>3, ChildRowFacts, PlacesRow
<1>4. CASE EndInsert
  BY <1>4, PlacesEndInsert
<1>5. CASE EndRow \/ NextChild \/ Finish \/ Terminated \/ UNCHANGED vars
  <2>1. /\ UNCHANGED <<format, insert, text, empty, written_size, out>>
        /\ phase' # "failed" => phase # "failed"
    BY <1>5 DEF EndRow, NextChild, Finish, Terminated, vars
  <2>2. PlaceInv'
    BY <2>1 DEF PlacesInv, PlaceInv
  <2>3. /\ \A t \in Tables : \A k, i : RowsOf(t, k, i)' = RowsOf(t, k, i)
        /\ \A t \in Tables : RowsNow(t)' = RowsNow(t) /\ Current(t)' = Current(t)
        /\ \A n : PartialSize(n)' = PartialSize(n)
    BY <2>1 DEF RowsOf, RowsNow, Current, PartialSize, Header
  <2>4. SizeInv'
    <3>1. \A t \in Tables : PartialSize(RowsNow(t))' = PartialSize(RowsNow(t))
      BY <2>1, <2>3 DEF PartialSize, Header
    <3>. QED BY <2>1, <2>3, <3>1 DEF PlacesInv, SizeInv, FileHeader
  <2>5. RotatedInv'
    BY <2>1, <2>3, RotatedKept DEF PlacesInv
  <2>. QED BY <2>2, <2>4, <2>5 DEF PlacesInv
<1>. QED BY <1>2, <1>3, <1>4, <1>5 DEF Next

\* Statements are not split, and a rotated file reached the target size with its
\* last statement and not before, for any number of tables and rows.
THEOREM TargetSizeTheorem == Spec => []TargetSizeRespected
<1>1. Spec => [](ControlInv /\ PlacesInv)
  BY ControlInit, PlacesInit, ControlNext, PlacesNext, PTL DEF Spec
<1>2. PlacesInv => TargetSizeRespected
  BY DEF PlacesInv, PlaceInv, RotatedInv, TargetSizeRespected
<1>. QED BY <1>1, <1>2, PTL

----------------------------------------------------------------------------
(* The rows of the main table in each statement.                           *)

LEMMA StatementInit == Init => StatementInv
<1> SUFFICES ASSUME Init PROVE StatementInv
  OBVIOUS
<1>1. insert = 0 /\ in_insert = 0 /\ stack = <<>> /\ Len(out[1]) = 0 /\ 1 \in Tables
  BY TablesFacts DEF Init
<1>2. RowsNow(1) = 0
  BY <1>1, NoRows DEF RowsNow
<1>. QED BY <1>1, <1>2 DEF StatementInv

\* The statements before the current one are not written to any more.
LEMMA StatementsKept ==
  ASSUME StatementInv, phase # "failed",
         1..Len(text[1]) \subseteq 1..Len(text'[1]),
         \A i \in 1..insert : \A k : RowsOf(1, k, i - 1)' = RowsOf(1, k, i - 1)
  PROVE  \A i \in 1..insert :
           InsertRows[i] > 0 => \E k \in 1..Len(text'[1]) : RowsOf(1, k, i - 1)' = InsertRows[i]
BY DEF StatementInv

LEMMA StatementNext ==
  ControlInv /\ PlacesInv /\ StatementInv /\ [Next]_vars => StatementInv'
<1> SUFFICES ASSUME ControlInv, PlacesInv, StatementInv, [Next]_vars, phase' # "failed"
             PROVE  StatementInv'
  BY DEF StatementInv
<1>1. /\ TypeInv /\ 1 \in Tables /\ in_insert \in Nat /\ insert \in Nat
      /\ \A k, i : RowsOf(1, k, i) \in Nat
  <2>1. TypeInv /\ 1 \in Tables
    BY TablesFacts DEF ControlInv
  <2>2. in_insert \in Nat /\ insert \in Nat
    BY <2>1, InsertRowsTypes DEF TypeInv
  <2>. QED BY <2>1, <2>2, RowsAreNat
<1>2. CASE StartRow
  <2>1. /\ stack = <<>> /\ stack' # <<>> /\ phase = "writing"
        /\ UNCHANGED <<format, insert, in_insert, row_num, asked>>
    BY <1>2, StartRowFacts
  <2>2. PICK units \in Seq(Units) : Written(1, 1, 0, units)
    BY <1>2, StartRowFacts
  <2>3. Len(text'[1]) = Len(text[1])
    BY <1>1, <2>2, WrittenText
  <2>4. \A k, i : RowsOf(1, k, i)' = RowsOf(1, k, i) + IF k = Len(text[1]) /\ i = insert THEN 1 ELSE 0
    BY <1>1, <2>2, OneMoreRow
  <2>5. \A i \in 1..insert : \A k : RowsOf(1, k, i - 1)' = RowsOf(1, k, i - 1)
    <3>1. \A i \in 1..insert : i - 1 # insert
      BY <1>1
    <3>. QED BY <1>1, <2>4, <3>1
  <2>6. RowsNow(1)' = in_insert + 1
    <3>1. RowsNow(1)' = RowsNow(1) + 1
      BY <2>1, <2>3, <2>4 DEF RowsNow
    <3>2. RowsNow(1) = in_insert
      BY <1>1, <2>1 DEF StatementInv
    <3>. QED BY <3>1, <3>2
  <2>. QED BY <2>1, <2>3, <2>5, <2>6, StatementsKept DEF StatementInv
<1>3. CASE ChildRow
  <2>1. /\ stack # <<>> /\ stack' # <<>> /\ phase = "writing"
        /\ UNCHANGED <<format, insert, in_insert, row_num, asked>>
        /\ ChildOfTop \in Tables /\ ChildOfTop > Top.table
    BY <1>3, ChildRowFacts
  <2>2. PICK units \in Seq(Units) :
          Written(ChildOfTop, Top.r + 1, Len(out[Top.table]), units)
    BY <1>3, ChildRowFacts
  <2>3. ChildOfTop # 1
    BY <1>1, <2>1, TopFrame DEF Tables
  <2>4. Top.r + 1 \in Nat /\ Len(out[Top.table]) \in Nat
    BY <1>3, ChildRowFacts
  <2>5. text'[1] = text[1]
    BY <1>1, <2>1, <2>2, <2>3, WrittenText
  <2>6. \A k, i : RowsOf(1, k, i)' = RowsOf(1, k, i)
    BY <1>1, <2>1, <2>2, <2>3, <2>4, OneMoreRow
  <2>7. RowsNow(1)' = RowsNow(1)
    BY <2>1, <2>5, <2>6 DEF RowsNow
  <2>. QED BY <2>1, <2>5, <2>6, <2>7, StatementsKept DEF StatementInv
<1>4. CASE EndRow
  <2>1. /\ stack # <<>> /\ phase = "writing" /\ UNCHANGED <<insert, text, out>>
        /\ in_insert' = IF stack' = <<>> THEN in_insert + 1 ELSE in_insert
    BY <1>4, EndRowFacts
  <2>2. \A k, i : RowsOf(1, k, i)' = RowsOf(1, k, i)
    BY <2>1 DEF RowsOf
  <2>3. RowsNow(1)' = RowsNow(1)
    BY <2>1, <2>2 DEF RowsNow
  <2>4. RowsNow(1) = in_insert + 1
    BY <2>1 DEF StatementInv
  <2>5. RowsNow(1)' = in_insert' + IF stack' = <<>> THEN 0 ELSE 1
    BY <1>1, <2>1, <2>3, <2>4
  <2>. QED BY <2>1, <2>2, <2>5, StatementsKept DEF StatementInv
<1>5. CASE EndInsert
  <2>1. /\ stack = <<>> /\ stack' = <<>> /\ phase = "writing" /\ out' = out
        /\ insert' = insert + 1 /\ in_insert' = 0
        /\ insert < Len(InsertRows) /\ in_insert = InsertRows[insert + 1]
        /\ text'[1] = FilesAfter(1)
    BY <1>1, <1>5 DEF EndInsert
  <2>2. \A k, i : RowsOf(1, k, i)' = RowsOf(1, k, i)
    BY <2>1 DEF RowsOf
  <2>3. 1..Len(text[1]) \subseteq 1..Len(text'[1]) /\ Len(text[1]) \in 1..Len(text'[1])
    <3> DEFINE before == Len(text[1])
               after  == Len(text'[1])
    <3>1. before \in Nat \ {0} /\ after = before + IF Rotates(1) THEN 1 ELSE 0
      BY <1>1, <2>1, CurrentFile, FilesAfterFacts
    <3> HIDE DEF before, after
    <3>2. 1..before \subseteq 1..after /\ before \in 1..after
      BY <3>1
    <3>. QED BY <3>2 DEF before, after
  <2>4. RowsNow(1)' = 0
    <3>1. RowsOf(1, Len(text'[1]), insert + 1) = 0
      <4>1. \A n \in 1..Len(out[1]) : out[1][n].insert <= insert
        BY <1>1 DEF PlacesInv, PlaceInv
      <4>2. \A n \in 1..Len(out[1]) : out[1][n].insert \in Nat
        <5>1. \A n \in 1..Len(out[1]) : out[1][n] \in RowType
          BY <1>1, ElementOfSeq DEF TypeInv
        <5>. QED BY <5>1 DEF RowType
      <4>3. \A n \in 1..Len(out[1]) : out[1][n].insert # insert + 1
        BY <1>1, <4>1, <4>2
      <4>. QED BY <1>1, <4>3, NoRows
    <3>. QED BY <2>1, <2>2, <3>1 DEF RowsNow
  <2>5. RowsOf(1, Len(text[1]), insert) = InsertRows[insert + 1]
    BY <1>1, <2>1 DEF StatementInv, RowsNow
  <2>6. ASSUME NEW i \in 1..(insert + 1), InsertRows[i] > 0
        PROVE  \E k \in 1..Len(text'[1]) : RowsOf(1, k, i - 1)' = InsertRows[i]
    <3>1. CASE i \in 1..insert
      BY <2>1, <2>2, <2>3, <2>6, <3>1, StatementsKept
    <3>2. CASE i = insert + 1
      <4>1. i - 1 = insert
        BY <1>1, <3>2
      <4>. QED BY <2>2, <2>3, <2>5, <3>2, <4>1
    <3>. QED BY <1>1, <3>1, <3>2
  <2>. QED BY <2>1, <2>4, <2>6 DEF StatementInv
<1>6. CASE NextChild \/ Finish \/ Terminated \/ UNCHANGED vars
  <2>1. /\ UNCHANGED <<insert, in_insert, text, out>> /\ phase # "failed"
        /\ stack' = <<>> <=> stack = <<>>
    <3>1. CASE NextChild
      <4>1. stack # <<>> /\ stack' # <<>> /\ phase = "writing"
        BY <3>1, NextChildStack
      <4>. QED BY <3>1, <4>1 DEF NextChild
    <3>. QED BY <1>6, <3>1 DEF Finish, Terminated, vars
  <2>2. \A k, i : RowsOf(1, k, i)' = RowsOf(1, k, i)
    BY <2>1 DEF RowsOf
  <2>. QED BY <2>1, <2>2 DEF StatementInv, RowsNow
<1>. QED BY <1>2, <1>3, <1>4, <1>5, <1>6 DEF Next

\* Main rows are numbered one after the other whatever is derived from them, and
\* every INSERT has its number of them in one file.
THEOREM MainRowsTheorem == Spec => []MainRowsConsecutive
<1>1. Spec => [](ControlInv /\ PlacesInv /\ MainInv /\ StatementInv)
  BY ControlInit, PlacesInit, MainInit, StatementInit, ControlNext, PlacesNext, MainNext,
     StatementNext, PTL DEF Spec
<1>2. ControlInv /\ MainInv /\ StatementInv => MainRowsConsecutive
  <2> SUFFICES ASSUME ControlInv, MainInv, StatementInv PROVE MainRowsConsecutive
    OBVIOUS
  <2>1. ASSUME phase = "done"
        PROVE  /\ row_num = FirstRowNum + Len(out[1])
               /\ \A i \in 1..Len(InsertRows) : InsertRows[i] > 0 =>
                    \E k \in 1..Len(text[1]) : RowsOf(1, k, i - 1) = InsertRows[i]
    <3>1. stack = <<>> /\ insert = Len(InsertRows) /\ row_num \in Nat
      BY <2>1 DEF ControlInv, LoopInv, TypeInv
    <3>2. FirstRowNum \in Nat /\ Len(out[1]) = row_num - FirstRowNum + 0
      BY <2>1, <3>1, DataFileAssumption DEF MainInv
    <3>. QED BY <2>1, <3>1, <3>2 DEF StatementInv
  <2>. QED BY <2>1 DEF MainInv, MainRowsConsecutive
<1>. QED BY <1>1, <1>2, PTL

----------------------------------------------------------------------------
(* The rows of the derived tables.                                         *)

LEMMA DerivedOnce ==
  ASSUME NEW p \in Tables, NEW k \in 1..Len(Derived[p]),
         NEW q \in Tables, NEW l \in 1..Len(Derived[q]), Derived[p][k] = Derived[q][l]
  PROVE  p = q /\ k = l
BY DataFileAssumption

\* A table has one frame, and those below the top are of lower tables.
LEMMA OneFrame ==
  ASSUME ControlInv, NEW i \in 1..Len(stack), NEW j \in 1..Len(stack)
  PROVE  /\ stack[i].table = stack[j].table => i = j
         /\ stack[i].table <= Top.table
<1>1. /\ \A a, b \in 1..Len(stack) : a < b => stack[a].table < stack[b].table
      /\ Len(stack) \in Nat
  BY LenProperties DEF ControlInv, TypeInv, FrameInv
<1>2. stack # <<>> /\ Top = stack[Len(stack)] /\ \A a \in 1..Len(stack) : stack[a].table \in Nat
  <2>1. TypeInv /\ stack \in Seq(FrameType) /\ Len(stack) > 0
    BY <1>1 DEF ControlInv, TypeInv
  <2>2. stack # <<>>
    BY <2>1
  <2>3. \A a \in 1..Len(stack) : stack[a] \in FrameType
    BY <2>1, ElementOfSeq
  <2>. QED BY <2>1, <2>2, <2>3, TopFrame, TablesFacts DEF FrameType
<1>3. stack[i].table = stack[j].table => i = j
  BY <1>1, <1>2
<1>4. stack[i].table <= Top.table
  BY <1>1, <1>2
<1>. QED BY <1>3, <1>4

LEMMA RowUps ==
  ASSUME TypeInv, NEW t \in Tables
  PROVE  /\ Len(out[t]) \in Nat /\ out[t] \in Seq(RowType)
         /\ asked[t] \in Seq(Nat) /\ Len(asked[t]) \in Nat
         /\ \A i \in 1..Len(out[t]) : out[t][i].up \in Nat /\ out[t][i].sub \in Nat
<1>1. out[t] \in Seq(RowType) /\ asked[t] \in Seq(Nat)
  BY DEF TypeInv
<1>2. \A i \in 1..Len(out[t]) : out[t][i] \in RowType
  BY <1>1, ElementOfSeq
<1>. QED BY <1>1, <1>2, LenProperties DEF RowType

LEMMA NumberedKept ==
  ASSUME NEW t, out'[t] = out[t]
  PROVE  \A n, m : NumberedTo(t, n, m)' = NumberedTo(t, n, m)
BY DEF NumberedTo, RowsUnder

\* A row that is derived from another row of the parent.
LEMMA NumberedOther ==
  ASSUME NEW t, NEW n, NEW m, NumberedTo(t, n, m), Len(out[t]) \in Nat,
         Len(out'[t]) = Len(out[t]) + 1,
         \A i \in 1..Len(out[t]) : out'[t][i] = out[t][i],
         out'[t][Len(out[t]) + 1].up # n
  PROVE  NumberedTo(t, n, m)'
<1>1. RowsUnder(t, n)' = RowsUnder(t, n)
  BY DEF RowsUnder
<1>2. \A i \in RowsUnder(t, n) : out'[t][i] = out[t][i]
  BY DEF RowsUnder
<1>. QED BY <1>1, <1>2 DEF NumberedTo

\* The next row derived from row n of the parent.
LEMMA NumberedNext ==
  ASSUME NEW t, NEW n, NEW m \in Nat, NumberedTo(t, n, m), Len(out[t]) \in Nat,
         Len(out'[t]) = Len(out[t]) + 1,
         \A i \in 1..Len(out[t]) : out'[t][i] = out[t][i],
         out'[t][Len(out[t]) + 1].up = n,
         out'[t][Len(out[t]) + 1].sub = m + 1
  PROVE  NumberedTo(t, n, m + 1)'
<1> DEFINE new == Len(out[t]) + 1
           rows == RowsUnder(t, n)
<1>1. /\ \A i \in rows : i \in 1..Len(out[t]) /\ i < new /\ out'[t][i] = out[t][i]
      /\ RowsUnder(t, n)' = rows \cup {new}
  <2>1. \A i : i \in 1..Len(out'[t]) <=> i \in 1..Len(out[t]) \/ i = new
    OBVIOUS
  <2>2. \A i \in 1..Len(out[t]) : i < new /\ i # new
    OBVIOUS
  <2>3. RowsUnder(t, n)' = {i \in 1..Len(out'[t]) : out'[t][i].up = n}
    BY DEF RowsUnder
  <2>4. \A i : i \in rows <=> i \in 1..Len(out[t]) /\ out[t][i].up = n
    BY DEF RowsUnder
  <2>5. \A i : i \in RowsUnder(t, n)' <=> i \in rows \/ i = new
    <3> HIDE DEF rows, new
    <3>. QED BY <2>1, <2>2, <2>3, <2>4 DEF new
  <2>. QED BY <2>2, <2>4, <2>5
<1>2. /\ {out[t][i].sub : i \in rows} = 1..m
      /\ \A i, j \in rows : i < j => out[t][i].sub < out[t][j].sub
  BY DEF NumberedTo
<1>3. new \in Nat /\ out'[t][new].sub = m + 1
  OBVIOUS
<1> HIDE DEF rows, new
<1>4. {out'[t][i].sub : i \in rows \cup {new}} = 1..(m + 1)
  <2>1. {out'[t][i].sub : i \in rows \cup {new}} = {out'[t][i].sub : i \in rows} \cup {m + 1}
    BY <1>3
  <2>2. {out'[t][i].sub : i \in rows} = {out[t][i].sub : i \in rows}
    BY <1>1
  <2>3. (1..m) \cup {m + 1} = 1..(m + 1)
    OBVIOUS
  <2>. QED BY <1>2, <2>1, <2>2, <2>3
<1>5. ASSUME NEW i \in rows \cup {new}, NEW j \in rows \cup {new}, i < j
      PROVE  out'[t][i].sub < out'[t][j].sub
  <2>1. CASE i \in rows /\ j \in rows
    BY <1>1, <1>2, <1>5, <2>1
  <2>2. CASE i \in rows /\ j = new
    <3>1. out[t][i].sub \in 1..m
      BY <1>2, <2>2
    <3>. QED BY <1>1, <1>3, <2>2, <3>1
  <2>3. CASE i = new
    <3>1. ~ (new < new)
      BY <1>3
    <3>2. j \in rows
      BY <1>5, <2>3, <3>1
    <3>3. j < new /\ j \in Nat
      BY <1>1, <3>2
    <3>. QED BY <1>3, <1>5, <2>3, <3>3
  <2>. QED BY <1>5, <2>1, <2>2, <2>3
<1>. QED BY <1>1, <1>4, <1>5 DEF NumberedTo

\* A step that is not about table p: its rows, those of its derived table, and its
\* frame are as they were.
LEMMA PairKept ==
  ASSUME NEW p, NEW k, NEW t, ChildPair(p, k, t),
         out'[p] = out[p], out'[t] = out[t], asked'[t] = asked[t],
         OnStack(p)' <=> OnStack(p),
         \A j \in 1..Len(stack') : stack'[j].table = p =>
           /\ row_num' = row_num
           /\ \E i \in 1..Len(stack) :
                /\ stack[i].table = p
                /\ stack'[j].child = stack[i].child /\ stack'[j].count = stack[i].count
                /\ stack'[j].r = stack[i].r \/ k # stack[i].child
  PROVE  ChildPair(p, k, t)'
<1>1. /\ \A n, m : NumberedTo(t, n, m)' = NumberedTo(t, n, m)
      /\ \A n : ChildDone(t, n)' = ChildDone(t, n)
  BY NumberedKept DEF ChildDone
<1>2. ASSUME NEW j \in 1..Len(stack'), stack'[j].table = p
      PROVE  Expanding(p, k, t, stack[j])'
  <2>1. PICK i \in 1..Len(stack) :
          /\ stack[i].table = p
          /\ stack'[j].child = stack[i].child /\ stack'[j].count = stack[i].count
          /\ stack'[j].r = stack[i].r \/ k # stack[i].child
    BY <1>2
  <2>2. Expanding(p, k, t, stack[i]) /\ row_num' = row_num
    BY <1>2, <2>1 DEF ChildPair
  <2>3. CASE k = stack[i].child
    BY <1>1, <2>1, <2>2, <2>3 DEF Expanding
  <2>4. CASE k # stack[i].child
    BY <1>1, <2>1, <2>2, <2>4 DEF Expanding
  <2>. QED BY <2>3, <2>4
<1>. QED BY <1>1, <1>2 DEF ChildPair

\* A row of p, which had no frame, is written and gets one: the earlier rows are
\* done, and nothing is derived yet from the new one.
LEMMA PairStarts ==
  ASSUME TypeInv, NEW p \in Tables, NEW k \in Nat \ {0}, NEW t \in Tables,
         ChildPair(p, k, t), ~ OnStack(p),
         Len(out'[p]) = Len(out[p]) + 1,
         \A i \in 1..Len(out[p]) : out'[p][i] = out[p][i],
         out'[p][Len(out[p]) + 1].row_num = row_num, row_num' = row_num,
         out'[t] = out[t], asked'[t] = asked[t],
         OnStack(p)',
         \A j \in 1..Len(stack') : stack'[j].table = p => stack'[j].child = 0
  PROVE  ChildPair(p, k, t)'
<1>0. PICK rows : rows = Len(out[p])
  OBVIOUS
<1>1. /\ \A n, m : NumberedTo(t, n, m)' = NumberedTo(t, n, m)
      /\ \A n : ChildDone(t, n)' = ChildDone(t, n)
  BY NumberedKept DEF ChildDone
<1>2. rows \in Nat /\ Len(out'[p]) = rows + 1
  BY <1>0, RowUps
<1>3. /\ Len(asked[t]) = rows /\ (rows > 0 => ChildDone(t, rows))
      /\ \A n \in 1..(rows - 1) : ChildDone(t, n)
      /\ \A i \in 1..Len(out[t]) :
           out[t][i].up \in 1..rows /\ out[t][i].row_num = out[p][out[t][i].up].row_num
  BY <1>0 DEF ChildPair
<1>4. \A n \in 1..rows : ChildDone(t, n)
  BY <1>2, <1>3
<1>5. rows + 1 - 1 = rows /\ rows + 1 > 0 /\ rows + 1 \notin 1..rows
  BY <1>2
<1>6. \A i \in 1..Len(out'[t]) :
        /\ out'[t][i].up \in 1..Len(out'[p])
        /\ out'[t][i].row_num = out'[p][out'[t][i].up].row_num
  <2>1. 1..rows \subseteq 1..(rows + 1)
    BY <1>2
  <2>2. \A i \in 1..rows : out'[p][i] = out[p][i]
    BY <1>0
  <2>. QED BY <1>2, <1>3, <2>1, <2>2
<1>7. \A n \in 1..(Len(out'[p]) - 1) : ChildDone(t, n)'
  BY <1>1, <1>2, <1>4, <1>5
<1>8. NumberedTo(t, rows + 1, 0)
  <2>1. RowsUnder(t, rows + 1) = {}
    BY <1>3, <1>5 DEF RowsUnder
  <2>2. {out[t][i].sub : i \in {}} = 1..0
    OBVIOUS
  <2>. QED BY <2>1, <2>2 DEF NumberedTo
<1>9. ASSUME NEW j \in 1..Len(stack'), stack'[j].table = p
      PROVE  Expanding(p, k, t, stack[j])'
  <2>1. stack'[j].child = 0
    BY <1>9
  <2>2. out'[p][Len(out'[p])].row_num = row_num'
    BY <1>0, <1>2
  <2>3. Len(asked'[t]) = Len(out'[p]) - 1 /\ Len(out'[p]) > 0
    BY <1>2, <1>3, <1>5
  <2>4. NumberedTo(t, Len(out[p]), 0)'
    BY <1>1, <1>2, <1>8
  <2>5. ~ (k < 0) /\ k # 0
    OBVIOUS
  <2>. QED BY <2>1, <2>2, <2>3, <2>4, <2>5 DEF Expanding
<1>. QED BY <1>6, <1>7, <1>9 DEF ChildPair

\* A row of t is derived from the last row of p, at its k-th derived table.
LEMMA PairGrows ==
  ASSUME ControlInv, NEW p \in Tables, NEW k \in Nat \ {0}, NEW t \in Tables,
         ChildPair(p, k, t), stack # <<>>, Top.table = p, Top.child = k,
         out'[p] = out[p], asked'[t] = asked[t], row_num' = row_num,
         Len(out'[t]) = Len(out[t]) + 1,
         \A i \in 1..Len(out[t]) : out'[t][i] = out[t][i],
         out'[t][Len(out[t]) + 1].up = Len(out[p]),
         out'[t][Len(out[t]) + 1].sub = Top.r + 1,
         out'[t][Len(out[t]) + 1].row_num = row_num,
         OnStack(p)',
         \A j \in 1..Len(stack') : stack'[j].table = p =>
           stack'[j].child = k /\ stack'[j].count = Top.count /\ stack'[j].r = Top.r + 1
  PROVE  ChildPair(p, k, t)'
<1>0. PICK rows, r, new : rows = Len(out[p]) /\ r = Top.r /\ new = Len(out[t]) + 1
  OBVIOUS
<1>1. /\ TypeInv /\ Len(out[t]) \in Nat /\ rows \in Nat /\ r \in Nat
      /\ Top = stack[Len(stack)] /\ Len(stack) \in 1..Len(stack)
  <2>1. TypeInv
    BY DEF ControlInv
  <2>2. Len(stack) \in Nat \ {0} /\ Top = stack[Len(stack)] /\ Top.r \in Nat
    BY <2>1, TopFrame
  <2>. QED BY <1>0, <2>1, <2>2, RowUps
<1>2. Expanding(p, k, t, Top)
  BY <1>1 DEF ChildPair
<1>3. /\ rows > 0 /\ out[p][rows].row_num = row_num /\ Len(asked[t]) = rows
      /\ asked[t][rows] = Top.count /\ NumberedTo(t, rows, r)
  BY <1>0, <1>2 DEF Expanding
<1>4. NumberedTo(t, rows, r + 1)'
  BY <1>0, <1>1, <1>3, NumberedNext
<1>5. \A n \in 1..(rows - 1) : ChildDone(t, n)'
  <2> SUFFICES ASSUME NEW n \in 1..(rows - 1) PROVE ChildDone(t, n)'
    OBVIOUS
  <2>1. ChildDone(t, n)
    BY <1>0 DEF ChildPair
  <2>2. n # rows
    BY <1>1
  <2>3. NumberedTo(t, n, asked[t][n])'
    <3>1. out'[t][Len(out[t]) + 1].up # n
      BY <1>0, <2>2
    <3>2. ASSUME NEW m, m = asked[t][n] PROVE NumberedTo(t, n, m)'
      BY <1>1, <2>1, <3>1, <3>2, NumberedOther DEF ChildDone
    <3>. QED BY <3>2
  <2>. QED BY <2>1, <2>3 DEF ChildDone
<1>6. \A i \in 1..Len(out'[t]) :
        /\ out'[t][i].up \in 1..Len(out'[p])
        /\ out'[t][i].row_num = out'[p][out'[t][i].up].row_num
  <2> SUFFICES ASSUME NEW i \in 1..Len(out'[t])
               PROVE  /\ out'[t][i].up \in 1..Len(out'[p])
                      /\ out'[t][i].row_num = out'[p][out'[t][i].up].row_num
    OBVIOUS
  <2>1. CASE i \in 1..Len(out[t])
    BY <2>1 DEF ChildPair
  <2>2. CASE i = new
    <3>1. rows \in 1..rows
      BY <1>1, <1>3
    <3>. QED BY <1>0, <1>3, <2>2, <3>1
  <2>. QED BY <1>0, <1>1, <2>1, <2>2
<1>7. ASSUME NEW j \in 1..Len(stack'), stack'[j].table = p
      PROVE  Expanding(p, k, t, stack[j])'
  <2>1. /\ stack'[j].child = k /\ stack'[j].count = Top.count /\ stack'[j].r = r + 1
        /\ Len(out'[p]) = rows
    BY <1>0, <1>7
  <2>2. NumberedTo(t, Len(out[p]), stack[j].r)'
    BY <1>4, <2>1
  <2>3. ~ (k < k) /\ ~ (k > k)
    OBVIOUS
  <2>. QED BY <1>3, <2>1, <2>2, <2>3 DEF Expanding
<1>8. \A n \in 1..(Len(out'[p]) - 1) : ChildDone(t, n)'
  BY <1>0, <1>5
<1>. QED BY <1>6, <1>7, <1>8 DEF ChildPair

\* The count of the k-th derived table of the row on top is asked for.
LEMMA PairAsks ==
  ASSUME ControlInv, NEW p \in Tables, NEW k \in Nat \ {0}, NEW t \in Tables, NEW n \in Nat,
         ChildPair(p, k, t), stack # <<>>, Top.table = p, k = Top.child + 1,
         out' = out, row_num' = row_num, asked'[t] = Append(asked[t], n),
         OnStack(p)',
         \A j \in 1..Len(stack') : stack'[j].table = p =>
           stack'[j].child = k /\ stack'[j].count = n /\ stack'[j].r = 0
  PROVE  ChildPair(p, k, t)'
<1>0. PICK rows : rows = Len(out[p])
  OBVIOUS
<1>1. /\ rows \in Nat /\ asked[t] \in Seq(Nat) /\ Len(asked[t]) \in Nat
      /\ Top = stack[Len(stack)] /\ Len(stack) \in 1..Len(stack) /\ Top.child \in Nat
  <2>1. TypeInv
    BY DEF ControlInv
  <2>2. Len(stack) \in Nat \ {0} /\ Top = stack[Len(stack)] /\ Top.child \in Nat
    BY <2>1, TopFrame
  <2>. QED BY <1>0, <2>1, <2>2, RowUps
<1>2. Expanding(p, k, t, Top)
  BY <1>1 DEF ChildPair
<1>3. /\ rows > 0 /\ out[p][rows].row_num = row_num
      /\ Len(asked[t]) = rows - 1 /\ NumberedTo(t, rows, 0)
  <2>1. k > Top.child
    BY <1>1
  <2>. QED BY <1>0, <1>2, <2>1 DEF Expanding
<1>4. /\ Len(asked'[t]) = rows /\ asked'[t][rows] = n
      /\ \A i \in 1..(rows - 1) : asked'[t][i] = asked[t][i]
  BY <1>1, <1>3, AppendProperties
<1>5. \A m, i : NumberedTo(t, i, m)' = NumberedTo(t, i, m)
  BY NumberedKept
<1>6. \A i \in 1..(Len(out'[p]) - 1) : ChildDone(t, i)'
  <2> SUFFICES ASSUME NEW i \in 1..(rows - 1) PROVE ChildDone(t, i)'
    BY <1>0
  <2>1. ChildDone(t, i)
    BY <1>0 DEF ChildPair
  <2>. QED BY <1>1, <1>4, <1>5, <2>1 DEF ChildDone
<1>7. ASSUME NEW j \in 1..Len(stack'), stack'[j].table = p
      PROVE  Expanding(p, k, t, stack[j])'
  <2>1. stack'[j].child = k /\ stack'[j].count = n /\ stack'[j].r = 0 /\ Len(out'[p]) = rows
    BY <1>0, <1>7
  <2>2. NumberedTo(t, Len(out[p]), stack[j].r)'
    BY <1>3, <1>5, <2>1
  <2>3. ~ (k < k) /\ ~ (k > k)
    OBVIOUS
  <2>. QED BY <1>3, <1>4, <2>1, <2>2, <2>3 DEF Expanding
<1>8. \A i \in 1..Len(out'[t]) :
        /\ out'[t][i].up \in 1..Len(out'[p])
        /\ out'[t][i].row_num = out'[p][out'[t][i].up].row_num
  BY DEF ChildPair
<1>. QED BY <1>6, <1>7, <1>8 DEF ChildPair

\* The row on top goes on to its next derived table, which is not t.
LEMMA PairPasses ==
  ASSUME ControlInv, NEW p \in Tables, NEW k \in Nat \ {0}, NEW t \in Tables,
         ChildPair(p, k, t), stack # <<>>, Top.table = p, Top.r = Top.count,
         k # Top.child + 1,
         out' = out, row_num' = row_num, asked'[t] = asked[t], OnStack(p)',
         \A j \in 1..Len(stack') : stack'[j].table = p => stack'[j].child = Top.child + 1
  PROVE  ChildPair(p, k, t)'
<1>1. /\ Len(out[p]) \in Nat /\ Len(asked[t]) \in Nat
      /\ Top = stack[Len(stack)] /\ Len(stack) \in 1..Len(stack) /\ Top.child \in Nat
  <2>1. TypeInv
    BY DEF ControlInv
  <2>2. Len(stack) \in Nat \ {0} /\ Top = stack[Len(stack)] /\ Top.child \in Nat
    BY <2>1, TopFrame
  <2>. QED BY <2>1, <2>2, RowUps
<1>2. Expanding(p, k, t, Top)
  BY <1>1 DEF ChildPair
<1>3. /\ \A m, i : NumberedTo(t, i, m)' = NumberedTo(t, i, m)
      /\ \A i : ChildDone(t, i)' = ChildDone(t, i)
  BY NumberedKept DEF ChildDone
<1>4. ASSUME NEW j \in 1..Len(stack'), stack'[j].table = p
      PROVE  Expanding(p, k, t, stack[j])'
  <2>1. /\ stack'[j].child = Top.child + 1 /\ Len(out'[p]) = Len(out[p])
        /\ Len(out[p]) > 0 /\ out'[p][Len(out'[p])].row_num = row_num'
    BY <1>2, <1>4 DEF Expanding
  <2>2. CASE k > Top.child
    <3>1. Len(asked[t]) = Len(out[p]) - 1 /\ NumberedTo(t, Len(out[p]), 0)
      BY <1>2, <2>2 DEF Expanding
    <3>2. ~ (k < Top.child + 1) /\ k # Top.child + 1
      BY <1>1, <2>2
    <3>3. NumberedTo(t, Len(out[p]), 0)'
      BY <1>3, <2>1, <3>1
    <3>. QED BY <2>1, <3>1, <3>2, <3>3 DEF Expanding
  <2>3. CASE ~ (k > Top.child)
    <3>1. Len(asked[t]) = Len(out[p]) /\ ChildDone(t, Len(out[p]))
      <4>1. CASE k < Top.child
        BY <1>2, <4>1 DEF Expanding
      <4>2. CASE k = Top.child
        BY <1>1, <1>2, <2>1, <4>2 DEF Expanding, ChildDone
      <4>. QED BY <1>1, <2>3, <4>1, <4>2
    <3>2. ~ (k > Top.child + 1) /\ k # Top.child + 1
      BY <1>1, <2>3
    <3>3. ChildDone(t, Len(out[p]))'
      BY <1>3, <2>1, <3>1
    <3>. QED BY <2>1, <3>1, <3>2, <3>3 DEF Expanding
  <2>. QED BY <2>2, <2>3
<1>. QED BY <1>3, <1>4 DEF ChildPair

\* The row on top has had the rows of every derived table.
LEMMA PairEnds ==
  ASSUME ControlInv, NEW p \in Tables, NEW k \in 1..Len(Derived[p]), NEW t \in Tables,
         ChildPair(p, k, t), stack # <<>>, Top.table = p, Top.r = Top.count,
         Top.child = Len(Derived[p]),
         out' = out, asked' = asked, ~ OnStack(p)'
  PROVE  ChildPair(p, k, t)'
<1>1. /\ Len(out[p]) \in Nat /\ Len(Derived[p]) \in Nat
      /\ Top = stack[Len(stack)] /\ Len(stack) \in 1..Len(stack)
  <2>1. TypeInv
    BY DEF ControlInv
  <2>2. Len(stack) \in Nat \ {0} /\ Top = stack[Len(stack)]
    BY <2>1, TopFrame
  <2>. QED BY <2>1, <2>2, RowUps, TablesFacts
<1>2. Expanding(p, k, t, Top)
  BY <1>1 DEF ChildPair
<1>3. Len(asked[t]) = Len(out[p]) /\ ChildDone(t, Len(out[p]))
  <2>1. CASE k < Top.child
    BY <1>2, <2>1 DEF Expanding
  <2>2. CASE k = Top.child
    BY <1>1, <1>2, <2>2 DEF Expanding, ChildDone
  <2>. QED BY <1>1, <2>1, <2>2
<1>4. \A i : ChildDone(t, i)' = ChildDone(t, i)
  BY NumberedKept DEF ChildDone
<1>5. ChildDone(t, Len(out[p]))'
  BY <1>3, <1>4
<1>6. \A j \in 1..Len(stack') : stack'[j].table # p
  BY DEF OnStack
<1>. QED BY <1>3, <1>4, <1>5, <1>6 DEF ChildPair

LEMMA ChildInit == Init => ChildInv
<1> SUFFICES ASSUME Init, NEW p \in Tables, NEW k \in 1..Len(Derived[p])
             PROVE  ChildPair(p, k, Derived[p][k])
  BY DEF ChildInv
<1>1. PICK t \in Tables : t = Derived[p][k]
  BY TablesFacts
<1>2. out[p] = <<>> /\ out[t] = <<>> /\ asked[t] = <<>> /\ stack = <<>>
  BY DEF Init
<1>3. ChildPair(p, k, t)
  BY <1>2 DEF ChildPair
<1>. QED BY <1>1, <1>3

LEMMA ChildStartRow == ControlInv /\ ChildInv /\ StartRow => ChildInv'
<1> SUFFICES ASSUME ControlInv, ChildInv, StartRow, phase' # "failed",
                    NEW p \in Tables, NEW k \in 1..Len(Derived[p])
             PROVE  ChildPair(p, k, Derived[p][k])'
  BY DEF ChildInv
<1>1. PICK t \in Tables : t = Derived[p][k] /\ t > p
  BY TablesFacts
<1>2. /\ TypeInv /\ stack = <<>> /\ stack' = << Frame(1) >> /\ phase = "writing"
      /\ row_num' = row_num /\ asked' = asked
  BY StartRowFacts DEF ControlInv
<1>3. PICK units \in Seq(Units) : Written(1, 1, 0, units)
  BY StartRowFacts
<1>4. /\ \A u \in Tables : u # 1 => out'[u] = out[u]
      /\ Len(out'[1]) = Len(out[1]) + 1
      /\ \A i \in 1..Len(out[1]) : out'[1][i] = out[1][i]
      /\ out'[1][Len(out[1]) + 1] = RowAt(1, 1, 0)
  BY <1>2, <1>3, TablesFacts, WrittenRows
<1>5. ChildPair(p, k, t) /\ k \in Nat \ {0}
  BY <1>1, <1>2 DEF ChildInv
<1>6. out'[t] = out[t]
  <2>1. t # 1
    BY <1>1 DEF Tables
  <2>. QED BY <1>4, <2>1
<1>7. ~ OnStack(p)
  BY <1>2 DEF OnStack
<1>8. /\ Len(stack') = 1 /\ stack'[1].table = 1 /\ stack'[1].child = 0
      /\ \A j \in 1..Len(stack') : j = 1
  BY <1>2 DEF Frame
<1>9. CASE p = 1
  <2>1. out'[p][Len(out[p]) + 1].row_num = row_num
    BY <1>4, <1>9 DEF RowAt
  <2>2. OnStack(p)'
    BY <1>8, <1>9 DEF OnStack
  <2>3. \A j \in 1..Len(stack') : stack'[j].table = p => stack'[j].child = 0
    BY <1>8
  <2>4. /\ Len(out'[p]) = Len(out[p]) + 1
        /\ \A i \in 1..Len(out[p]) : out'[p][i] = out[p][i]
    BY <1>4, <1>9
  <2>5. ChildPair(p, k, t)'
    BY <1>2, <1>5, <1>6, <1>7, <2>1, <2>2, <2>3, <2>4, PairStarts
  <2>. QED BY <1>1, <2>5
<1>10. CASE p # 1
  <2>1. ~ OnStack(p)' /\ \A j \in 1..Len(stack') : stack'[j].table # p
    BY <1>8, <1>10 DEF OnStack
  <2>2. ChildPair(p, k, t)'
    BY <1>2, <1>4, <1>5, <1>6, <1>7, <1>10, <2>1, PairKept
  <2>. QED BY <1>1, <2>2
<1>. QED BY <1>9, <1>10

LEMMA ChildNextChild == ControlInv /\ ChildInv /\ NextChild => ChildInv'
<1> SUFFICES ASSUME ControlInv, ChildInv, NextChild, phase' # "failed",
                    NEW p \in Tables, NEW k \in 1..Len(Derived[p])
             PROVE  ChildPair(p, k, Derived[p][k])'
  BY DEF ChildInv
<1>1. PICK t \in Tables : t = Derived[p][k] /\ t > p
  BY TablesFacts
<1>2. /\ TypeInv /\ stack # <<>> /\ phase = "writing" /\ Top.r = Top.count
      /\ Top.child < Len(Derived[Top.table])
      /\ out' = out /\ row_num' = row_num
  BY DEF ControlInv, NextChild
<1>3. /\ Len(stack) \in Nat \ {0} /\ Top = stack[Len(stack)] /\ Top \in FrameType
      /\ Top.table \in Tables /\ Top.child \in Nat
  BY <1>2, TopFrame
<1>4. PICK next : next = Top.child + 1
  OBVIOUS
<1>5. /\ next \in 1..Len(Derived[Top.table]) /\ next \in Nat
      /\ Derived[Top.table][next] \in Tables
  <2>1. Len(Derived[Top.table]) \in Nat
    BY <1>3, TablesFacts
  <2>2. next \in 1..Len(Derived[Top.table]) /\ next \in Nat
    BY <1>2, <1>3, <1>4, <2>1
  <2>. QED BY <1>3, <2>2, TablesFacts
<1>6. PICK n \in 0..MaxChildren[Derived[Top.table][next]] :
        /\ stack' = WithTop([Top EXCEPT !.child = @ + 1, !.count = n, !.r = 0])
        /\ asked' = [asked EXCEPT ![Derived[Top.table][next]] = Append(@, n)]
  BY <1>4 DEF NextChild
<1>7. n \in Nat
  BY <1>5, DataFileAssumption
<1>8. /\ Len(stack') = Len(stack) /\ stack' # <<>>
      /\ \A j \in 1..(Len(stack) - 1) : stack'[j] = stack[j]
      /\ stack'[Len(stack)].table = Top.table /\ stack'[Len(stack)].child = next
      /\ stack'[Len(stack)].count = n /\ stack'[Len(stack)].r = 0
  <2> DEFINE f == [Top EXCEPT !.child = @ + 1, !.count = n, !.r = 0]
  <2>1. f \in FrameType /\ f.table = Top.table /\ f.child = next /\ f.count = n /\ f.r = 0
    <3>1. /\ f \in FrameType /\ f.table = Top.table
          /\ f.child = Top.child + 1 /\ f.count = n /\ f.r = 0
      BY <1>3, <1>7, NextFrame
    <3>. QED BY <1>4, <3>1
  <2>2. stack' = WithTop(f)
    BY <1>6
  <2> HIDE DEF f
  <2>. QED BY <1>2, <2>1, <2>2, ReplacedTop
<1>9. ChildPair(p, k, t) /\ k \in Nat \ {0}
  BY <1>1, <1>2 DEF ChildInv
<1>10. \A j \in 1..Len(stack') : j \in 1..Len(stack) /\ (j \in 1..(Len(stack) - 1) \/ j = Len(stack))
  BY <1>3, <1>8
<1>11. \A j \in 1..(Len(stack) - 1) : stack[j].table # Top.table
  BY <1>3, OneFrame
<1>12. CASE p = Top.table
  <2>1. OnStack(p)'
    BY <1>3, <1>8, <1>12 DEF OnStack
  <2>2. \A j \in 1..Len(stack') : stack'[j].table = p =>
          stack'[j].child = next /\ stack'[j].count = n /\ stack'[j].r = 0
    BY <1>8, <1>10, <1>11, <1>12
  <2>3. CASE k = next
    <3>1. asked'[t] = Append(asked[t], n)
      BY <1>1, <1>2, <1>6, <1>12, <2>3 DEF TypeInv
    <3>2. ChildPair(p, k, t)'
      BY <1>2, <1>4, <1>7, <1>9, <1>12, <2>1, <2>2, <2>3, <3>1, PairAsks
    <3>. QED BY <1>1, <3>2
  <2>4. CASE k # next
    <3>1. t # Derived[Top.table][next]
      BY <1>1, <1>5, <1>12, <2>4, DerivedOnce
    <3>2. asked'[t] = asked[t]
      BY <1>2, <1>6, <3>1 DEF TypeInv
    <3>3. \A j \in 1..Len(stack') : stack'[j].table = p => stack'[j].child = Top.child + 1
      BY <1>4, <2>2
    <3>4. ChildPair(p, k, t)'
      BY <1>2, <1>4, <1>9, <1>12, <2>1, <2>4, <3>2, <3>3, PairPasses
    <3>. QED BY <1>1, <3>4
  <2>. QED BY <2>3, <2>4
<1>13. CASE p # Top.table
  <2>1. t # Derived[Top.table][next]
    BY <1>1, <1>3, <1>5, <1>13, DerivedOnce
  <2>2. asked'[t] = asked[t]
    BY <1>2, <1>6, <2>1 DEF TypeInv
  <2>3. \A j \in 1..Len(stack') : stack'[j].table = p => j \in 1..Len(stack) /\ stack'[j] = stack[j]
    BY <1>8, <1>10, <1>13
  <2>4. \A j \in 1..Len(stack) : stack[j].table = p => j \in 1..Len(stack') /\ stack'[j] = stack[j]
    BY <1>3, <1>8, <1>10, <1>13
  <2>5. OnStack(p)' <=> OnStack(p)
    BY <2>3, <2>4 DEF OnStack
  <2>6. ChildPair(p, k, t)'
    BY <1>2, <1>9, <2>2, <2>3, <2>5, PairKept
  <2>. QED BY <1>1, <2>6
<1>. QED BY <1>12, <1>13

LEMMA ChildEndRow == ControlInv /\ ChildInv /\ EndRow => ChildInv'
<1> SUFFICES ASSUME ControlInv, ChildInv, EndRow, phase' # "failed",
                    NEW p \in Tables, NEW k \in 1..Len(Derived[p])
             PROVE  ChildPair(p, k, Derived[p][k])'
  BY DEF ChildInv
<1>1. PICK t \in Tables : t = Derived[p][k] /\ t > p
  BY TablesFacts
<1>2. /\ stack # <<>> /\ phase = "writing"
      /\ Top.r = Top.count /\ Top.child = Len(Derived[Top.table])
      /\ Len(stack') = Len(stack) - 1 /\ Len(stack) \in Nat \ {0}
      /\ \A j \in 1..(Len(stack) - 1) : stack'[j] = stack[j]
      /\ row_num' = IF stack' = <<>> THEN row_num + 1 ELSE row_num
      /\ UNCHANGED <<out, asked>>
  BY EndRowFacts
<1>3. TypeInv /\ Top = stack[Len(stack)]
  BY <1>2, TopFrame DEF ControlInv
<1>4. ChildPair(p, k, t) /\ k \in Nat \ {0}
  BY <1>1, <1>2 DEF ChildInv
<1>5. \A j \in 1..Len(stack') : j \in 1..Len(stack) /\ j # Len(stack) /\ stack'[j] = stack[j]
  BY <1>2
<1>6. CASE p = Top.table
  <2>1. \A j \in 1..Len(stack') : stack'[j].table # p
    <3>1. Len(stack) \in 1..Len(stack)
      BY <1>2
    <3>. QED BY <1>3, <1>5, <1>6, <3>1, OneFrame
  <2>2. ~ OnStack(p)'
    BY <2>1 DEF OnStack
  <2>3. ChildPair(p, k, t)'
    BY <1>2, <1>4, <1>6, <2>2, PairEnds
  <2>. QED BY <1>1, <2>3
<1>7. CASE p # Top.table
  <2>1. \A j \in 1..Len(stack) : stack[j].table = p => j \in 1..Len(stack') /\ stack'[j] = stack[j]
    BY <1>2, <1>3, <1>7
  <2>2. OnStack(p)' <=> OnStack(p)
    BY <1>5, <2>1 DEF OnStack
  <2>3. \A j \in 1..Len(stack') : row_num' = row_num
    <3>1. stack' = <<>> => 1..Len(stack') = {}
      OBVIOUS
    <3>. QED BY <1>2, <3>1
  <2>4. \A j \in 1..Len(stack') : stack'[j].table = p =>
          /\ row_num' = row_num
          /\ \E i \in 1..Len(stack) :
               /\ stack[i].table = p
               /\ stack'[j].child = stack[i].child /\ stack'[j].count = stack[i].count
               /\ stack'[j].r = stack[i].r \/ k # stack[i].child
    BY <1>5, <2>3
  <2>5. ChildPair(p, k, t)'
    BY <1>2, <1>4, <2>2, <2>4, PairKept
  <2>. QED BY <1>1, <2>5
<1>. QED BY <1>6, <1>7

LEMMA ChildChildRow == ControlInv /\ ChildInv /\ ChildRow => ChildInv'
<1> SUFFICES ASSUME ControlInv, ChildInv, ChildRow, phase' # "failed",
                    NEW p \in Tables, NEW k \in 1..Len(Derived[p])
             PROVE  ChildPair(p, k, Derived[p][k])'
  BY DEF ChildInv
<1>1. PICK t \in Tables : t = Derived[p][k] /\ t > p
  BY TablesFacts
<1>2. PICK c \in Tables, q \in Tables :
        c = ChildOfTop /\ q = Top.table /\ c > q
  <2>1. TypeInv /\ stack # <<>> /\ ChildOfTop \in Tables /\ ChildOfTop > Top.table
    BY ChildRowFacts DEF ControlInv
  <2>. QED BY <2>1, TopFrame
<1>3. /\ TypeInv /\ stack # <<>> /\ phase = "writing"
      /\ Top.child \in 1..Len(Derived[q])
      /\ Len(stack') = Len(stack) + 1
      /\ \A j \in 1..(Len(stack) - 1) : stack'[j] = stack[j]
      /\ stack'[Len(stack)].table = q /\ stack'[Len(stack)].child = Top.child
      /\ stack'[Len(stack)].count = Top.count /\ stack'[Len(stack)].r = Top.r + 1
      /\ stack'[Len(stack) + 1].table = c /\ stack'[Len(stack) + 1].child = 0
      /\ row_num' = row_num /\ asked' = asked
  BY <1>2, ChildRowFacts DEF ControlInv, Frame
<1>4. PICK units \in Seq(Units) : Written(c, Top.r + 1, Len(out[q]), units)
  BY <1>2, ChildRowFacts
<1>5. /\ Len(stack) \in Nat \ {0} /\ Top = stack[Len(stack)] /\ Top.child \in Nat
      /\ Top.r + 1 \in Nat /\ Len(out[q]) \in Nat
  BY <1>2, <1>3, TopFrame, ChildRowFacts
<1>6. /\ \A u \in Tables : u # c => out'[u] = out[u]
      /\ Len(out'[c]) = Len(out[c]) + 1
      /\ \A i \in 1..Len(out[c]) : out'[c][i] = out[c][i]
      /\ out'[c][Len(out[c]) + 1] = RowAt(c, Top.r + 1, Len(out[q]))
  <2>1. TypeInv /\ Top.r + 1 \in Nat /\ Len(out[q]) \in Nat
    BY <1>3, <1>5
  <2>. QED BY <1>4, <2>1, WrittenRows
<1>7. /\ out'[c][Len(out[c]) + 1].row_num = row_num
      /\ out'[c][Len(out[c]) + 1].up = Len(out[q])
      /\ out'[c][Len(out[c]) + 1].sub = Top.r + 1
  BY <1>6 DEF RowAt
<1>8. ChildPair(p, k, t) /\ k \in Nat \ {0}
  BY <1>1, <1>3 DEF ChildInv
<1>9. \A j \in 1..Len(stack') :
        \/ j \in 1..(Len(stack) - 1) \/ j = Len(stack) \/ j = Len(stack) + 1
  BY <1>3, <1>5
<1>10. \A j \in 1..Len(stack) : stack[j].table # c
  <2>1. \A j \in 1..Len(stack) : stack[j].table <= q
    BY <1>2, OneFrame
  <2>2. q \in Nat /\ c \in Nat
    BY TablesFacts
  <2>. QED BY <1>2, <2>1, <2>2
<1>11. \A j \in 1..(Len(stack) - 1) : stack[j].table # q
  <2>1. \A j \in 1..(Len(stack) - 1) : j \in 1..Len(stack) /\ j # Len(stack)
    BY <1>5
  <2>2. Len(stack) \in 1..Len(stack)
    BY <1>5
  <2>. QED BY <1>2, <1>5, <2>1, <2>2, OneFrame
<1>12. q # c /\ t # p
  BY <1>1, <1>2, TablesFacts
<1>13. CASE p = c
  <2>1. ~ OnStack(p)
    BY <1>10, <1>13 DEF OnStack
  <2>2. OnStack(p)'
    <3>1. Len(stack) + 1 \in 1..Len(stack')
      BY <1>3, <1>5
    <3>. QED BY <1>3, <1>13, <3>1 DEF OnStack
  <2>3. \A j \in 1..Len(stack') : stack'[j].table = p => stack'[j].child = 0
    <3>1. \A j \in 1..(Len(stack) - 1) : stack'[j].table # c
      BY <1>3, <1>5, <1>10
    <3>. QED BY <1>3, <1>9, <1>12, <1>13, <3>1
  <2>4. out'[t] = out[t] /\ asked'[t] = asked[t]
    BY <1>3, <1>6, <1>12, <1>13
  <2>5. /\ Len(out'[p]) = Len(out[p]) + 1
        /\ \A i \in 1..Len(out[p]) : out'[p][i] = out[p][i]
        /\ out'[p][Len(out[p]) + 1].row_num = row_num
    BY <1>6, <1>7, <1>13
  <2>6. ChildPair(p, k, t)'
    BY <1>3, <1>8, <2>1, <2>2, <2>3, <2>4, <2>5, PairStarts
  <2>. QED BY <1>1, <2>6
<1>14. CASE p = q
  <2>1. out'[p] = out[p] /\ asked'[t] = asked[t]
    BY <1>3, <1>6, <1>12, <1>14
  <2>2. OnStack(p)' /\ OnStack(p)
    <3>1. Len(stack) \in 1..Len(stack') /\ Len(stack) \in 1..Len(stack)
      BY <1>3, <1>5
    <3>. QED BY <1>2, <1>3, <1>5, <1>14, <3>1 DEF OnStack
  <2>3. \A j \in 1..Len(stack') : stack'[j].table = p => j = Len(stack)
    BY <1>3, <1>9, <1>11, <1>12, <1>14
  <2>4. \A j \in 1..Len(stack') : stack'[j].table = p =>
          stack'[j].child = Top.child /\ stack'[j].count = Top.count /\ stack'[j].r = Top.r + 1
    BY <1>3, <2>3
  <2>5. CASE k = Top.child
    <3>1. t = c
      BY <1>1, <1>2, <1>14, <2>5 DEF ChildOfTop
    <3>2. /\ Len(out'[t]) = Len(out[t]) + 1
          /\ \A i \in 1..Len(out[t]) : out'[t][i] = out[t][i]
          /\ out'[t][Len(out[t]) + 1].up = Len(out[p])
          /\ out'[t][Len(out[t]) + 1].sub = Top.r + 1
          /\ out'[t][Len(out[t]) + 1].row_num = row_num
      BY <1>6, <1>7, <1>14, <3>1
    <3>3. ChildPair(p, k, t)'
      BY <1>2, <1>3, <1>8, <1>14, <2>1, <2>2, <2>4, <2>5, <3>2, PairGrows
    <3>. QED BY <1>1, <3>3
  <2>6. CASE k # Top.child
    <3>1. t # c
      BY <1>1, <1>2, <1>3, <1>14, <2>6, DerivedOnce DEF ChildOfTop
    <3>2. out'[t] = out[t]
      BY <1>6, <3>1
    <3>3. Len(stack) \in 1..Len(stack) /\ stack[Len(stack)] = Top
      BY <1>5
    <3>4. \A j \in 1..Len(stack') : stack'[j].table = p =>
            /\ row_num' = row_num
            /\ \E i \in 1..Len(stack) :
                 /\ stack[i].table = p
                 /\ stack'[j].child = stack[i].child /\ stack'[j].count = stack[i].count
                 /\ stack'[j].r = stack[i].r \/ k # stack[i].child
      BY <1>2, <1>3, <1>14, <2>4, <2>6, <3>3
    <3>5. ChildPair(p, k, t)'
      BY <1>8, <2>1, <2>2, <3>2, <3>4, PairKept
    <3>. QED BY <1>1, <3>5
  <2>. QED BY <2>5, <2>6
<1>15. CASE p # c /\ p # q
  <2>1. t # c
    BY <1>1, <1>2, <1>3, <1>15, DerivedOnce DEF ChildOfTop
  <2>2. out'[p] = out[p] /\ out'[t] = out[t] /\ asked'[t] = asked[t]
    BY <1>3, <1>6, <1>15, <2>1
  <2>3. \A j \in 1..Len(stack') : stack'[j].table = p => j \in 1..Len(stack) /\ stack'[j] = stack[j]
    BY <1>3, <1>5, <1>9, <1>15
  <2>4. \A j \in 1..Len(stack) : stack[j].table = p => j \in 1..Len(stack') /\ stack'[j] = stack[j]
    BY <1>2, <1>3, <1>5, <1>15
  <2>5. OnStack(p)' <=> OnStack(p)
    BY <2>3, <2>4 DEF OnStack
  <2>6. \A j \in 1..Len(stack') : stack'[j].table = p =>
          /\ row_num' = row_num
          /\ \E i \in 1..Len(stack) :
               /\ stack[i].table = p
               /\ stack'[j].child = stack[i].child /\ stack'[j].count = stack[i].count
               /\ stack'[j].r = stack[i].r \/ k # stack[i].child
    BY <1>3, <2>3
  <2>7. ChildPair(p, k, t)'
    BY <1>8, <2>2, <2>5, <2>6, PairKept
  <2>. QED BY <1>1, <2>7
<1>. QED BY <1>13, <1>14, <1>15

LEMMA ChildNext == ControlInv /\ ChildInv /\ [Next]_vars => ChildInv'
<1> SUFFICES ASSUME ControlInv, ChildInv, [Next]_vars PROVE ChildInv'
  OBVIOUS
<1>1. CASE StartRow
  BY <1>1, ChildStartRow
<1>2. CASE NextChild
  BY <1>2, ChildNextChild
<1>3. CASE ChildRow
  BY <1>3, ChildChildRow
<1>4. CASE EndRow
  BY <1>4, ChildEndRow
<1>5. CASE EndInsert \/ Finish \/ Terminated \/ UNCHANGED vars
  <2>1. UNCHANGED <<out, asked, stack, row_num>> /\ (phase' # "failed" => phase # "failed")
    BY <1>5 DEF EndInsert, Finish, Terminated, vars
  <2> SUFFICES ASSUME phase' # "failed", NEW p \in Tables, NEW k \in 1..Len(Derived[p])
               PROVE  ChildPair(p, k, Derived[p][k])'
    BY DEF ChildInv
  <2>2. PICK t \in Tables : t = Derived[p][k]
    BY TablesFacts
  <2>3. ChildPair(p, k, t)
    BY <2>1, <2>2 DEF ChildInv
  <2>4. OnStack(p)' <=> OnStack(p)
    BY <2>1 DEF OnStack
  <2>5. ChildPair(p, k, t)'
    BY <2>1, <2>3, <2>4, PairKept
  <2>. QED BY <2>2, <2>5
<1>. QED BY <1>1, <1>2, <1>3, <1>4, <1>5 DEF Next

\* Every row has exactly the derived rows that its counts asked for, numbered from
\* 1 and carrying its row number, for any tree of tables.
THEOREM ChildrenTheorem == Spec => []ChildrenCounted
<1>1. Spec => [](ControlInv /\ ChildInv)
  BY ControlInit, ChildInit, ControlNext, ChildNext, PTL DEF Spec
<1>2. ControlInv /\ ChildInv => ChildrenCounted
  <2> SUFFICES ASSUME ControlInv, ChildInv, stack = <<>>, phase # "failed",
                      NEW p \in Tables, NEW k \in 1..Len(Derived[p])
               PROVE  LET t == Derived[p][k] IN
                      /\ Len(asked[t]) = Len(out[p])
                      /\ \A n \in 1..Len(asked[t]) : NumberedTo(t, n, asked[t][n])
                      /\ \A i \in 1..Len(out[t]) :
                           /\ out[t][i].up \in 1..Len(out[p])
                           /\ out[t][i].row_num = out[p][out[t][i].up].row_num
    BY DEF ChildrenCounted
  <2>1. PICK t \in Tables : t = Derived[p][k]
    BY TablesFacts
  <2>2. ChildPair(p, k, t) /\ ~ OnStack(p)
    BY <2>1 DEF ChildInv, OnStack
  <2>3. Len(out[p]) \in Nat
    BY RowUps DEF ControlInv
  <2>4. Len(asked[t]) = Len(out[p])
    BY <2>2 DEF ChildPair
  <2>5. \A n \in 1..Len(out[p]) : ChildDone(t, n)
    <3>1. \A n \in 1..(Len(out[p]) - 1) : ChildDone(t, n)
      BY <2>2 DEF ChildPair
    <3>2. Len(out[p]) > 0 => ChildDone(t, Len(out[p]))
      BY <2>2 DEF ChildPair
    <3>3. \A n \in 1..Len(out[p]) : n \in 1..(Len(out[p]) - 1) \/ (n = Len(out[p]) /\ n > 0)
      BY <2>3
    <3>. QED BY <3>1, <3>2, <3>3
  <2>. QED BY <2>1, <2>2, <2>4, <2>5 DEF ChildPair, ChildDone
<1>. QED BY <1>1, <1>2, PTL

----------------------------------------------------------------------------
(* FileNames: numerals.                                                    *)

\* Every non-empty set of naturals has a least element.
LEMMA LeastOne ==
  ASSUME NEW S \in SUBSET Nat, S # {}
  PROVE  \E x \in S : \A y \in S : x <= y
<1> DEFINE R == OpToRel(<, Nat)
<1>1. IsWellFoundedOn(R, Nat)
  BY NatLessThanWellFounded
<1>2. \E x \in S : \A y \in S : ~ (<<y, x>> \in R)
  <2> HIDE DEF R
  <2>. QED BY <1>1, WFMin
<1>3. \A x, y \in Nat : y < x => <<y, x>> \in R
  BY DEF OpToRel
<1> HIDE DEF R
<1>4. PICK x \in S : \A y \in S : ~ (<<y, x>> \in R)
  BY <1>2
<1>5. \A y \in S : x <= y
  <2> TAKE y \in S
  <2>1. x \in Nat /\ y \in Nat
    OBVIOUS
  <2>2. ~ (y < x)
    BY <1>3, <1>4, <2>1
  <2>. QED BY <2>1, <2>2
<1>. QED BY <1>5

\* f counts up the powers of the base to the n-th.
Powers(f, n) == f \in [0..n -> Nat] /\ f[0] = 1 /\ \A i \in 1..n : f[i] = Base * f[i - 1]

\* There is such a function, only one, and Power is its last value.
LEMMA PowersExist ==
  ASSUME NEW n \in Nat
  PROVE  \E f : Powers(f, n)
<1> DEFINE S == {k \in Nat : ~ \E f : Powers(f, k)}
<1>1. SUFFICES ASSUME S # {} PROVE FALSE
  OBVIOUS
<1>2. PICK k \in S : \A y \in S : k <= y
  BY <1>1, LeastOne
<1>3. Powers([i \in 0..0 |-> 1], 0)
  BY DEF Powers
<1>4. k \in Nat \ {0} /\ k - 1 \in Nat /\ k - 1 \notin S
  <2>1. k \in Nat /\ k # 0
    BY <1>2, <1>3
  <2>2. \A y \in S : k <= y
    BY <1>2
  <2>. QED BY <2>1, <2>2
<1>5. PICK f : Powers(f, k - 1)
  BY <1>4
<1> HIDE DEF S
<1> DEFINE g == [i \in 0..k |-> IF i = k THEN Base * f[k - 1] ELSE f[i]]
<1>6. /\ \A i \in 0..(k - 1) : f[i] \in Nat /\ g[i] = f[i]
      /\ g[k] = Base * f[k - 1] /\ f[0] = 1
      /\ \A i \in 1..(k - 1) : f[i] = Base * f[i - 1]
  <2>1. k \in Nat \ {0}
    BY <1>4
  <2>2. \A i \in 0..(k - 1) : i \in 0..k /\ i # k
    BY <2>1
  <2>3. k \in 0..k
    BY <2>1
  <2>4. f \in [0..(k - 1) -> Nat]
    BY <1>5 DEF Powers
  <2>. QED BY <1>5, <2>1, <2>2, <2>3, <2>4 DEF Powers
<1>7. g[k] \in Nat
  <2>1. f[k - 1] \in Nat
    <3>1. k - 1 \in 0..(k - 1)
      BY <1>4
    <3>. QED BY <1>6, <3>1
  <2>2. Base \in Nat
    BY FileNamesAssumption
  <2>3. Base * f[k - 1] \in Nat
    BY <2>1, <2>2
  <2>. QED BY <1>6, <2>3
<1>8. g \in [0..k -> Nat]
  <2>1. \A i \in 0..k : i = k \/ i \in 0..(k - 1)
    BY <1>4
  <2>. QED BY <1>6, <1>7, <2>1
<1>9. g[0] = 1 /\ \A i \in 1..k : g[i] = Base * g[i - 1]
  <2> HIDE DEF g
  <2>1. g[0] = 1
    BY <1>4, <1>6
  <2>2. ASSUME NEW i \in 1..k PROVE g[i] = Base * g[i - 1]
    <3>1. CASE i = k
      <4>1. k - 1 \in 0..(k - 1)
        BY <1>4
      <4>. QED BY <1>6, <3>1, <4>1
    <3>2. CASE i # k
      <4>1. i \in 0..(k - 1) /\ i - 1 \in 0..(k - 1) /\ i \in 1..(k - 1)
        BY <1>4, <3>2
      <4>. QED BY <1>6, <4>1
    <3>. QED BY <3>1, <3>2
  <2>. QED BY <2>1, <2>2
<1> HIDE DEF g
<1>10. Powers(g, k)
  BY <1>8, <1>9 DEF Powers
<1>. QED BY <1>2, <1>10 DEF S

LEMMA PowersUnique ==
  ASSUME NEW m \in Nat, NEW n \in Nat, NEW f, NEW g, Powers(f, m), Powers(g, n), m <= n
  PROVE  \A i \in 0..m : f[i] = g[i]
<1> DEFINE S == {i \in 0..m : f[i] # g[i]}
<1>1. SUFFICES ASSUME S # {} PROVE FALSE
  OBVIOUS
<1>2. S \in SUBSET Nat
  OBVIOUS
<1>3. PICK k \in S : \A y \in S : k <= y
  <2> HIDE DEF S
  <2>. QED BY <1>1, <1>2, LeastOne
<1>4. k # 0
  BY <1>3 DEF Powers
<1>5. k \in 1..m /\ k \in 1..n /\ k - 1 \in 0..m /\ k - 1 \notin S
  BY <1>3, <1>4
<1>6. f[k - 1] = g[k - 1] /\ f[k] # g[k]
  BY <1>3, <1>5
<1>. QED BY <1>5, <1>6 DEF Powers

LEMMA PowerIs ==
  ASSUME NEW n \in Nat, NEW f, Powers(f, n)
  PROVE  Power(n) = f[n]
<1> DEFINE step(p) == [i \in 0..n |-> IF i = 0 THEN 1 ELSE Base * p[i - 1]]
           p0 == CHOOSE p : p = step(p)
<1>1. f = step(f)
  <2>1. f = [i \in 0..n |-> f[i]]
    BY DEF Powers
  <2>2. ASSUME NEW i \in 0..n PROVE f[i] = IF i = 0 THEN 1 ELSE Base * f[i - 1]
    <3>1. i = 0 \/ i \in 1..n
      OBVIOUS
    <3>. QED BY <3>1 DEF Powers
  <2>. QED BY <2>1, <2>2
<1>2. p0 = step(p0)
  <2> HIDE DEF step
  <2>. QED BY <1>1
<1>3. Power(n) = p0[n]
  BY DEF Power
<1> HIDE DEF p0
<1>4. /\ p0[0] = 1 /\ \A i \in 1..n : p0[i] = Base * p0[i - 1]
  <2>1. 0 \in 0..n /\ \A i \in 1..n : i \in 0..n /\ i # 0
    OBVIOUS
  <2>. QED BY <1>2, <2>1
<1> DEFINE S == {i \in 0..n : p0[i] # f[i]}
<1>5. S = {}
  <2>1. SUFFICES ASSUME S # {} PROVE FALSE
    OBVIOUS
  <2>2. S \in SUBSET Nat
    OBVIOUS
  <2>3. PICK k \in S : \A y \in S : k <= y
    <3> HIDE DEF S
    <3>. QED BY <2>1, <2>2, LeastOne
  <2>4. k # 0
    BY <1>4, <2>3 DEF Powers
  <2>5. k \in 1..n /\ k - 1 \in 0..n /\ k - 1 \notin S
    BY <2>3, <2>4
  <2>6. p0[k - 1] = f[k - 1] /\ p0[k] # f[k]
    BY <2>3, <2>5
  <2>. QED BY <1>4, <2>5, <2>6 DEF Powers
<1>. QED BY <1>3, <1>5

\* The powers of the base: each the one before times the base.
LEMMA PowerSteps ==
  /\ Power(0) = 1
  /\ \A n \in Nat : Power(n) \in Nat /\ Power(n + 1) = Base * Power(n)
<1>1. Power(0) = 1
  BY PowersExist, PowerIs DEF Powers
<1>2. ASSUME NEW n \in Nat PROVE Power(n) \in Nat /\ Power(n + 1) = Base * Power(n)
  <2>1. n + 1 \in Nat /\ n \in 0..n /\ n + 1 \in 1..(n + 1) /\ (n + 1) - 1 = n
    OBVIOUS
  <2>2. PICK f : Powers(f, n)
    BY PowersExist
  <2>3. PICK g : Powers(g, n + 1)
    BY <2>1, PowersExist
  <2>4. Power(n) = f[n] /\ Power(n + 1) = g[n + 1]
    BY <2>1, <2>2, <2>3, PowerIs
  <2>5. f[n] = g[n]
    BY <2>1, <2>2, <2>3, PowersUnique
  <2>6. g[n + 1] = Base * g[n]
    BY <2>1, <2>3 DEF Powers
  <2>7. f[n] \in Nat
    BY <2>1, <2>2 DEF Powers
  <2>. QED BY <2>4, <2>5, <2>6, <2>7
<1>. QED BY <1>1, <1>2

\* Induction over the naturals.
LEMMA UpTheNaturals ==
  ASSUME NEW S, 0 \in S, \A k \in Nat : k \in S => k + 1 \in S
  PROVE  \A n \in Nat : n \in S
<1> DEFINE W == {k \in Nat : k \notin S}
<1>1. SUFFICES ASSUME W # {} PROVE FALSE
  OBVIOUS
<1>2. PICK k \in W : \A y \in W : k <= y
  BY <1>1, LeastOne
<1>3. k # 0
  BY <1>2
<1>4. k - 1 \in Nat /\ k - 1 \notin W
  BY <1>2, <1>3
<1>. QED BY <1>2, <1>4

\* Products.
LEMMA Times ==
  ASSUME NEW a \in Nat, NEW b \in Nat
  PROVE  a * b \in Nat /\ a * b = b * a
OBVIOUS

LEMMA TimesMonotone ==
  ASSUME NEW a \in Nat, NEW b \in Nat, NEW d \in Nat, a <= b
  PROVE  a * d <= b * d
<1> DEFINE e == b - a
<1>1. e \in Nat /\ b = a + e
  OBVIOUS
<1>2. e * d \in Nat
  BY <1>1
<1>3. b * d = a * d + e * d
  BY <1>1
<1>. QED BY <1>2, <1>3

\* Every power is a positive number, more than its exponent and no less than
\* any lower power.
LEMMA PowerGrows ==
  ASSUME NEW n \in Nat
  PROVE  /\ Power(n) \in Nat \ {0} /\ n < Power(n)
         /\ Power(n + 1) >= 2 * Power(n)
         /\ \A m \in 0..n : Power(m) <= Power(n)
<1> DEFINE S == {k \in Nat : /\ k < Power(k)
                             /\ \A m \in 0..k : Power(m) <= Power(k)}
<1>1. ASSUME NEW k \in Nat PROVE Power(k) \in Nat /\ Power(k + 1) >= 2 * Power(k)
  <2>1. Power(k) \in Nat /\ Power(k + 1) = Base * Power(k)
    BY PowerSteps
  <2>2. Base \in Nat /\ 2 <= Base
    BY FileNamesAssumption
  <2>3. 2 * Power(k) <= Base * Power(k)
    BY <2>1, <2>2, TimesMonotone
  <2>. QED BY <2>1, <2>3
<1>2. 0 \in S
  <2>1. 0..0 = {0}
    OBVIOUS
  <2>. QED BY PowerSteps, <2>1
<1>3. ASSUME NEW k \in Nat, k \in S PROVE k + 1 \in S
  <2>1. k < Power(k) /\ \A m \in 0..k : Power(m) <= Power(k)
    BY <1>3
  <2>2. Power(k) \in Nat /\ Power(k + 1) >= 2 * Power(k) /\ Power(k + 1) \in Nat
    BY <1>1, PowerSteps
  <2>3. k + 1 < Power(k + 1)
    BY <2>1, <2>2
  <2>4. ASSUME NEW m \in 0..(k + 1) PROVE Power(m) <= Power(k + 1)
    <3>1. m = k + 1 \/ (m \in 0..k /\ m \in Nat)
      OBVIOUS
    <3>2. Power(m) \in Nat
      BY PowerSteps
    <3>. QED BY <2>1, <2>2, <3>1, <3>2
  <2>. QED BY <2>3, <2>4
<1> HIDE DEF S
<1>4. n \in S
  BY <1>2, <1>3, UpTheNaturals
<1>5. n < Power(n) /\ \A m \in 0..n : Power(m) <= Power(n)
  BY <1>4 DEF S
<1>6. Power(n) \in Nat /\ Power(n + 1) >= 2 * Power(n)
  BY <1>1
<1>. QED BY <1>5, <1>6

LEMMA PowerTwo ==
  /\ Power(2) = Base * Base
  /\ \A n \in Nat : Power(n + 2) = Power(n) * Power(2)
<1>0. Base \in Nat
  BY FileNamesAssumption
<1>1. Power(1) = Base
  BY PowerSteps, <1>0, 0 + 1 = 1
<1>2. Power(2) = Base * Base
  BY PowerSteps, <1>1, 1 + 1 = 2
<1>3. ASSUME NEW n \in Nat PROVE Power(n + 2) = Power(n) * Power(2)
  <2>1. n + 1 \in Nat /\ (n + 1) + 1 = n + 2 /\ Power(n) \in Nat
    BY PowerSteps
  <2>2. Power(n + 2) = Base * Power(n + 1) /\ Power(n + 1) = Base * Power(n)
    BY <2>1, PowerSteps
  <2>3. Base * (Base * Power(n)) = Power(n) * (Base * Base)
    BY <1>0, <2>1
  <2>. QED BY <1>2, <2>2, <2>3
<1>. QED BY <1>2, <1>3

\* n has as many digits as Width says: less than that power, no less than a lower one.
LEMMA WidthFacts ==
  ASSUME NEW n \in Nat
  PROVE  /\ Width(n) \in 1..(n + 1)
         /\ n < Power(Width(n))
         /\ \A w \in Nat \ {0} : n < Power(w) => Width(n) <= w
<1> DEFINE S == {w \in 1..(n + 1) : n < Power(w)}
<1>1. n + 1 \in S
  <2>1. n + 1 < Power(n + 1) /\ Power(n + 1) \in Nat
    BY PowerGrows
  <2>. QED BY <2>1
<1>2. S \in SUBSET Nat /\ S # {}
  BY <1>1
<1>3. PICK w \in S : \A y \in S : w <= y
  <2> HIDE DEF S
  <2>. QED BY <1>2, LeastOne
<1>4. \A v \in 1..(w - 1) : n >= Power(v)
  <2> TAKE v \in 1..(w - 1)
  <2>1. v \in 1..(n + 1) /\ v \notin S /\ v \in Nat
    BY <1>3
  <2>2. Power(v) \in Nat
    BY <2>1, PowerGrows
  <2>. QED BY <2>1, <2>2
<1>5. \E u \in 1..(n + 1) : n < Power(u) /\ \A v \in 1..(u - 1) : n >= Power(v)
  BY <1>3, <1>4
<1>6. /\ Width(n) \in 1..(n + 1) /\ n < Power(Width(n))
      /\ \A v \in 1..(Width(n) - 1) : n >= Power(v)
  BY <1>5 DEF Width
<1>7. ASSUME NEW v \in Nat \ {0}, n < Power(v) PROVE Width(n) <= v
  <2>1. SUFFICES ASSUME v < Width(n) PROVE FALSE
    BY <1>6
  <2>2. v \in 1..(Width(n) - 1)
    BY <1>6, <2>1
  <2>3. Power(v) \in Nat
    BY PowerGrows
  <2>. QED BY <1>6, <1>7, <2>2, <2>3
<1>. QED BY <1>6, <1>7

\* A larger number has no fewer digits.
LEMMA WidthMonotone ==
  ASSUME NEW m \in Nat, NEW n \in Nat, m <= n
  PROVE  Width(m) <= Width(n)
<1>1. Width(n) \in Nat \ {0} /\ n < Power(Width(n))
  BY WidthFacts
<1>2. Power(Width(n)) \in Nat
  BY <1>1, PowerGrows
<1>3. m < Power(Width(n))
  BY <1>1, <1>2
<1>. QED BY <1>1, <1>3, WidthFacts

\* Dividing by a product is dividing by one factor after the other.
LEMMA DivDiv ==
  ASSUME NEW n \in Nat, NEW a \in Nat \ {0}, NEW b \in Nat \ {0}
  PROVE  n \div (b * a) = (n \div a) \div b
<1> DEFINE q == n \div a
           s == q \div b
<1>1. q \in Nat /\ n = q * a + (n % a) /\ n % a \in 0..(a - 1)
  OBVIOUS
<1>2. s \in Nat /\ q = s * b + (q % b) /\ q % b \in 0..(b - 1)
  BY <1>1
<1> DEFINE r == q % b
           t == n % a
<1> HIDE DEF q, s, r, t
<1>3. q * a = (s * b + r) * a
  BY <1>2 DEF r
<1>4. (s * b + r) * a = s * (b * a) + r * a
  BY <1>1, <1>2 DEF r
<1>5. n = s * (b * a) + (r * a + t)
  <2>1. n = q * a + t
    BY <1>1 DEF t
  <2>2. s * (b * a) \in Nat /\ r * a \in Nat /\ t \in Nat
    <3>1. b * a \in Nat /\ r \in Nat
      BY <1>2 DEF r
    <3>. QED BY <3>1, <1>1, <1>2, Times DEF t
  <2>. QED BY <1>3, <1>4, <2>1, <2>2
<1>6. r * a + t \in 0..(b * a - 1)
  <2>1. r \in Nat /\ r + 1 <= b /\ t \in Nat /\ t + 1 <= a
    BY <1>1, <1>2 DEF r, t
  <2>2. (r + 1) * a <= b * a
    BY <2>1, TimesMonotone
  <2>3. (r + 1) * a = r * a + a /\ r * a \in Nat /\ b * a \in Nat
    BY <2>1
  <2>. QED BY <2>1, <2>2, <2>3
<1>7. ASSUME NEW d \in Nat \ {0}, NEW e \in 0..(d - 1), NEW k \in Nat
      PROVE  (k * d + e) \div d = k
  OBVIOUS
<1>8. b * a \in Nat \ {0}
  OBVIOUS
<1>9. n \div (b * a) = s
  BY <1>2, <1>5, <1>6, <1>7, <1>8
<1>. QED BY <1>9 DEF s, q

----------------------------------------------------------------------------
(* Names.                                                                  *)

\* The last w digits of n.
LastDigits(n, w) == [i \in 1..w |-> (n \div Power(w - i)) % Base]

\* s and t differ first where s has the smaller digit.
Differ(s, t) ==
  \E i \in 1..Len(s) : i <= Len(t) /\ s[i] < t[i] /\ \A j \in 1..(i - 1) : s[j] = t[j]

\* A quotient grows with its dividend.
LEMMA DivMonotone ==
  ASSUME NEW a \in Nat, NEW b \in Nat, NEW d \in Nat \ {0}, a <= b
  PROVE  a \div d \in Nat /\ b \div d \in Nat /\ a \div d <= b \div d
<1> DEFINE p == a \div d
           q == b \div d
<1>1. /\ p \in Nat /\ a = p * d + (a % d) /\ a % d \in 0..(d - 1)
      /\ q \in Nat /\ b = q * d + (b % d) /\ b % d \in 0..(d - 1)
  OBVIOUS
<1> HIDE DEF p, q
<1>2. p <= q
  <2>1. SUFFICES ASSUME q + 1 <= p PROVE FALSE
    BY <1>1
  <2>2. (q + 1) * d <= p * d
    BY <1>1, <2>1, TimesMonotone
  <2>3. (q + 1) * d = q * d + d /\ q * d \in Nat /\ p * d \in Nat
    BY <1>1
  <2>4. a % d \in Nat /\ b % d \in Nat /\ b % d < d
    BY <1>1
  <2>. QED BY <1>1, <2>2, <2>3, <2>4
<1>. QED BY <1>1, <1>2 DEF p, q

\* Of two numerals of the same width the smaller number's has the smaller digit
\* where they first differ.
LEMMA DigitsDiffer ==
  ASSUME NEW w \in Nat, NEW m \in Nat, NEW n \in Nat, m < n, n < Power(w)
  PROVE  Differ(LastDigits(m, w), LastDigits(n, w))
<1> DEFINE Q(x, i) == x \div Power(w - i)
           S == {i \in 1..w : Q(m, i) # Q(n, i)}
<1>1. w # 0
  BY PowerSteps
<1>2. \A i \in 1..w : w - i \in Nat /\ Power(w - i) \in Nat \ {0}
  <2> TAKE i \in 1..w
  <2>1. w - i \in Nat
    OBVIOUS
  <2>. QED BY <2>1, PowerGrows
<1>3. w \in S
  <2>1. w - w = 0 /\ w \in 1..w
    BY <1>1
  <2>2. m \div 1 = m /\ n \div 1 = n
    OBVIOUS
  <2>. QED BY <2>1, <2>2, PowerSteps
<1>4. S \in SUBSET Nat
  OBVIOUS
<1>5. PICK i \in S : \A y \in S : i <= y
  <2> HIDE DEF S
  <2>. QED BY <1>3, <1>4, LeastOne
<1>6. i \in 1..w /\ Q(m, i) # Q(n, i) /\ \A j \in 1..(i - 1) : Q(m, j) = Q(n, j)
  <2>1. i \in 1..w /\ Q(m, i) # Q(n, i)
    BY <1>5
  <2>2. ASSUME NEW j \in 1..(i - 1) PROVE Q(m, j) = Q(n, j)
    <3>1. j \in 1..w /\ j < i
      BY <2>1
    <3>. QED BY <1>5, <3>1
  <2>. QED BY <2>1, <2>2
<1>7. Q(m, i) \in Nat /\ Q(n, i) \in Nat /\ Q(m, i) < Q(n, i)
  <2>1. Q(m, i) \in Nat /\ Q(n, i) \in Nat /\ Q(m, i) <= Q(n, i)
    BY <1>2, <1>6, DivMonotone
  <2>. QED BY <1>6, <2>1
<1>8. Base \in Nat \ {0, 1}
  BY FileNamesAssumption
<1>9. Q(m, i) \div Base = Q(n, i) \div Base
  <2>1. CASE i = 1
    <3>1. \A k \in 0..n : (k \div Power(w - 1)) \div Base = 0
      <4> TAKE k \in 0..n
      <4>1. k \in Nat /\ k < Power(w) /\ w - 1 \in Nat /\ (w - 1) + 1 = w
        <5>1. Power(w) \in Nat
          BY PowerGrows
        <5>. QED BY <1>1, <5>1
      <4>2. Power(w - 1) \in Nat \ {0} /\ Power(w) = Base * Power(w - 1)
        BY <4>1, PowerGrows, PowerSteps
      <4>3. k \div (Base * Power(w - 1)) = (k \div Power(w - 1)) \div Base
        BY <1>8, <4>1, <4>2, DivDiv
      <4>4. \A d \in Nat \ {0} : k < d => k \div d = 0
        BY <4>1
      <4>5. Power(w) \in Nat \ {0}
        BY PowerGrows
      <4>. QED BY <4>1, <4>2, <4>3, <4>4, <4>5
    <3>2. m \in 0..n /\ n \in 0..n
      OBVIOUS
    <3>. QED BY <2>1, <3>1, <3>2
  <2>2. CASE i # 1
    <3>1. i - 1 \in 1..(i - 1) /\ i - 1 \in 1..w /\ w - i \in Nat /\ w - (i - 1) = (w - i) + 1
      BY <1>6, <2>2
    <3>2. Power(w - (i - 1)) = Base * Power(w - i) /\ Power(w - i) \in Nat \ {0}
      BY <3>1, PowerGrows, PowerSteps
    <3>3. Q(m, i - 1) = Q(n, i - 1)
      BY <1>6, <3>1
    <3>4. Q(m, i - 1) = Q(m, i) \div Base /\ Q(n, i - 1) = Q(n, i) \div Base
      BY <1>8, <3>2, DivDiv
    <3>. QED BY <3>3, <3>4
  <2>. QED BY <2>1, <2>2
<1>10. Q(m, i) % Base < Q(n, i) % Base
  <2>1. ASSUME NEW a \in Nat, NEW b \in Nat, NEW d \in Nat \ {0}, a < b, a \div d = b \div d
        PROVE  a % d < b % d
    <3>1. a = (a \div d) * d + (a % d) /\ b = (b \div d) * d + (b % d)
          /\ a % d \in Nat /\ b % d \in Nat /\ a \div d \in Nat
      OBVIOUS
    <3>2. (a \div d) * d \in Nat
      BY <3>1
    <3>. QED BY <2>1, <3>1, <3>2
  <2> HIDE DEF Q
  <2>. QED BY <1>7, <1>8, <1>9, <2>1
<1>11. /\ Len(LastDigits(m, w)) = w /\ Len(LastDigits(n, w)) = w
       /\ \A j \in 1..w : /\ LastDigits(m, w)[j] = Q(m, j) % Base
                          /\ LastDigits(n, w)[j] = Q(n, j) % Base
  BY DEF LastDigits
<1>12. \A j \in 1..(i - 1) : j \in 1..w
  BY <1>6
<1> HIDE DEF Q
<1>. QED BY <1>6, <1>10, <1>11, <1>12 DEF Differ

\* A padded numeral has the width asked for, or as many digits as it needs.
LEMMA PaddedIs ==
  ASSUME NEW n \in Nat, NEW w \in Nat \ {0}
  PROVE  /\ Padded(n, w) \in Seq(Int)
         /\ Len(Padded(n, w)) = IF Width(n) > w THEN Width(n) ELSE w
         /\ n < Power(w) => Padded(n, w) = LastDigits(n, w) /\ Len(Padded(n, w)) = w
<1> DEFINE width == IF Width(n) > w THEN Width(n) ELSE w
<1>1. width \in Nat /\ (n < Power(w) => width = w)
  BY WidthFacts
<1>2. Padded(n, w) = [i \in 1..width |-> (n \div Power(width - i)) % Base]
  BY DEF Padded
<1> HIDE DEF width
<1>3. \A i \in 1..width : (n \div Power(width - i)) % Base \in Int
  <2> TAKE i \in 1..width
  <2>1. width - i \in Nat
    BY <1>1
  <2>2. Power(width - i) \in Nat \ {0} /\ Base \in Nat \ {0}
    BY <2>1, PowerGrows, FileNamesAssumption
  <2>3. n \div Power(width - i) \in Nat
    BY <2>2
  <2>. QED BY <2>2, <2>3
<1>4. Padded(n, w) \in Seq(Int) /\ Len(Padded(n, w)) = width
  BY <1>1, <1>2, <1>3
<1>5. n < Power(w) => Padded(n, w) = LastDigits(n, w)
  BY <1>1, <1>2 DEF LastDigits
<1>. QED BY <1>1, <1>4, <1>5 DEF width

\* Sequences that differ still do when others follow or precede them.
LEMMA DifferSooner ==
  ASSUME NEW s \in Seq(Int), NEW t \in Seq(Int), NEW x \in Seq(Int), NEW y \in Seq(Int),
         Differ(s, t)
  PROVE  Differ(s \o x, t \o y)
<1>1. PICK i \in 1..Len(s) : i <= Len(t) /\ s[i] < t[i] /\ \A j \in 1..(i - 1) : s[j] = t[j]
  BY DEF Differ
<1>2. Len(s \o x) = Len(s) + Len(x) /\ Len(t \o y) = Len(t) + Len(y)
  OBVIOUS
<1>3. \A j \in 1..i : (s \o x)[j] = s[j] /\ (t \o y)[j] = t[j]
  BY <1>1
<1>4. i \in 1..i /\ \A j \in 1..(i - 1) : j \in 1..i
  BY <1>1
<1>5. i \in 1..Len(s \o x) /\ i <= Len(t \o y)
  BY <1>1, <1>2
<1>6. (s \o x)[i] < (t \o y)[i] /\ \A j \in 1..(i - 1) : (s \o x)[j] = (t \o y)[j]
  BY <1>1, <1>3, <1>4
<1>. QED BY <1>5, <1>6 DEF Differ

\* The elements of a concatenation.
LEMMA ConcatRight ==
  ASSUME NEW s \in Seq(Int), NEW x \in Seq(Int), NEW k \in Nat,
         Len(s) < k, k <= Len(s) + Len(x)
  PROVE  (s \o x)[k] = x[k - Len(s)]
OBVIOUS

LEMMA ConcatTypes ==
  ASSUME NEW s \in Seq(Int), NEW x \in Seq(Int)
  PROVE  s \o x \in Seq(Int) /\ Len(s \o x) = Len(s) + Len(x)
OBVIOUS

LEMMA ConcatLeft ==
  ASSUME NEW s \in Seq(Int), NEW x \in Seq(Int), NEW k \in 1..Len(s)
  PROVE  (s \o x)[k] = s[k]
OBVIOUS

LEMMA DifferLater ==
  ASSUME NEW s \in Seq(Int), NEW x \in Seq(Int), NEW y \in Seq(Int), Differ(x, y)
  PROVE  Differ(s \o x, s \o y)
<1>1. PICK i \in 1..Len(x) : i <= Len(y) /\ x[i] < y[i] /\ \A j \in 1..(i - 1) : x[j] = y[j]
  BY DEF Differ
<1> DEFINE k == Len(s) + i
<1>2. Len(s \o x) = Len(s) + Len(x) /\ Len(s \o y) = Len(s) + Len(y)
  OBVIOUS
<1>3. k \in 1..Len(s \o x) /\ k <= Len(s \o y)
  BY <1>1, <1>2
<1>4. (s \o x)[k] = x[i] /\ (s \o y)[k] = y[i]
  <2>1. /\ k \in Nat /\ Len(s) < k /\ k <= Len(s) + Len(x) /\ k <= Len(s) + Len(y)
        /\ k - Len(s) = i
    BY <1>1
  <2> HIDE DEF k
  <2>2. (s \o x)[k] = x[k - Len(s)]
    BY <2>1, ConcatRight
  <2>3. (s \o y)[k] = y[k - Len(s)]
    BY <2>1, ConcatRight
  <2>. QED BY <2>1, <2>2, <2>3
<1>5. ASSUME NEW j \in 1..(k - 1) PROVE (s \o x)[j] = (s \o y)[j]
  <2>1. CASE j <= Len(s)
    <3>1. j \in 1..Len(s)
      BY <2>1
    <3>. QED BY <3>1, ConcatLeft
  <2>2. CASE ~ (j <= Len(s))
    <3>1. j - Len(s) \in 1..(i - 1) /\ j - Len(s) <= Len(x) /\ j - Len(s) <= Len(y)
      BY <1>1, <2>2
    <3>2. /\ j \in Nat /\ Len(s) < j /\ j <= Len(s) + Len(x) /\ j <= Len(s) + Len(y)
      BY <2>2, <3>1
    <3>3. (s \o x)[j] = x[j - Len(s)]
      BY <3>2, ConcatRight
    <3>4. (s \o y)[j] = y[j - Len(s)]
      BY <3>2, ConcatRight
    <3>. QED BY <1>1, <3>1, <3>3, <3>4
  <2>. QED BY <2>1, <2>2
<1> HIDE DEF k
<1>. QED BY <1>1, <1>3, <1>4, <1>5 DEF Differ

\* Sequences that differ are in order, and not the same.
LEMMA DifferOrders ==
  ASSUME NEW s \in Seq(Int), NEW t \in Seq(Int), Differ(s, t)
  PROVE  LexLess(s, t) /\ s # t
<1>1. PICK i \in 1..Len(s) : i <= Len(t) /\ s[i] < t[i] /\ \A j \in 1..(i - 1) : s[j] = t[j]
  BY DEF Differ
<1>2. i \in 1..(Len(s) + 1) /\ i <= Len(s) /\ \A j \in 1..(i - 1) : j <= Len(t)
  BY <1>1
<1>3. s[i] \in Int /\ t[i] \in Int
  BY <1>1
<1>4. \A j \in 1..(i - 1) : j <= Len(t) /\ s[j] = t[j]
  BY <1>1, <1>2
<1>5. i <= Len(s) /\ i <= Len(t) /\ s[i] < t[i]
  BY <1>1, <1>2
<1>6. LexLess(s, t)
  BY <1>2, <1>4, <1>5 DEF LexLess
<1>7. s[i] # t[i]
  BY <1>3, <1>5
<1>. QED BY <1>6, <1>7

----------------------------------------------------------------------------
(* The counter.  It is a function of the files opened: At says which.  The *)
(* sum of the sizes of the blocks of counters before one is a geometric    *)
(* series, and the limit is the size of its block.                         *)

Counters == {c \in [prefix : Nat, count : Nat, limit : Nat] :
               c.limit = Power(2 * c.prefix + 2) /\ c.count < c.limit}

At(c, n) == (Power(2) - 1) * (n - 1 - c.count) = c.limit - Power(2)

Earlier(c, d) ==
  c.prefix < d.prefix \/ (c.prefix = d.prefix /\ c.count < d.count)

\* The square of the base.
LEMMA SquareFacts == Power(2) \in Nat \ {0, 1}
<1>1. 2 * Power(1) <= Power(2) /\ Power(1) \in Nat \ {0} /\ Power(2) \in Nat
  BY PowerGrows, 1 + 1 = 2
<1>. QED BY <1>1

\* A factor can be cancelled.
LEMMA CancelFactor ==
  ASSUME NEW a \in Nat \ {0}, NEW x \in Int, NEW y \in Int, a * x <= a * y
  PROVE  x <= y
<1>1. SUFFICES ASSUME y + 1 <= x PROVE FALSE
  OBVIOUS
<1> DEFINE e == x - (y + 1)
<1>2. e \in Nat /\ x = (y + 1) + e
  BY <1>1
<1>3. a * x = a * y + (a + a * e)
  BY <1>2
<1>4. a * e \in Nat /\ a * y \in Int
  BY <1>2
<1>. QED BY <1>3, <1>4

\* Every counter is that of its file, from the first on.
LEMMA FirstAt == FirstCounter \in Counters /\ At(FirstCounter, 1)
<1>1. 2 * 0 + 2 = 2 /\ (Power(2) - 1) * (1 - 1 - 0) = Power(2) - Power(2)
  BY SquareFacts
<1>. QED BY <1>1, SquareFacts DEF FirstCounter, Counters, At

LEMMA IncAt ==
  ASSUME NEW c \in Counters, NEW n \in Nat, At(c, n)
  PROVE  Inc(c) \in Counters /\ At(Inc(c), n + 1)
<1>1. /\ c \in [prefix : Nat, count : Nat, limit : Nat]
      /\ c.prefix \in Nat /\ c.count \in Nat /\ c.limit \in Nat
      /\ c.limit = Power(2 * c.prefix + 2) /\ c.count < c.limit
  BY DEF Counters
<1>2. CASE c.count + 1 < c.limit
  <2> DEFINE d == [c EXCEPT !.count = @ + 1]
  <2>1. Inc(c) = d
    BY <1>2 DEF Inc
  <2>2. /\ d \in [prefix : Nat, count : Nat, limit : Nat]
        /\ d.prefix = c.prefix /\ d.count = c.count + 1 /\ d.limit = c.limit
    BY <1>1
  <2>3. (n + 1) - 1 - d.count = n - 1 - c.count
    BY <1>1, <2>2
  <2> HIDE DEF d
  <2>4. d \in Counters
    BY <1>1, <1>2, <2>2 DEF Counters
  <2>5. At(d, n + 1)
    BY <2>2, <2>3 DEF At
  <2>. QED BY <2>1, <2>4, <2>5
<1>3. CASE ~ (c.count + 1 < c.limit)
  <2> DEFINE b == Power(2)
             d == [prefix |-> c.prefix + 1, count |-> 0, limit |-> c.limit * b]
  <2>1. Inc(c) = d
    BY <1>3 DEF Inc
  <2>2. d.prefix = c.prefix + 1 /\ d.count = 0 /\ d.limit = c.limit * b
    OBVIOUS
  <2>3. b \in Nat \ {0, 1}
    BY SquareFacts
  <2>4. c.count = c.limit - 1
    BY <1>1, <1>3
  <2>5. 2 * c.prefix + 2 \in Nat /\ 2 * (c.prefix + 1) + 2 = (2 * c.prefix + 2) + 2
    BY <1>1
  <2>6. d.limit = Power(2 * d.prefix + 2)
    BY <1>1, <2>2, <2>5, PowerTwo
  <2>7. c.limit \in Nat \ {0} /\ c.limit * b \in Nat /\ 0 < c.limit * b
    <3>1. c.limit \in Nat \ {0}
      BY <1>1
    <3>2. \A x, y \in Nat \ {0} : x * y \in Nat \ {0}
      OBVIOUS
    <3>. QED BY <2>3, <3>1, <3>2
  <2>8. d \in Counters
    <3>1. d \in [prefix : Nat, count : Nat, limit : Nat]
      BY <1>1, <2>7
    <3> HIDE DEF d, b
    <3>. QED BY <2>2, <2>6, <2>7, <3>1 DEF Counters
  <2>9. (b - 1) * (n - c.limit) = c.limit - b
    <3>1. n - 1 - c.count = n - c.limit
      BY <1>1, <2>4
    <3> HIDE DEF d
    <3>. QED BY <3>1 DEF At
  <2>10. (b - 1) * ((n + 1) - 1 - 0) = c.limit * b - b
    <3> DEFINE l == c.limit
    <3>1. (b - 1) * (n - l) = (b - 1) * n - (b - 1) * l
      BY <2>3, <2>7
    <3>2. (b - 1) * l = l * b - l /\ (b - 1) * n \in Int /\ l * b \in Int /\ l \in Int
      BY <2>3, <2>7
    <3>3. (n + 1) - 1 - 0 = n
      OBVIOUS
    <3> HIDE DEF b, l, d
    <3>4. (b - 1) * (n - l) = l - b
      BY <2>9 DEF l
    <3>5. (b - 1) * n = l * b - b
      BY <2>3, <3>1, <3>2, <3>4
    <3>. QED BY <3>3, <3>5 DEF l
  <2> HIDE DEF d
  <2>11. At(d, n + 1)
    BY <2>2, <2>10 DEF At
  <2>. QED BY <2>1, <2>8, <2>11
<1>. QED BY <1>2, <1>3

\* The earlier counter is the one of the earlier file.
LEMMA EarlierAt ==
  ASSUME NEW c \in Counters, NEW d \in Counters, NEW m \in Nat, NEW n \in Nat,
         At(c, m), At(d, n), Earlier(c, d)
  PROVE  m < n
<1> DEFINE k == Power(2) - 1
<1>1. k \in Nat \ {0} /\ Power(2) = k + 1
  BY SquareFacts
<1>2. /\ c.prefix \in Nat /\ c.count \in Nat /\ c.limit \in Nat
      /\ c.limit = Power(2 * c.prefix + 2) /\ c.count < c.limit
      /\ d.prefix \in Nat /\ d.count \in Nat /\ d.limit \in Nat
      /\ d.limit = Power(2 * d.prefix + 2) /\ d.count < d.limit
  BY DEF Counters
<1>3. k * (m - 1 - c.count) = c.limit - Power(2) /\ k * (n - 1 - d.count) = d.limit - Power(2)
  BY DEF At
<1> DEFINE x == m - 1 - c.count
           y == n - 1 - d.count
<1>4. x \in Int /\ y \in Int
  BY <1>2
<1>5. CASE c.prefix = d.prefix /\ c.count < d.count
  <2>1. k * x = k * y
    BY <1>2, <1>3, <1>5
  <2> HIDE DEF k, x, y
  <2>2. k * x \in Int /\ k * y \in Int /\ k * x <= k * y
    BY <1>1, <1>4, <2>1
  <2>3. x <= y
    BY <1>1, <1>4, <2>2, CancelFactor
  <2>. QED BY <1>2, <1>5, <2>3 DEF x, y
<1>6. CASE c.prefix < d.prefix
  <2>1. c.limit * Power(2) <= d.limit
    <3>1. /\ 2 * c.prefix + 2 \in Nat /\ 2 * d.prefix + 2 \in Nat
          /\ (2 * c.prefix + 2) + 2 \in 0..(2 * d.prefix + 2)
      BY <1>2, <1>6
    <3>2. Power((2 * c.prefix + 2) + 2) = c.limit * Power(2)
      BY <1>2, <3>1, PowerTwo
    <3>3. Power((2 * c.prefix + 2) + 2) <= Power(2 * d.prefix + 2)
      BY <3>1, PowerGrows
    <3>. QED BY <1>2, <3>2, <3>3
  <2> DEFINE l == c.limit
  <2>2. l \in Nat /\ l * Power(2) = k * l + l
    BY <1>1, <1>2
  <2> HIDE DEF k, x, y
  <2>3. k * (x + l) = k * x + k * l
    BY <1>1, <1>2, <1>4
  <2>4. k * x + k * l <= k * y
    <3>1. k * x = l - Power(2) /\ k * y = d.limit - Power(2)
      BY <1>3 DEF x, y, k
    <3>2. k * l \in Int
      BY <1>1, <1>2
    <3>. QED BY <1>1, <1>2, <2>1, <2>2, <3>1, <3>2
  <2>5. x + l <= y
    BY <1>1, <1>2, <1>4, <2>3, <2>4, CancelFactor
  <2>. QED BY <1>2, <2>5 DEF x, y
<1>. QED BY <1>5, <1>6 DEF Earlier

\* Conversely, the earlier file has the earlier counter.
LEMMA AtOrders ==
  ASSUME NEW c \in Counters, NEW d \in Counters, NEW m \in Nat, NEW n \in Nat,
         At(c, m), At(d, n), m < n
  PROVE  Earlier(c, d)
<1>1. /\ c.prefix \in Nat /\ c.count \in Nat /\ d.prefix \in Nat /\ d.count \in Nat
      /\ c.limit = Power(2 * c.prefix + 2) /\ d.limit = Power(2 * d.prefix + 2)
  BY DEF Counters
<1>2. Earlier(c, d) \/ Earlier(d, c) \/ (c.prefix = d.prefix /\ c.count = d.count)
  BY <1>1 DEF Earlier
<1>3. ~ Earlier(d, c)
  BY EarlierAt
<1>4. ASSUME c.prefix = d.prefix, c.count = d.count PROVE FALSE
  <2> DEFINE k == Power(2) - 1
  <2>1. k \in Nat \ {0}
    BY SquareFacts
  <2>2. k * (n - 1 - c.count) = k * (m - 1 - c.count)
    BY <1>1, <1>4 DEF At
  <2>3. n - 1 - c.count \in Int /\ m - 1 - c.count \in Int
    BY <1>1
  <2>4. k * (n - 1 - c.count) <= k * (m - 1 - c.count)
    <3>1. k * (m - 1 - c.count) \in Int
      BY <2>1, <2>3
    <3> HIDE DEF k
    <3>. QED BY <2>2, <3>1
  <2> HIDE DEF k
  <2>5. n - 1 - c.count <= m - 1 - c.count
    BY <2>1, <2>3, <2>4, CancelFactor
  <2>. QED BY <1>1, <2>5
<1>. QED BY <1>2, <1>3, <1>4

\* The prefix is a digit for so many files.
LEMMA PrefixIsDigit ==
  ASSUME NEW c \in Counters, NEW n \in Nat, At(c, n), n < Power(2 * Base)
  PROVE  c.prefix < Base
<1>0. Base \in Nat \ {0, 1}
  BY FileNamesAssumption
<1>1. /\ c.prefix \in Nat /\ c.count \in Nat /\ c.limit \in Nat
      /\ c.limit = Power(2 * c.prefix + 2) /\ c.count < c.limit
  BY DEF Counters
<1>2. SUFFICES ASSUME Base <= c.prefix PROVE FALSE
  BY <1>0, <1>1
<1> DEFINE k == Power(2) - 1
           p == Power(2 * Base)
           x == n - 1 - c.count
<1>3. k \in Nat \ {0} /\ Power(2) = k + 1
  BY SquareFacts
<1>4. 2 * Base \in Nat /\ p \in Nat \ {0} /\ x \in Int
  <2>1. 2 * Base \in Nat
    BY <1>0
  <2>2. p \in Nat \ {0}
    BY <2>1, PowerGrows
  <2>3. x \in Int
    BY <1>1
  <2>. QED BY <2>1, <2>2, <2>3
<1>5. p * Power(2) <= c.limit
  <2>1. 2 * Base + 2 \in 0..(2 * c.prefix + 2) /\ 2 * c.prefix + 2 \in Nat
    BY <1>0, <1>1, <1>2
  <2>2. Power(2 * Base + 2) = p * Power(2)
    BY <1>4, PowerTwo
  <2>3. Power(2 * Base + 2) <= Power(2 * c.prefix + 2)
    BY <2>1, PowerGrows
  <2>. QED BY <1>1, <2>2, <2>3
<1>6. k * x = c.limit - Power(2)
  BY DEF At
<1> HIDE DEF k, p, x
<1>7. k * (p - 1) = k * p - k /\ p * Power(2) = k * p + p
  BY <1>3, <1>4
<1>8. k * (p - 1) <= k * x
  <2>1. k * p \in Nat /\ 1 <= p
    BY <1>3, <1>4
  <2>. QED BY <1>1, <1>3, <1>4, <1>5, <1>6, <1>7, <2>1
<1>9. p - 1 <= x
  BY <1>3, <1>4, <1>8, CancelFactor
<1>. QED BY <1>1, <1>4, <1>9 DEF x, p

----------------------------------------------------------------------------
(* The order of the names.                                                 *)

\* The parts of a name and their lengths.
LEMMA NameIs ==
  ASSUME NEW f \in 1..FilesCount, NEW c \in Counters
  PROVE  /\ Padded(f, FileNumDigits) \in Seq(Int)
         /\ FileNumDigits \in Nat \ {0} /\ f < Power(FileNumDigits)
         /\ Padded(f, FileNumDigits) = LastDigits(f, FileNumDigits)
         /\ Len(Padded(f, FileNumDigits)) = FileNumDigits
         /\ Padded(c.prefix, 1) \in Seq(Int)
         /\ Len(Padded(c.prefix, 1)) = Width(c.prefix) /\ Width(c.prefix) \in Nat \ {0}
         /\ Padded(c.count, 2 * c.prefix + 2) = LastDigits(c.count, 2 * c.prefix + 2)
         /\ Padded(c.count, 2 * c.prefix + 2) \in Seq(Int)
         /\ Len(Padded(c.count, 2 * c.prefix + 2)) = 2 * c.prefix + 2
         /\ CounterText(c) \in Seq(Int) /\ Name(f, c) \in Seq(Int)
         /\ Len(Name(f, c)) = FileNumDigits + (Width(c.prefix) + (2 * c.prefix + 2))
<1>1. FilesCount \in Nat \ {0}
  BY FileNamesAssumption
<1>2. FileNumDigits \in Nat \ {0} /\ FilesCount < Power(FileNumDigits)
  BY <1>1, WidthFacts DEF FileNumDigits
<1>3. f \in Nat /\ f < Power(FileNumDigits)
  <2>1. Power(FileNumDigits) \in Nat
    BY <1>2, PowerGrows
  <2>. QED BY <1>1, <1>2, <2>1
<1>4. /\ Padded(f, FileNumDigits) \in Seq(Int)
      /\ Padded(f, FileNumDigits) = LastDigits(f, FileNumDigits)
      /\ Len(Padded(f, FileNumDigits)) = FileNumDigits
  BY <1>2, <1>3, PaddedIs
<1>5. /\ c.prefix \in Nat /\ c.count \in Nat /\ c.count < Power(2 * c.prefix + 2)
      /\ 2 * c.prefix + 2 \in Nat \ {0}
  BY DEF Counters
<1>6. Width(c.prefix) \in Nat \ {0}
  <2>1. c.prefix \in Nat
    BY <1>5
  <2>2. Width(c.prefix) \in 1..(c.prefix + 1)
    BY <2>1, WidthFacts
  <2>. QED BY <2>1, <2>2
<1>7. Padded(c.prefix, 1) \in Seq(Int) /\ Len(Padded(c.prefix, 1)) = Width(c.prefix)
  <2>1. Width(c.prefix) > 1 \/ Width(c.prefix) = 1
    BY <1>6
  <2>2. 1 \in Nat \ {0}
    OBVIOUS
  <2>. QED BY <1>5, <2>1, <2>2, PaddedIs
<1>8. /\ Padded(c.count, 2 * c.prefix + 2) = LastDigits(c.count, 2 * c.prefix + 2)
      /\ Padded(c.count, 2 * c.prefix + 2) \in Seq(Int)
      /\ Len(Padded(c.count, 2 * c.prefix + 2)) = 2 * c.prefix + 2
  BY <1>5, PaddedIs
<1>9. /\ CounterText(c) \in Seq(Int)
      /\ Len(CounterText(c)) = Width(c.prefix) + (2 * c.prefix + 2)
  BY <1>7, <1>8, ConcatTypes DEF CounterText
<1>10. Name(f, c) \in Seq(Int) /\ Len(Name(f, c)) = FileNumDigits + Len(CounterText(c))
  <2>1. Padded(f, FileNumDigits) \in Seq(Int) /\ CounterText(c) \in Seq(Int)
    BY <1>4, <1>9
  <2>. QED BY <1>4, <2>1, ConcatTypes DEF Name
<1>11. Len(Name(f, c)) = FileNumDigits + (Width(c.prefix) + (2 * c.prefix + 2))
  BY <1>9, <1>10
<1>. QED BY <1>11, <1>2, <1>3, <1>4, <1>6, <1>7, <1>8, <1>9, <1>10

\* The names of an earlier file generator differ from those of a later one.
LEMMA WorkersDiffer ==
  ASSUME NEW f \in 1..FilesCount, NEW g \in 1..FilesCount, f < g,
         NEW c \in Counters, NEW d \in Counters
  PROVE  Differ(Name(f, c), Name(g, d))
<1>1. FileNumDigits \in Nat /\ f \in Nat /\ g \in Nat /\ g < Power(FileNumDigits)
  BY NameIs
<1>2. Differ(LastDigits(f, FileNumDigits), LastDigits(g, FileNumDigits))
  BY <1>1, DigitsDiffer
<1>3. Differ(Padded(f, FileNumDigits), Padded(g, FileNumDigits))
  BY <1>2, NameIs
<1>4. /\ Padded(f, FileNumDigits) \in Seq(Int) /\ Padded(g, FileNumDigits) \in Seq(Int)
      /\ CounterText(c) \in Seq(Int) /\ CounterText(d) \in Seq(Int)
  BY NameIs
<1>. QED BY <1>3, <1>4, DifferSooner DEF Name

\* So do those of an earlier counter from those of a later one, in the same block
\* or where the prefix is a digit.
LEMMA CountersDiffer ==
  ASSUME NEW f \in 1..FilesCount, NEW c \in Counters, NEW d \in Counters, Earlier(c, d),
         c.prefix = d.prefix \/ d.prefix < Base
  PROVE  Differ(Name(f, c), Name(f, d))
<1>1. /\ Padded(c.prefix, 1) \in Seq(Int) /\ Padded(d.prefix, 1) \in Seq(Int)
      /\ Padded(c.count, 2 * c.prefix + 2) \in Seq(Int)
      /\ Padded(d.count, 2 * d.prefix + 2) \in Seq(Int)
      /\ Padded(f, FileNumDigits) \in Seq(Int)
      /\ CounterText(c) \in Seq(Int) /\ CounterText(d) \in Seq(Int)
  BY NameIs
<1>2. /\ c.prefix \in Nat /\ c.count \in Nat /\ d.prefix \in Nat /\ d.count \in Nat
      /\ d.limit = Power(2 * d.prefix + 2) /\ d.count < d.limit
  BY DEF Counters
<1>3. Differ(CounterText(c), CounterText(d))
  <2>1. CASE c.prefix = d.prefix
    <3>1. c.count < d.count /\ d.count < Power(2 * d.prefix + 2) /\ 2 * d.prefix + 2 \in Nat
      BY <1>2, <2>1 DEF Earlier
    <3>2. Differ(LastDigits(c.count, 2 * d.prefix + 2), LastDigits(d.count, 2 * d.prefix + 2))
      BY <1>2, <3>1, DigitsDiffer
    <3>3. Differ(Padded(c.count, 2 * d.prefix + 2), Padded(d.count, 2 * d.prefix + 2))
      BY <2>1, <3>2, NameIs
    <3>. QED BY <1>1, <2>1, <3>3, DifferLater DEF CounterText
  <2>2. CASE c.prefix # d.prefix
    <3>1. c.prefix < d.prefix /\ d.prefix < Base
      BY <2>2 DEF Earlier
    <3>2. Base \in Nat /\ Power(1) = Base
      <4>1. Base \in Nat
        BY FileNamesAssumption
      <4>. QED BY <4>1, PowerSteps, 0 + 1 = 1
    <3>3. c.prefix < Power(1) /\ d.prefix < Power(1) /\ 1 \in Nat /\ 1 \in Nat \ {0}
      BY <1>2, <3>1, <3>2
    <3>4. Differ(LastDigits(c.prefix, 1), LastDigits(d.prefix, 1))
      BY <1>2, <3>1, <3>3, DigitsDiffer
    <3>5. Differ(Padded(c.prefix, 1), Padded(d.prefix, 1))
      BY <1>2, <3>3, <3>4, PaddedIs
    <3>. QED BY <1>1, <3>5, DifferSooner DEF CounterText
  <2>. QED BY <2>1, <2>2
<1>. QED BY <1>1, <1>3, DifferLater DEF Name

\* Names of different counters are not the same.
LEMMA NamesDiffer ==
  ASSUME NEW f \in 1..FilesCount, NEW c \in Counters, NEW d \in Counters, Earlier(c, d)
  PROVE  Name(f, c) # Name(f, d)
<1>1. c.prefix \in Nat /\ d.prefix \in Nat
  BY DEF Counters
<1>2. Name(f, c) \in Seq(Int) /\ Name(f, d) \in Seq(Int)
  BY NameIs
<1>3. CASE c.prefix = d.prefix
  BY <1>2, <1>3, CountersDiffer, DifferOrders
<1>4. CASE c.prefix # d.prefix
  <2>1. c.prefix < d.prefix
    BY <1>4 DEF Earlier
  <2>2. Width(c.prefix) <= Width(d.prefix)
    BY <1>1, <2>1, WidthMonotone
  <2>3. /\ Len(Name(f, c)) = FileNumDigits + (Width(c.prefix) + (2 * c.prefix + 2))
        /\ Len(Name(f, d)) = FileNumDigits + (Width(d.prefix) + (2 * d.prefix + 2))
        /\ Width(c.prefix) \in Nat /\ Width(d.prefix) \in Nat /\ FileNumDigits \in Nat
    BY NameIs
  <2>4. Len(Name(f, c)) # Len(Name(f, d))
    BY <1>1, <2>1, <2>2, <2>3
  <2>. QED BY <2>4
<1>. QED BY <1>3, <1>4

----------------------------------------------------------------------------
(* The inductive invariant: a worker's counter is that of its last file,   *)
(* and every file has the name of the counter that it was opened with.     *)

OpenedInv ==
  \A o \in opened :
    /\ o.worker \in FileIndexes /\ o.nth \in 1..MaxFiles
    /\ \E c \in Counters : At(c, o.nth) /\ o = File(o.worker, o.nth, c)

LastOf(f, n) ==
  /\ \E o \in OpenedBy(f) : o.nth = n
  /\ \A o \in OpenedBy(f) : o.nth <= n

CounterInv ==
  /\ counter \in [FileIndexes -> Counters]
  /\ \A f \in FileIndexes :
       IF OpenedBy(f) = {} THEN counter[f] = FirstCounter
       ELSE \E n \in 1..MaxFiles : At(counter[f], n) /\ LastOf(f, n)

NamesIInv == OpenedInv /\ CounterInv

LEMMA NamesIInvInit == NamesInit => NamesIInv
BY FirstAt DEF NamesInit, NamesIInv, OpenedInv, CounterInv, OpenedBy

\* A file that a worker opens next, with the counter that belongs to it.
LEMMA OpensNext ==
  ASSUME NamesIInv, NEW f \in FileIndexes, NEW n \in 1..MaxFiles, NEW c \in Counters,
         At(c, n), opened' = opened \cup {File(f, n, c)},
         counter' = [counter EXCEPT ![f] = c],
         \A o \in OpenedBy(f) : o.nth <= n
  PROVE  NamesIInv'
<1> DEFINE new == File(f, n, c)
<1>1. new.worker = f /\ new.nth = n /\ new = File(new.worker, new.nth, c)
  BY DEF File
<1>2. OpenedInv'
  <2> SUFFICES ASSUME NEW o \in opened'
               PROVE  /\ o.worker \in FileIndexes /\ o.nth \in 1..MaxFiles
                      /\ \E d \in Counters : At(d, o.nth) /\ o = File(o.worker, o.nth, d)
    BY DEF OpenedInv, Counters, At, File, Name, CounterText
  <2>1. CASE o \in opened
    BY <2>1 DEF NamesIInv, OpenedInv
  <2>2. CASE o = new
    BY <1>1, <2>2
  <2>. QED BY <2>1, <2>2
<1>3. counter \in [FileIndexes -> Counters]
  BY DEF NamesIInv, CounterInv
<1>4. counter' \in [FileIndexes -> Counters] /\ counter'[f] = c
      /\ \A g \in FileIndexes \ {f} : counter'[g] = counter[g]
  BY <1>3
<1>5. OpenedBy(f)' = OpenedBy(f) \cup {new} /\ \A g \in FileIndexes \ {f} : OpenedBy(g)' = OpenedBy(g)
  <2> HIDE DEF new
  <2>1. \A g : OpenedBy(g)' = {o \in opened \cup {new} : o.worker = g}
    BY DEF OpenedBy, new
  <2>. QED BY <1>1, <2>1 DEF OpenedBy
<1>6. ASSUME NEW g \in FileIndexes
      PROVE  IF OpenedBy(g)' = {} THEN counter'[g] = FirstCounter
             ELSE \E k \in 1..MaxFiles : At(counter'[g], k) /\ LastOf(g, k)'
  <2>1. CASE g = f
    <3>1. LastOf(f, n)'
      <4>1. new \in OpenedBy(f)' /\ new.nth = n
        BY <1>1, <1>5
      <4>2. \A o \in OpenedBy(f)' : o.nth <= n
        BY <1>1, <1>5
      <4>. QED BY <4>1, <4>2 DEF LastOf
    <3>2. OpenedBy(f)' # {}
      BY <1>5
    <3>. QED BY <1>4, <2>1, <3>1, <3>2
  <2>2. CASE g # f
    <3>1. OpenedBy(g)' = OpenedBy(g) /\ counter'[g] = counter[g]
      BY <1>4, <1>5, <2>2
    <3>2. \A k : LastOf(g, k)' <=> LastOf(g, k)
      BY <3>1 DEF LastOf
    <3>3. IF OpenedBy(g) = {} THEN counter[g] = FirstCounter
          ELSE \E k \in 1..MaxFiles : At(counter[g], k) /\ LastOf(g, k)
      BY DEF NamesIInv, CounterInv
    <3>. QED BY <3>1, <3>2, <3>3
  <2>. QED BY <2>1, <2>2
<1>7. CounterInv'
  BY <1>4, <1>6 DEF CounterInv, Counters, FirstCounter, At
<1>. QED BY <1>2, <1>7 DEF NamesIInv

LEMMA NamesIInvStep == NamesIInv /\ [NamesNext]_names_vars => NamesIInv'
<1> SUFFICES ASSUME NamesIInv, [NamesNext]_names_vars PROVE NamesIInv'
  OBVIOUS
<1>1. ASSUME NEW f \in FileIndexes, Start(f) PROVE NamesIInv'
  <2>1. counter[f] = FirstCounter /\ counter \in [FileIndexes -> Counters]
    BY <1>1 DEF Start, NamesIInv, CounterInv
  <2>2. counter' = [counter EXCEPT ![f] = FirstCounter]
    <3>1. counter' = counter
      BY <1>1 DEF Start
    <3>. QED BY <2>1, <3>1
  <2>3. opened' = opened \cup {File(f, 1, FirstCounter)} /\ OpenedBy(f) = {}
    BY <1>1, <2>1 DEF Start
  <2>4. 1 \in 1..MaxFiles
    BY FileNamesAssumption
  <2>. QED BY <2>2, <2>3, <2>4, FirstAt, OpensNext
<1>2. ASSUME NEW f \in FileIndexes, Rotate(f) PROVE NamesIInv'
  <2>1. OpenedBy(f) # {} /\ NthOf(f) < MaxFiles
    BY <1>2 DEF Rotate
  <2>2. PICK n \in 1..MaxFiles : At(counter[f], n) /\ LastOf(f, n)
    BY <2>1 DEF NamesIInv, CounterInv
  <2>3. NthOf(f) = n
    <3>1. \A k \in 1..MaxFiles : LastOf(f, k) => k = n
      <4> SUFFICES ASSUME NEW k \in 1..MaxFiles, LastOf(f, k) PROVE k = n
        OBVIOUS
      <4>1. k <= n /\ n <= k
        BY <2>2 DEF LastOf
      <4>. QED BY <4>1, FileNamesAssumption
    <3>2. NthOf(f) = CHOOSE k \in 1..MaxFiles : LastOf(f, k)
      BY DEF NthOf, LastOf
    <3>. QED BY <2>2, <3>1, <3>2
  <2> DEFINE c == Inc(counter[f])
  <2>4. n \in Nat /\ n + 1 \in 1..MaxFiles /\ counter[f] \in Counters
    BY <2>1, <2>3, FileNamesAssumption DEF NamesIInv, CounterInv
  <2>5. c \in Counters /\ At(c, n + 1)
    BY <2>2, <2>4, IncAt
  <2>6. opened' = opened \cup {File(f, n + 1, c)} /\ counter' = [counter EXCEPT ![f] = c]
    BY <1>2, <2>3 DEF Rotate
  <2>7. \A o \in OpenedBy(f) : o.nth <= n + 1
    <3>1. \A o \in OpenedBy(f) : o.nth \in Nat
      BY FileNamesAssumption DEF OpenedBy, NamesIInv, OpenedInv
    <3>. QED BY <2>2, <2>4, <3>1 DEF LastOf
  <2> HIDE DEF c
  <2>. QED BY <2>4, <2>5, <2>6, <2>7, OpensNext
<1>3. CASE UNCHANGED names_vars
  <2>1. counter' = counter /\ opened' = opened
    BY <1>3 DEF names_vars
  <2>2. OpenedInv'
    BY <2>1 DEF NamesIInv, OpenedInv, Counters, At, File, Name, CounterText
  <2>3. CounterInv'
    BY <2>1 DEF NamesIInv, CounterInv, Counters, At, FirstCounter, LastOf, OpenedBy
  <2>. QED BY <2>2, <2>3 DEF NamesIInv
<1>. QED BY <1>1, <1>2, <1>3 DEF NamesNext

\* Every file has the name of its place in the sequence of its worker.
THEOREM NamesInvariance == NamesSpec => []NamesIInv
BY NamesIInvInit, NamesIInvStep, PTL DEF NamesSpec

\* Whatever the base and however many files each worker opens, in any order, no
\* two have the same name, if --files-count counts the workers.
THEOREM NamesDistinct ==
  ASSUME FileIndexes \subseteq 1..FilesCount
  PROVE  NamesSpec => []NoFileOverwritten
<1>1. NamesIInv => NoFileOverwritten
  <2> SUFFICES ASSUME NamesIInv, NEW o \in opened, NEW p \in opened, o.name = p.name
               PROVE  o = p
    BY DEF NoFileOverwritten
  <2>1. PICK c \in Counters : At(c, o.nth) /\ o = File(o.worker, o.nth, c)
    BY DEF NamesIInv, OpenedInv
  <2>2. PICK d \in Counters : At(d, p.nth) /\ p = File(p.worker, p.nth, d)
    BY DEF NamesIInv, OpenedInv
  <2>3. /\ o.worker \in 1..FilesCount /\ p.worker \in 1..FilesCount
        /\ o.nth \in Nat /\ p.nth \in Nat
    <3>1. /\ o.worker \in FileIndexes /\ p.worker \in FileIndexes
          /\ o.nth \in 1..MaxFiles /\ p.nth \in 1..MaxFiles
      BY DEF NamesIInv, OpenedInv
    <3>2. o.worker \in 1..FilesCount /\ p.worker \in 1..FilesCount
      BY <3>1
    <3>3. MaxFiles \in Nat
      BY FileNamesAssumption
    <3>. QED BY <3>1, <3>2, <3>3
  <2>4. Name(o.worker, c) = Name(p.worker, d)
    BY <2>1, <2>2 DEF File
  <2>5. Name(o.worker, c) \in Seq(Int) /\ Name(p.worker, d) \in Seq(Int)
    BY <2>3, NameIs
  <2>6. o.worker = p.worker
    <3>1. ~ (o.worker < p.worker)
      BY <2>3, <2>4, <2>5, WorkersDiffer, DifferOrders
    <3>2. ~ (p.worker < o.worker)
      BY <2>3, <2>4, <2>5, WorkersDiffer, DifferOrders
    <3>. QED BY <2>3, <3>1, <3>2, FileNamesAssumption
  <2>7. o.nth = p.nth
    <3>1. ~ (o.nth < p.nth)
      <4>1. SUFFICES ASSUME o.nth < p.nth PROVE FALSE
        OBVIOUS
      <4>2. Earlier(c, d)
        BY <2>1, <2>2, <2>3, <4>1, AtOrders
      <4>. QED BY <2>3, <2>4, <2>6, <4>2, NamesDiffer
    <3>2. ~ (p.nth < o.nth)
      <4>1. SUFFICES ASSUME p.nth < o.nth PROVE FALSE
        OBVIOUS
      <4>2. Earlier(d, c)
        BY <2>1, <2>2, <2>3, <4>1, AtOrders
      <4>. QED BY <2>3, <2>4, <2>6, <4>2, NamesDiffer
    <3>. QED BY <2>3, <3>1, <3>2
  <2>. QED BY <2>1, <2>2, <2>4, <2>6, <2>7 DEF File
<1>. QED BY <1>1, NamesInvariance, PTL

\* The names sort as the data does, for as many files as the prefix of the counter
\* is a single digit for: ten to the twentieth in decimal.
THEOREM NamesInOrder ==
  ASSUME FileIndexes \subseteq 1..FilesCount, MaxFiles < Power(2 * Base)
  PROVE  NamesSpec => []NamesOrdered
<1>1. NamesIInv => NamesOrdered
  <2> SUFFICES ASSUME NamesIInv, NEW o \in opened, NEW p \in opened, Before(o, p)
               PROVE  LexLess(o.name, p.name)
    BY DEF NamesOrdered
  <2>1. PICK c \in Counters : At(c, o.nth) /\ o = File(o.worker, o.nth, c)
    BY DEF NamesIInv, OpenedInv
  <2>2. PICK d \in Counters : At(d, p.nth) /\ p = File(p.worker, p.nth, d)
    BY DEF NamesIInv, OpenedInv
  <2>3. /\ o.worker \in 1..FilesCount /\ p.worker \in 1..FilesCount
        /\ o.nth \in Nat /\ p.nth \in Nat /\ p.nth <= MaxFiles
    <3>1. /\ o.worker \in FileIndexes /\ p.worker \in FileIndexes
          /\ o.nth \in 1..MaxFiles /\ p.nth \in 1..MaxFiles
      BY DEF NamesIInv, OpenedInv
    <3>2. o.worker \in 1..FilesCount /\ p.worker \in 1..FilesCount
      BY <3>1
    <3>3. MaxFiles \in Nat
      BY FileNamesAssumption
    <3>. QED BY <3>1, <3>2, <3>3
  <2>4. o.name = Name(o.worker, c) /\ p.name = Name(p.worker, d)
    BY <2>1, <2>2 DEF File
  <2>5. Name(o.worker, c) \in Seq(Int) /\ Name(p.worker, d) \in Seq(Int)
    BY <2>3, NameIs
  <2>6. CASE o.worker < p.worker
    BY <2>3, <2>4, <2>5, <2>6, WorkersDiffer, DifferOrders
  <2>7. CASE o.worker = p.worker /\ o.nth < p.nth
    <3>1. Earlier(c, d)
      BY <2>1, <2>2, <2>3, <2>7, AtOrders
    <3>2. d.prefix < Base
      <4>1. 2 * Base \in Nat
        BY FileNamesAssumption
      <4>2. Power(2 * Base) \in Nat
        BY <4>1, PowerGrows
      <4>3. p.nth < Power(2 * Base)
        BY <2>3, <4>2, FileNamesAssumption
      <4>. QED BY <2>2, <2>3, <4>3, PrefixIsDigit
    <3>. QED BY <2>3, <2>4, <2>5, <2>7, <3>1, <3>2, CountersDiffer, DifferOrders
  <2>. QED BY <2>6, <2>7 DEF Before
<1>. QED BY <1>1, NamesInvariance, PTL
=============================================================================
