------------------------------ MODULE RowArgs ------------------------------
(***************************************************************************)
(* How the engine's command line is turned into files, INSERT statements   *)
(* and rows (Args::row_args in engine/src/cli.rs).                         *)
(*                                                                         *)
(* The command line offers two ways of saying how much to generate: by     *)
(* totals (--total-count, --rows-per-file) and by the deprecated counts    *)
(* (--files-count, --inserts-count and their last-file variants).  Every   *)
(* file is an independent unit of work, so the arithmetic below is the     *)
(* only thing that keeps the row numbers of two files apart.               *)
(***************************************************************************)
EXTENDS Integers

CONSTANTS
  None,      \* an option that was not given
  MaxU32     \* largest value of the u32 counters

ASSUME RowArgsAssumption ==
  /\ MaxU32 \in Nat \ {0}
  /\ None \notin Int

\* The row-related options, as clap leaves them: the four deprecated counts
\* are mutually exclusive with the totals (conflicts_with_all).
Args == [ rows_count              : 0..MaxU32,
          files_count             : 0..MaxU32,
          inserts_count           : 0..MaxU32,
          last_file_inserts_count : (0..MaxU32) \cup {None},
          last_insert_rows_count  : (0..MaxU32) \cup {None},
          total_count             : Nat \cup {None},
          rows_per_file           : Nat \cup {None} ]

OrElse(option, default) == IF option = None THEN default ELSE option

\* n = (div - 1) * d + rem, with 1 <= rem <= d: the last group is never empty.
DivRemPlusOne(n, d) ==
  IF n % d = 0 THEN [div |-> n \div d, rem |-> d]
               ELSE [div |-> n \div d + 1, rem |-> n % d]

----------------------------------------------------------------------------
(* A normal file.                                                          *)

InsertsCount(a) ==
  IF a.rows_per_file = None THEN a.inserts_count
  ELSE DivRemPlusOne(a.rows_per_file, a.rows_count).div

FinalInsertRows(a) ==
  IF a.rows_per_file = None THEN a.rows_count
  ELSE DivRemPlusOne(a.rows_per_file, a.rows_count).rem

RowsPerFile(a) == OrElse(a.rows_per_file, a.inserts_count * a.rows_count)

(* The last file.                                                          *)

FilesCount(a) ==
  IF a.total_count = None THEN a.files_count
  ELSE DivRemPlusOne(a.total_count, RowsPerFile(a)).div

\* Rows the last file must hold when the total is given.
ExcessRows(a) == DivRemPlusOne(a.total_count, RowsPerFile(a)).rem

LastFileInserts(a) ==
  IF a.total_count = None THEN OrElse(a.last_file_inserts_count, InsertsCount(a))
  ELSE IF ExcessRows(a) = RowsPerFile(a) THEN InsertsCount(a)
  ELSE DivRemPlusOne(ExcessRows(a), a.rows_count).div

LastFileFinalInsertRows(a) ==
  IF a.total_count = None THEN OrElse(a.last_insert_rows_count, FinalInsertRows(a))
  ELSE IF ExcessRows(a) = RowsPerFile(a) THEN FinalInsertRows(a)
  ELSE DivRemPlusOne(ExcessRows(a), a.rows_count).rem

TotalCount(a) ==
  IF a.total_count # None THEN a.total_count
  ELSE (FilesCount(a) - 1) * RowsPerFile(a)
         + (LastFileInserts(a) - 1) * a.rows_count
         + LastFileFinalInsertRows(a)

----------------------------------------------------------------------------
\* The command lines row_args gives a meaning to.  Any other divides by zero
\* or fails a checked conversion to u32, and panics before the first file is
\* opened, or subtracts one from a zero u32 count.
ValidArgs(a) ==
  /\ a.rows_count > 0
  /\ RowsPerFile(a) > 0
  /\ InsertsCount(a) <= MaxU32
  /\ IF a.total_count = None
     THEN a.files_count > 0 /\ LastFileInserts(a) > 0
     ELSE FilesCount(a) <= MaxU32 /\ LastFileInserts(a) <= MaxU32

\* What clap itself refuses to combine.
Exclusive(a) ==
  /\ a.total_count # None =>
       /\ a.files_count = 1
       /\ a.last_file_inserts_count = None
       /\ a.last_insert_rows_count = None
  /\ a.rows_per_file # None => a.inserts_count = 1

ValidCli == {a \in Args : Exclusive(a) /\ ValidArgs(a)}

----------------------------------------------------------------------------
(* What each file generator is handed (the FileInfo built in run()).       *)

Files(a) == 1..FilesCount(a)

\* Mutants: the last file is cut like any other; the first row is computed
\* from the 1-based index, or from the number of INSERTs.
LastInsertRowsLikeAnyOther(a, f) == FinalInsertRows(a)
FirstRowOneFileEarly(a, f) == (f - 2) * RowsPerFile(a) + 1
FirstRowByInserts(a, f) == (f - 1) * InsertsCount(a) + 1

Inserts(a, f) == IF f = FilesCount(a) THEN LastFileInserts(a) ELSE InsertsCount(a)

LastInsertRows(a, f) ==
  IF f = FilesCount(a) THEN LastFileFinalInsertRows(a) ELSE FinalInsertRows(a)

\* The row number the file's State starts from.
FirstRow(a, f) == (f - 1) * RowsPerFile(a) + 1

\* Rows of the file's INSERT number i, counted from 0.
RowsInInsert(a, f, i) ==
  IF i = Inserts(a, f) - 1 THEN LastInsertRows(a, f) ELSE a.rows_count

\* Rows of a file, and of its first i INSERTs.
FileRows(a, f) == (Inserts(a, f) - 1) * a.rows_count + LastInsertRows(a, f)

RowsBefore(a, f, i) ==
  IF i < Inserts(a, f) THEN i * a.rows_count ELSE FileRows(a, f)

=============================================================================
