---------------------------- MODULE EngineProofs ----------------------------
(***************************************************************************)
(* Proofs about RowArgs: for every command line that row_args accepts, the *)
(* files' row ranges are consecutive, start at 1 and end at the total.     *)
(*                                                                         *)
(* Proofs about Engine: every reachable state of a run is well typed, its  *)
(* rows are accounted for, files never share a row, Ok means that every    *)
(* row was generated, and the run implements GenerationJob.                *)
(***************************************************************************)
EXTENDS Engine, FiniteSetTheorems, TLAPS

----------------------------------------------------------------------------
(* The arithmetic of row_args.                                             *)

\* Integer division: the quotient and remainder of naturals.
LEMMA DivMod ==
  ASSUME NEW n \in Nat, NEW d \in Nat \ {0}
  PROVE  /\ n \div d \in Nat
         /\ n % d \in 0..(d - 1)
         /\ n = (n \div d) * d + (n % d)
OBVIOUS

\* div_rem_plus_one splits n into groups of d whose last one is never empty.
LEMMA DivRemPlusOneExact ==
  ASSUME NEW n \in Nat, NEW d \in Nat \ {0}
  PROVE  /\ DivRemPlusOne(n, d).div \in Nat
         /\ DivRemPlusOne(n, d).rem \in 1..d
         /\ n = (DivRemPlusOne(n, d).div - 1) * d + DivRemPlusOne(n, d).rem
         /\ n > 0 => DivRemPlusOne(n, d).div > 0
         /\ n = 0 => DivRemPlusOne(n, d).div = 0
<1>1. CASE n % d = 0
  <2>1. DivRemPlusOne(n, d).div = n \div d /\ DivRemPlusOne(n, d).rem = d
    BY <1>1 DEF DivRemPlusOne
  <2>2. n = (n \div d) * d /\ n \div d \in Nat
    BY <1>1, DivMod
  <2>3. ((n \div d) - 1) * d + d = (n \div d) * d
    BY <2>2
  <2>4. n > 0 => n \div d > 0
    BY <2>2
  <2>5. n = 0 => n \div d = 0
    BY <2>2
  <2>. QED BY <2>1, <2>2, <2>3, <2>4, <2>5
<1>2. CASE n % d # 0
  <2>1. DivRemPlusOne(n, d).div = n \div d + 1 /\ DivRemPlusOne(n, d).rem = n % d
    BY <1>2 DEF DivRemPlusOne
  <2>2. n \div d \in Nat /\ n % d \in 1..d /\ n = (n \div d) * d + (n % d)
    BY <1>2, DivMod
  <2>3. n # 0
    BY <1>2, <2>2
  <2>. QED BY <2>1, <2>2, <2>3
<1>. QED BY <1>1, <1>2

\* The types of what row_args computes, for an accepted command line.
LEMMA RowArgsTypes ==
  ASSUME NEW a \in ValidCli
  PROVE  /\ a.rows_count \in Nat \ {0}
         /\ RowsPerFile(a) \in Nat \ {0}
         /\ InsertsCount(a) \in Nat \ {0}
         /\ FinalInsertRows(a) \in Nat
         /\ FilesCount(a) \in Nat
         /\ LastFileInserts(a) \in Nat \ {0}
         /\ LastFileFinalInsertRows(a) \in Nat
<1>1. a \in Args /\ ValidArgs(a) /\ Exclusive(a)
  BY DEF ValidCli
<1>2. /\ a.rows_count \in Nat \ {0}
      /\ a.files_count \in Nat /\ a.inserts_count \in Nat
      /\ a.last_file_inserts_count \in Nat \cup {None}
      /\ a.last_insert_rows_count \in Nat \cup {None}
      /\ a.total_count \in Nat \cup {None}
      /\ a.rows_per_file \in Nat \cup {None}
  BY <1>1, RowArgsAssumption DEF Args, ValidArgs
<1>3. RowsPerFile(a) \in Nat \ {0}
  <2>1. a.inserts_count * a.rows_count \in Nat
    BY <1>2
  <2>. QED BY <1>1, <1>2, <2>1 DEF RowsPerFile, OrElse, ValidArgs
<1>4. InsertsCount(a) \in Nat \ {0} /\ FinalInsertRows(a) \in Nat
  <2>1. CASE a.rows_per_file = None
    <3>1. a.inserts_count * a.rows_count > 0
      BY <1>1, <2>1 DEF ValidArgs, RowsPerFile, OrElse
    <3>2. a.inserts_count > 0
      BY <1>2, <3>1
    <3>. QED BY <1>2, <2>1, <3>2 DEF InsertsCount, FinalInsertRows
  <2>2. CASE a.rows_per_file # None
    <3>1. a.rows_per_file \in Nat \ {0}
      BY <1>2, <1>3, <2>2 DEF RowsPerFile, OrElse
    <3>. QED BY <1>2, <2>2, <3>1, DivRemPlusOneExact DEF InsertsCount, FinalInsertRows
  <2>. QED BY <2>1, <2>2
<1>5. CASE a.total_count = None
  <2>1. LastFileInserts(a) > 0
    BY <1>1, <1>5 DEF ValidArgs
  <2>2. LastFileInserts(a) \in Nat /\ LastFileFinalInsertRows(a) \in Nat
    BY <1>2, <1>4, <1>5 DEF LastFileInserts, LastFileFinalInsertRows, OrElse
  <2>. QED BY <1>2, <1>3, <1>4, <1>5, <2>1, <2>2 DEF FilesCount
<1>6. CASE a.total_count # None
  <2>1. a.total_count \in Nat
    BY <1>2, <1>6
  <2>2. FilesCount(a) \in Nat /\ ExcessRows(a) \in 1..RowsPerFile(a)
    BY <1>3, <1>6, <2>1, DivRemPlusOneExact DEF FilesCount, ExcessRows
  <2>3. ExcessRows(a) \in Nat \ {0}
    BY <1>3, <2>2
  <2>4. /\ DivRemPlusOne(ExcessRows(a), a.rows_count).div \in Nat \ {0}
        /\ DivRemPlusOne(ExcessRows(a), a.rows_count).rem \in Nat
    BY <1>2, <2>3, DivRemPlusOneExact
  <2>. QED BY <1>2, <1>3, <1>4, <1>6, <2>2, <2>4
           DEF LastFileInserts, LastFileFinalInsertRows
<1>. QED BY <1>5, <1>6

\* A normal file holds exactly rows_per_file rows (the comment on
\* RowArgs::rows_per_file: "Must be same as (n - 1) * r + final_insert_rows_count").
THEOREM NormalFileExact ==
  ASSUME NEW a \in ValidCli
  PROVE  (InsertsCount(a) - 1) * a.rows_count + FinalInsertRows(a) = RowsPerFile(a)
<1>1. a.rows_count \in Nat \ {0} /\ RowsPerFile(a) \in Nat \ {0}
  BY RowArgsTypes
<1>2. CASE a.rows_per_file = None
  <2>1. a.inserts_count \in Nat
    BY RowArgsAssumption DEF ValidCli, Args
  <2>2. (a.inserts_count - 1) * a.rows_count + a.rows_count = a.inserts_count * a.rows_count
    BY <1>1, <2>1
  <2>. QED BY <1>2, <2>2 DEF InsertsCount, FinalInsertRows, RowsPerFile, OrElse
<1>3. CASE a.rows_per_file # None
  <2>1. RowsPerFile(a) = a.rows_per_file
    BY <1>3 DEF RowsPerFile, OrElse
  <2>. QED BY <1>1, <1>3, <2>1, DivRemPlusOneExact DEF InsertsCount, FinalInsertRows
<1>. QED BY <1>2, <1>3

\* The rows of all files add up to the total (the comment on
\* RowArgs::total_count: "Must be same as (k - 1) * R +
\* (last_file_inserts_count - 1) * r + last_file_final_insert_rows_count");
\* a total of no rows makes no file.
THEOREM TotalCountExact ==
  ASSUME NEW a \in ValidCli
  PROVE  /\ TotalCount(a) \in Nat
         /\ FilesCount(a) = 0 => TotalCount(a) = 0
         /\ FilesCount(a) > 0 =>
              TotalCount(a) = (FilesCount(a) - 1) * RowsPerFile(a)
                                + (LastFileInserts(a) - 1) * a.rows_count
                                + LastFileFinalInsertRows(a)
<1>1. /\ a.rows_count \in Nat \ {0} /\ RowsPerFile(a) \in Nat \ {0}
      /\ FilesCount(a) \in Nat
      /\ LastFileInserts(a) \in Nat \ {0} /\ LastFileFinalInsertRows(a) \in Nat
  BY RowArgsTypes
<1>2. a.total_count \in Nat \cup {None}
  BY DEF ValidCli, Args
<1>3. CASE a.total_count = None
  <2>1. FilesCount(a) > 0
    BY <1>3 DEF ValidCli, ValidArgs, FilesCount
  <2>2. /\ (FilesCount(a) - 1) * RowsPerFile(a) \in Nat
        /\ (LastFileInserts(a) - 1) * a.rows_count \in Nat
    BY <1>1, <2>1
  <2>. QED BY <1>1, <1>3, <2>1, <2>2 DEF TotalCount
<1>4. CASE a.total_count # None
  <2>1. a.total_count \in Nat /\ TotalCount(a) = a.total_count
    BY <1>2, <1>4 DEF TotalCount
  <2>2. /\ a.total_count = (FilesCount(a) - 1) * RowsPerFile(a) + ExcessRows(a)
        /\ ExcessRows(a) \in 1..RowsPerFile(a)
        /\ a.total_count > 0 => FilesCount(a) > 0
    BY <1>1, <1>4, <2>1, DivRemPlusOneExact DEF FilesCount, ExcessRows
  <2>3. (LastFileInserts(a) - 1) * a.rows_count + LastFileFinalInsertRows(a) = ExcessRows(a)
    <3>1. CASE ExcessRows(a) = RowsPerFile(a)
      BY <1>4, <3>1, NormalFileExact DEF LastFileInserts, LastFileFinalInsertRows
    <3>2. CASE ExcessRows(a) # RowsPerFile(a)
      <4>1. ExcessRows(a) \in Nat
        BY <1>1, <2>2
      <4>. QED BY <1>1, <1>4, <3>2, <4>1, DivRemPlusOneExact
               DEF LastFileInserts, LastFileFinalInsertRows
    <3>. QED BY <3>1, <3>2
  <2>4. /\ (FilesCount(a) - 1) * RowsPerFile(a) \in Int
        /\ (LastFileInserts(a) - 1) * a.rows_count \in Int
    BY <1>1
  <2>5. FilesCount(a) = 0 => a.total_count = 0
    BY <1>1, <2>1, <2>2
  <2>. QED BY <1>1, <2>1, <2>2, <2>3, <2>4, <2>5
<1>. QED BY <1>3, <1>4

----------------------------------------------------------------------------
(* One file.                                                               *)

\* What a file generator is handed, with its types.
LEMMA FileTypes ==
  ASSUME NEW a \in ValidCli, NEW f \in Files(a)
  PROVE  /\ f \in Nat \ {0} /\ f <= FilesCount(a)
         /\ Inserts(a, f) \in Nat \ {0}
         /\ LastInsertRows(a, f) \in Nat
         /\ FirstRow(a, f) \in Nat \ {0}
         /\ FileRows(a, f) \in Nat
<1>1. f \in Nat \ {0} /\ f <= FilesCount(a)
  BY RowArgsTypes DEF Files
<1>2. Inserts(a, f) \in Nat \ {0} /\ LastInsertRows(a, f) \in Nat
  BY RowArgsTypes DEF Inserts, LastInsertRows
<1>3. FirstRow(a, f) \in Nat \ {0}
  <2>1. (f - 1) * RowsPerFile(a) \in Nat
    BY <1>1, RowArgsTypes
  <2>. QED BY <2>1 DEF FirstRow
<1>4. FileRows(a, f) \in Nat
  <2>1. (Inserts(a, f) - 1) * a.rows_count \in Nat
    BY <1>2, RowArgsTypes
  <2>. QED BY <1>2, <2>1 DEF FileRows
<1>. QED BY <1>1, <1>2, <1>3, <1>4

\* Each file begins where the previous one ends, and the last one ends at the
\* total.
THEOREM FilesConsecutive ==
  ASSUME NEW a \in ValidCli, NEW f \in Files(a)
  PROVE  FirstRow(a, f) + FileRows(a, f) =
           IF f < FilesCount(a) THEN FirstRow(a, f + 1) ELSE TotalCount(a) + 1
<1>1. /\ f \in Nat \ {0} /\ f <= FilesCount(a) /\ FilesCount(a) \in Nat
      /\ RowsPerFile(a) \in Nat
  BY FileTypes, RowArgsTypes
<1>2. CASE f < FilesCount(a)
  <2>1. FileRows(a, f) = RowsPerFile(a)
    BY <1>1, <1>2, NormalFileExact DEF FileRows, Inserts, LastInsertRows
  <2>2. (f - 1) * RowsPerFile(a) + 1 + RowsPerFile(a) = (f + 1 - 1) * RowsPerFile(a) + 1
    BY <1>1
  <2>3. /\ FirstRow(a, f) = (f - 1) * RowsPerFile(a) + 1
        /\ FirstRow(a, f + 1) = (f + 1 - 1) * RowsPerFile(a) + 1
    BY <1>1 DEF FirstRow
  <2>4. FirstRow(a, f) + FileRows(a, f) = FirstRow(a, f + 1)
    BY <1>1, <2>1, <2>2, <2>3
  <2>. QED BY <1>2, <2>4
<1>3. CASE f = FilesCount(a)
  <2>1. FileRows(a, f) = (LastFileInserts(a) - 1) * a.rows_count + LastFileFinalInsertRows(a)
    BY <1>3 DEF FileRows, Inserts, LastInsertRows
  <2>2. /\ (LastFileInserts(a) - 1) * a.rows_count \in Int
        /\ LastFileFinalInsertRows(a) \in Int
        /\ (FilesCount(a) - 1) * RowsPerFile(a) \in Int
    BY <1>1, RowArgsTypes
  <2>3. TotalCount(a) = (f - 1) * RowsPerFile(a) + FileRows(a, f)
    BY <1>1, <1>3, <2>1, <2>2, TotalCountExact
  <2>4. FileRows(a, f) \in Nat /\ FirstRow(a, f) = (f - 1) * RowsPerFile(a) + 1
    BY FileTypes DEF FirstRow
  <2>. QED BY <1>1, <1>3, <2>2, <2>3, <2>4
<1>. QED BY <1>1, <1>2, <1>3

\* The row ranges of two files do not meet, and all lie within the total.
THEOREM FilesApart ==
  ASSUME NEW a \in ValidCli, NEW f \in Files(a)
  PROVE  /\ FirstRow(a, f) + FileRows(a, f) <= TotalCount(a) + 1
         /\ \A g \in Files(a) : f < g => FirstRow(a, f) + FileRows(a, f) <= FirstRow(a, g)
<1>0. /\ FilesCount(a) \in Nat /\ RowsPerFile(a) \in Nat
      /\ f \in Nat \ {0} /\ f <= FilesCount(a)
  BY RowArgsTypes, FileTypes
<1>1. ASSUME NEW g \in Files(a), f < g
      PROVE  FirstRow(a, f) + FileRows(a, f) <= FirstRow(a, g)
  <2>1. g \in Nat /\ g <= FilesCount(a) /\ f < FilesCount(a)
    BY <1>0, <1>1, FileTypes
  <2>2. FirstRow(a, f) + FileRows(a, f) = f * RowsPerFile(a) + 1
    BY <1>0, <2>1, FilesConsecutive DEF FirstRow
  <2>3. f * RowsPerFile(a) <= (g - 1) * RowsPerFile(a)
    BY <1>0, <1>1, <2>1
  <2>. QED BY <1>0, <2>1, <2>2, <2>3 DEF FirstRow
<1>2. FirstRow(a, f) + FileRows(a, f) <= TotalCount(a) + 1
  <2>1. CASE f = FilesCount(a)
    BY <1>0, <2>1, FilesConsecutive, TotalCountExact
  <2>2. CASE f < FilesCount(a)
    <3>1. FilesCount(a) \in Files(a)
      BY <1>0, <2>2 DEF Files
    <3>2. FirstRow(a, f) + FileRows(a, f) <= FirstRow(a, FilesCount(a))
      BY <1>1, <2>2, <3>1
    <3>3. /\ FirstRow(a, FilesCount(a)) + FileRows(a, FilesCount(a)) = TotalCount(a) + 1
          /\ FileRows(a, FilesCount(a)) \in Nat
          /\ FirstRow(a, FilesCount(a)) \in Nat
          /\ FirstRow(a, f) \in Nat /\ FileRows(a, f) \in Nat
      BY <1>0, <3>1, FilesConsecutive, FileTypes
    <3>. QED BY <3>2, <3>3, TotalCountExact
  <2>. QED BY <1>0, <2>1, <2>2
<1>. QED BY <1>1, <1>2

\* Every row up to the total belongs to some file.
THEOREM FilesCover ==
  ASSUME NEW a \in ValidCli, NEW n \in 1..TotalCount(a)
  PROVE  \E f \in Files(a) : n \in FirstRow(a, f)..(FirstRow(a, f) + FileRows(a, f) - 1)
<1> DEFINE k == FilesCount(a)
           R == RowsPerFile(a)
           q == (n - 1) \div R
<1>1. k \in Nat \ {0} /\ R \in Nat \ {0} /\ n \in Nat \ {0} /\ n <= TotalCount(a)
  BY RowArgsTypes, TotalCountExact
<1>2. q \in Nat /\ q * R <= n - 1 /\ n - 1 < (q + 1) * R
  <2> HIDE DEF R
  <2>1. n - 1 \in Nat
    BY <1>1
  <2>2. /\ q \in Nat /\ (n - 1) % R \in 0..(R - 1)
        /\ n - 1 = q * R + ((n - 1) % R)
    BY <1>1, <2>1, DivMod
  <2>3. (q + 1) * R = q * R + R /\ q * R \in Nat
    BY <1>1, <2>2
  <2>. QED BY <1>1, <2>2, <2>3
<1>3. CASE q + 1 < k
  <2>1. q + 1 \in Files(a) /\ q + 2 \in Files(a)
    BY <1>1, <1>2, <1>3 DEF Files
  <2>2. FirstRow(a, q + 1) = q * R + 1 /\ FirstRow(a, q + 2) = (q + 1) * R + 1
    BY <1>1, <1>2 DEF FirstRow
  <2>3. /\ FirstRow(a, q + 1) + FileRows(a, q + 1) = FirstRow(a, q + 1 + 1)
        /\ FileRows(a, q + 1) \in Nat
    BY <1>3, <2>1, FilesConsecutive, FileTypes
  <2>4. q + 1 + 1 = q + 2
    BY <1>2
  <2>5. q * R \in Nat /\ (q + 1) * R \in Nat
    BY <1>1, <1>2
  <2>6. n \in FirstRow(a, q + 1)..(FirstRow(a, q + 1) + FileRows(a, q + 1) - 1)
    BY <1>1, <1>2, <2>2, <2>3, <2>4, <2>5
  <2>. QED BY <2>1, <2>6
<1>4. CASE q + 1 >= k
  <2>1. k \in Files(a)
    BY <1>1 DEF Files
  <2>2. FirstRow(a, k) + FileRows(a, k) = TotalCount(a) + 1
    BY <1>1, <2>1, FilesConsecutive
  <2>3. (k - 1) * R <= q * R
    BY <1>1, <1>2, <1>4
  <2>4. (k - 1) * R \in Nat /\ q * R \in Nat
    BY <1>1, <1>2
  <2>5. FirstRow(a, k) <= n
    BY <1>1, <1>2, <2>3, <2>4 DEF FirstRow
  <2>6. TotalCount(a) \in Nat /\ FirstRow(a, k) \in Nat /\ FileRows(a, k) \in Nat
    BY <2>1, FileTypes, TotalCountExact
  <2>7. n \in FirstRow(a, k)..(FirstRow(a, k) + FileRows(a, k) - 1)
    BY <1>1, <2>2, <2>5, <2>6
  <2>. QED BY <2>1, <2>7
<1>. QED BY <1>1, <1>2, <1>3, <1>4

\* The rows of a file's INSERT statements are consecutive too.
LEMMA InsertsConsecutive ==
  ASSUME NEW a \in ValidCli, NEW f \in Files(a), NEW i \in Nat, i < Inserts(a, f)
  PROVE  /\ RowsInInsert(a, f, i) \in Nat
         /\ RowsBefore(a, f, i) \in Nat
         /\ RowsBefore(a, f, i + 1) = RowsBefore(a, f, i) + RowsInInsert(a, f, i)
         /\ RowsBefore(a, f, i) + RowsInInsert(a, f, i) <= FileRows(a, f)
<1>1. /\ Inserts(a, f) \in Nat \ {0} /\ LastInsertRows(a, f) \in Nat
      /\ a.rows_count \in Nat
  BY FileTypes, RowArgsTypes
<1>2. i * a.rows_count \in Nat
  BY <1>1
<1>3. RowsInInsert(a, f, i) \in Nat /\ RowsBefore(a, f, i) = i * a.rows_count
  BY <1>1 DEF RowsInInsert, RowsBefore
<1>4. CASE i = Inserts(a, f) - 1
  <2>1. RowsInInsert(a, f, i) = LastInsertRows(a, f)
    BY <1>4 DEF RowsInInsert
  <2>2. RowsBefore(a, f, i + 1) = FileRows(a, f)
    BY <1>1, <1>4 DEF RowsBefore
  <2>3. FileRows(a, f) = i * a.rows_count + LastInsertRows(a, f)
    BY <1>4 DEF FileRows
  <2>. QED BY <1>1, <1>2, <1>3, <2>1, <2>2, <2>3
<1>5. CASE i # Inserts(a, f) - 1
  <2>1. RowsInInsert(a, f, i) = a.rows_count
    BY <1>5 DEF RowsInInsert
  <2>2. i + 1 <= Inserts(a, f) - 1
    BY <1>1, <1>5
  <2>3. RowsBefore(a, f, i + 1) = (i + 1) * a.rows_count
    BY <1>1, <2>2 DEF RowsBefore
  <2>4. (i + 1) * a.rows_count = i * a.rows_count + a.rows_count
    BY <1>1
  <2>5. (i + 1) * a.rows_count <= (Inserts(a, f) - 1) * a.rows_count
    BY <1>1, <2>2
  <2>6. (Inserts(a, f) - 1) * a.rows_count \in Nat
    BY <1>1
  <2>7. FileRows(a, f) = (Inserts(a, f) - 1) * a.rows_count + LastInsertRows(a, f)
    BY DEF FileRows
  <2>. QED BY <1>1, <1>2, <1>3, <2>1, <2>3, <2>4, <2>5, <2>6, <2>7
<1>. QED BY <1>4, <1>5

----------------------------------------------------------------------------
(* The run.                                                                *)

LEMMA CliValid == ASSUME cli \in CliSet PROVE cli \in ValidCli
BY EngineAssumption

----------------------------------------------------------------------------
(* Type correctness.                                                       *)

LEMMA TypeOKInit == Init => TypeOK
<1> SUFFICES ASSUME Init PROVE TypeOK
  OBVIOUS
<1>1. cli \in CliSet /\ cli \in ValidCli
  BY CliValid DEF Init
<1>2. \A f \in Files(cli) : FirstRow(cli, f) \in Nat
  BY <1>1, FileTypes
<1>3. progress \in Nat
  BY EngineAssumption DEF Init
<1>. QED BY <1>1, <1>2, <1>3 DEF Init, TypeOK, WorkerStates

\* The writer of a file is dropped, and its buffer flushed or lost.
Dropped(f) == Drop(f, FALSE) \/ Drop(f, TRUE)

LEMMA EndDrops ==
  ASSUME NEW f \in Files(cli), CloseFile(f) \/ AbortFile(f) PROVE Dropped(f)
BY DEF CloseFile, AbortFile, Dropped, Drop

LEMMA DropType ==
  ASSUME TypeOK, NEW f \in Files(cli), Dropped(f)
  PROVE  /\ buffered' \in [Files(cli) -> SUBSET Nat]
         /\ disk' \in [Files(cli) -> SUBSET Nat]
         /\ lost' \in [Files(cli) -> SUBSET Nat]
BY DEF TypeOK, Dropped, Drop

LEMMA TypeOKStep == TypeOK /\ [Next]_vars => TypeOK'
<1> SUFFICES ASSUME TypeOK, [Next]_vars PROVE TypeOK'
  OBVIOUS
<1> USE DEF TypeOK, WorkerStates, threads, rowVars
<1>0. cli \in ValidCli
  BY CliValid
<1>1. CASE PrepareFails
  BY <1>1 DEF PrepareFails
<1>2. CASE StartWriting
  BY <1>2 DEF StartWriting
<1>3. CASE FinishWriting
  BY <1>3 DEF FinishWriting
<1>4. CASE Return
  BY <1>4 DEF Return
<1>5. CASE CheckFinished
  BY <1>5 DEF CheckFinished
<1>6. CASE ShowProgress
  BY <1>6 DEF ShowProgress
<1>7. CASE Terminated
  BY <1>7 DEF Terminated, vars
<1>8. ASSUME NEW f \in Files(cli), WorkerStep(f) PROVE TypeOK'
  <2>1. CASE OpenFile(f)
    BY <2>1 DEF OpenFile
  <2>2. CASE SkipFile(f)
    BY <2>2 DEF SkipFile
  <2>3. CASE WriteRow(f)
    <3>1. disk' \in [Files(cli) -> SUBSET Nat] /\ buffered' \in [Files(cli) -> SUBSET Nat]
      BY <2>3 DEF WriteRow
    <3>2. row_num' \in [Files(cli) -> Nat] /\ in_insert' \in [Files(cli) -> Nat]
      BY <2>3 DEF WriteRow
    <3>. QED BY <2>3, <3>1, <3>2 DEF WriteRow
  <2>4. CASE FinishInsert(f)
    <3>1. disk' \in [Files(cli) -> SUBSET Nat] /\ buffered' \in [Files(cli) -> SUBSET Nat]
      BY <2>4 DEF FinishInsert
    <3>2. insert' \in [Files(cli) -> Nat] /\ in_insert' \in [Files(cli) -> Nat]
      BY <2>4 DEF FinishInsert
    <3>3. progress' \in Nat
      BY <2>4, <1>0, InsertsConsecutive DEF FinishInsert
    <3>. QED BY <2>4, <3>1, <3>2, <3>3 DEF FinishInsert
  <2>5. CASE CloseFile(f)
    BY <2>5, EndDrops, DropType DEF CloseFile
  <2>6. CASE AbortFile(f)
    BY <2>6, EndDrops, DropType DEF AbortFile
  <2>. QED BY <1>8, <2>1, <2>2, <2>3, <2>4, <2>5, <2>6 DEF WorkerStep
<1>9. CASE UNCHANGED vars
  BY <1>9 DEF vars
<1>. QED BY <1>1, <1>2, <1>3, <1>4, <1>5, <1>6, <1>7, <1>8, <1>9
         DEF Next, MainStep, BarStep

\* Every variable keeps its type, whatever the interleaving of the main thread,
\* the workers and the progress thread.
THEOREM TypeCorrect == Spec => []TypeOK
<1>. QED BY TypeOKInit, TypeOKStep, PTL DEF Spec

----------------------------------------------------------------------------
(* The inductive invariant.  RowsAccounted alone is not inductive: that a  *)
(* worker stays within its slice follows from how far it has come, and     *)
(* that Ok means all files are complete from how the threads join.         *)

\* Where the worker of a file stands.
WorkerInv ==
  \A f \in Files(cli) :
    /\ insert[f] <= Inserts(cli, f)
    /\ insert[f] < Inserts(cli, f) => in_insert[f] <= RowsInInsert(cli, f, insert[f])
    /\ insert[f] = Inserts(cli, f) => in_insert[f] = 0
    /\ row_num[f] = FirstRow(cli, f) + RowsBefore(cli, f, insert[f]) + in_insert[f]
    /\ worker[f] = "ok" => insert[f] = Inserts(cli, f)

\* How the main thread and the workers stand to each other.
JoinInv ==
  /\ result # "none" => main = "done"
  /\ main = "joining" => \A f \in Files(cli) : Ended(f)
  /\ result = "ok" => \A f \in Files(cli) : worker[f] = "ok"
  /\ \A f \in Files(cli) : /\ worker[f] = "writing" => main = "writing"
                           /\ worker[f] = "skipped" => \E g \in Files(cli) : worker[g] = "failed"

IInv == TypeOK /\ WorkerInv /\ RowsAccounted /\ JoinInv

LEMMA IInvInit == Init => IInv
<1> SUFFICES ASSUME Init PROVE IInv
  OBVIOUS
<1>1. TypeOK
  BY TypeOKInit
<1>2. cli \in ValidCli
  BY CliValid DEF Init
<1>3. ASSUME NEW f \in Files(cli)
      PROVE  /\ Inserts(cli, f) \in Nat \ {0} /\ FirstRow(cli, f) \in Nat
             /\ RowsInInsert(cli, f, 0) \in Nat
             /\ RowsBefore(cli, f, 0) = 0
  BY <1>2, <1>3, FileTypes, RowArgsTypes, InsertsConsecutive DEF RowsBefore
<1>4. WorkerInv
  BY <1>3 DEF WorkerInv, Init
<1>5. RowsAccounted
  BY <1>3 DEF RowsAccounted, Written, Init
<1>6. JoinInv
  BY DEF JoinInv, Init
<1>. QED BY <1>1, <1>4, <1>5, <1>6 DEF IInv

\* Moving the buffer's rows to the disk, or losing them, accounts for each.
LEMMA DropAccounts ==
  ASSUME TypeOK, RowsAccounted, NEW f \in Files(cli), Dropped(f),
         UNCHANGED <<cli, row_num>>
  PROVE  RowsAccounted'
<1> SUFFICES ASSUME NEW g \in Files(cli)
             PROVE  /\ Written(g)' = FirstRow(cli, g)..(row_num[g] - 1)
                    /\ (buffered[g] \cap disk[g])' = {}
                    /\ (buffered[g] \cap lost[g])' = {}
                    /\ (disk[g] \cap lost[g])' = {}
  BY DEF RowsAccounted
<1>1. /\ Written(g) = FirstRow(cli, g)..(row_num[g] - 1)
      /\ buffered[g] \cap disk[g] = {} /\ buffered[g] \cap lost[g] = {}
      /\ disk[g] \cap lost[g] = {}
  BY DEF RowsAccounted
<1>2. CASE g # f
  BY <1>1, <1>2 DEF TypeOK, Dropped, Drop, Written
<1>3. CASE g = f
  BY <1>1, <1>3 DEF TypeOK, Dropped, Drop, Written
<1>. QED BY <1>2, <1>3

\* The worker invariants where a step leaves the rows of every file alone.
LEMMA RowsUntouched ==
  ASSUME RowsAccounted, WorkerInv, UNCHANGED <<cli, rowVars>>,
         \A f \in Files(cli) : worker'[f] = "ok" => worker[f] = "ok"
  PROVE  RowsAccounted' /\ WorkerInv'
BY DEF RowsAccounted, WorkerInv, rowVars, Written

LEMMA WriteRowStep ==
  ASSUME IInv, NEW f \in Files(cli), WriteRow(f)
  PROVE  RowsAccounted' /\ WorkerInv'
<1>0. cli \in ValidCli
  BY CliValid DEF IInv, TypeOK
<1>1. /\ cli' = cli /\ worker' = worker /\ insert' = insert /\ lost' = lost
      /\ row_num' = [row_num EXCEPT ![f] = @ + 1]
      /\ in_insert' = [in_insert EXCEPT ![f] = @ + 1]
      /\ insert[f] < Inserts(cli, f)
      /\ in_insert[f] < RowsInInsert(cli, f, insert[f])
  BY DEF WriteRow
<1>2. /\ FirstRow(cli, f) \in Nat /\ RowsBefore(cli, f, insert[f]) \in Nat
      /\ RowsInInsert(cli, f, insert[f]) \in Nat /\ Inserts(cli, f) \in Nat
      /\ in_insert[f] \in Nat /\ insert[f] \in Nat /\ row_num[f] \in Nat
      /\ FirstRow(cli, f) <= row_num[f]
  <2>1. in_insert[f] \in Nat /\ insert[f] \in Nat /\ row_num[f] \in Nat
    BY DEF IInv, TypeOK
  <2>2. /\ FirstRow(cli, f) \in Nat /\ RowsBefore(cli, f, insert[f]) \in Nat
        /\ RowsInInsert(cli, f, insert[f]) \in Nat /\ Inserts(cli, f) \in Nat
    BY <1>0, <1>1, <2>1, FileTypes, InsertsConsecutive
  <2>3. row_num[f] = FirstRow(cli, f) + RowsBefore(cli, f, insert[f]) + in_insert[f]
    BY DEF IInv, WorkerInv
  <2>. QED BY <2>1, <2>2, <2>3
<1>3. WorkerInv'
  <2> SUFFICES ASSUME NEW g \in Files(cli)
               PROVE  /\ insert[g] <= Inserts(cli, g)
                      /\ insert[g] < Inserts(cli, g) =>
                           in_insert'[g] <= RowsInInsert(cli, g, insert[g])
                      /\ insert[g] = Inserts(cli, g) => in_insert'[g] = 0
                      /\ row_num'[g] = FirstRow(cli, g) + RowsBefore(cli, g, insert[g])
                                         + in_insert'[g]
                      /\ worker[g] = "ok" => insert[g] = Inserts(cli, g)
    BY <1>1 DEF WorkerInv
  <2>1. CASE g = f
    BY <1>1, <1>2, <2>1 DEF IInv, TypeOK, WorkerInv
  <2>2. CASE g # f
    BY <1>1, <2>2 DEF IInv, TypeOK, WorkerInv
  <2>. QED BY <2>1, <2>2
<1>4. RowsAccounted'
  <2> SUFFICES ASSUME NEW g \in Files(cli)
               PROVE  /\ buffered'[g] \cup disk'[g] \cup lost[g]
                           = FirstRow(cli, g)..(row_num'[g] - 1)
                      /\ buffered'[g] \cap disk'[g] = {}
                      /\ buffered'[g] \cap lost[g] = {}
                      /\ disk'[g] \cap lost[g] = {}
    BY <1>1 DEF RowsAccounted, Written
  <2>1. /\ Written(g) = FirstRow(cli, g)..(row_num[g] - 1)
        /\ buffered[g] \cap disk[g] = {} /\ buffered[g] \cap lost[g] = {}
        /\ disk[g] \cap lost[g] = {}
    BY DEF IInv, RowsAccounted
  <2>2. CASE g # f
    BY <1>1, <2>1, <2>2 DEF IInv, TypeOK, WriteRow, Written
  <2>3. CASE g = f
    <3>1. row_num[f] \notin Written(f)
      BY <1>2, <2>1, <2>3
    <3>2. FirstRow(cli, f)..(row_num'[f] - 1) = Written(f) \cup {row_num[f]}
      BY <1>1, <1>2, <2>1, <2>3 DEF IInv, TypeOK
    <3>3. \/ /\ disk'[f] = disk[f] \cup buffered[f]
             /\ buffered'[f] = {row_num[f]}
          \/ /\ disk'[f] = disk[f]
             /\ buffered'[f] = buffered[f] \cup {row_num[f]}
      BY DEF IInv, TypeOK, WriteRow
    <3>. QED BY <1>1, <2>1, <2>3, <3>1, <3>2, <3>3 DEF Written
  <2>. QED BY <2>2, <2>3
<1>. QED BY <1>3, <1>4

LEMMA FinishInsertStep ==
  ASSUME IInv, NEW f \in Files(cli), FinishInsert(f)
  PROVE  RowsAccounted' /\ WorkerInv'
<1>0. cli \in ValidCli
  BY CliValid DEF IInv, TypeOK
<1>1. /\ cli' = cli /\ worker' = worker /\ row_num' = row_num /\ lost' = lost
      /\ insert' = [insert EXCEPT ![f] = @ + 1]
      /\ in_insert' = [in_insert EXCEPT ![f] = 0]
      /\ insert[f] < Inserts(cli, f)
      /\ in_insert[f] = RowsInInsert(cli, f, insert[f])
      /\ worker[f] = "writing"
  BY DEF FinishInsert, threads
<1>2. /\ FirstRow(cli, f) \in Nat /\ RowsBefore(cli, f, insert[f]) \in Nat
      /\ RowsInInsert(cli, f, insert[f]) \in Nat /\ Inserts(cli, f) \in Nat
      /\ insert[f] \in Nat
      /\ RowsBefore(cli, f, insert[f] + 1)
           = RowsBefore(cli, f, insert[f]) + RowsInInsert(cli, f, insert[f])
  BY <1>0, <1>1, FileTypes, InsertsConsecutive DEF IInv, TypeOK
<1>3. insert[f] + 1 < Inserts(cli, f) => RowsInInsert(cli, f, insert[f] + 1) \in Nat
  BY <1>0, <1>2, InsertsConsecutive
<1>4. WorkerInv'
  <2> SUFFICES ASSUME NEW g \in Files(cli)
               PROVE  /\ insert'[g] <= Inserts(cli, g)
                      /\ insert'[g] < Inserts(cli, g) =>
                           in_insert'[g] <= RowsInInsert(cli, g, insert'[g])
                      /\ insert'[g] = Inserts(cli, g) => in_insert'[g] = 0
                      /\ row_num[g] = FirstRow(cli, g) + RowsBefore(cli, g, insert'[g])
                                         + in_insert'[g]
                      /\ worker[g] = "ok" => insert'[g] = Inserts(cli, g)
    BY <1>1 DEF WorkerInv
  <2>1. CASE g = f
    <3>1. insert'[g] = insert[f] + 1 /\ in_insert'[g] = 0
      BY <1>1, <2>1 DEF IInv, TypeOK
    <3>2. row_num[f] = FirstRow(cli, f) + RowsBefore(cli, f, insert[f]) + in_insert[f]
      BY DEF IInv, WorkerInv
    <3>. QED BY <1>1, <1>2, <1>3, <2>1, <3>1, <3>2
  <2>2. CASE g # f
    BY <1>1, <2>2 DEF IInv, TypeOK, WorkerInv
  <2>. QED BY <2>1, <2>2
<1>5. RowsAccounted'
  <2> SUFFICES ASSUME NEW g \in Files(cli)
               PROVE  /\ buffered'[g] \cup disk'[g] \cup lost[g]
                           = FirstRow(cli, g)..(row_num[g] - 1)
                      /\ buffered'[g] \cap disk'[g] = {}
                      /\ buffered'[g] \cap lost[g] = {}
                      /\ disk'[g] \cap lost[g] = {}
    BY <1>1 DEF RowsAccounted, Written
  <2>1. /\ Written(g) = FirstRow(cli, g)..(row_num[g] - 1)
        /\ buffered[g] \cap disk[g] = {} /\ buffered[g] \cap lost[g] = {}
        /\ disk[g] \cap lost[g] = {}
    BY DEF IInv, RowsAccounted
  <2>2. \/ disk'[g] = disk[g] \cup buffered[g] /\ buffered'[g] = {}
        \/ disk'[g] = disk[g] /\ buffered'[g] = buffered[g]
    BY DEF IInv, TypeOK, FinishInsert
  <2>. QED BY <2>1, <2>2 DEF Written
<1>. QED BY <1>4, <1>5

\* Closing or aborting a file: its writer is dropped where its worker stands.
LEMMA EndFileStep ==
  ASSUME IInv, NEW f \in Files(cli), CloseFile(f) \/ AbortFile(f)
  PROVE  RowsAccounted' /\ WorkerInv'
<1>1. /\ UNCHANGED <<cli, insert, in_insert, row_num>>
      /\ Dropped(f)
      /\ \/ insert[f] = Inserts(cli, f) /\ worker' = [worker EXCEPT ![f] = "ok"]
         \/ worker' = [worker EXCEPT ![f] = "failed"]
  BY EndDrops DEF CloseFile, AbortFile
<1>2. RowsAccounted'
  BY <1>1, DropAccounts DEF IInv
<1>3. \A g \in Files(cli) : worker'[g] = "ok" => insert[g] = Inserts(cli, g)
  BY <1>1 DEF IInv, TypeOK, WorkerInv
<1>4. WorkerInv'
  BY <1>1, <1>3 DEF IInv, WorkerInv
<1>. QED BY <1>2, <1>4

LEMMA RowsStep == IInv /\ [Next]_vars => RowsAccounted' /\ WorkerInv'
<1> SUFFICES ASSUME IInv, [Next]_vars PROVE RowsAccounted' /\ WorkerInv'
  OBVIOUS
<1>1. CASE MainStep \/ BarStep \/ Terminated \/ UNCHANGED vars
  <2>1. UNCHANGED <<cli, rowVars>> /\ worker' = worker
    BY <1>1 DEF MainStep, BarStep, Terminated, vars, rowVars, PrepareFails,
                StartWriting, FinishWriting, Return, CheckFinished, ShowProgress
  <2>. QED BY <2>1, RowsUntouched DEF IInv
<1>2. ASSUME NEW f \in Files(cli), WorkerStep(f)
      PROVE  RowsAccounted' /\ WorkerInv'
  <2>1. CASE OpenFile(f) \/ SkipFile(f)
    <3>1. /\ UNCHANGED <<cli, rowVars>>
          /\ \/ worker' = [worker EXCEPT ![f] = "writing"]
             \/ worker' = [worker EXCEPT ![f] = "failed"]
             \/ worker' = [worker EXCEPT ![f] = "skipped"]
      BY <2>1 DEF OpenFile, SkipFile
    <3>2. \A g \in Files(cli) : worker'[g] = "ok" => worker[g] = "ok"
      BY <3>1 DEF IInv, TypeOK
    <3>. QED BY <3>1, <3>2, RowsUntouched DEF IInv
  <2>2. CASE WriteRow(f)
    BY <2>2, WriteRowStep
  <2>3. CASE FinishInsert(f)
    BY <2>3, FinishInsertStep
  <2>4. CASE CloseFile(f) \/ AbortFile(f)
    BY <2>4, EndFileStep
  <2>. QED BY <1>2, <2>1, <2>2, <2>3, <2>4 DEF WorkerStep
<1>. QED BY <1>1, <1>2 DEF Next

LEMMA JoinInvStep == IInv /\ [Next]_vars => JoinInv'
<1> SUFFICES ASSUME IInv, [Next]_vars PROVE JoinInv'
  OBVIOUS
<1> USE DEF IInv, TypeOK, JoinInv
<1>1. CASE PrepareFails
  BY <1>1 DEF PrepareFails
<1>2. CASE StartWriting
  BY <1>2 DEF StartWriting
<1>3. CASE FinishWriting
  BY <1>3 DEF FinishWriting, Ended
<1>4. CASE Return
  <2>1. \A f \in Files(cli) : worker[f] \in {"ok", "failed", "skipped"}
    BY <1>4 DEF Return, Ended
  <2>2. result' = "ok" => \A f \in Files(cli) : worker[f] = "ok"
    BY <1>4, <2>1 DEF Return, Failed
  <2>. QED BY <1>4, <2>1, <2>2 DEF Return
<1>5. CASE BarStep \/ Terminated \/ UNCHANGED vars
  <2>1. UNCHANGED <<cli, main, result, worker>>
    BY <1>5 DEF BarStep, Terminated, vars, CheckFinished, ShowProgress
  <2>. QED BY <2>1 DEF Ended
<1>6. ASSUME NEW f \in Files(cli), WorkerStep(f) PROVE JoinInv'
  <2>1. /\ UNCHANGED <<cli, main, result>>
        /\ worker[f] \in {"pending", "writing"} /\ main = "writing"
    BY <1>6 DEF WorkerStep, OpenFile, SkipFile, WriteRow, FinishInsert, CloseFile,
                AbortFile, threads
  <2>2. CASE OpenFile(f)
    BY <2>1, <2>2 DEF OpenFile
  <2>3. CASE SkipFile(f)
    <3>1. \E g \in Files(cli) : worker[g] = "failed"
      BY <2>3 DEF SkipFile, Failed
    <3>2. \E g \in Files(cli) : worker'[g] = "failed"
      BY <2>1, <2>3, <3>1 DEF SkipFile
    <3>. QED BY <2>1, <2>3, <3>2 DEF SkipFile
  <2>4. CASE WriteRow(f) \/ FinishInsert(f)
    <3>1. worker' = worker
      BY <2>4 DEF WriteRow, FinishInsert
    <3>. QED BY <2>1, <3>1
  <2>5. CASE CloseFile(f) \/ AbortFile(f)
    <3>1. \E s \in {"ok", "failed"} : worker' = [worker EXCEPT ![f] = s]
      BY <2>5 DEF CloseFile, AbortFile
    <3>2. worker[f] = "writing"
      BY <2>5 DEF CloseFile, AbortFile
    <3>. QED BY <2>1, <3>1, <3>2
  <2>. QED BY <1>6, <2>2, <2>3, <2>4, <2>5 DEF WorkerStep
<1>. QED BY <1>1, <1>2, <1>3, <1>4, <1>5, <1>6 DEF Next, MainStep

\* The inductive invariant holds in every reachable state.
THEOREM Invariance == Spec => []IInv
<1>1. IInv /\ [Next]_vars => IInv'
  BY TypeOKStep, RowsStep, JoinInvStep DEF IInv
<1>. QED BY IInvInit, <1>1, PTL DEF Spec

----------------------------------------------------------------------------
(* What follows from the invariant.                                        *)

\* The rows a file has written lie in its slice.
LEMMA WrittenInSlice ==
  ASSUME IInv, NEW f \in Files(cli)
  PROVE  /\ FirstRow(cli, f) \in Nat /\ FileRows(cli, f) \in Nat
         /\ row_num[f] <= FirstRow(cli, f) + FileRows(cli, f)
         /\ Written(f) = FirstRow(cli, f)..(row_num[f] - 1)
         /\ worker[f] = "ok" => row_num[f] = FirstRow(cli, f) + FileRows(cli, f)
<1>1. cli \in ValidCli
  BY CliValid DEF IInv, TypeOK
<1>2. /\ FirstRow(cli, f) \in Nat /\ FileRows(cli, f) \in Nat
      /\ Inserts(cli, f) \in Nat
      /\ insert[f] \in Nat /\ in_insert[f] \in Nat
  BY <1>1, FileTypes DEF IInv, TypeOK
<1>3. row_num[f] = FirstRow(cli, f) + RowsBefore(cli, f, insert[f]) + in_insert[f]
  BY DEF IInv, WorkerInv
<1>4. CASE insert[f] < Inserts(cli, f)
  <2>1. in_insert[f] <= RowsInInsert(cli, f, insert[f])
    BY <1>4 DEF IInv, WorkerInv
  <2>2. /\ RowsInInsert(cli, f, insert[f]) \in Nat
        /\ RowsBefore(cli, f, insert[f]) \in Nat
        /\ RowsBefore(cli, f, insert[f]) + RowsInInsert(cli, f, insert[f]) <= FileRows(cli, f)
    BY <1>1, <1>2, <1>4, InsertsConsecutive
  <2>3. worker[f] # "ok"
    BY <1>2, <1>4 DEF IInv, WorkerInv
  <2>4. row_num[f] <= FirstRow(cli, f) + FileRows(cli, f)
    BY <1>2, <1>3, <2>1, <2>2
  <2>. QED BY <1>2, <2>3, <2>4 DEF IInv, RowsAccounted
<1>5. CASE insert[f] = Inserts(cli, f)
  <2>1. in_insert[f] = 0 /\ RowsBefore(cli, f, insert[f]) = FileRows(cli, f)
    BY <1>2, <1>5 DEF IInv, WorkerInv, RowsBefore
  <2>. QED BY <1>2, <1>3, <2>1 DEF IInv, RowsAccounted
<1>6. insert[f] <= Inserts(cli, f)
  BY DEF IInv, WorkerInv
<1>. QED BY <1>2, <1>4, <1>5, <1>6

LEMMA InvDisjoint == IInv => FilesDisjoint
<1> SUFFICES ASSUME IInv, NEW f \in Files(cli), NEW g \in Files(cli), f # g
             PROVE  Written(f) \cap Written(g) = {}
  BY DEF FilesDisjoint
<1>1. cli \in ValidCli
  BY CliValid DEF IInv, TypeOK
<1>2. f \in Nat /\ g \in Nat /\ row_num[f] \in Nat /\ row_num[g] \in Nat
  BY <1>1, FileTypes DEF IInv, TypeOK
<1>3. f < g \/ g < f
  BY <1>2
<1>4. CASE f < g
  BY <1>1, <1>2, <1>4, FilesApart, WrittenInSlice
<1>5. CASE g < f
  BY <1>1, <1>2, <1>5, FilesApart, WrittenInSlice
<1>. QED BY <1>3, <1>4, <1>5

\* When every worker has ended well, the slices together are 1..total_count.
LEMMA AllOkComplete ==
  ASSUME IInv, \A f \in Files(cli) : worker[f] = "ok"
  PROVE  AllWritten = 1..TotalCount(cli)
<1>1. cli \in ValidCli
  BY CliValid DEF IInv, TypeOK
<1>2. \A f \in Files(cli) :
        Written(f) = FirstRow(cli, f)..(FirstRow(cli, f) + FileRows(cli, f) - 1)
  BY WrittenInSlice
<1>3. ASSUME NEW n \in AllWritten PROVE n \in 1..TotalCount(cli)
  <2>1. PICK f \in Files(cli) : n \in Written(f)
    BY DEF AllWritten
  <2>2. /\ FirstRow(cli, f) + FileRows(cli, f) <= TotalCount(cli) + 1
        /\ FirstRow(cli, f) \in Nat \ {0} /\ FileRows(cli, f) \in Nat
        /\ TotalCount(cli) \in Nat
    BY <1>1, FilesApart, FileTypes, TotalCountExact
  <2>. QED BY <1>2, <2>1, <2>2
<1>4. ASSUME NEW n \in 1..TotalCount(cli) PROVE n \in AllWritten
  <2>1. PICK f \in Files(cli) :
          n \in FirstRow(cli, f)..(FirstRow(cli, f) + FileRows(cli, f) - 1)
    BY <1>1, FilesCover
  <2>. QED BY <1>2, <2>1 DEF AllWritten
<1>. QED BY <1>3, <1>4

LEMMA InvComplete == IInv => OkMeansComplete
BY AllOkComplete DEF IInv, JoinInv, OkMeansComplete

\* Each row a file has generated is in exactly one place, and they are
\* consecutive, whatever faults the file system has.
THEOREM RowsAreAccounted == Spec => []RowsAccounted
<1>1. IInv => RowsAccounted
  BY DEF IInv
<1>. QED BY <1>1, Invariance, PTL

\* No two files ever hold the same row, for every accepted command line.
THEOREM FilesAreDisjoint == Spec => []FilesDisjoint
BY InvDisjoint, Invariance, PTL

\* run() returns Ok only when every row 1..total_count was generated.
THEOREM OkIsComplete == Spec => []OkMeansComplete
BY InvComplete, Invariance, PTL

----------------------------------------------------------------------------
(* The progress count.  The rows of completed INSERT statements are an     *)
(* interval of each file's slice; that of a worker grows by one INSERT, and *)
(* as the slices are apart those rows are counted for the first time.      *)

\* No worker has begun before the statics are reset.
StartInv ==
  main = "start" => \A f \in Files(cli) : worker[f] = "pending" /\ insert[f] = 0

LEMMA StartInvStep == TypeOK /\ StartInv /\ [Next]_vars => StartInv'
<1> SUFFICES ASSUME TypeOK, StartInv, [Next]_vars, main' = "start"
             PROVE  cli' = cli /\ worker' = worker /\ insert' = insert /\ main = "start"
  BY DEF StartInv
<1>1. ASSUME NEW f \in Files(cli), WorkerStep(f) PROVE FALSE
  <2>1. main = "start"
    BY <1>1 DEF WorkerStep, OpenFile, SkipFile, WriteRow, FinishInsert, CloseFile,
                AbortFile, threads
  <2>2. worker[f] = "pending"
    BY <2>1 DEF StartInv
  <2>. QED BY <1>1, <2>1, <2>2 DEF WorkerStep, OpenFile, SkipFile, WriteRow, FinishInsert,
                                   CloseFile, AbortFile
<1>2. CASE MainStep
  BY <1>2 DEF MainStep, PrepareFails, StartWriting, FinishWriting, Return
<1>3. CASE BarStep
  BY <1>3 DEF BarStep, CheckFinished, ShowProgress, rowVars
<1>4. CASE UNCHANGED vars
  BY <1>4 DEF vars
<1>. QED BY <1>1, <1>2, <1>3, <1>4 DEF Next, Terminated

\* The completed rows of a file lie in its slice.
LEMMA CompletedInSlice ==
  ASSUME IInv, NEW f \in Files(cli)
  PROVE  /\ FirstRow(cli, f) \in Nat /\ FileRows(cli, f) \in Nat
         /\ RowsBefore(cli, f, insert[f]) \in Nat
         /\ RowsBefore(cli, f, insert[f]) <= FileRows(cli, f)
<1>1. cli \in ValidCli
  BY CliValid DEF IInv, TypeOK
<1>2. /\ FirstRow(cli, f) \in Nat /\ FileRows(cli, f) \in Nat
      /\ insert[f] \in Nat /\ Inserts(cli, f) \in Nat /\ insert[f] <= Inserts(cli, f)
  BY <1>1, FileTypes DEF IInv, TypeOK, WorkerInv
<1>3. CASE insert[f] < Inserts(cli, f)
  <2>1. /\ RowsBefore(cli, f, insert[f]) \in Nat
        /\ RowsInInsert(cli, f, insert[f]) \in Nat
        /\ RowsBefore(cli, f, insert[f]) + RowsInInsert(cli, f, insert[f]) <= FileRows(cli, f)
    BY <1>1, <1>2, <1>3, InsertsConsecutive
  <2>. QED BY <1>2, <2>1
<1>4. CASE insert[f] = Inserts(cli, f)
  BY <1>2, <1>4 DEF RowsBefore
<1>. QED BY <1>2, <1>3, <1>4

LEMMA AllCompletedFinite ==
  ASSUME IInv PROVE IsFiniteSet(AllCompleted) /\ AllCompleted \subseteq Nat
<1>1. cli \in ValidCli
  BY CliValid DEF IInv, TypeOK
<1>2. TotalCount(cli) \in Nat
  BY <1>1, TotalCountExact
<1>3. ASSUME NEW n \in AllCompleted PROVE n \in 0..TotalCount(cli)
  <2>1. PICK f \in Files(cli) : n \in Completed(f)
    BY DEF AllCompleted
  <2>2. FirstRow(cli, f) + FileRows(cli, f) <= TotalCount(cli) + 1
    BY <1>1, FilesApart
  <2>. QED BY <1>2, <2>1, <2>2, CompletedInSlice DEF Completed
<1>4. IsFiniteSet(0..TotalCount(cli))
  BY <1>2, FS_Interval
<1>5. AllCompleted \in SUBSET (0..TotalCount(cli))
  BY <1>3
<1>6. IsFiniteSet(AllCompleted)
  BY <1>4, <1>5, FS_Subset
<1>. QED BY <1>2, <1>5, <1>6

\* An interval of r numbers.
LEMMA IntervalSize ==
  ASSUME NEW a \in Int, NEW b \in Int, NEW r \in Nat, b = a + r - 1
  PROVE  IsFiniteSet(a..b) /\ Cardinality(a..b) = r
<1>1. IsFiniteSet(a..b) /\ Cardinality(a..b) = IF a > b THEN 0 ELSE b - a + 1
  BY FS_Interval
<1>. QED BY <1>1

\* The rows of the INSERT that a worker completes were not counted before.
LEMMA FinishInsertCounts ==
  ASSUME IInv, NEW f \in Files(cli), FinishInsert(f)
  PROVE  Cardinality(AllCompleted)'
           = Cardinality(AllCompleted) + RowsInInsert(cli, f, insert[f])
<1> DEFINE rows  == RowsInInsert(cli, f, insert[f])
           first == FirstRow(cli, f) + RowsBefore(cli, f, insert[f])
           added == first..(first + rows - 1)
<1>1. cli \in ValidCli
  BY CliValid DEF IInv, TypeOK
<1>2. /\ cli' = cli /\ insert' = [insert EXCEPT ![f] = @ + 1]
      /\ insert[f] < Inserts(cli, f) /\ insert[f] \in Nat
      /\ insert \in [Files(cli) -> Nat]
  BY DEF FinishInsert, IInv, TypeOK
<1>3. /\ rows \in Nat /\ RowsBefore(cli, f, insert[f]) \in Nat
      /\ RowsBefore(cli, f, insert[f] + 1) = RowsBefore(cli, f, insert[f]) + rows
      /\ RowsBefore(cli, f, insert[f]) + rows <= FileRows(cli, f)
      /\ FirstRow(cli, f) \in Nat /\ FileRows(cli, f) \in Nat
  BY <1>1, <1>2, InsertsConsecutive, FileTypes
<1>4. PICK a \in Nat, b \in Nat, r \in Nat :
         a = FirstRow(cli, f) /\ b = RowsBefore(cli, f, insert[f]) /\ r = rows
  BY <1>3
<1> HIDE DEF rows
<1>5. first = a + b /\ added = (a + b)..(a + b + r - 1)
  BY <1>4
<1>6. first \in Nat /\ IsFiniteSet(added) /\ Cardinality(added) = rows
  <2>1. PICK m \in Int, n \in Int : m = a + b /\ n = a + b + r - 1
    OBVIOUS
  <2>2. n = m + r - 1
    BY <2>1
  <2>3. IsFiniteSet(m..n) /\ Cardinality(m..n) = r
    BY <2>2, IntervalSize
  <2>. QED BY <1>4, <1>5, <2>1, <2>3
<1>7. Completed(f)' = Completed(f) \cup added
  <2>1. Completed(f)' = FirstRow(cli, f)..(FirstRow(cli, f)
                                             + RowsBefore(cli, f, insert[f] + 1) - 1)
    BY <1>2 DEF Completed
  <2>2. Completed(f)' = a..(a + (b + r) - 1)
    BY <1>3, <1>4, <2>1
  <2>3. Completed(f) = a..(a + b - 1)
    BY <1>4 DEF Completed
  <2>4. a..(a + (b + r) - 1) = (a..(a + b - 1)) \cup ((a + b)..(a + b + r - 1))
    OBVIOUS
  <2> HIDE DEF added
  <2>. QED BY <1>5, <2>2, <2>3, <2>4
<1>8. \A g \in Files(cli) : g # f => Completed(g)' = Completed(g)
  BY <1>2 DEF Completed
<1>9. AllCompleted' = AllCompleted \cup added
  BY <1>2, <1>7, <1>8 DEF AllCompleted
<1>10. ASSUME NEW n \in AllCompleted, n \in added PROVE FALSE
  <2>1. PICK g \in Files(cli) : n \in Completed(g)
    BY <1>10 DEF AllCompleted
  <2>2. /\ FirstRow(cli, g) \in Nat /\ RowsBefore(cli, g, insert[g]) \in Nat
        /\ FileRows(cli, g) \in Nat
        /\ n >= FirstRow(cli, g) /\ n < FirstRow(cli, g) + RowsBefore(cli, g, insert[g])
        /\ RowsBefore(cli, g, insert[g]) <= FileRows(cli, g)
        /\ n \in Int
    BY <2>1, CompletedInSlice DEF Completed
  <2>3. f \in Nat /\ g \in Nat
    BY <1>1, FileTypes
  <2>4. n >= first /\ n < first + rows
    BY <1>3, <1>6, <1>10, <2>2
  <2>5. CASE g = f
    BY <2>2, <2>4, <2>5
  <2>6. CASE f < g
    <3>1. FirstRow(cli, f) + FileRows(cli, f) <= FirstRow(cli, g)
      BY <1>1, <2>6, FilesApart
    <3>. QED BY <1>3, <2>2, <2>4, <3>1
  <2>7. CASE g < f
    <3>1. FirstRow(cli, g) + FileRows(cli, g) <= FirstRow(cli, f)
      BY <1>1, <2>7, FilesApart
    <3>. QED BY <1>3, <2>2, <2>4, <3>1
  <2>. QED BY <2>3, <2>5, <2>6, <2>7
<1> HIDE DEF added
<1>11. AllCompleted \cap added = {}
  BY <1>10
<1>12. /\ Cardinality(AllCompleted \cup added)
            = Cardinality(AllCompleted) + Cardinality(added) - Cardinality({})
       /\ Cardinality({}) = 0
  BY <1>6, <1>11, AllCompletedFinite, FS_Union, FS_EmptySet
<1>13. Cardinality(AllCompleted) \in Nat
  BY AllCompletedFinite, FS_CardinalityType
<1>14. Cardinality(AllCompleted \cup added) = Cardinality(AllCompleted) + rows
  BY <1>3, <1>6, <1>12, <1>13
<1>. QED BY <1>9, <1>14 DEF rows

LEMMA StartCounts ==
  ASSUME IInv, StartInv, StartWriting PROVE ProgressExact'
<1>1. cli \in ValidCli
  BY CliValid DEF IInv, TypeOK
<1>2. /\ progress' = 0 /\ cli' = cli /\ insert' = insert
      /\ \A f \in Files(cli) : insert[f] = 0
  BY DEF StartInv, StartWriting, rowVars
<1>3. \A f \in Files(cli) : Completed(f) = {}
  <2> SUFFICES ASSUME NEW f \in Files(cli) PROVE Completed(f) = {}
    OBVIOUS
  <2>1. Inserts(cli, f) \in Nat \ {0} /\ FirstRow(cli, f) \in Nat /\ cli.rows_count \in Nat
    BY <1>1, FileTypes, RowArgsTypes
  <2>2. RowsBefore(cli, f, insert[f]) = 0
    BY <1>2, <2>1 DEF RowsBefore
  <2>. QED BY <2>1, <2>2 DEF Completed
<1>4. AllCompleted' = AllCompleted
  BY <1>2 DEF AllCompleted, Completed
<1>5. AllCompleted = {}
  BY <1>3 DEF AllCompleted
<1>6. Cardinality(AllCompleted)' = 0
  BY <1>4, <1>5, FS_EmptySet
<1>. QED BY <1>2, <1>6 DEF ProgressExact

LEMMA ProgressStep ==
  IInv /\ StartInv /\ ProgressExact /\ [Next]_vars => ProgressExact'
<1> SUFFICES ASSUME IInv, StartInv, ProgressExact, [Next]_vars PROVE ProgressExact'
  OBVIOUS
<1>1. ASSUME UNCHANGED <<cli, insert, progress>>,
             main' \in {"writing", "joining"} => main \in {"writing", "joining"}
      PROVE  ProgressExact'
  <2>1. AllCompleted' = AllCompleted
    BY <1>1 DEF AllCompleted, Completed
  <2>. QED BY <1>1, <2>1 DEF ProgressExact
<1>2. CASE StartWriting
  BY <1>2, StartCounts
<1>3. CASE PrepareFails \/ FinishWriting \/ Return
  BY <1>1, <1>3 DEF PrepareFails, FinishWriting, Return, rowVars
<1>4. CASE BarStep
  BY <1>1, <1>4 DEF BarStep, CheckFinished, ShowProgress, rowVars
<1>5. ASSUME NEW f \in Files(cli), WorkerStep(f) PROVE ProgressExact'
  <2>1. CASE OpenFile(f) \/ SkipFile(f) \/ WriteRow(f) \/ CloseFile(f) \/ AbortFile(f)
    BY <1>1, <2>1 DEF OpenFile, SkipFile, WriteRow, CloseFile, AbortFile, threads, rowVars
  <2>2. CASE FinishInsert(f)
    <3>1. main' = main /\ progress' = progress + RowsInInsert(cli, f, insert[f])
      BY <2>2 DEF FinishInsert, threads
    <3>2. Cardinality(AllCompleted)'
            = Cardinality(AllCompleted) + RowsInInsert(cli, f, insert[f])
      BY <2>2, FinishInsertCounts
    <3>. QED BY <3>1, <3>2 DEF ProgressExact
  <2>. QED BY <1>5, <2>1, <2>2 DEF WorkerStep
<1>6. CASE UNCHANGED vars
  BY <1>1, <1>6 DEF vars
<1>. QED BY <1>2, <1>3, <1>4, <1>5, <1>6 DEF Next, MainStep, Terminated

\* While the pool works, and until run() returns, WRITE_PROGRESS is the number
\* of rows in completed INSERT statements, whatever the order of the workers.
THEOREM ProgressIsExact == Spec => []ProgressExact
<1>1. Init => StartInv /\ ProgressExact
  BY DEF Init, StartInv, ProgressExact
<1>2. IInv /\ StartInv /\ ProgressExact /\ [Next]_vars => (StartInv /\ ProgressExact)'
  BY StartInvStep, ProgressStep DEF IInv
<1>. QED BY <1>1, <1>2, Invariance, PTL DEF Spec

----------------------------------------------------------------------------
(* Durability, where a dropped writer can flush its buffer.                *)

\* A file that is done has nothing in its buffer, and only a failed one has
\* lost rows.
DropInv ==
  \A f \in Files(cli) : /\ worker[f] = "ok" => buffered[f] = {}
                        /\ lost[f] # {} => worker[f] = "failed"

LEMMA DropInvStep ==
  ASSUME "drop" \notin Faults
  PROVE  TypeOK /\ DropInv /\ [Next]_vars => DropInv'
<1> SUFFICES ASSUME TypeOK, DropInv, [Next]_vars PROVE DropInv'
  OBVIOUS
<1>1. CASE MainStep \/ BarStep \/ Terminated \/ UNCHANGED vars
  <2>1. UNCHANGED <<cli, worker, buffered, lost>>
    BY <1>1 DEF MainStep, BarStep, Terminated, vars, rowVars, PrepareFails,
                StartWriting, FinishWriting, Return, CheckFinished, ShowProgress
  <2>. QED BY <2>1 DEF DropInv
<1>2. ASSUME NEW f \in Files(cli), WorkerStep(f) PROVE DropInv'
  <2> SUFFICES ASSUME NEW g \in Files(cli)
               PROVE  /\ worker'[g] = "ok" => buffered'[g] = {}
                      /\ lost'[g] # {} => worker'[g] = "failed"
    BY <1>2 DEF DropInv, WorkerStep, OpenFile, SkipFile, WriteRow, FinishInsert,
                CloseFile, AbortFile
  <2> USE DEF TypeOK, DropInv
  <2>1. CASE OpenFile(f)
    BY <2>1 DEF OpenFile, rowVars
  <2>2. CASE SkipFile(f)
    BY <2>2 DEF SkipFile, rowVars
  <2>3. CASE WriteRow(f)
    <3>1. g # f => buffered'[g] = buffered[g]
      BY <2>3 DEF WriteRow
    <3>. QED BY <2>3, <3>1 DEF WriteRow
  <2>4. CASE FinishInsert(f)
    <3>1. g # f => buffered'[g] = buffered[g]
      BY <2>4 DEF FinishInsert
    <3>. QED BY <2>4, <3>1 DEF FinishInsert
  <2>5. CASE CloseFile(f)
    <3>1. lost' = lost /\ buffered' = [buffered EXCEPT ![f] = {}]
      BY <2>5 DEF CloseFile, Drop
    <3>. QED BY <2>5, <3>1 DEF CloseFile
  <2>6. CASE AbortFile(f)
    <3>1. /\ lost' = lost \/ lost' = [lost EXCEPT ![f] = @ \cup buffered[f]]
          /\ buffered' = [buffered EXCEPT ![f] = {}]
      BY <2>6 DEF AbortFile, Drop
    <3>. QED BY <2>6, <3>1 DEF AbortFile
  <2>. QED BY <1>2, <2>1, <2>2, <2>3, <2>4, <2>5, <2>6 DEF WorkerStep
<1>. QED BY <1>1, <1>2 DEF Next

\* run() returns Ok only when every row is on the disk, unless the flush of a
\* dropped BufWriter may fail, which no error reports.
THEOREM OkIsDurable ==
  ASSUME "drop" \notin Faults
  PROVE  Spec => []OkMeansDurable
<1>1. Init => DropInv
  BY DEF Init, DropInv
<1>2. IInv /\ DropInv => OkMeansDurable
  <2> SUFFICES ASSUME IInv, DropInv, result = "ok" PROVE AllOnDisk = 1..TotalCount(cli)
    BY DEF OkMeansDurable
  <2>1. \A f \in Files(cli) : worker[f] = "ok"
    BY DEF IInv, JoinInv
  <2>2. \A f \in Files(cli) : Written(f) = disk[f]
    BY <2>1 DEF DropInv, Written
  <2>3. AllOnDisk = AllWritten
    BY <2>2 DEF AllOnDisk, AllWritten
  <2>. QED BY <2>1, <2>3, AllOkComplete
<1>. QED BY <1>1, <1>2, DropInvStep, TypeCorrect, Invariance, PTL DEF Spec

----------------------------------------------------------------------------
(* Refinement: the run implements GenerationJob.                           *)

LEMMA JobInitRefined == Init => Job!JobInit
<1> SUFFICES ASSUME Init PROVE Job!JobInit
  OBVIOUS
<1>1. TotalCount(cli) \in Nat
  BY CliValid, TotalCountExact DEF Init
<1>2. AllWritten = {}
  BY DEF Init, AllWritten, Written
<1>. QED BY <1>1, <1>2 DEF Job!JobInit, Init

\* A step that moves rows without writing one leaves the abstract rows alone.
LEMMA WrittenUnchanged ==
  ASSUME cli' = cli, \A f \in Files(cli) : Written(f)' = Written(f)
  PROVE  AllWritten' = AllWritten
BY DEF AllWritten

LEMMA WriteRowEmits ==
  ASSUME IInv, NEW f \in Files(cli), WriteRow(f)
  PROVE  /\ row_num[f] \in (1..TotalCount(cli)) \ AllWritten
         /\ AllWritten' = AllWritten \cup {row_num[f]}
<1>1. cli \in ValidCli
  BY CliValid DEF IInv, TypeOK
<1>2. /\ FirstRow(cli, f) \in Nat \ {0} /\ FileRows(cli, f) \in Nat
      /\ FirstRow(cli, f) + FileRows(cli, f) <= TotalCount(cli) + 1
      /\ TotalCount(cli) \in Nat /\ f \in Nat
  BY <1>1, FileTypes, FilesApart, TotalCountExact
<1>3. /\ insert[f] \in Nat /\ in_insert[f] \in Nat /\ row_num[f] \in Nat
      /\ insert[f] < Inserts(cli, f)
      /\ in_insert[f] < RowsInInsert(cli, f, insert[f])
      /\ row_num[f] = FirstRow(cli, f) + RowsBefore(cli, f, insert[f]) + in_insert[f]
  BY DEF IInv, TypeOK, WorkerInv, WriteRow
<1>4. /\ RowsInInsert(cli, f, insert[f]) \in Nat
      /\ RowsBefore(cli, f, insert[f]) \in Nat
      /\ RowsBefore(cli, f, insert[f]) + RowsInInsert(cli, f, insert[f]) <= FileRows(cli, f)
  BY <1>1, <1>3, InsertsConsecutive
<1>5. FirstRow(cli, f) <= row_num[f] /\ row_num[f] < FirstRow(cli, f) + FileRows(cli, f)
  BY <1>2, <1>3, <1>4
<1>6. ASSUME NEW g \in Files(cli) PROVE row_num[f] \notin Written(g)
  <2>1. /\ Written(g) = FirstRow(cli, g)..(row_num[g] - 1)
        /\ row_num[g] <= FirstRow(cli, g) + FileRows(cli, g)
        /\ g \in Nat /\ row_num[g] \in Nat
        /\ FirstRow(cli, g) \in Nat /\ FileRows(cli, g) \in Nat
    BY <1>1, WrittenInSlice, FileTypes DEF IInv, TypeOK
  <2>2. CASE g = f
    BY <1>3, <2>1, <2>2
  <2>3. CASE f < g
    <3>1. FirstRow(cli, f) + FileRows(cli, f) <= FirstRow(cli, g)
      BY <1>1, <2>3, FilesApart
    <3>. QED BY <1>2, <1>3, <1>5, <2>1, <3>1
  <2>4. CASE g < f
    <3>1. FirstRow(cli, g) + FileRows(cli, g) <= FirstRow(cli, f)
      BY <1>1, <2>4, FilesApart
    <3>. QED BY <1>2, <1>3, <1>5, <2>1, <3>1
  <2>. QED BY <1>2, <2>1, <2>2, <2>3, <2>4
<1>7. row_num[f] \in (1..TotalCount(cli)) \ AllWritten
  BY <1>2, <1>3, <1>5, <1>6 DEF AllWritten
<1>8. /\ cli' = cli /\ Written(f)' = Written(f) \cup {row_num[f]}
      /\ \A g \in Files(cli) : g # f => Written(g)' = Written(g)
  BY DEF IInv, TypeOK, WriteRow, Written
<1>9. AllWritten' = AllWritten \cup {row_num[f]}
  BY <1>8 DEF AllWritten
<1>. QED BY <1>7, <1>9

LEMMA DropKeepsWritten ==
  ASSUME TypeOK, NEW f \in Files(cli), Dropped(f), NEW g \in Files(cli)
  PROVE  Written(g)' = Written(g)
<1>1. CASE g = f
  BY <1>1 DEF TypeOK, Dropped, Drop, Written
<1>2. CASE g # f
  BY <1>2 DEF TypeOK, Dropped, Drop, Written
<1>. QED BY <1>1, <1>2

LEMMA JobStepRefined == IInv /\ [Next]_vars => [Job!JobNext]_(Job!jobVars)
<1> SUFFICES ASSUME IInv, [Next]_vars
             PROVE  Job!JobNext \/ UNCHANGED <<TotalCount(cli), AllWritten, result>>
  BY DEF Job!jobVars
<1> USE DEF IInv
<1>1. CASE PrepareFails
  <2>1. Job!Fail
    BY <1>1 DEF PrepareFails, rowVars, Job!Fail, JoinInv, AllWritten, Written
  <2>. QED BY <2>1 DEF Job!JobNext
<1>2. CASE StartWriting \/ FinishWriting \/ BarStep \/ Terminated \/ UNCHANGED vars
  <2>1. UNCHANGED <<cli, result, buffered, disk, lost>>
    BY <1>2 DEF StartWriting, FinishWriting, BarStep, CheckFinished, ShowProgress,
                Terminated, vars, rowVars
  <2>. QED BY <2>1 DEF AllWritten, Written
<1>3. CASE Return
  <2>1. UNCHANGED <<cli, buffered, disk, lost>> /\ result = "none"
    BY <1>3 DEF Return, rowVars, JoinInv
  <2>2. AllWritten' = AllWritten
    BY <2>1 DEF AllWritten, Written
  <2>3. CASE Failed = {}
    <3>1. result' = "ok"
      BY <1>3, <2>3 DEF Return
    <3>2. \A f \in Files(cli) : worker[f] = "ok"
      BY <1>3, <2>3 DEF Return, JoinInv, Ended, Failed
    <3>3. AllWritten = 1..TotalCount(cli)
      BY <3>2, AllOkComplete
    <3>. QED BY <2>1, <2>2, <3>1, <3>3 DEF Job!JobNext, Job!Succeed
  <2>4. CASE Failed # {}
    <3>1. result' = "err"
      BY <1>3, <2>4 DEF Return
    <3>. QED BY <2>1, <2>2, <3>1 DEF Job!JobNext, Job!Fail
  <2>. QED BY <2>3, <2>4
<1>4. ASSUME NEW f \in Files(cli), WorkerStep(f)
      PROVE  Job!JobNext \/ UNCHANGED <<TotalCount(cli), AllWritten, result>>
  <2>1. cli' = cli /\ result' = result
    BY <1>4 DEF WorkerStep, OpenFile, SkipFile, WriteRow, FinishInsert, CloseFile,
                AbortFile, threads
  <2>2. CASE OpenFile(f) \/ SkipFile(f)
    <3>1. UNCHANGED <<buffered, disk, lost>>
      BY <2>2 DEF OpenFile, SkipFile, rowVars
    <3>. QED BY <2>1, <3>1 DEF AllWritten, Written
  <2>3. CASE WriteRow(f)
    <3>1. result = "none"
      BY <2>3 DEF WriteRow, JoinInv, TypeOK
    <3>2. row_num[f] \in 1..TotalCount(cli) /\ Job!Emit(row_num[f])
      BY <2>1, <2>3, <3>1, WriteRowEmits DEF Job!Emit
    <3>. QED BY <3>2 DEF Job!JobNext
  <2>4. CASE FinishInsert(f)
    <3>1. \A g \in Files(cli) : Written(g)' = Written(g)
      BY <2>4 DEF FinishInsert, TypeOK, Written
    <3>. QED BY <2>1, <3>1, WrittenUnchanged
  <2>5. CASE CloseFile(f) \/ AbortFile(f)
    <3>1. Dropped(f)
      BY <2>5, EndDrops
    <3>2. \A g \in Files(cli) : Written(g)' = Written(g)
      BY <3>1, DropKeepsWritten
    <3>. QED BY <2>1, <3>2, WrittenUnchanged
  <2>. QED BY <1>4, <2>2, <2>3, <2>4, <2>5 DEF WorkerStep
<1>. QED BY <1>1, <1>2, <1>3, <1>4 DEF Next, MainStep

\* A run of the engine is a generation job: each row at most once, in any
\* interleaving of the workers, and Ok only when all of them are there.
THEOREM EngineImplementsJob == Spec => JobSpec
<1>. QED BY JobInitRefined, JobStepRefined, Invariance, PTL DEF Spec, JobSpec, Job!JobSpec
=============================================================================
