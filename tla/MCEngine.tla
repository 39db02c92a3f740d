------------------------------ MODULE MCEngine ------------------------------
(* Small command lines for Engine: totals, deprecated counts, and both mixed. *)
EXTENDS Engine

CONSTANT MaxRows      \* bounds the rows of a run

Base == [ rows_count |-> 1, files_count |-> 1, inserts_count |-> 1,
          last_file_inserts_count |-> None, last_insert_rows_count |-> None,
          total_count |-> None, rows_per_file |-> None ]

ByTotals ==
  { [Base EXCEPT !.rows_count = r, !.total_count = n, !.rows_per_file = p] :
      r \in 1..2, n \in 0..MaxRows, p \in 1..3 }

ByCounts ==
  { [Base EXCEPT !.rows_count = r, !.files_count = k, !.inserts_count = i,
                 !.last_file_inserts_count = li, !.last_insert_rows_count = lr] :
      r \in 1..2, k \in 1..2, i \in 1..2, li \in {None, 2}, lr \in {None, 1, 3} }

Mixed ==
  { [Base EXCEPT !.rows_count = 2, !.files_count = 2, !.rows_per_file = 3,
                 !.last_file_inserts_count = li] : li \in {None, 1} }

Bounded(S) == {a \in S : FilesCount(a) <= 3 /\ TotalCount(a) <= MaxRows}

MCCliSet == Bounded(ByTotals \cup ByCounts \cup Mixed)

MCStaleRows == {7}

\* The row_args test vectors of engine/src/cli.rs (test_row_args).
Shape(a) == << FilesCount(a), InsertsCount(a), LastFileInserts(a), a.rows_count,
               FinalInsertRows(a), LastFileFinalInsertRows(a),
               RowsPerFile(a), TotalCount(a) >>

Wide == [Base EXCEPT !.rows_count = 97]

ASSUME RowArgsTests ==
  /\ Shape([Wide EXCEPT !.files_count = 11, !.inserts_count = 181])
       = <<11, 181, 181, 97, 97, 97, 17557, 193127>>
  /\ Shape([Wide EXCEPT !.files_count = 11, !.inserts_count = 181,
                        !.last_file_inserts_count = 151, !.last_insert_rows_count = 53])
       = <<11, 181, 151, 97, 97, 53, 17557, 190173>>
  /\ Shape([Wide EXCEPT !.files_count = 11, !.rows_per_file = 18013])
       = <<11, 186, 186, 97, 68, 68, 18013, 198143>>
  /\ Shape([Wide EXCEPT !.total_count = 190173, !.rows_per_file = 17557])
       = <<11, 181, 151, 97, 97, 53, 17557, 190173>>
  /\ Shape([Wide EXCEPT !.total_count = 198143, !.rows_per_file = 18013])
       = <<11, 186, 186, 97, 68, 68, 18013, 198143>>
  /\ Shape([Wide EXCEPT !.total_count = 199909, !.rows_per_file = 18013])
       = <<12, 186, 19, 97, 68, 20, 18013, 199909>>
=============================================================================
