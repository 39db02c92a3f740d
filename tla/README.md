# Verification of DataGenX

DataGenX copies the shape of a database: it reads the schema and the statistics
of a source, writes a template for each table, lets a generator (the engine,
Rust) produce rows from the templates, loads them into a target schema and
compares the two. This directory holds TLA+ models of the parts where order,
failure and arithmetic decide whether the result is right, the TLC runs that
check them on small instances, and TLAPS proofs of their main properties for
every value of the constants.

Paths below are relative to the repository root. `PROJECT.json` maps each
definition to its source lines.

## 1. The system

| Part | State it keeps | Operations | Talks to | What makes it correct | Hard |
|---|---|---|---|---|---|
| Engine run, `engine/src/cli.rs` | the row arguments, two statics, a pool of workers, a progress thread | `row_args`, `run`, `write_data_file`, `run_progress_thread` | file system; called by step B | each row 1..N once, over all files; Ok only then; errors reported; the run ends | interleaved workers, partial failure, statics, drops that lose errors |
| Data files, `writer.rs`, `format.rs` | `row_num`, `sub_row_num`, an `empty` flag and a byte count per table | `write_row`, `write_one_row`, `write_trailer`, `try_rotate` | the evaluator; `BufWriter` | loadable files, the right children for each parent, no statement split | recursion over shared state, rotation |
| File names, `lexctr.rs` | a counter per worker | `inc`, `fmt`, `path` | a directory all workers share | names differ and sort like the data | carries |
| Parser, evaluator | the compiled template, variables, a random generator per worker | `parse`, `compile`, `eval` | templates | a template means one thing | data only |
| Dependency order, `GenerateDbgen.py` | in-degrees and a queue | `topological_sort` | used by the pipeline | parents first, every table once | cycles |
| Pipeline, `MasterRun.py` `main` | the session's settings, `results`, files and tables that outlive a run | prepare, steps A, B, C per table, script, summary | engine (subprocess), server, load, script | results and exit code tell the truth | partial failure, reconnections, leftovers |
| Load, `MasterRun.py` | an attempt, chunk files, the target table | `_load_generated_csv` | mysql client, server | each line once, no second copy on the disk | a client that fails after the commit, retries, a removal whose errors are ignored |
| FK script, `MasterRun.py` | a statement, a session | `apply_benchmark_fk_script` | server, which goes on alone | each constraint once, checks off | lost connections, non-atomic looks |
| Key expressions, `MasterRun.py`, `GenerateDbgen.py` | a registry of composite keys | `build_fk_appendages`, `build_single_fk_expression` | templates; the tables generated before | keys unique, references exist, shapes kept | divisibility, counts of two tables, a run of one table alone |
| Column formulas, `GenerateDbgen.py` | the template of a table | `annotate_table_with_histogram` | histograms of the source | as many values as the source, with their frequencies | rounding, sampled histograms |
| Comparison, `MasterRun.py`, `ValidateTableStats.py` | none | two distances between distributions | step C | equal shapes are found equal | a merge of two lists |
| Literals, `literal_mapping.py` | a mapping | `build_literal_mapping`, `rewrite_sql_literals` | queries | a query selects as much as it did | ranks computed in two places |
| Extraction, reports, scripts | none | queries | databases | | I/O |

Calls go one way: the pipeline calls the order, then for each table the
template generator, the engine, the load and the validation, and at the end the
script. What they share are files (`<table>.dbgen`, `<table>.1.csv`), the
tables of the target, and one database session, which may be replaced by a new
one at every `_refresh_cursor`.

The behaviours that a test hardly reaches are listed, each at its line, under
`hazards` in `PROJECT.json`.

## 2. The modules

| Module | Models | State and actions |
|---|---|---|
| `RowArgs` | `row_args`, the `FileInfo`s of `run` | operators named after the fields of the Rust struct; `ValidCli` are the command lines that do not panic |
| `Engine` | `run`, the loop of `write_data_file`, the progress thread | one worker per file; a row moves from `buffered` to `disk` or `lost`; `OpenFile`, `SkipFile`, `WriteRow`, `FinishInsert` (trailer, rotation, counters), `CloseFile`, `AbortFile`; `Drop` is a `BufWriter` going out of scope |
| `GenerationJob` | what a run promises | abstract: emit a row, succeed, fail |
| `DataFile` | `writer::Env` and the formats | the recursion as a stack; a file is a sequence of units (header, row, separator, trailer), each counting one byte |
| `FileNames` | `LexCtr`, `FormatWriter::path` | every worker opens and rotates files in any interleaving |
| `TableGraph` | the graph and the set-based meaning of an order | operators; `Candidates` are the tables that may come at a place, `TopologicalSort` takes the first of them by name at each |
| `TableOrder` | `topological_sort` | one action per turn of the loop; the sorted queue is a set with its minimum popped |
| `MasterRun` | `main` and the control of its steps | one action per step; files and tables say which run they come from |
| `ChunkedLoad` | `_load_generated_csv` | the table counts how often each line is in it; a failing client may have committed, and any chunk file may survive the removal of its directory |
| `FkScript` | `apply_benchmark_fk_script` and the server | one action per statement sent; `ServerEnds` is the server's own step |
| `RowCase` | the `case when rownum <= ...` expressions of a template | operators: bands of rows, `CeilDiv`, rounding, weights |
| `CompositeKeys` | `build_fk_appendages`, the composite-key fallback of `GenerateDbgen.py`, `COMPOSITE_PK_FREQUENCY_REGISTRY` | a parent table, then a child that references its key, each with the rows of its source or those that `--rows` asks for; `GenerateParent`, `GenerateChild`, and `RerunChild`, a second process that only generates the child |
| `SourceColumn` | a column as the queries see it, and the histograms a server may build of it | operators |
| `FkColumn` | `build_single_fk_expression` | one operator per path of it, `FkColumn` chooses |
| `HistogramColumn` | the formulas of numbers, strings, dates, years, enumerations | likewise; `None` is a column left without a formula |
| `LiteralMapping` | `build_literal_mapping`, `rewrite_sql_literals` | operators on the histogram of a string column |
| `ShapeDifference` | `histogram_difference`, `_frequency_shape_diff_from_groups` | operators on the rows of each value |
| `Columns` | `annotate_table_with_histogram` and what follows | a column is analysed, given a formula and rows, and then validated and queried in either order |

`Engine` extends `RowArgs` and implements `GenerationJob` (`total` is
`TotalCount(cli)`, `emitted` the rows of all workers). `TableOrder` and
`MasterRun` both extend `TableGraph`: `TableOrder` shows that the loop computes
`TopologicalSort`, which `MasterRun` takes as one step. `MasterRun` takes the
engine, the load and the script as steps that succeed or fail as `Engine`,
`ChunkedLoad` and `FkScript` allow: a failed engine may leave a partial CSV
file, a failed load a partial table, a failed script some constraints.
`Columns` composes the last five modules of the table: the formula that
`FkColumn` or `HistogramColumn` chooses fills the rows, `ShapeDifference`
measures them, `LiteralMapping` looks a literal up that was ranked on its own.
In `CompositeKeys` the child reads what the parent was generated with, through
the registry or through the counts of the generated rows.

Definitions whose comment begins with "Mutant" are the faults that the
properties are tested against; the next-state relations do not use them.

### What is abstracted

- A row of the engine is its number, in `DataFile` one unit; evaluating an
  expression may fail at any row.
- A buffer spills at any row, and a file rotates after any INSERT in `Engine`;
  when exactly, and into which files, is the subject of `DataFile`.
- `row_args` is over the integers. Its only conversions to `u32` that may fail
  are conjuncts of `ValidArgs` (the code panics). Products of `u32` and `u64`
  counts beyond 2^64 are outside the model.
- rayon is a bound on the number of files being written and the freedom to skip
  a file after an error.
- A table is a number whose order is that of the names.
- A line of a CSV file is a record. The chunk files are those of one call; what
  an earlier call has left in the chunk directory is not followed.
- The source of a composite key is the set of its key tuples, a column the
  numbers of rows of its values: whatever a query counts is computed from it,
  so no counts are combined that no table has. The tables that a foreign key
  references have the keys `1 .. Size` (`CompositeKeys`) or `low .. low + size
  - 1` (`FkColumn`).
- A histogram is any one the server may build from a sample: a singleton
  histogram of some of the values, an equi-height one with any cut into buckets
  and any guess of the distinct values of a bucket that has more than one.
- A column gives each row the set of the values it may get: one where the
  formula is over `rownum`, several where it draws a random number. A formula
  that divides by zero gives none.
- A synthetic value is its ordinal, a date its offset. A string is its ordinal
  after the cut to the length of the source's strings, which is one length per
  column. Weights are fractions of `Units` where the code rounds to five
  digits (numbers) or six (strings, dates), numerals have base `Radix`, and the thresholds of the code (1000
  values, 2000000 values, 20 years, ...) are constants that a `.cfg` scales
  down.
- `Validate` is the exact comparison of a column. When it is asked for is left
  out: on TiDB and SingleStore, for columns whose histograms are 0.05 apart or
  more and have not too many values, and its result then counts when it is
  below 0.05 (`MasterRun.py:302-350`). A distance is a fraction in the code and
  is scaled by the rows of both columns here; a column without values is as far
  as can be from any other, as in the code (`FarApart`).
- MySQL and TiDB: a statement is atomic, and an `ALTER TABLE` that is still
  running is visible in the process list.

## 3. The runs

| Run | Bounds | Result |
|---|---|---|
| `engine` | 71 command lines (totals, deprecated counts, both), at most 5 rows and 3 files, 2 jobs, every fault but a failing drop | all hold |
| `data_file` | tables 1 → 2 → 3 and 1 → 4, up to 2, 1 and 1 children, INSERTs of 2 and 1 rows, size 4; `sql`, `csv` with and without header | all hold |
| `data_file_insert_set` | the `sql-insert-set` format | `FilesLoadable` violated |
| `file_names` | base 2, 4 workers, 6 files each | both hold |
| `load` | 5 lines of 1, 3 or 6 bytes, chunks of 5, 3 attempts, every subset of the chunk files left behind by a removal | all hold |
| `table_order` | all graphs of 4 tables, with references to a foreign schema | both hold |
| `master_run` | all graphs of 3 tables, 5 filters, 3 leftovers of an earlier run | all hold |
| `master_run_again` | a cycle, over a complete earlier target | `NoneRefused` violated |
| `fk_script` | 3 constraints, 3 attempts, 3 looks (60 in the code) | all hold |
| `keys` | all sets of pairs over a 3 x 3 grid, four layouts of a key, triples over 2 x 2 x 3 for the fallback; all children with the reference as their key, those with a third key column of two values for parents of up to 3 rows, and some numbers of rows with the reference outside the key; `--rows` of 2, of 5, and not given (625986 states) | all hold |
| `keys_orphans` | the same tables, without `--rows` | `ChildTuplesExist` violated |
| `columns` | all columns of up to 4 values (3 for some kinds) of up to 3 rows, NULL and 0 rows, referenced tables of 0, 2, 3 and 25 keys, all histograms of 2 buckets | all hold |

Why the bounds are enough. The engine's files differ only in being the last or
not, and its INSERTs likewise, so three files of up to three INSERTs meet every
combination of a full, a partial and an exact end; the test vectors of
`test_row_args` are evaluated as an assumption of `MCEngine`, as those of
`test_lexctr` are in `MCFileNames`. In base 2 the counter of `FileNames`
carries at its fourth file, which base 10 does at its hundredth. Sizes of 1, 3
and 6 against chunks of 5 give chunks of one line too long, of several lines
exactly at the limit and below it, and a file that is one chunk; three attempts
give a first, a middle and a last. Four tables are the smallest graph with a
table behind a cycle but not on it. Three attempts of the script are those of
the code, and its looks only repeat. A 3 x 3 grid has counts that divide each
other and counts that do not, groups that are full and groups that end early;
tables that differ in the names of the first column's values only are followed
once. Two rows are less than most of these tables have and five are more than
about half of them have, so that `--rows` cuts within a band, at its end and beyond
the last one. A third key column of two values gives a child up to twice the
rows of the parent for a value, so some children do not fit the shape of their
parent. Four values of up to three rows against two buckets give buckets of one
and of several values, ties, and guesses that are too small, exact and too
large; the thresholds in `Columns.cfg` lie inside the range of the columns, so
each path of each kind is taken. A date column of ten values in eleven rows with
a range of 13 days meets the exception of `NoNewDistinct`: it gets eleven values,
where the property allows no twelfth. `Units = 24` makes weights as coarse as the
columns are small: `FrequenciesKept` asks of a string column that twice its
values times its rows are at most `Units`, which some of the columns meet and
others do not. In the code `Units` is a million.

Fairness is assumed where something must happen. In `Engine` the main thread,
the progress thread and the pool as a whole are weakly fair: they are operating
system threads, and file operations return. No file is fair on its own: a
pending one needs a free thread. In `ChunkedLoad` the step of the interpreter is
weakly fair. A template whose evaluation does not terminate is outside both.

`Columns` and `CompositeKeys` end when nothing is left to generate, `FileNames`
at its bound, so their runs do not check for deadlock.

### What the violations show

Three runs state what a document or a comment says and find that the code does
otherwise (`findings` in `PROJECT.json`):

1. `data_file_insert_set`: rows after the first of an INSERT-SET statement have
   no `INSERT INTO`.
2. `master_run_again`: preparing a target that has tables switches foreign-key
   checks on for the rest of the run, and the first table of a cyclic schema is
   then refused.
3. `keys_orphans`: the pairs that a child is given for a composite reference in
   its own key need not be keys of the parent. The code takes the child's
   column with most values for the one that the parent groups by, and divides
   without the rounding that the parent was generated with. The shaped path
   (`ShapedReplay`) has another cause: it numbers the partner column through the
   whole table, where the parent numbers it within the rows of each value.
   `GridTuplesExist` is what remains true: when the parent has every
   combination of its columns' values all references exist, on every path.

The models, with other constants, and the code they follow show more, which no
run repeats:

- `engine`, with `Faults = {"drop"}`: the last rows of a file are flushed when
  its writer is dropped, a failure there is not reported, and `OkMeansDurable`
  is violated. Every other failure is reported, which is why the run leaves
  `drop` out.
- `file_names`, with `FilesCount = 1` and more files than the base, which is
  what `--total-count` does: the index is not padded, so a tenth file sorts
  before the second. With `--size` as well two files may get one name: the
  digits `110000` are those of file 1 with the counter `10000` and of file 110
  with the counter `000`, and the later one truncates the other.
- `master_run`, with `FilesCount = 10` (`DATAGENX_FILES_COUNT`): the engine
  names its first file `<table>.01.csv`, step B looks for `<table>.1.csv`, and a
  file of that name from an earlier run is loaded as this run's:
  `LoadedFromThisRun` is violated.
- `table_order`: a table that depends on a cycle without being on it may be
  placed before its parent, for example 3 before 4 when 1 and 2 reference each
  other, 3 references 4 and 4 references 1. `ParentsFirst` is about the others.
- `keys`, with triples whose three columns are all foreign keys: `KeysUnique` is
  violated by the source 111, 112, 121, 122, 211, because two cycling columns of
  two values repeat together after two rows (docs/N_CYCLING_COMPOSITE_FK_PK.md
  says at 112-122 that such keys are always unique). Nor does the largest column
  reach all its values when the rows per value are rounded up (five rows and
  four values give three).
- The fallback for keys without foreign keys keeps keys unique and not the
  number of values of each column (source 11, 12, 23), although the comment at
  `GenerateDbgen.py:1812` says it "must preserve both key uniqueness and
  per-column NDV".
- Rows with NULL or 0 in a foreign key are kept on the exact paths only: not
  where the values are nearly unique, nor on the sparse and the estimated path,
  nor below a rate of one in 10000. `FrequenciesKept` is about the exact paths.
- A foreign key of NULLs only with more rows than the source is a `mod` by 0,
  and a numeric column with a unique index that is no key has no histogram in
  MySQL and gets `rand.range(0,5)`.
- A string's ordinal is cut to the length of the source's strings: with more
  values than that length has numerals two values coincide. `FrequenciesKept`
  and `RewrittenSelectsSame` assume the strings long enough. They also assume
  that the column is small for the six digits of a weight: the share of a
  string is cut to millionths, rounded to a weight and multiplied back to rows,
  which gives the frequencies back for `2 * values * rows <= 10^6`.
- Dates and times of nearly as many values as rows (over 90 %) that have neither
  exact counts nor buckets of their own are counted over the range of the
  source, `mod(rownum-1, span+1)`: 1900 dates in 2000 rows and a range of 3000
  days become 2000 dates. `NoNewDistinct` allows these a ninth more values than
  the source has, and is about equality or less for every other formula.
- `keys`, with `--rows`: for fewer rows than the source has everything promised
  of the full table holds of the part (`KeysUnique`, `ReferencesExist`). For
  more rows the formulas repeat: a `CASE` over bands ends in a constant `ELSE`,
  so two rows beyond the bands have one key and the load fails on it, and the
  quotients of the cycling keys pass the last key of the referenced table. A
  shape is only rebuilt of a parent with the rows of its source, so `RerunAgrees`
  is about such parents.
- A child whose key is longer than its reference may have more rows for a value
  than any value of the parent. Then no allocation exists, the shaped path gives
  up and the pairs are placed by position. `ShapedChildFits` says that this is
  the only reason: the greedy allocation succeeds exactly if for every frequency
  at least as many values of the parent as of the child are above it
  (`Coverable`), and it always is so when the child's pairs are pairs of the
  parent, each once.

## 4. The proofs

All eight proof modules are over arbitrary constants under the named
assumptions of the modules they extend.

- `EngineProofs`: first the row arguments: for every valid command line the
  files' row ranges are consecutive, disjoint and cover 1..total. The non-linear
  facts (a file's rows as a multiple of its INSERTs, the quotient and the
  remainder of `div_rem_plus_one`) are lemmas of their own; `FilesApart` follows
  from monotonicity of the first rows. Then `TypeOK`, and the invariant `IInv`,
  which adds to it that a worker's `row_num` is its first row plus the rows of
  its INSERTs so far, that the rows it has produced are exactly those numbers,
  each in one place, that an ended worker with "ok" has completed its INSERTs,
  and that main only joins when all have ended. Without the link between
  `row_num` and the INSERT counters neither `RowsAccounted` nor `OkMeansComplete`
  is inductive.
  `EngineImplementsJob` is the step simulation: `WriteRow` is `Emit`, `Return`
  is `Succeed` or `Fail`, everything else stutters. It needs `FilesApart`, so
  that a row emitted by one worker is new to the job, and `FilesCover` for
  success. `OkIsDurable` assumes that the flush of a dropped writer does not
  fail, and adds that a file that is done has an empty buffer.
  `ProgressIsExact` says that the shared counter is the number of rows of the
  completed INSERTs of all files. Those of one file are an interval at the
  beginning of its slice; the slices are apart, so an INSERT that ends adds as
  many rows to the union as the code adds to the counter (`FinishInsertCounts`).
  No file is open when the counter is reset (`StartInv`), which makes this
  inductive.
- `DataFileProofs`: for any tree of derived tables, formats and target size;
  that they are a tree with one root is the grammar of a template, where every
  table after the first follows the `FOR EACH ROW` of one read before it.
  The calls in progress go down the tree (`FrameInv`), so a table has at most
  one of them and the rows written for the parent's row in hand are counted by
  its frame (`ChildrenTheorem`). Every file ends in the unit that `empty` tells
  of and each unit may follow the one before it (`FilesLoadableTheorem`, for
  every format but `sql-insert-set`, for which the run `data_file_insert_set`
  shows that it is false). The rows of the statement in progress are all in the
  current file, of which they are the end (`TargetSizeTheorem`), and a completed
  statement keeps its rows in one file (`MainRowsTheorem`).
  The file names follow at the end of the module. The counter of a worker is a
  function of the number of files it has opened: `Base^2 - 1` times the files
  it had opened before its prefix is `limit - Base^2`
  (`At`, a geometric series), so an earlier file has a smaller prefix or the
  same one and a smaller count (`AtOrders`). Numerals of one width sort as their
  numbers do, and the prefix tells the width of the count. `NamesDistinct` needs
  that no worker has an index above `FilesCount`, which pads them to one width;
  `NamesInOrder` also that a prefix has one digit, so less than
  `Base^(2 * Base)` files to a worker: ten to the twentieth. The notes on
  `file_names` in section 3 are about runs outside the first condition.
- `LoadProofs`: for `ChunkedLoad`, the table is always a prefix of the file
  loaded once, up to `loaded` while reading, and possibly up to the end of the
  chunk or empty where an attempt has failed. That the next attempt starts from
  an empty table is what makes this inductive. Of the chunk files, those besides
  the one being filled are fewer than the attempts, since a failed attempt adds
  at most the one it was filling (`CurrentChunk`, `HandleStep`); this is the
  strengthening that `OneChunkFile` needs. For `FkScript`, the invariant
  says what is true at each of the client's three looks: before `execute`
  nothing is active; after a look at the process list that found nothing the
  only statement that was active has ended, so the last look decides.
  Constraints before `k` exist and nothing but `k` is ever active.
- `CompositeKeysProofs`: every invariant of the run `keys`, for source tables
  and children of any size. A layout of a key is a way to number rows, and each
  proof shows that the numbering can be undone, for as many rows as the source
  has or fewer.
  *Cycling*: with `rows <= a * b` rows, `per = ceil(rows / a)` is at most `b`
  for the larger count `a`: rows with the same quotient by `per` are less than
  `per` apart, rows with the same remainder by `b` at least `b`, so two rows
  differ (`CyclingRowsDiffer`), and quotients stay below `a`.
  *Bands*: the values and rows of up to a frequency grow with it, so a band is
  an interval of rows and one of values, `frequency` rows to a value
  (`BandRows`, `AscendingBand`); div and mod within it are a value and its
  occurrence (`BandedRowFacts`, and back `BandedRowReached`).
  *Proportions*: rows with the same turn are a multiple of `a` apart, and two
  multiples that are advanced to the same value are closer than the table is
  long (`ProportionalRowsDiffer`).
  *Anchors*: the rows of an anchor number at most the combinations of the other
  columns (`TableCount`, by induction over the columns); equal digits of all
  columns make two such numbers equal (`DigitsOfProduct`), and all rows of an
  anchor are turned alike.
  *Children by shape*: `GreedyIsBest` is that the greedy pass over the ascending
  frequencies succeeds exactly if an allocation exists. If for every frequency
  the parent has as many values above it as the child, the j-th most frequent
  value of the child is no more frequent than that of the parent
  (`CoverableOrder`); after `j` values the pass has then skipped only parent
  values that are too rare, and enough are left (`AllocationCorrect`). If the
  pass succeeds, it gives the child's values above a frequency different parent
  values above it (`FittedAllocation`), which count as many (`EntriesAbove`). Of
  a part of the parent's tuples no value is more frequent than in the parent
  (`PartCoverable`).
  The invariant `IInv` says that the parent is what the formulas of its layout
  make of the source, that the registry holds the frequencies of the
  source and, of a parent with the rows of its source (`Complete`), only what a
  later process would rebuild, up to the number of partners, and that the child,
  now and in the run before, is determined by these. Without the second part a
  run of the child alone (`RerunChild`) could leave the shaped path, so that
  `RerunAgrees` would not be inductive; `Followed`, that the child's rows are
  those of the registered shape wherever that is usable, is what `ShapedChildFits`
  needs with `--rows`, where the shape may come from either. If the source has
  every combination of its columns' values, so has the parent, since that many
  different rows fill the product (`FS_Injection` and `FS_Product`), and each
  of the three ways to reference it stays within the product
  (`FullGridTuplesExist`). Assumed is that `--rows` asks for a row at
  least, that the absence of a shape is not a shape (`KeysAssumption`), that a
  table has rows and finitely many, that the foreign keys of the source hold and
  its layouts with a foreign key have two key columns, and of a child that it
  references a key of two columns, that its key, if it has the reference in it,
  begins with it, is unique over all its columns and has pairs of the parent
  only (`TablesAssumption`).
- `ColumnsProofs`: every invariant of the run `columns`, for source columns of
  any size (`InputsAssumption`: a value has a row, a key has no NULL and, alone, no
  value twice, only foreign keys are asked for zeroes and there 0 is no key of
  the referenced table, the years of a column have a span), any histogram of them and any thresholds;
  NULL and a random value are neither numbers nor strings (`ValuesAssumption`).
  The invariant is that the values are the formula of the column for a
  histogram that the source may have, and that a difference or a rewritten
  query is the function of these that `Validate` and `RewriteQuery` compute
  (`ColumnsIInv`, `ResultsIInv`).
  `FkValuesAlwaysExist` goes through the paths of `build_single_fk_expression`:
  a value of a row is one of a band or the default (`Case`), and those are first
  keys, sampled keys, `mod` of the number of keys, or the NULL or 0 of the
  source. `BucketsAlwaysShare` is about the two corrections. That of numbers is
  one jump up, or a way down by one from the largest open bucket; while the
  counts are too many some open bucket is above one, since the single buckets
  are exact and there are fewer buckets than values. That of strings goes round
  the buckets: it has taken at most `Len` steps for each value given up, and
  some more at buckets that have one value only (`Corrected`); a whole round of
  these is impossible, so `StringSteps` of them suffice.
  `NeverNewDistinct` bounds the set of the values of each formula over `rownum`
  by the number of the source's values, or, for the dates counted over a range, by
  the rows, which are less than ten ninths of them (`DenseDatesFew`); where ranks are needed (the i-th most
  frequent value, the i-th largest remainder), that every rank is taken once is
  the pigeonhole principle.
  `DifferencesAlwaysAgree` rests on `MergeIsHistogramDifference`: a group is an
  interval of places in the descending order of the frequencies, and what is
  inductive about the merge is that it is at some place in both orders, with the
  rest of both groups still to come and the distances of all places before it
  summed up. Each turn ends a group, so as many turns as there are groups reach
  the end. A column that is unique in source and target has the same masses, and
  no difference.
  `FrequenciesAlwaysKept` is that the rows of a value are a band of the formula
  on the paths of exact counts and of frequency groups, so that the frequencies
  generated are a rearrangement of those of the source, and that a rearrangement
  has the same groups. For strings the roundings follow one after the
  other: shares cut to units add up to less than `Units` by less than one for
  each value, a weight is the share of such a sum to half a unit, and the rows it
  is multiplied to are then less than half a row off the frequency, which the
  last rounding gives back (`WeightExact`, `FineCounts`). Two values
  get two strings since ordinals with no more digits than the string has room
  for keep all of them.
  `RewrittenAlwaysSame` needs that the generator and the mapping number the
  values alike: the i-th bucket by rank is one bucket, and each bucket is one
  (`RankedBijection`), so a literal has exactly one entry, whose target is the
  string of its band.
- `TableGraphProofs`: the order of generation exists, is unique, has every table
  once, and places a table that is not behind a cycle after all it references.
  Where these need induction (a sorted enumeration, an order of `n` tables, two
  orders that agree) they take the least counterexample, which a non-empty set
  of naturals has (`LeastExists`, from the well-foundedness of `<`). A table at
  place `i` that is not ready was placed because at some place up to `i` none
  was; the tables still missing there reference each other, so it is behind a
  cycle.
- `TableOrderProofs`: the loop keeps that each popped table was the first of
  those ready, that `in_degree` counts the parents still to come and that the
  queue is what is ready. When it runs empty, what is appended in the order of
  the names is `Candidates` at each further place, so the result is
  `TopologicalSort`, and `ParentsFirst` follows.
- `MasterRunProofs`: what is left of the order is always the end of the tables
  asked for, and exactly those before it have a result (`RunInv`), from which
  `EveryTableTried` and, with the order's properties, `ParentsTriedFirst`
  follow. The table in hand has no result yet, so a step disturbs no table that
  has one; with what is known of the table in hand after each step (`StageInv`)
  this makes `LoadedFromThisRun` inductive, and `ZeroMeansAllGood` and
  `ScriptAfterAllLoaded` rest on it. These three assume less than ten files to
  a table.

Every safety invariant and action property of a passing run is thus a theorem.
Only model-checked is liveness (`RunReturns`, `LoadEnds`), which is out of the
prover's reach.

## 5. What is not modelled

- The parser and the functions of the expression language (`parser.rs`,
  `functions/`): data without control. Evaluation is a step that may fail.
  The count of a second derived table, evaluated after the first has changed
  `sub_row_num`, is therefore an arbitrary number in `DataFile`.
- `dbschemagen`: a printer of random schemas that the pipeline does not call.
- Schema extraction: queries and the text of DDL. That a column without a
  formula (`mediumtext`, `json`, a numeric column of NULLs) shifts the later
  columns of the CSV file at the load is listed as a hazard.
- The queries, reports and verdicts of the validation: `MasterRun` takes its
  outcome as a choice. For MySQL the target's histograms are cloned from the
  source (`MasterRun.py:2309`), so that comparison says nothing of the rows.
- Date literals, which are shifted by a constant while the exact path of the
  generator orders dates by frequency; literals of columns with an equi-height
  histogram, whose generated strings have another form.
- A reference of several columns outside the key of a table whose key is made of
  foreign keys only (`MasterRun.py:1656-1665`), and one that is partly in the key
  (1738-1748): their columns are generated each by itself. `FkColumn` models each
  column; that the pairs exist is promised nowhere and checked by no module.
- The counts that TiDB estimates with `--rows` for composite keys (930, 966): in
  `CompositeKeys` all counts are exact, with `--rows` as without. Binary and fixed-size
  columns, strings of several lengths in one column.
- Set-up scripts and settings: input and output. A load with zero attempts
  (`DATAGENX_LOAD_RETRY_ATTEMPTS=0`) is outside the assumption on `Attempts`.
