------------------------------- MODULE Engine -------------------------------
(***************************************************************************)
(* One run of the data generator (run() in engine/src/cli.rs): the main    *)
(* thread, the pool of workers that each write one data file, and the      *)
(* progress thread.                                                        *)
(*                                                                         *)
(* A row goes from its generator to the disk through a BufWriter: it is    *)
(* buffered first, and reaches the disk when the buffer spills, when the   *)
(* file is rotated, or when the writer is dropped.  A drop cannot report   *)
(* an error.  Rows are kept as the set of their numbers.                   *)
(***************************************************************************)
EXTENDS RowArgs, FiniteSets

CONSTANTS
  CliSet,       \* the command lines a behaviour may start from
  Jobs,         \* threads of the pool (--jobs)
  Faults,       \* the operations of the file system that may fail
  StaleRows     \* what an earlier run in the process may have left in WRITE_PROGRESS

ASSUME EngineAssumption ==
  /\ CliSet \subseteq ValidCli
  /\ Jobs \in Nat \ {0}
  /\ Faults \subseteq {"prepare", "open", "write", "rotate", "drop"}
  /\ StaleRows \subseteq Nat

VARIABLES
  cli,          \* the arguments of this run
  main,         \* the main thread: "start", "writing", "joining" or "done"
  result,       \* what run() returned: "none", "ok" or "err"
  finished,     \* the static WRITE_FINISHED
  progress,     \* the static WRITE_PROGRESS
  bar,          \* the progress thread: "none", "check", "asleep" or "done"
  shown,        \* the row count the progress bar shows
  worker,       \* the state of each file's worker
  insert,       \* INSERT statements the worker has completed
  in_insert,    \* rows written to the INSERT it is in
  row_num,      \* State::row_num of the worker
  buffered,     \* rows in the file's BufWriter
  disk,         \* rows that reached the disk
  lost          \* rows whose writer was dropped before they reached it

threads == <<main, result, finished, bar>>
rowVars == <<insert, in_insert, row_num, buffered, disk, lost>>
vars == <<cli, main, result, finished, progress, bar, shown, worker,
          insert, in_insert, row_num, buffered, disk, lost>>

WorkerStates == {"pending", "writing", "ok", "failed", "skipped"}
Ended(f)  == worker[f] \in {"ok", "failed", "skipped"}
Writing   == {f \in Files(cli) : worker[f] = "writing"}
Failed    == {f \in Files(cli) : worker[f] = "failed"}

\* The rows a file's generator has produced, wherever they are now.
Written(f) == buffered[f] \cup disk[f] \cup lost[f]
AllWritten == UNION {Written(f) : f \in Files(cli)}
AllOnDisk  == UNION {disk[f] : f \in Files(cli)}

\* The rows of the INSERT statements a file's worker has completed.
Completed(f) == FirstRow(cli, f)..(FirstRow(cli, f) + RowsBefore(cli, f, insert[f]) - 1)
AllCompleted == UNION {Completed(f) : f \in Files(cli)}

----------------------------------------------------------------------------
Init ==
  /\ cli \in CliSet
  /\ main = "start"
  /\ result = "none"
  /\ finished \in BOOLEAN        \* the statics are those of the process
  /\ progress \in StaleRows
  /\ bar = "none"
  /\ shown = 0
  /\ worker    = [f \in Files(cli) |-> "pending"]
  /\ insert    = [f \in Files(cli) |-> 0]
  /\ in_insert = [f \in Files(cli) |-> 0]
  /\ row_num   = [f \in Files(cli) |-> FirstRow(cli, f)]
  /\ buffered  = [f \in Files(cli) |-> {}]
  /\ disk      = [f \in Files(cli) |-> {}]
  /\ lost      = [f \in Files(cli) |-> {}]

----------------------------------------------------------------------------
(* The main thread.                                                        *)

\* The template is read, parsed and compiled, the output directory and the
\* schema files are created: any of these may return early.
PrepareFails ==
  /\ main = "start"
  /\ "prepare" \in Faults
  /\ main' = "done"
  /\ result' = "err"
  /\ UNCHANGED <<cli, finished, progress, bar, shown, worker, rowVars>>

\* Mutant: the statics keep what an earlier run left in them.
StartWritingNoReset ==
  /\ main = "start"
  /\ main' = "writing"
  /\ bar' \in {"check", "done"}
  /\ UNCHANGED <<cli, result, finished, progress, shown, worker, rowVars>>

\* The statics are reset and the progress thread is spawned before the pool
\* is given its work; with --quiet that thread returns at once.
StartWriting ==
  /\ main = "start"
  /\ main' = "writing"
  /\ finished' = FALSE
  /\ progress' = 0
  /\ bar' \in {"check", "done"}
  /\ UNCHANGED <<cli, result, shown, worker, rowVars>>

\* Mutant: WRITE_FINISHED is never stored.
FinishWritingUnsignalled ==
  /\ main = "writing"
  /\ \A f \in Files(cli) : Ended(f)
  /\ main' = "joining"
  /\ UNCHANGED <<cli, result, finished, progress, bar, shown, worker, rowVars>>

\* try_for_each has returned: no worker is left.
FinishWriting ==
  /\ main = "writing"
  /\ \A f \in Files(cli) : Ended(f)
  /\ main' = "joining"
  /\ finished' = TRUE
  /\ UNCHANGED <<cli, result, progress, bar, shown, worker, rowVars>>

\* Mutant: the result of the pool is not looked at (no "res?").
ReturnOk ==
  /\ main = "joining"
  /\ bar = "done"
  /\ main' = "done"
  /\ result' = "ok"
  /\ UNCHANGED <<cli, finished, progress, bar, shown, worker, rowVars>>

Return ==
  /\ main = "joining"
  /\ bar = "done"
  /\ main' = "done"
  /\ result' = IF Failed = {} THEN "ok" ELSE "err"
  /\ UNCHANGED <<cli, finished, progress, bar, shown, worker, rowVars>>

----------------------------------------------------------------------------
(* The workers: Env::write_data_file for one file.                         *)

\* rayon hands a pending file to a free thread.
OpenFile(f) ==
  /\ main = "writing"
  /\ worker[f] = "pending"
  /\ Cardinality(Writing) < Jobs
  /\ \/ worker' = [worker EXCEPT ![f] = "writing"]
     \/ "open" \in Faults /\ worker' = [worker EXCEPT ![f] = "failed"]
  /\ UNCHANGED <<cli, threads, progress, shown, rowVars>>

\* After an error rayon drops the files that no thread has taken yet.
SkipFile(f) ==
  /\ main = "writing"
  /\ worker[f] = "pending"
  /\ Failed # {}
  /\ worker' = [worker EXCEPT ![f] = "skipped"]
  /\ UNCHANGED <<cli, threads, progress, shown, rowVars>>

\* When the row does not fit, the buffer spills to make room for it.
WriteRow(f) ==
  /\ worker[f] = "writing"
  /\ insert[f] < Inserts(cli, f)
  /\ in_insert[f] < RowsInInsert(cli, f, insert[f])
  /\ \E spill \in BOOLEAN :
       /\ disk' = [disk EXCEPT ![f] = IF spill THEN @ \cup buffered[f] ELSE @]
       /\ buffered' = [buffered EXCEPT
                         ![f] = IF spill THEN {row_num[f]} ELSE @ \cup {row_num[f]}]
  /\ row_num' = [row_num EXCEPT ![f] = @ + 1]
  /\ in_insert' = [in_insert EXCEPT ![f] = @ + 1]
  /\ UNCHANGED <<cli, threads, progress, shown, worker, insert, lost>>

\* Mutant: rotation replaces the writer without flushing the old one.
FinishInsertUnflushed(f) ==
  /\ worker[f] = "writing"
  /\ insert[f] < Inserts(cli, f)
  /\ in_insert[f] = RowsInInsert(cli, f, insert[f])
  /\ insert' = [insert EXCEPT ![f] = @ + 1]
  /\ in_insert' = [in_insert EXCEPT ![f] = 0]
  /\ progress' = progress + RowsInInsert(cli, f, insert[f])
  /\ \E rotate \in BOOLEAN :
       buffered' = [buffered EXCEPT ![f] = IF rotate THEN {} ELSE @]
  /\ UNCHANGED <<cli, threads, shown, worker, row_num, disk, lost>>

\* The trailer is written, the file perhaps rotated (flushed, and the next one
\* opened), and only then are the rows of the INSERT counted.
FinishInsert(f) ==
  /\ worker[f] = "writing"
  /\ insert[f] < Inserts(cli, f)
  /\ in_insert[f] = RowsInInsert(cli, f, insert[f])
  /\ insert' = [insert EXCEPT ![f] = @ + 1]
  /\ in_insert' = [in_insert EXCEPT ![f] = 0]
  /\ progress' = progress + RowsInInsert(cli, f, insert[f])
  /\ \E rotate \in BOOLEAN :
       /\ disk' = [disk EXCEPT ![f] = IF rotate THEN @ \cup buffered[f] ELSE @]
       /\ buffered' = [buffered EXCEPT ![f] = IF rotate THEN {} ELSE @]
  /\ UNCHANGED <<cli, threads, shown, worker, row_num, lost>>

\* Mutant: a dropped writer discards its buffer.
DropDiscards(f, mayFail) ==
  /\ lost' = [lost EXCEPT ![f] = @ \cup buffered[f]]
  /\ buffered' = [buffered EXCEPT ![f] = {}]
  /\ UNCHANGED disk

\* Dropping the writer: what is buffered is flushed, or lost without a word.
Drop(f, mayFail) ==
  /\ \/ /\ disk' = [disk EXCEPT ![f] = @ \cup buffered[f]]
        /\ lost' = lost
     \/ /\ mayFail
        /\ lost' = [lost EXCEPT ![f] = @ \cup buffered[f]]
        /\ disk' = disk
  /\ buffered' = [buffered EXCEPT ![f] = {}]

CloseFile(f) ==
  /\ worker[f] = "writing"
  /\ insert[f] = Inserts(cli, f)
  /\ worker' = [worker EXCEPT ![f] = "ok"]
  /\ Drop(f, "drop" \in Faults)
  /\ UNCHANGED <<cli, threads, progress, shown, insert, in_insert, row_num>>

\* A row cannot be evaluated or written, or the rotation after a complete
\* INSERT fails: the error leaves the worker, and its writer is dropped.  What
\* made a write fail may make this last flush fail too.
AbortFile(f) ==
  /\ worker[f] = "writing"
  /\ insert[f] < Inserts(cli, f)
  /\ \/ "write" \in Faults
     \/ "rotate" \in Faults /\ in_insert[f] = RowsInInsert(cli, f, insert[f])
  /\ worker' = [worker EXCEPT ![f] = "failed"]
  /\ Drop(f, TRUE)
  /\ UNCHANGED <<cli, threads, progress, shown, insert, in_insert, row_num>>

----------------------------------------------------------------------------
(* The progress thread: run_progress_thread.                               *)

CheckFinished ==
  /\ bar = "check"
  /\ bar' = IF finished THEN "done" ELSE "asleep"
  /\ UNCHANGED <<cli, main, result, finished, progress, shown, worker, rowVars>>

ShowProgress ==
  /\ bar = "asleep"
  /\ shown' = progress
  /\ bar' = "check"
  /\ UNCHANGED <<cli, main, result, finished, progress, worker, rowVars>>

----------------------------------------------------------------------------
WorkerStep(f) == \/ OpenFile(f) \/ SkipFile(f) \/ WriteRow(f)
                 \/ FinishInsert(f) \/ CloseFile(f) \/ AbortFile(f)
MainStep == PrepareFails \/ StartWriting \/ FinishWriting \/ Return
BarStep == CheckFinished \/ ShowProgress

\* The process has nothing left to do.
Terminated == main = "done" /\ UNCHANGED vars

Next == MainStep \/ BarStep \/ Terminated \/ \E f \in Files(cli) : WorkerStep(f)

Spec == Init /\ [][Next]_vars

\* Every thread is scheduled, and a read, write or flush returns.  A pending
\* file needs a free thread, so it is the pool that is fair and not the file.
Fairness ==
  /\ WF_vars(MainStep)
  /\ WF_vars(BarStep)
  /\ WF_vars(\E f \in Files(cli) : WorkerStep(f))

FairSpec == Spec /\ Fairness
----------------------------------------------------------------------------
(* Properties.                                                             *)

\* Every variable stays in its range (the state run() and its threads share).
TypeOK ==
  /\ cli \in CliSet
  /\ main \in {"start", "writing", "joining", "done"}
  /\ result \in {"none", "ok", "err"}
  /\ finished \in BOOLEAN
  /\ progress \in Nat
  /\ bar \in {"none", "check", "asleep", "done"}
  /\ shown \in Nat
  /\ worker \in [Files(cli) -> WorkerStates]
  /\ insert \in [Files(cli) -> Nat]
  /\ in_insert \in [Files(cli) -> Nat]
  /\ row_num \in [Files(cli) -> Nat]
  /\ buffered \in [Files(cli) -> SUBSET Nat]
  /\ disk \in [Files(cli) -> SUBSET Nat]
  /\ lost \in [Files(cli) -> SUBSET Nat]

\* The rows of a file are consecutive from its first row up to row_num, and
\* each is in exactly one place: the buffer, the disk, or lost (WriteRow,
\* rotation and drop move rows and neither copy nor forget any).
RowsAccounted ==
  \A f \in Files(cli) :
    /\ Written(f) = FirstRow(cli, f)..(row_num[f] - 1)
    /\ buffered[f] \cap disk[f] = {}
    /\ buffered[f] \cap lost[f] = {}
    /\ disk[f] \cap lost[f] = {}

\* No row number is produced by two files, although the workers share nothing
\* but the arithmetic of row_args.
FilesDisjoint ==
  \A f, g \in Files(cli) : f # g => Written(f) \cap Written(g) = {}

\* run() returns Ok only when every row 1..total_count has been generated
\* (the comment on RowArgs::total_count: "Total number of rows to generate").
OkMeansComplete == result = "ok" => AllWritten = 1..TotalCount(cli)

\* run() returns Ok only when every row asked for is on the disk.
OkMeansDurable == result = "ok" => AllOnDisk = 1..TotalCount(cli)

\* WRITE_PROGRESS is the number of rows in completed INSERT statements of this
\* run, whatever an earlier run left in the static.
ProgressExact ==
  main \in {"writing", "joining"} => progress = Cardinality(AllCompleted)

\* run() returns: neither the pool nor the progress thread is waited for in vain.
RunReturns == <>(main = "done")

\* A run of the engine is a generation job: rows once each, Ok only at the end.
Job == INSTANCE GenerationJob WITH total <- TotalCount(cli), emitted <- AllWritten
JobSpec == Job!JobSpec
=============================================================================
