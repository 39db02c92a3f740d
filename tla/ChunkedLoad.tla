----------------------------- MODULE ChunkedLoad -----------------------------
(***************************************************************************)
(* Loading a generated CSV file into its table: _load_generated_csv of     *)
(* orchestration/MasterRun.py.                                             *)
(*                                                                         *)
(* A small file is loaded by one statement.  A larger one is cut into      *)
(* chunks of whole lines, each written to a file, loaded by a separate     *)
(* mysql client and removed.  Any failure restarts the whole load, which   *)
(* empties the table first.  A statement is atomic on the server, but its  *)
(* client may fail after the server has committed it.                      *)
(*                                                                         *)
(* The chunk being filled holds the lines loaded + 1 to read.              *)
(***************************************************************************)
EXTENDS Integers, FiniteSets, FiniteSetsExt

CONSTANTS
  Lines,        \* number of lines of the CSV file
  SizeChoices,  \* the sizes that a line may have
  ChunkBytes,   \* DATAGENX_LOAD_CHUNK_BYTES
  Attempts      \* DATAGENX_LOAD_RETRY_ATTEMPTS

ASSUME ChunkedLoadAssumption ==
  /\ Lines \in Nat
  /\ SizeChoices \subseteq Nat \ {0}
  /\ ChunkBytes \in Nat
  /\ Attempts \in Nat \ {0}

VARIABLES
  size,         \* the sizes of the lines
  pc,           \* where the call stands
  attempt,
  read,         \* lines read from the file in this attempt
  loaded,       \* lines in chunks that were loaded in this attempt
  current_size, \* bytes in the chunk being filled
  chunk_index,  \* number of the next chunk file
  chunk_files,  \* the chunk files that exist
  table         \* how often each line is in the table

vars == <<size, pc, attempt, read, loaded, current_size, chunk_index, chunk_files, table>>

Line == 1..Lines

FileBytes == MapThenSumSet(LAMBDA l : size[l], Line)

Never  == [l \in Line |-> 0]
Once   == [l \in Line |-> 1]
WithChunk == [l \in Line |-> IF l \in (loaded + 1)..read THEN table[l] + 1 ELSE table[l]]

Init ==
  /\ size \in [Line -> SizeChoices]
  /\ pc = "start"
  /\ attempt = 1
  /\ read = 0
  /\ loaded = 0
  /\ current_size = 0
  /\ chunk_index = 0
  /\ chunk_files = {}
  /\ table = Never              \* it has just been created

locals == <<read, loaded, current_size, chunk_index>>

----------------------------------------------------------------------------
\* A file of at most one chunk: one statement, not retried.
LoadWhole ==
  /\ pc = "start"
  /\ FileBytes <= ChunkBytes
  /\ \/ pc' = "returned" /\ table' = Once
     \/ pc' = "raised" /\ table' \in {table, Once}
  /\ UNCHANGED <<size, attempt, locals, chunk_files>>

\* Mutant: a retry goes on with what the failed attempt has left.
EmptiedNotAtAll == table

\* The table after TRUNCATE.
Emptied == Never

\* shutil.rmtree with ignore_errors: any of the files may stay, without an error.
Removed(files) == SUBSET files

\* Every attempt but the first empties the table; the chunk directory is removed
\* as far as that goes, and the loop starts from the first line.
BeginAttempt ==
  /\ \/ pc = "start" /\ FileBytes > ChunkBytes /\ table' = table
     \/ pc = "retry" /\ table' = Emptied
  /\ pc' = "reading"
  /\ read' = 0
  /\ loaded' = 0
  /\ current_size' = 0
  /\ chunk_index' = 0
  /\ chunk_files' \in Removed(chunk_files)
  /\ UNCHANGED <<size, attempt>>

\* TRUNCATE is outside the try: its failure ends the call.
TruncateFails ==
  /\ pc = "retry"
  /\ pc' = "raised"
  /\ table' \in {table, Emptied}
  /\ UNCHANGED <<size, attempt, locals, chunk_files>>

\* Mutant: the last attempt is retried like any other.
NextAttemptForever == pc' = "retry" /\ attempt' = attempt

\* The handler waits and tries again, or raises after the last attempt.
NextAttempt ==
  IF attempt = Attempts THEN pc' = "raised" /\ attempt' = attempt
                        ELSE pc' = "retry" /\ attempt' = attempt + 1

\* The handler removes what it can of the chunk directory, in which there are files.
Handle(files) ==
  /\ NextAttempt
  /\ chunk_files' \in Removed(files)
  /\ UNCHANGED <<size, locals>>

\* The chunk directory cannot be made: in the first attempt the handler itself
\* fails, because `current' has no value yet.
MakeDirFails ==
  /\ \/ /\ pc = "start"
        /\ FileBytes > ChunkBytes
        /\ pc' = "raised"
        /\ UNCHANGED <<size, attempt, locals, chunk_files, table>>
     \/ /\ pc = "retry"
        /\ table' = Emptied
        /\ Handle(chunk_files)

----------------------------------------------------------------------------
(* Cutting and loading, within one attempt.                                *)

\* A line that is not the first of its chunk must not push it over the limit.
Fits(n) == current_size = 0 \/ current_size + n <= ChunkBytes

\* The chunk files with the one of the next line, which is opened when there is none.
WithCurrent == IF loaded = read THEN chunk_files \cup {chunk_index} ELSE chunk_files

\* The line is written to the current chunk.
ReadLine ==
  /\ pc = "reading"
  /\ read < Lines
  /\ Fits(size[read + 1])
  /\ chunk_files' = WithCurrent
  /\ chunk_index' = IF loaded = read THEN chunk_index + 1 ELSE chunk_index
  /\ read' = read + 1
  /\ current_size' = current_size + size[read + 1]
  /\ UNCHANGED <<size, pc, attempt, loaded, table>>

\* close_and_load_current is called before a line that does not fit, and at the
\* end of the file.
ChunkReady == pc = "reading" /\ loaded < read /\ (read < Lines => ~ Fits(size[read + 1]))

SizeAfterLoad == 0

\* Mutant: the loaded chunk file stays.
FilesAfterLoadKept == chunk_files

FilesAfterLoad == chunk_files \ {chunk_index - 1}

LoadChunk ==
  /\ ChunkReady
  /\ table' = WithChunk
  /\ loaded' = read
  /\ current_size' = SizeAfterLoad
  /\ chunk_files' = FilesAfterLoad
  /\ UNCHANGED <<size, pc, attempt, read, chunk_index>>

\* The client, or the removal of its file, fails: the server may have committed.
LoadChunkFails ==
  /\ ChunkReady
  /\ table' \in {table, WithChunk}
  /\ Handle(chunk_files)

\* A line cannot be written, and the handler cannot close the chunk either, for
\* closing writes again what is buffered: the error leaves the handler before it
\* has removed the directory.
HandlerFails ==
  /\ Fits(size[read + 1])
  /\ pc' = "raised"
  /\ chunk_files' = WithCurrent
  /\ UNCHANGED <<size, attempt, locals>>

\* Reading the CSV file, or opening or writing the chunk, fails; the chunk may
\* have been opened before.
FileFails ==
  /\ pc = "reading"
  /\ read < Lines
  /\ \/ Handle(chunk_files)
     \/ Handle(WithCurrent)
     \/ HandlerFails
  /\ table' = table

\* After the last chunk the cursor's own connection, idle until now, is pinged.
Ping ==
  /\ pc = "reading"
  /\ loaded = Lines
  /\ \/ pc' = "returned" /\ UNCHANGED <<size, attempt, locals, chunk_files>>
     \/ Handle(chunk_files)
  /\ table' = table

Terminated == pc \in {"returned", "raised"} /\ UNCHANGED vars

Step == \/ LoadWhole \/ BeginAttempt \/ TruncateFails \/ MakeDirFails
        \/ ReadLine \/ LoadChunk \/ LoadChunkFails \/ FileFails \/ Ping

Next == Step \/ Terminated

Spec == Init /\ [][Next]_vars

\* The call is a loop of the interpreter: it goes on as long as it can.
FairSpec == Spec /\ WF_vars(Step)

----------------------------------------------------------------------------
(* Properties.                                                             *)

\* The variables stay in range: the attempts never exceed their number, and the
\* chunk being filled is a part of what has been read.
TypeOK ==
  /\ size \in [Line -> SizeChoices]
  /\ pc \in {"start", "retry", "reading", "returned", "raised"}
  /\ attempt \in 1..Attempts
  /\ read \in 0..Lines
  /\ loaded \in 0..read
  /\ current_size \in Nat
  /\ chunk_index \in Nat
  /\ chunk_files \subseteq Nat
  /\ table \in [Line -> Nat]

\* When the call returns, every line of the file is in the table exactly once,
\* whatever failed before and whatever the server had committed by then.
LoadedExactlyOnce == pc = "returned" => table = Once

\* At no time, also between attempts or after the last one, is a line in the
\* table twice: the caller may read a partial table but never duplicated rows.
NeverTwice == \A l \in Line : table[l] <= 1

\* A large file needs the space of one chunk more, not of a copy: of the chunks
\* opened in an attempt only the one being filled exists, and none when the call
\* returns.  Removing the directory ignores errors, so that each attempt before
\* may have left one file, but never more.
OneChunkFile ==
  /\ Cardinality(chunk_files) <= attempt
  /\ pc = "returned" => Cardinality(chunk_files) < attempt
  /\ \A c \in chunk_files : c < chunk_index => c = chunk_index - 1 /\ pc # "returned"

\* The call ends, whatever keeps failing.
LoadEnds == <>(pc \in {"returned", "raised"})
=============================================================================
