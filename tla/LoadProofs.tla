----------------------------- MODULE LoadProofs -----------------------------
(***************************************************************************)
(* Proofs about what follows the generation of the data, on the server:    *)
(* ChunkedLoad, which loads a CSV file into its table, for any file, chunk *)
(* size and number of attempts, and FkScript, which then adds the          *)
(* constraints, for any script, number of attempts and number of looks.    *)
(*                                                                         *)
(* A load that returns has loaded every line exactly once, no line is ever *)
(* in the table twice, and each attempt keeps one chunk file at a time.    *)
(* No constraint is added twice, and a script that returns has added all   *)
(* of them, with the checks off.                                           *)
(***************************************************************************)
EXTENDS ChunkedLoad, FkScript, FiniteSetTheorems, TLAPS

----------------------------------------------------------------------------
(* ChunkedLoad.                                                            *)

(* The inductive invariant: within an attempt the table holds exactly the  *)
(* lines of the chunks loaded so far, which is why a new chunk duplicates  *)
(* none; between attempts nothing is known but that no line is twice.      *)
(* Besides the chunk being filled there are fewer chunk files than         *)
(* attempts, for each attempt before has left at most one.                 *)

Prefix(n) == [l \in Line |-> IF l <= n THEN 1 ELSE 0]

TableInv ==
  /\ pc = "start" => table = Never
  /\ pc = "reading" => table = Prefix(loaded)
  /\ pc = "returned" => table = Once
  /\ pc \in {"retry", "raised"} => \A l \in Line : table[l] <= 1

ChunkFilesInv ==
  /\ IsFiniteSet(chunk_files)
  /\ Cardinality(chunk_files) <= attempt
  /\ pc \in {"start", "retry", "returned"} => Cardinality(chunk_files) < attempt
  /\ pc = "reading" => Cardinality(chunk_files \ {chunk_index - 1}) < attempt
  /\ pc = "reading" /\ loaded = read => chunk_index - 1 \notin chunk_files
  /\ \A c \in chunk_files : c < chunk_index => c = chunk_index - 1
  /\ pc \in {"start", "returned"} => \A c \in chunk_files : c >= chunk_index

IInv == TypeOK /\ TableInv /\ ChunkFilesInv

LEMMA LoadTables ==
  /\ Never \in [Line -> Nat] /\ Once \in [Line -> Nat]
  /\ \A l \in Line : Never[l] = 0 /\ Once[l] = 1
  /\ Never = Prefix(0) /\ Once = Prefix(Lines)
BY ChunkedLoadAssumption DEF Never, Once, Prefix, Line

LEMMA IInvInit == Init => IInv
<1> SUFFICES ASSUME Init PROVE IInv
  OBVIOUS
<1>1. TypeOK
  BY ChunkedLoadAssumption, LoadTables DEF Init, TypeOK
<1>2. TableInv
  BY DEF Init, TableInv
<1>3. ChunkFilesInv
  BY FS_EmptySet DEF Init, ChunkFilesInv
<1>. QED BY <1>1, <1>2, <1>3 DEF IInv

\* The chunk extends the prefix that is loaded.
LEMMA ChunkExtendsPrefix ==
  ASSUME IInv, pc = "reading"
  PROVE  /\ WithChunk = Prefix(read)
         /\ WithChunk \in [Line -> Nat]
         /\ \A l \in Line : WithChunk[l] <= 1 /\ table[l] <= 1
<1>1. table = Prefix(loaded) /\ loaded \in 0..read /\ read \in 0..Lines
  BY DEF IInv, TableInv, TypeOK
<1>2. \A l \in Line : WithChunk[l] = Prefix(read)[l]
  BY <1>1, ChunkedLoadAssumption DEF WithChunk, Prefix, Line
<1>3. WithChunk = Prefix(read)
  BY <1>2 DEF WithChunk, Prefix
<1>. QED BY <1>1, <1>3, ChunkedLoadAssumption DEF Prefix, Line

\* Removing files, or some of them, leaves the others.
LEMMA FewerFiles ==
  ASSUME NEW F, IsFiniteSet(F), NEW G \in SUBSET F
  PROVE  /\ IsFiniteSet(G) /\ Cardinality(G) \in Nat /\ Cardinality(F) \in Nat
         /\ Cardinality(G) <= Cardinality(F)
BY FS_Subset, FS_CardinalityType

\* Opening the chunk of the next line adds one file to those of the attempts before.
LEMMA CurrentChunk ==
  ASSUME IInv, pc = "reading"
  PROVE  /\ IsFiniteSet(WithCurrent) /\ WithCurrent \subseteq Nat
         /\ Cardinality(WithCurrent) <= attempt
         /\ \A c \in WithCurrent : c < chunk_index => c = chunk_index - 1
         /\ loaded = read => /\ Cardinality(WithCurrent \ {chunk_index}) < attempt
                             /\ \A c \in WithCurrent : c >= chunk_index
<1>1. /\ IsFiniteSet(chunk_files) /\ chunk_files \subseteq Nat
      /\ Cardinality(chunk_files) <= attempt /\ attempt \in Nat /\ chunk_index \in Nat
      /\ \A c \in chunk_files : c < chunk_index => c = chunk_index - 1
  BY DEF IInv, TypeOK, ChunkFilesInv
<1>2. CASE loaded # read
  BY <1>1, <1>2 DEF WithCurrent
<1>3. CASE loaded = read
  <2>1. chunk_index - 1 \notin chunk_files /\ Cardinality(chunk_files \ {chunk_index - 1}) < attempt
    BY <1>3 DEF IInv, ChunkFilesInv
  <2>2. chunk_files \ {chunk_index - 1} = chunk_files
    BY <2>1
  <2>3. Cardinality(chunk_files) < attempt /\ Cardinality(chunk_files) \in Nat
    BY <1>1, <2>1, <2>2, FS_CardinalityType
  <2>4. WithCurrent = chunk_files \cup {chunk_index}
    BY <1>3 DEF WithCurrent
  <2>5. IsFiniteSet(WithCurrent) /\ Cardinality(WithCurrent) <= Cardinality(chunk_files) + 1
    BY <1>1, <2>3, <2>4, FS_AddElement
  <2>6. WithCurrent \ {chunk_index} \in SUBSET chunk_files
    BY <2>4
  <2>7. /\ Cardinality(WithCurrent \ {chunk_index}) <= Cardinality(chunk_files)
        /\ Cardinality(WithCurrent \ {chunk_index}) \in Nat /\ Cardinality(WithCurrent) \in Nat
    BY <1>1, <2>5, <2>6, FewerFiles, FS_CardinalityType
  <2>8. \A c \in chunk_files : c >= chunk_index
    BY <1>1, <2>1
  <2>9. WithCurrent \subseteq Nat /\ \A c \in WithCurrent : c >= chunk_index
    BY <1>1, <2>4, <2>8
  <2>10. Cardinality(WithCurrent) <= attempt /\ Cardinality(WithCurrent \ {chunk_index}) < attempt
    BY <1>1, <2>3, <2>5, <2>7
  <2>11. \A c \in WithCurrent : ~ c < chunk_index
    BY <1>1, <2>9
  <2>. QED BY <2>5, <2>9, <2>10, <2>11
<1>. QED BY <1>2, <1>3

\* The handler: whatever the server had committed, no line is there twice, and
\* of the files those that stay are no more than there were.
LEMMA HandleStep ==
  ASSUME IInv, NextAttempt, UNCHANGED <<size, locals>>,
         \/ chunk_files' \in Removed(chunk_files)
         \/ pc = "reading" /\ chunk_files' \in Removed(WithCurrent),
         table' \in [Line -> Nat], \A l \in Line : table'[l] <= 1
  PROVE  IInv'
<1>1. /\ UNCHANGED <<size, read, loaded, current_size, chunk_index>>
      /\ attempt' \in 1..Attempts
      /\ \/ pc' = "retry" /\ attempt' = attempt + 1
         \/ pc' = "raised" /\ attempt' = attempt
  BY ChunkedLoadAssumption DEF NextAttempt, IInv, TypeOK, locals
<1>2. attempt \in Nat
  BY DEF IInv, TypeOK
<1>3. /\ IsFiniteSet(chunk_files') /\ chunk_files' \subseteq Nat
      /\ Cardinality(chunk_files') \in Nat /\ Cardinality(chunk_files') <= attempt
      /\ \A c \in chunk_files' : c < chunk_index => c = chunk_index - 1
  <2>1. CASE chunk_files' \in Removed(chunk_files)
    <3>1. /\ IsFiniteSet(chunk_files) /\ chunk_files \subseteq Nat
          /\ Cardinality(chunk_files) <= attempt
          /\ \A c \in chunk_files : c < chunk_index => c = chunk_index - 1
      BY DEF IInv, TypeOK, ChunkFilesInv
    <3>2. chunk_files' \in SUBSET chunk_files
      BY <2>1 DEF Removed
    <3>3. /\ IsFiniteSet(chunk_files') /\ Cardinality(chunk_files') \in Nat
          /\ Cardinality(chunk_files') <= Cardinality(chunk_files) /\ Cardinality(chunk_files) \in Nat
      BY <3>1, <3>2, FewerFiles
    <3>. QED BY <1>2, <3>1, <3>2, <3>3
  <2>2. CASE pc = "reading" /\ chunk_files' \in Removed(WithCurrent)
    <3>1. /\ IsFiniteSet(WithCurrent) /\ WithCurrent \subseteq Nat
          /\ Cardinality(WithCurrent) <= attempt
          /\ \A c \in WithCurrent : c < chunk_index => c = chunk_index - 1
      BY <2>2, CurrentChunk
    <3>2. chunk_files' \in SUBSET WithCurrent
      BY <2>2 DEF Removed
    <3>3. /\ IsFiniteSet(chunk_files') /\ Cardinality(chunk_files') \in Nat
          /\ Cardinality(chunk_files') <= Cardinality(WithCurrent) /\ Cardinality(WithCurrent) \in Nat
      BY <3>1, <3>2, FewerFiles
    <3>. QED BY <1>2, <3>1, <3>2, <3>3
  <2>. QED BY <2>1, <2>2
<1>4. ChunkFilesInv'
  BY <1>1, <1>2, <1>3 DEF ChunkFilesInv
<1>. QED BY <1>1, <1>3, <1>4 DEF IInv, TypeOK, TableInv

LEMMA IInvStep == IInv /\ [Next]_vars => IInv'
<1> SUFFICES ASSUME IInv, [Next]_vars PROVE IInv'
  OBVIOUS
<1> USE ChunkedLoadAssumption, LoadTables
<1>1. CASE LoadWhole
  <2>1. /\ UNCHANGED <<size, attempt, read, loaded, current_size, chunk_index, chunk_files>>
        /\ \/ pc' = "returned" /\ table' = Once
           \/ pc' = "raised" /\ table' \in {Never, Once}
        /\ pc = "start"
    BY <1>1 DEF LoadWhole, locals, IInv, TableInv
  <2>. QED BY <2>1 DEF IInv, TypeOK, TableInv, ChunkFilesInv
<1>2. CASE BeginAttempt
  <2>1. table' = Never
    BY <1>2 DEF BeginAttempt, Emptied, IInv, TableInv
  <2>2. /\ pc \in {"start", "retry"} /\ pc' = "reading" /\ UNCHANGED <<size, attempt>>
        /\ read' = 0 /\ loaded' = 0 /\ current_size' = 0 /\ chunk_index' = 0
        /\ chunk_files' \in SUBSET chunk_files
    BY <1>2 DEF BeginAttempt, Removed
  <2>3. TypeOK'
    BY <2>1, <2>2 DEF IInv, TypeOK
  <2>4. TableInv'
    BY <2>1, <2>2 DEF TableInv
  <2>5. /\ IsFiniteSet(chunk_files) /\ Cardinality(chunk_files) < attempt /\ attempt \in Nat
        /\ chunk_files \subseteq Nat
    BY <2>2 DEF IInv, TypeOK, ChunkFilesInv
  <2>6. /\ IsFiniteSet(chunk_files') /\ Cardinality(chunk_files') < attempt
        /\ Cardinality(chunk_files') \in Nat
    <3>1. /\ IsFiniteSet(chunk_files') /\ Cardinality(chunk_files') \in Nat
          /\ Cardinality(chunk_files') <= Cardinality(chunk_files) /\ Cardinality(chunk_files) \in Nat
      BY <2>2, <2>5, FewerFiles
    <3>. QED BY <2>5, <3>1
  <2>7. chunk_files' \ {-1} = chunk_files'
    BY <2>2, <2>5
  <2>8. ChunkFilesInv'
    BY <2>2, <2>5, <2>6, <2>7 DEF ChunkFilesInv
  <2>. QED BY <2>3, <2>4, <2>8 DEF IInv
<1>3. CASE TruncateFails
  <2>1. table' \in [Line -> Nat] /\ \A l \in Line : table'[l] <= 1
    BY <1>3 DEF TruncateFails, Emptied, IInv, TypeOK, TableInv
  <2>. QED BY <1>3, <2>1 DEF TruncateFails, locals, IInv, TypeOK, TableInv, ChunkFilesInv
<1>4. CASE MakeDirFails
  <2>1. CASE UNCHANGED table /\ pc = "start" /\ pc' = "raised"
             /\ UNCHANGED <<size, attempt, locals, chunk_files>>
    BY <2>1 DEF locals, IInv, TypeOK, TableInv, ChunkFilesInv
  <2>2. CASE table' = Emptied /\ Handle(chunk_files)
    BY <2>2, HandleStep DEF Emptied, Handle
  <2>. QED BY <1>4, <2>1, <2>2 DEF MakeDirFails
<1>5. CASE ReadLine
  <2>1. /\ pc = "reading" /\ pc' = pc /\ table' = table /\ loaded' = loaded
        /\ attempt' = attempt /\ size' = size
        /\ read < Lines /\ read' = read + 1
        /\ current_size' = current_size + size[read + 1]
        /\ chunk_files' = WithCurrent
        /\ loaded = read => chunk_index' = chunk_index + 1
        /\ loaded # read => chunk_files' = chunk_files /\ chunk_index' = chunk_index
    BY <1>5 DEF ReadLine, WithCurrent
  <2>2. size[read + 1] \in Nat /\ read \in 0..Lines /\ loaded \in 0..read
        /\ current_size \in Nat /\ chunk_index \in Nat
    <3>1. read \in 0..Lines /\ loaded \in 0..read /\ current_size \in Nat /\ chunk_index \in Nat
      BY DEF IInv, TypeOK
    <3>2. read + 1 \in Line
      BY <2>1, <3>1 DEF Line
    <3>3. size[read + 1] \in SizeChoices
      BY <3>2 DEF IInv, TypeOK
    <3>. QED BY <3>1, <3>3
  <2>3. TypeOK'
    <3>1. chunk_files' \subseteq Nat /\ chunk_index' \in Nat
      BY <2>1, <2>2, CurrentChunk
    <3>2. read' \in 0..Lines /\ loaded' \in 0..read' /\ current_size' \in Nat
      BY <2>1, <2>2
    <3>. QED BY <2>1, <3>1, <3>2 DEF IInv, TypeOK
  <2>4. TableInv'
    BY <2>1 DEF IInv, TableInv
  <2>5. ChunkFilesInv'
    <3>1. CASE loaded = read
      <4>1. /\ IsFiniteSet(chunk_files') /\ Cardinality(chunk_files') <= attempt
            /\ Cardinality(chunk_files' \ {chunk_index}) < attempt
            /\ \A c \in chunk_files' : c >= chunk_index
            /\ chunk_files' \subseteq Nat
        BY <2>1, <3>1, CurrentChunk
      <4>2. chunk_index' - 1 = chunk_index /\ loaded' # read'
        BY <2>1, <2>2, <3>1
      <4>. QED BY <2>1, <2>2, <3>1, <4>1, <4>2 DEF ChunkFilesInv
    <3>2. CASE loaded # read
      BY <2>1, <2>2, <3>2 DEF IInv, ChunkFilesInv
    <3>. QED BY <3>1, <3>2
  <2>. QED BY <2>3, <2>4, <2>5 DEF IInv
<1>6. CASE LoadChunk
  <2>1. /\ pc = "reading" /\ pc' = pc /\ table' = WithChunk /\ loaded' = read /\ read' = read
        /\ current_size' = 0 /\ chunk_files' = chunk_files \ {chunk_index - 1}
        /\ UNCHANGED <<size, attempt, chunk_index>> /\ loaded < read
    BY <1>6 DEF LoadChunk, ChunkReady, SizeAfterLoad, FilesAfterLoad
  <2>2. WithChunk = Prefix(read) /\ WithChunk \in [Line -> Nat]
    BY <2>1, ChunkExtendsPrefix
  <2>3. TypeOK' /\ TableInv'
    BY <2>1, <2>2 DEF IInv, TypeOK, TableInv
  <2>4. /\ IsFiniteSet(chunk_files) /\ attempt \in Nat /\ chunk_index \in Nat
        /\ Cardinality(chunk_files \ {chunk_index - 1}) < attempt
        /\ \A c \in chunk_files : c < chunk_index => c = chunk_index - 1
    BY <2>1 DEF IInv, TypeOK, ChunkFilesInv
  <2>5. IsFiniteSet(chunk_files') /\ Cardinality(chunk_files') < attempt /\ Cardinality(chunk_files') \in Nat
    BY <2>1, <2>4, FewerFiles, FS_CardinalityType
  <2>6. chunk_index' - 1 \notin chunk_files' /\ chunk_files' \ {chunk_index' - 1} = chunk_files'
    BY <2>1
  <2>7. ChunkFilesInv'
    BY <2>1, <2>4, <2>5, <2>6 DEF ChunkFilesInv
  <2>. QED BY <2>3, <2>7 DEF IInv
<1>7. CASE LoadChunkFails
  <2>1. pc = "reading" /\ table' \in {table, WithChunk} /\ Handle(chunk_files)
    BY <1>7 DEF LoadChunkFails, ChunkReady
  <2>2. table' \in [Line -> Nat] /\ \A l \in Line : table'[l] <= 1
    BY <2>1, ChunkExtendsPrefix DEF IInv, TypeOK
  <2>. QED BY <2>1, <2>2, HandleStep DEF Handle
<1>8. CASE FileFails
  <2>1. pc = "reading" /\ table' = table
    BY <1>8 DEF FileFails
  <2>2. table' \in [Line -> Nat] /\ \A l \in Line : table'[l] <= 1
    BY <2>1, ChunkExtendsPrefix DEF IInv, TypeOK
  <2>3. CASE Handle(chunk_files) \/ Handle(WithCurrent)
    BY <2>1, <2>2, <2>3, HandleStep DEF Handle
  <2>4. CASE HandlerFails
    <3>1. /\ pc' = "raised"
          /\ UNCHANGED <<size, attempt, read, loaded, current_size, chunk_index>>
          /\ chunk_files' = WithCurrent
      BY <2>4 DEF HandlerFails, locals
    <3>2. /\ IsFiniteSet(chunk_files') /\ chunk_files' \subseteq Nat
          /\ Cardinality(chunk_files') <= attempt
          /\ \A c \in chunk_files' : c < chunk_index => c = chunk_index - 1
      BY <2>1, <3>1, CurrentChunk
    <3>3. ChunkFilesInv'
      BY <3>1, <3>2 DEF ChunkFilesInv
    <3>. QED BY <2>1, <2>2, <3>1, <3>2, <3>3 DEF IInv, TypeOK, TableInv
  <2>. QED BY <1>8, <2>3, <2>4 DEF FileFails
<1>9. CASE Ping
  <2>1. pc = "reading" /\ table' = table /\ loaded = Lines
    BY <1>9 DEF Ping
  <2>2. table' \in [Line -> Nat] /\ \A l \in Line : table'[l] <= 1
    BY <2>1, ChunkExtendsPrefix DEF IInv, TypeOK
  <2>3. CASE Handle(chunk_files)
    BY <2>2, <2>3, HandleStep DEF Handle
  <2>4. CASE ~ Handle(chunk_files)
    <3>1. /\ pc' = "returned"
          /\ UNCHANGED <<size, attempt, read, loaded, current_size, chunk_index, chunk_files>>
      BY <1>9, <2>4 DEF Ping, locals
    <3>2. read = Lines /\ table = Once
      BY <2>1 DEF IInv, TypeOK, TableInv
    <3>3. TypeOK' /\ TableInv'
      BY <2>1, <3>1, <3>2 DEF IInv, TypeOK, TableInv
    <3>4. /\ IsFiniteSet(chunk_files) /\ Cardinality(chunk_files) <= attempt
          /\ chunk_index - 1 \notin chunk_files
          /\ Cardinality(chunk_files \ {chunk_index - 1}) < attempt
          /\ \A c \in chunk_files : c < chunk_index => c = chunk_index - 1
          /\ chunk_files \subseteq Nat /\ chunk_index \in Nat
      <4>1. loaded = read
        BY <2>1, <3>2
      <4>. QED BY <2>1, <4>1 DEF IInv, TypeOK, ChunkFilesInv
    <3>5. chunk_files \ {chunk_index - 1} = chunk_files /\ \A c \in chunk_files : c >= chunk_index
      BY <3>4
    <3>6. ChunkFilesInv'
      BY <3>1, <3>4, <3>5 DEF ChunkFilesInv
    <3>. QED BY <3>3, <3>6 DEF IInv
  <2>. QED BY <2>3, <2>4
<1>10. CASE Terminated \/ UNCHANGED vars
  BY <1>10 DEF Terminated, vars, IInv, TypeOK, TableInv, ChunkFilesInv
<1>. QED BY <1>1, <1>2, <1>3, <1>4, <1>5, <1>6, <1>7, <1>8, <1>9, <1>10 DEF Next, Step

\* The invariant holds throughout a load.
THEOREM LoadInvariance == Spec => []IInv
BY IInvInit, IInvStep, PTL DEF Spec

\* The variables of a load keep their types.
THEOREM LoadTypeCorrect == Spec => []TypeOK
<1>1. IInv => TypeOK
  BY DEF IInv
<1>. QED BY <1>1, LoadInvariance, PTL

\* A load that returns has put every line of the file in the table once.
THEOREM LoadIsExactlyOnce == Spec => []LoadedExactlyOnce
<1>1. IInv => LoadedExactlyOnce
  BY DEF IInv, TableInv, LoadedExactlyOnce
<1>. QED BY <1>1, LoadInvariance, PTL

\* No failure, lost reply or retry ever leaves a line in the table twice.
THEOREM LoadNeverDuplicates == Spec => []NeverTwice
<1>1. IInv => NeverTwice
  <2> SUFFICES ASSUME IInv, NEW l \in Line PROVE table[l] <= 1
    BY DEF NeverTwice
  <2>1. CASE pc = "reading"
    BY <2>1, ChunkExtendsPrefix
  <2>2. CASE pc # "reading"
    BY <2>2, LoadTables DEF IInv, TypeOK, TableInv
  <2>. QED BY <2>1, <2>2
<1>. QED BY <1>1, LoadInvariance, PTL

\* Of the chunks opened in an attempt only the one being filled is on the disk,
\* and none when the call returns; each attempt before has left at most one.
THEOREM LoadKeepsOneChunk == Spec => []OneChunkFile
<1>1. IInv => OneChunkFile
  <2> SUFFICES ASSUME IInv PROVE OneChunkFile
    OBVIOUS
  <2>1. \A c \in chunk_files : c < chunk_index => pc # "returned"
    BY DEF IInv, TypeOK, ChunkFilesInv
  <2>. QED BY <2>1 DEF IInv, TypeOK, ChunkFilesInv, OneChunkFile
<1>. QED BY <1>1, LoadInvariance, PTL

----------------------------------------------------------------------------
(* FkScript.                                                               *)

(* The inductive invariant: what the client may still believe of the       *)
(* statement it has lost.  While it waits the statement may be running;    *)
(* when it takes its last look nothing is, so that a constraint which does *)
(* not exist by then never will unless the client adds it again.           *)

Ended == script_pc \in {"returned", "raised", "duplicate"}

ClientTypes ==
  /\ script_pc \in {"exists", "execute", "reconnect", "waiting", "processes", "lastlook",
             "finish", "returned", "raised", "duplicate"}
  /\ k \in 1..(Count + 1)
  /\ script_pc \in {"finish", "returned"} => k = Count + 1
  /\ ~ Ended /\ script_pc # "finish" => k \in Constraint
  /\ script_attempt \in 1..ScriptAttempts
  /\ script_pc \in {"reconnect", "waiting", "processes", "lastlook"} => script_attempt < ScriptAttempts
  /\ wait \in 1..Waits

ServerTypes == exists \subseteq Constraint /\ active \subseteq Constraint

\* Constraints before the k-th exist; only the k-th may be left running.
Progress ==
  /\ \A c \in 1..(k - 1) : c \in exists
  /\ active \subseteq {k}
  /\ active \cap exists = {}
  /\ script_pc \in {"exists", "execute", "lastlook", "finish", "returned", "duplicate"} => active = {}
  /\ script_pc = "execute" => k \notin exists
  /\ script_pc # "duplicate"

\* Each statement is counted at most once, and the k-th not before it is known.
Counted ==
  /\ applied \in Nat /\ skipped \in Nat
  /\ applied + skipped <= Count
  /\ script_pc \in {"exists", "execute", "reconnect", "waiting", "processes"} => applied + skipped < k
  /\ script_pc = "lastlook" => applied + skipped <= k
  /\ script_pc = "lastlook" /\ k \notin exists => applied + skipped < k

ChecksOff ==
  /\ unchecked = {}
  /\ fk_checks \in {0, 1}
  /\ script_pc # "returned" => fk_checks = 0

ScriptIInv == ClientTypes /\ ServerTypes /\ Progress /\ Counted /\ ChecksOff

LEMMA ScriptIInvInit == ScriptInit => ScriptIInv
BY FkScriptAssumption
   DEF ScriptInit, ScriptIInv, ClientTypes, ServerTypes, Progress, Counted, ChecksOff, Ended, Constraint

LEMMA ScriptIInvStep == ScriptIInv /\ [ScriptNext]_script_vars => ScriptIInv'
<1> SUFFICES ASSUME ScriptIInv, [ScriptNext]_script_vars PROVE ScriptIInv'
  OBVIOUS
<1> USE FkScriptAssumption DEF ScriptIInv, ClientTypes, ServerTypes, Progress, Counted,
        ChecksOff, Ended, Constraint
<1>1. CASE LookFirst
  BY <1>1 DEF LookFirst, NextStatement, server
<1>2. CASE Execute
  <2>1. script_pc = "execute" /\ k \in Constraint /\ k \notin exists \cup active /\ active = {}
    BY <1>2 DEF Execute
  <2>2. /\ exists' = exists \cup {k} /\ active' = {}
        /\ applied' = applied + 1 /\ skipped' = skipped
        /\ k' = k + 1 /\ script_attempt' = 1 /\ wait' = wait
        /\ script_pc' = (IF k = Count THEN "finish" ELSE "exists")
        /\ fk_checks' = 0 /\ unchecked' = {}
    BY <1>2, <2>1 DEF Execute, NextStatement
  <2>3. ClientTypes' /\ ServerTypes' /\ Counted' /\ ChecksOff'
    BY <2>1, <2>2
  <2>4. Progress'
    BY <2>1, <2>2
  <2>. QED BY <2>3, <2>4
<1>3. CASE Finish
  BY <1>3 DEF Finish, server
<1>4. CASE LoseConnection
  <2>1. /\ script_pc = "execute" /\ k \notin exists /\ active = {} /\ k \in Constraint
        /\ script_pc' \in {"raised", "reconnect"} /\ wait' = 1
        /\ script_pc' = "reconnect" => script_attempt # ScriptAttempts
        /\ UNCHANGED <<k, script_attempt, fk_checks, applied, skipped, unchecked>>
    BY <1>4 DEF LoseConnection
  <2>2. \/ exists' = exists /\ active' = {}
        \/ exists' = exists \cup {k} /\ active' = {}
        \/ exists' = exists /\ active' = {k}
    BY <1>4, <2>1 DEF LoseConnection, server
  <2>3. ClientTypes' /\ Counted' /\ ChecksOff'
    BY <2>1
  <2>4. ServerTypes'
    BY <2>1, <2>2
  <2>5. Progress'
    BY <2>1, <2>2
  <2>. QED BY <2>3, <2>4, <2>5
<1>5. CASE Reconnect
  BY <1>5 DEF Reconnect, ChecksAfterReconnect, server
<1>6. CASE LookWaiting
  BY <1>6 DEF LookWaiting, server
<1>7. CASE LookProcesses
  BY <1>7 DEF LookProcesses, NotActive, server
<1>8. CASE LastLook
  BY <1>8 DEF LastLook, NextStatement, server
<1>9. CASE Fails
  BY <1>9 DEF Fails, server
<1>10. CASE ServerEnds
  BY <1>10 DEF ServerEnds, client
<1>11. CASE ScriptEnds \/ UNCHANGED script_vars
  BY <1>11 DEF ScriptEnds, script_vars, client, server
<1>. QED BY <1>1, <1>2, <1>3, <1>4, <1>5, <1>6, <1>7, <1>8, <1>9, <1>10, <1>11
         DEF ScriptNext, ClientStep

\* The invariant holds throughout.
THEOREM ScriptInvariance == ScriptSpec => []ScriptIInv
BY ScriptIInvInit, ScriptIInvStep, PTL DEF ScriptSpec

\* The counters stay in range, and no statement is counted twice.
THEOREM ScriptTypeCorrect == ScriptSpec => []ScriptTypeOK
<1>1. ScriptIInv => ScriptTypeOK
  <2> SUFFICES ASSUME ScriptIInv PROVE ScriptTypeOK
    OBVIOUS
  <2>1. fk_checks \in {0, 1}
    BY DEF ScriptIInv, ChecksOff
  <2>. QED BY <2>1 DEF ScriptIInv, ClientTypes, ServerTypes, Counted, ChecksOff, ScriptTypeOK
<1>. QED BY <1>1, ScriptInvariance, PTL

\* Whatever the server does with a lost statement, it is not added twice.
THEOREM ScriptNeverDuplicates == ScriptSpec => []NeverDuplicate
<1>1. ScriptIInv => NeverDuplicate
  BY DEF ScriptIInv, Progress, NeverDuplicate
<1>. QED BY <1>1, ScriptInvariance, PTL

\* A script that returns has left every constraint in the schema.
THEOREM ScriptAddsAll == ScriptSpec => []ReturnedMeansAll
<1>1. ScriptIInv => ReturnedMeansAll
  <2> SUFFICES ASSUME ScriptIInv, script_pc = "returned" PROVE exists = Constraint /\ active = {}
    BY DEF ReturnedMeansAll
  <2>1. k - 1 = Count
    BY FkScriptAssumption DEF ScriptIInv, ClientTypes
  <2>2. \A c \in 1..Count : c \in exists
    BY <2>1 DEF ScriptIInv, Progress
  <2>. QED BY <2>2 DEF ScriptIInv, ServerTypes, Progress, Constraint
<1>. QED BY <1>1, ScriptInvariance, PTL

\* Every constraint is added with the checks off, in every session.
THEOREM ScriptChecksOff == ScriptSpec => []ChecksOffWhileAdding
<1>1. ScriptIInv => ChecksOffWhileAdding
  BY DEF ScriptIInv, ChecksOff, ChecksOffWhileAdding
<1>. QED BY <1>1, ScriptInvariance, PTL
=============================================================================
