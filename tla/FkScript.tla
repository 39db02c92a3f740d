------------------------------ MODULE FkScript ------------------------------
(***************************************************************************)
(* Adding the constraints of a benchmark to a loaded schema:               *)
(* apply_benchmark_fk_script of orchestration/MasterRun.py, together with  *)
(* the server that executes its ALTER TABLE statements.                    *)
(*                                                                         *)
(* An ALTER TABLE takes long, and its connection may be lost while it      *)
(* runs.  The server goes on with it or gives it up, and the client can    *)
(* only look: at the constraints that exist, and at the statements that    *)
(* are active.  The three looks are separate statements, and the server    *)
(* moves between them.                                                     *)
(***************************************************************************)
EXTENDS Integers, FiniteSets

CONSTANTS
  Count,          \* the statements of the script, each adding one constraint
  ScriptAttempts,   \* executions of a statement: 3 in the code
  Waits           \* looks at the server after a connection is lost: 60 in the code

ASSUME FkScriptAssumption ==
  /\ Count \in Nat \ {0}
  /\ ScriptAttempts \in Nat \ {0}
  /\ Waits \in Nat \ {0}

VARIABLES
  script_pc,      \* the next statement of the client
  k,              \* the constraint it is about
  script_attempt, \* attempt
  wait,           \* wait_attempt
  fk_checks,      \* FOREIGN_KEY_CHECKS of the client's session
  exists,         \* server: the constraints of the schema
  active,         \* server: the ALTER TABLE left behind by a lost connection
  applied, skipped,
  unchecked       \* history: ALTER TABLEs executed with the checks on

client == <<script_pc, k, script_attempt, wait, fk_checks, applied, skipped, unchecked>>
server == <<exists, active>>
script_vars == <<client, server>>

Constraint == 1..Count

ScriptInit ==
  /\ script_pc = "exists"
  /\ k = 1
  /\ script_attempt = 1
  /\ wait = 1
  /\ fk_checks = 0          \* the script begins with SET FOREIGN_KEY_CHECKS = 0
  /\ exists \in SUBSET Constraint
  /\ active = {}
  /\ applied = 0
  /\ skipped = 0
  /\ unchecked = {}

NextStatement ==
  /\ k' = k + 1
  /\ script_pc' = IF k = Count THEN "finish" ELSE "exists"
  /\ script_attempt' = 1

----------------------------------------------------------------------------
(* The server, on its own.                                                 *)

\* An ALTER TABLE whose client is gone comes to its end, or is given up.
ServerEnds ==
  /\ active # {}
  /\ exists' \in {exists, exists \cup active}
  /\ active' = {}
  /\ UNCHANGED client

----------------------------------------------------------------------------
(* The client.                                                             *)

\* _fk_constraint_exists before the first attempt; any query may fail.
LookFirst ==
  /\ script_pc = "exists"
  /\ \/ /\ k \in exists
        /\ skipped' = skipped + 1
        /\ NextStatement
     \/ /\ k \notin exists
        /\ script_pc' = "execute"
        /\ UNCHANGED <<k, script_attempt, skipped>>
  /\ UNCHANGED <<wait, fk_checks, applied, unchecked, server>>

\* The statement is answered.  The server refuses a constraint that it has, or
\* is adding already.
Execute ==
  /\ script_pc = "execute"
  /\ IF k \in exists \cup active
     THEN /\ script_pc' = "duplicate"
          /\ UNCHANGED <<k, script_attempt, exists, applied, unchecked>>
     ELSE /\ exists' = exists \cup {k}
          /\ applied' = applied + 1
          /\ NextStatement
          /\ unchecked' = IF fk_checks = 1 THEN unchecked \cup {k} ELSE unchecked
  /\ UNCHANGED <<wait, fk_checks, skipped, active>>

\* The connection is lost: the statement was never received, is done, or goes
\* on.  After the last attempt the error is raised.
LoseConnection ==
  /\ script_pc = "execute"
  /\ \/ UNCHANGED server
     \/ exists' = exists \cup {k} /\ active' = active
     \/ active' = active \cup {k} /\ exists' = exists
  /\ script_pc' = IF script_attempt = ScriptAttempts THEN "raised" ELSE "reconnect"
  /\ wait' = 1
  /\ unchecked' = IF fk_checks = 1 THEN unchecked \cup {k} ELSE unchecked
  /\ UNCHANGED <<k, script_attempt, fk_checks, applied, skipped>>

\* Mutant: the new session keeps the default of the server.
ChecksOfNewSession == 1

\* SET FOREIGN_KEY_CHECKS = 0, at every reconnection.
ChecksAfterReconnect == 0

Reconnect ==
  /\ script_pc = "reconnect"
  /\ script_pc' = "waiting"
  /\ fk_checks' = ChecksAfterReconnect
  /\ UNCHANGED <<k, script_attempt, wait, applied, skipped, unchecked, server>>

\* The first look of the loop.
LookWaiting ==
  /\ script_pc = "waiting"
  /\ \/ k \in exists /\ applied' = applied + 1 /\ script_pc' = "lastlook"
     \/ k \notin exists /\ applied' = applied /\ script_pc' = "processes"
  /\ UNCHANGED <<k, script_attempt, wait, fk_checks, skipped, unchecked, server>>

NotActive == k \notin active

\* _active_fk_ddl_count: the client waits while the statement is active.
LookProcesses ==
  /\ script_pc = "processes"
  /\ \/ NotActive /\ script_pc' = "lastlook" /\ wait' = wait
     \/ /\ ~ NotActive
        /\ IF wait = Waits THEN script_pc' = "raised" /\ wait' = wait
                           ELSE script_pc' = "reconnect" /\ wait' = wait + 1
  /\ UNCHANGED <<k, script_attempt, fk_checks, applied, skipped, unchecked, server>>

\* Mutants: no last look, the statement is repeated or taken for done.
LastLookRepeats ==
  /\ script_pc = "lastlook"
  /\ script_pc' = "execute"
  /\ script_attempt' = script_attempt + 1
  /\ UNCHANGED <<k, wait, fk_checks, applied, skipped, unchecked, server>>

LastLookAssumesDone ==
  /\ script_pc = "lastlook"
  /\ NextStatement
  /\ UNCHANGED <<wait, fk_checks, applied, skipped, unchecked, server>>

\* The look after the loop: the statement may have ended between the other two.
LastLook ==
  /\ script_pc = "lastlook"
  /\ IF k \in exists
     THEN NextStatement
     ELSE script_pc' = "execute" /\ script_attempt' = script_attempt + 1 /\ k' = k
  /\ UNCHANGED <<wait, fk_checks, applied, skipped, unchecked, server>>

\* SET FOREIGN_KEY_CHECKS = 1, when the script is through.
Finish ==
  /\ script_pc = "finish"
  /\ script_pc' = "returned"
  /\ fk_checks' = 1
  /\ UNCHANGED <<k, script_attempt, wait, applied, skipped, unchecked, server>>

\* Another error, of any of the client's statements.
Fails ==
  /\ script_pc \notin {"returned", "raised", "duplicate"}
  /\ script_pc' = "raised"
  /\ UNCHANGED <<k, script_attempt, wait, fk_checks, applied, skipped, unchecked, server>>

ScriptEnds ==
  /\ script_pc \in {"returned", "raised", "duplicate"}
  /\ active = {}
  /\ UNCHANGED script_vars

ClientStep == \/ LookFirst \/ Execute \/ LoseConnection \/ Reconnect
              \/ LookWaiting \/ LookProcesses \/ LastLook \/ Finish \/ Fails

ScriptNext == ClientStep \/ ServerEnds \/ ScriptEnds

ScriptSpec == ScriptInit /\ [][ScriptNext]_script_vars
----------------------------------------------------------------------------
(* Properties.                                                             *)

\* The counters stay in range, and at most one statement is left behind.
ScriptTypeOK ==
  /\ script_pc \in {"exists", "execute", "reconnect", "waiting", "processes", "lastlook",
             "finish", "returned", "raised", "duplicate"}
  /\ k \in 1..(Count + 1)
  /\ script_attempt \in 1..ScriptAttempts
  /\ wait \in 1..Waits
  /\ fk_checks \in {0, 1}
  /\ exists \subseteq Constraint /\ active \subseteq Constraint
  /\ applied + skipped <= Count
  /\ unchecked \subseteq Constraint

\* No constraint is added twice: a statement is repeated only when the lost one
\* has neither succeeded nor is still running on the server, although the three
\* looks that decide this are not atomic.
NeverDuplicate == script_pc # "duplicate"

\* The script returns only when every constraint exists and nothing is running.
ReturnedMeansAll == script_pc = "returned" => exists = Constraint /\ active = {}

\* "FOREIGN_KEY_CHECKS is disabled while adding constraints" (tpcds_fk.sql), also
\* in the sessions opened after a connection is lost.
ChecksOffWhileAdding == unchecked = {}
=============================================================================
