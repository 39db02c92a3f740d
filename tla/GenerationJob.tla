--------------------------- MODULE GenerationJob ---------------------------
(***************************************************************************)
(* What a run of the engine promises, whatever its files and threads: each *)
(* of the rows 1..Total is generated at most once, in any order; the run   *)
(* succeeds only when every row has been generated; it may instead fail.   *)
(* After it has returned nothing more is generated.                        *)
(***************************************************************************)
EXTENDS Integers

VARIABLES
  total,     \* rows asked for
  emitted,   \* rows generated so far
  result     \* "none" until the run returns

jobVars == <<total, emitted, result>>

JobInit ==
  /\ total \in Nat
  /\ emitted = {}
  /\ result = "none"

Emit(r) ==
  /\ result = "none"
  /\ r \in (1..total) \ emitted
  /\ emitted' = emitted \cup {r}
  /\ UNCHANGED <<total, result>>

Succeed ==
  /\ result = "none"
  /\ emitted = 1..total
  /\ result' = "ok"
  /\ UNCHANGED <<total, emitted>>

Fail ==
  /\ result = "none"
  /\ result' = "err"
  /\ UNCHANGED <<total, emitted>>

JobNext == (\E r \in 1..total : Emit(r)) \/ Succeed \/ Fail

JobSpec == JobInit /\ [][JobNext]_jobVars
=============================================================================
