------------------------------ MODULE MasterRun ------------------------------
(***************************************************************************)
(* One run of the orchestrator: main() of orchestration/MasterRun.py.      *)
(*                                                                         *)
(* The tables are taken in dependency order.  For each, step A writes a    *)
(* template, step B runs the engine on it, and step C creates the table in *)
(* the target schema, loads the CSV file and checks it.  Steps A and B     *)
(* report a failure and the run goes on with the next table; an exception  *)
(* ends the run.  Templates, CSV files and target tables of an earlier run *)
(* may be there when it starts.                                            *)
(*                                                                         *)
(* FOREIGN_KEY_CHECKS belongs to the session, and a session that is        *)
(* reconnected starts with the server's default.                           *)
(***************************************************************************)
EXTENDS TableGraph

CONSTANTS
  None,
  GraphChoices,   \* the dependency graphs considered
  FilterChoices,  \* the values of --tables: None, or a set of tables
  BeforeChoices,  \* the tables that an earlier run has left
  FilesCount      \* DATAGENX_FILES_COUNT

ASSUME MasterRunAssumption ==
  /\ GraphChoices \subseteq Dependencies
  /\ FilterChoices \subseteq (SUBSET Tables) \cup {None}
  /\ BeforeChoices \subseteq SUBSET Tables
  /\ FilesCount \in Nat \ {0}

VARIABLES
  dependencies,    \* the tables each table references
  tables_filter,   \* TABLES_FILTER
  skip_validation, \* SKIP_VALIDATION
  physical,        \* the references are foreign keys of the DDL, not the fallback
                   \* that is added for a benchmark schema without any
  pc,              \* where the run stands
  order,           \* sorted_tables that are still to be processed
  fk_checks,       \* FOREIGN_KEY_CHECKS of the cursor's session
  template,        \* the .dbgen file of each table: "none", "before" or "now"
  csv,             \* its first CSV file: "none", "before", "partial" or "now"
  target,          \* the table in the target schema
  loaded_from,     \* which CSV file the target table was loaded from
  results,         \* results[table]
  constraints,     \* the benchmark constraints: "none", "some" or "all"
  exit             \* "none", an exit code, "raised", or "refused" when the
                   \* exception is a CREATE TABLE whose parent is missing

config == <<dependencies, tables_filter, skip_validation, physical>>
files  == <<template, csv>>
schema == <<target, loaded_from>>
vars == <<config, pc, order, fk_checks, files, schema, results, constraints, exit>>

Selected == IF tables_filter = None THEN Tables ELSE tables_filter

Table == Head(order)

Init ==
  /\ dependencies \in GraphChoices
  /\ tables_filter \in FilterChoices
  /\ skip_validation \in BOOLEAN
  /\ physical \in BOOLEAN
  /\ pc = "connect"
  /\ order = <<>>
  /\ fk_checks = 1
  /\ \E before \in BeforeChoices :
       LET left == [t \in Tables |-> IF t \in before THEN "before" ELSE "none"] IN
       /\ template = left
       /\ csv = left
       /\ loaded_from = left
       /\ target = [t \in Tables |-> IF t \in before THEN "loaded" ELSE "absent"]
  /\ results = [t \in Tables |-> "none"]
  /\ constraints = "none"
  /\ exit = "none"

----------------------------------------------------------------------------
(* Leaving.                                                                *)

Exit(code) == pc' = "ended" /\ exit' = code

\* A statement fails, or another exception leaves main().
Raises ==
  /\ pc \notin {"connect", "ended"}
  /\ Exit("raised")
  /\ UNCHANGED <<config, order, fk_checks, files, schema, results, constraints>>

----------------------------------------------------------------------------
(* Before the tables.                                                      *)

Connect ==
  /\ pc = "connect"
  /\ \/ pc' = "discover" /\ exit' = exit /\ fk_checks' = 0
     \/ Exit("1") /\ fk_checks' = fk_checks
  /\ UNCHANGED <<config, order, files, schema, results, constraints>>

\* Mutant: the requested tables in the order of their names.
FilteredByName(sorted) == ByName(Selected)

Filtered(sorted) ==
  LET kept == ByName({i \in DOMAIN sorted : sorted[i] \in Selected})
  IN  [k \in DOMAIN kept |-> sorted[kept[k]]]

\* The tables are sorted, and then filtered in that order.
Discover ==
  /\ pc = "discover"
  /\ order' = Filtered(TopologicalSort(dependencies))
  /\ IF order' = <<>> /\ tables_filter # None
     THEN Exit("1")
     ELSE pc' = "prepare" /\ exit' = exit
  /\ UNCHANGED <<config, fk_checks, files, schema, results, constraints>>

\* Mutant: the target schema is emptied whatever is requested.
DropAll == {t \in Tables : target[t] # "absent"}

Drop == {t \in Selected : target[t] # "absent"}

\* prepare_target_schema: the checks are on again when it has dropped a table.
Prepare ==
  /\ pc = "prepare"
  /\ target' = [t \in Tables |-> IF t \in Drop THEN "absent" ELSE target[t]]
  /\ loaded_from' = [t \in Tables |-> IF t \in Drop THEN "none" ELSE loaded_from[t]]
  /\ fk_checks' = IF Drop = {} THEN fk_checks ELSE 1
  /\ pc' = "histograms"
  /\ UNCHANGED <<config, order, files, results, constraints, exit>>

\* A table cannot be dropped: those before it are gone.
PrepareFails ==
  /\ pc = "prepare"
  /\ \E gone \in SUBSET Drop :
       /\ target' = [t \in Tables |-> IF t \in gone THEN "absent" ELSE target[t]]
       /\ loaded_from' = [t \in Tables |-> IF t \in gone THEN "none" ELSE loaded_from[t]]
  /\ fk_checks' = 0
  /\ Exit("raised")
  /\ UNCHANGED <<config, order, files, results, constraints>>

\* A connection that was lost is made again, with the default checks.
Refresh == fk_checks' \in {fk_checks, 1}

\* regenerate_histograms_with_full_sampling: a failure is a warning.
Regenerate ==
  /\ pc = "histograms"
  /\ Refresh
  /\ pc' = "A"
  /\ UNCHANGED <<config, order, files, schema, results, constraints, exit>>

----------------------------------------------------------------------------
(* The steps of a table.                                                   *)

\* The table is done with, and the next one begins.
Done(result) ==
  /\ results' = [results EXCEPT ![Table] = result]
  /\ order' = Tail(order)
  /\ pc' = "A"

StepA ==
  /\ pc = "A"
  /\ order # <<>>
  /\ Refresh
  /\ \/ /\ template' = [template EXCEPT ![Table] = "now"]
        /\ pc' = "B"
        /\ UNCHANGED <<order, results>>
     \/ Done("error") /\ template' = template
  /\ UNCHANGED <<config, csv, schema, constraints, exit>>

\* The engine numbers its files with as many digits as the files count has, so
\* that the file step B asks for, number 1 in one digit, is there only then.
FirstFileNamed == FilesCount < 10

\* Mutants: the exit code of the engine is not looked at; a failed table is
\* left without a result.
EngineFailedUnseen == pc' = "create" /\ UNCHANGED <<order, results>>
EngineFailedSilent == order' = Tail(order) /\ pc' = "A" /\ results' = results

EngineFailed == Done("error")

StepB ==
  /\ pc = "B"
  /\ Refresh
  /\ \/ /\ csv' \in {csv, [csv EXCEPT ![Table] = "partial"]}
        /\ EngineFailed
     \/ /\ csv' = IF FirstFileNamed THEN [csv EXCEPT ![Table] = "now"] ELSE csv
        /\ IF csv'[Table] = "none"
           THEN Done("error")
           ELSE pc' = "create" /\ UNCHANGED <<order, results>>
  /\ UNCHANGED <<config, template, schema, constraints, exit>>

\* A server that checks foreign keys refuses a table whose parent is not there.
Refused ==
  /\ physical
  /\ fk_checks' = 1
  /\ \E p \in Parents(dependencies, Table) : target[p] = "absent"

\* Step C begins; the exception of a refused table ends the run.
CreateTable ==
  /\ pc = "create"
  /\ Refresh
  /\ IF Refused
     THEN Exit("refused") /\ target' = target
     ELSE /\ pc' = "load"
          /\ target' = [target EXCEPT ![Table] = "created"]
          /\ exit' = exit
  /\ UNCHANGED <<config, order, files, loaded_from, results, constraints>>

\* _load_generated_csv: the rows of the CSV file, or an exception that may leave
\* some of them.
LoadTable ==
  /\ pc = "load"
  /\ Refresh
  /\ loaded_from' = [loaded_from EXCEPT ![Table] = csv[Table]]
  /\ \/ pc' = "check" /\ exit' = exit /\ target' = [target EXCEPT ![Table] = "loaded"]
     \/ Exit("raised") /\ target' = [target EXCEPT ![Table] = "partial"]
  /\ UNCHANGED <<config, order, files, results, constraints>>

\* The histograms are cloned and the table is compared with its source.
CheckTable ==
  /\ pc = "check"
  /\ IF skip_validation THEN Done("loaded") ELSE Done("ok") \/ Done("diverged")
  /\ UNCHANGED <<config, fk_checks, files, schema, constraints, exit>>

----------------------------------------------------------------------------
(* After the tables.                                                       *)

\* Mutant: the script is applied to whatever has been loaded.
NothingFailedEver == TRUE

\* failed_tables is empty.
NothingFailed == \A t \in Selected : results[t] \in {"loaded", "ok", "diverged"}

\* The script of a benchmark is applied to the tables of a whole run; it may
\* end with an exception after some of its constraints.
ApplyScript ==
  /\ pc = "A"
  /\ order = <<>>
  /\ \/ pc' = "summary" /\ UNCHANGED <<fk_checks, constraints, exit>>
     \/ /\ NothingFailed
        /\ tables_filter = None
        /\ \/ constraints' = "all" /\ pc' = "summary" /\ fk_checks' = 1 /\ exit' = exit
           \/ constraints' = "some" /\ Exit("raised") /\ fk_checks' \in {0, 1}
  /\ UNCHANGED <<config, order, files, schema, results>>

\* Mutant: a table that diverged passes.
PassedOrDiverged == \A t \in Selected : results[t] # "error"

Passed == \A t \in Selected : results[t] \in {"loaded", "ok"}

Summary ==
  /\ pc = "summary"
  /\ fk_checks' = 1
  /\ Exit(IF Passed THEN "0" ELSE "2")
  /\ UNCHANGED <<config, order, files, schema, results, constraints>>

Terminated == pc = "ended" /\ UNCHANGED vars

Next ==
  \/ Connect \/ Discover \/ Prepare \/ PrepareFails \/ Regenerate
  \/ StepA \/ StepB \/ CreateTable \/ LoadTable \/ CheckTable
  \/ ApplyScript \/ Summary \/ Raises \/ Terminated

Spec == Init /\ [][Next]_vars
----------------------------------------------------------------------------
(* Properties.                                                             *)

HoldsThisRun(t) ==
  target[t] = "loaded" /\ loaded_from[t] = "now" /\ template[t] = "now"

\* A table with a result other than an error holds the rows of the CSV file
\* that this run's engine has written from this run's template, never those
\* that an earlier run or a failed engine has left in the same place.
LoadedFromThisRun ==
  \A t \in Tables : results[t] \in {"loaded", "ok", "diverged"} => HoldsThisRun(t)

\* Exit code 0 ("All tables passed validation"): every table asked for is loaded
\* by this run, and has passed when it was to be validated.
ZeroMeansAllGood ==
  exit = "0" => \A t \in Selected :
                  HoldsThisRun(t) /\ (~ skip_validation => results[t] = "ok")

\* The constraints of a benchmark are put on tables that are all loaded ("applied
\* only after all tables have been loaded"): not while one is missing, and not
\* on a mixture of this run's tables and an earlier one's.
ScriptAfterAllLoaded ==
  constraints # "none" => \A t \in Tables : HoldsThisRun(t)

\* Before a table is worked on, each table it references and that is asked for
\* has been tried ("FK appendages can reference already-generated parent
\* tables"), unless a cycle is in the way.
ParentsTriedFirst ==
  pc \in {"B", "create", "load", "check"} /\ ~ BehindCycle(dependencies, Table) =>
    \A p \in Parents(dependencies, Table) \cap Selected : results[p] # "none"

\* A run that reaches its summary has tried every table asked for, although a
\* step of one of them has failed.
EveryTableTried ==
  exit \in {"0", "2"} => \A t \in Selected : results[t] # "none"

\* With --tables, what is not asked for stays as it is ("only drop those target
\* tables so referenced parent tables remain available").
OthersUntouched ==
  [][\A t \in Tables \ Selected :
       target'[t] = target[t] /\ loaded_from'[t] = loaded_from[t]]_vars

\* No table is refused for a parent that comes later: main() turns the checks
\* off ("SET FOREIGN_KEY_CHECKS = 0") and topological_sort gives cyclic schemas
\* an order ("Add remaining tables (circular dependencies) at the end").
NoneRefused == exit # "refused"
=============================================================================
