--------------------------- MODULE MasterRunProofs ---------------------------
(***************************************************************************)
(* Proofs about MasterRun, for any finite schema, any dependencies, any    *)
(* --tables and whatever an earlier run has left.                          *)
(***************************************************************************)
EXTENDS MasterRun, TableGraphProofs, SequenceTheorems

-----------------------------------------------------------------------------
(* The tables of a run, in the order they are taken.                         *)

Asked == Filtered(TopologicalSort(dependencies))

\* Each table asked for is there once, and after its parents that are asked for.
LEMMA AskedOrder ==
  ASSUME Selected \subseteq Tables
  PROVE  /\ Asked \in Seq(Tables)
         /\ \A i \in 1 .. Len(Asked) : Asked[i] \in Selected
         /\ \A i, j \in 1 .. Len(Asked) : i # j => Asked[i] # Asked[j]
         /\ \A t \in Selected : \E i \in 1 .. Len(Asked) : Asked[i] = t
         /\ \A i \in 1 .. Len(Asked) : ~ BehindCycle(dependencies, Asked[i]) =>
              \A p \in Parents(dependencies, Asked[i]) \cap Selected :
                \E j \in 1 .. i - 1 : Asked[j] = p
<1> DEFINE s == TopologicalSort(dependencies)
           n == Cardinality(Tables)
           K == {i \in DOMAIN s : s[i] \in Selected}
           kept == ByName(K)
           m == Cardinality(K)
<1>1. n \in Nat /\ IsOrder(dependencies, s, n)
  BY SortIsOrder
<1>2. s \in [1 .. n -> Tables] /\ DOMAIN s = 1 .. n
  BY <1>1 DEF IsOrder
<1>3. \A t \in Tables : \E i \in 1 .. n : s[i] = t
  BY SortPlacesEveryTable
<1>4. \A i, j \in 1 .. n : i # j => s[i] # s[j]
  BY <1>1, OrderInjective
<1>5. Asked = [k \in DOMAIN kept |-> s[kept[k]]]
  BY DEF Asked, Filtered
<1> HIDE DEF s, n
<1>6. K \in SUBSET Nat /\ IsFiniteSet(K)
  <2>1. K \in SUBSET (1 .. n) /\ 1 .. n \in SUBSET Nat
    BY <1>1, <1>2
  <2>2. IsFiniteSet(1 .. n)
    BY <1>1, FS_Interval
  <2>. QED BY <2>1, <2>2, FS_Subset
<1>7. /\ m \in Nat /\ kept \in [1 .. m -> K] /\ Increasing(kept)
      /\ \A x \in K : \E k \in 1 .. m : kept[k] = x
  BY <1>6, ByNameSorts
<1> HIDE DEF kept, m
<1>8. DOMAIN kept = 1 .. m
  BY <1>7
<1>9. \A k \in 1 .. m : kept[k] \in 1 .. n /\ s[kept[k]] \in Selected /\ kept[k] \in Nat
  BY <1>2, <1>6, <1>7
<1> HIDE DEF K
<1>10. Asked \in [1 .. m -> Tables] /\ \A k \in 1 .. m : Asked[k] = s[kept[k]]
  BY <1>2, <1>5, <1>8, <1>9
<1>11. Asked \in Seq(Tables) /\ Len(Asked) = m
  BY <1>7, <1>10
<1>12. \A i, j \in 1 .. m : i < j => kept[i] < kept[j]
  BY <1>7, <1>8 DEF Increasing
<1>13. ASSUME NEW i \in 1 .. m, NEW j \in 1 .. m, i # j PROVE Asked[i] # Asked[j]
  <2>1. i < j \/ j < i
    BY <1>7, <1>13
  <2>2. kept[i] # kept[j]
    BY <1>9, <1>12, <2>1
  <2>. QED BY <1>4, <1>9, <1>10, <2>2
<1>14. ASSUME NEW t \in Selected PROVE \E i \in 1 .. m : Asked[i] = t
  <2>1. PICK i \in 1 .. n : s[i] = t
    BY <1>3
  <2>2. i \in K
    BY <1>2, <2>1 DEF K
  <2>3. PICK k \in 1 .. m : kept[k] = i
    BY <1>7, <2>2
  <2>. QED BY <1>10, <2>1, <2>3
<1>15. ASSUME NEW i \in 1 .. m, ~ BehindCycle(dependencies, Asked[i]),
              NEW p \in Parents(dependencies, Asked[i]) \cap Selected
       PROVE  \E j \in 1 .. i - 1 : Asked[j] = p
  <2>1. Asked[i] = s[kept[i]] /\ kept[i] \in 1 .. n
    BY <1>9, <1>10
  <2>2. p \in Before(s, kept[i])
    BY <1>1, <1>15, <2>1, SortParentsBefore
  <2>3. PICK l \in 1 .. kept[i] - 1 : s[l] = p
    BY <2>2 DEF Before
  <2>4. PICK j \in 1 .. m : Asked[j] = p
    BY <1>14
  <2>5. kept[j] = l
    BY <1>1, <1>4, <1>9, <1>10, <2>1, <2>3, <2>4
  <2>6. ~ (i <= j)
    <3>1. SUFFICES ASSUME i <= j PROVE FALSE
      OBVIOUS
    <3>2. i = j \/ i < j
      BY <1>7, <3>1
    <3>3. kept[i] <= kept[j]
      BY <1>9, <1>12, <3>2
    <3>4. l \in Nat /\ l < kept[i]
      BY <2>1, <2>3
    <3>. QED BY <1>9, <2>5, <3>3, <3>4
  <2>7. j \in 1 .. i - 1
    BY <1>7, <2>6
  <2>. QED BY <2>4, <2>7
<1>16. \A i \in 1 .. m : Asked[i] \in Selected
  BY <1>9, <1>10
<1>. QED BY <1>11, <1>13, <1>14, <1>15, <1>16

-----------------------------------------------------------------------------
(* The invariant about the tables and their results.                         *)

Working == {"prepare", "histograms", "A", "B", "create", "load", "check", "summary"}

\* As many tables of the run have been tried.
Tried == Len(Asked) - Len(order)

\* What is left of the order is its end, and the tables before have a result.
OrderKept ==
  /\ order \in Seq(Tables)
  /\ Len(order) <= Len(Asked)
  /\ \A i \in 1 .. Len(order) : order[i] = Asked[Tried + i]
  /\ \A i \in 1 .. Len(Asked) : results[Asked[i]] # "none" <=> i <= Tried

RunInv ==
  /\ Selected \subseteq Tables
  /\ pc \in Working \cup {"connect", "discover", "ended"}
  /\ results \in [Tables -> {"none", "error", "loaded", "ok", "diverged"}]
  /\ pc \in Working => OrderKept
  /\ pc \in {"connect", "discover", "prepare", "histograms"} =>
       \A t \in Tables : results[t] = "none"
  /\ pc \in {"B", "create", "load", "check"} => order # <<>>
  /\ pc = "summary" => order = <<>>
  /\ pc # "ended" => exit = "none"
  /\ exit \in {"0", "2"} => \A t \in Selected : results[t] # "none"

LEMMA InitRunInv == Init => RunInv
<1> SUFFICES ASSUME Init PROVE RunInv
  OBVIOUS
<1>1. Selected \subseteq Tables
  BY MasterRunAssumption DEF Init, Selected
<1>. QED BY <1>1 DEF Init, RunInv, Working

\* The configuration stays, and with it the tables asked for.
LEMMA ConfigKept ==
  ASSUME UNCHANGED config
  PROVE  Selected' = Selected /\ Asked' = Asked
BY DEF config, Selected, Asked, Filtered

\* The table that is worked on is the first without a result.
LEMMA TableIsNext ==
  ASSUME RunInv, pc \in Working, order # <<>>
  PROVE  /\ Tried \in Nat /\ Tried + 1 \in 1 .. Len(Asked) /\ Len(Asked) \in Nat
         /\ Table = Asked[Tried + 1] /\ Table \in Selected /\ Table \in Tables
         /\ results[Table] = "none"
<1>1. OrderKept /\ Selected \subseteq Tables
  BY DEF RunInv
<1>2. order \in Seq(Tables) /\ Len(order) \in Nat \ {0} /\ Len(Asked) \in Nat
  BY <1>1, EmptySeq, AskedOrder, LenProperties DEF OrderKept
<1>3. Tried \in Nat /\ Tried + 1 \in 1 .. Len(Asked) /\ 1 \in 1 .. Len(order)
  BY <1>1, <1>2 DEF OrderKept, Tried
<1>4. Table = order[1]
  BY <1>2 DEF Table
<1>5. Table = Asked[Tried + 1]
  BY <1>1, <1>3, <1>4 DEF OrderKept
<1>6. Table \in Selected
  BY <1>1, <1>3, <1>5, AskedOrder
<1>7. results[Table] = "none"
  BY <1>1, <1>3, <1>5 DEF OrderKept
<1>. QED BY <1>1, <1>2, <1>3, <1>5, <1>6, <1>7

\* A step that leaves the order and the results alone.
LEMMA SameOrder ==
  ASSUME RunInv, pc \in Working, UNCHANGED <<config, order, results>>
  PROVE  OrderKept'
<1>1. OrderKept /\ Asked' = Asked
  BY ConfigKept DEF RunInv
<1>. QED BY <1>1 DEF OrderKept, Tried

\* A step that is done with a table.
LEMMA DoneKeeps ==
  ASSUME RunInv, pc \in {"A", "B", "check"}, order # <<>>, UNCHANGED <<config, exit>>,
         NEW r \in {"error", "loaded", "ok", "diverged"}, Done(r)
  PROVE  RunInv'
<1>1. OrderKept /\ Selected \subseteq Tables /\ Selected' = Selected /\ Asked' = Asked
  BY ConfigKept DEF RunInv, Working
<1>2. /\ Tried \in Nat /\ Tried + 1 \in 1 .. Len(Asked) /\ Len(Asked) \in Nat
      /\ Table = Asked[Tried + 1] /\ Table \in Tables
  BY TableIsNext DEF Working
<1>3. results \in [Tables -> {"none", "error", "loaded", "ok", "diverged"}]
  BY DEF RunInv
<1>4. results' = [results EXCEPT ![Table] = r] /\ order' = Tail(order) /\ pc' = "A"
  BY DEF Done
<1>5. /\ order \in Seq(Tables) /\ Len(order) \in Nat
      /\ order' \in Seq(Tables) /\ Len(order') = Len(order) - 1
      /\ \A i \in 1 .. Len(order') : order'[i] = order[i + 1]
  BY <1>1, <1>4, HeadTailProperties, LenProperties DEF OrderKept
<1>6. Tried' = Tried + 1
  BY <1>1, <1>2, <1>5 DEF Tried
<1>7. ASSUME NEW i \in 1 .. Len(order') PROVE order'[i] = Asked[(Tried + 1) + i]
  <2>1. i + 1 \in 1 .. Len(order) /\ Tried + (i + 1) = (Tried + 1) + i
    BY <1>2, <1>5
  <2>. QED BY <1>1, <1>5, <2>1 DEF OrderKept
<1>8. ASSUME NEW i \in 1 .. Len(Asked)
      PROVE  results'[Asked[i]] # "none" <=> i <= Tried + 1
  <2>1. Asked[i] \in Tables
    BY <1>1, AskedOrder
  <2>2. CASE i = Tried + 1
    BY <1>2, <1>3, <1>4, <2>2
  <2>3. CASE i # Tried + 1
    <3>1. Asked[i] # Table
      BY <1>1, <1>2, <2>3, AskedOrder
    <3>2. results'[Asked[i]] = results[Asked[i]]
      BY <1>3, <1>4, <2>1, <3>1
    <3>3. i <= Tried <=> i <= Tried + 1
      BY <1>2, <2>3
    <3>. QED BY <1>1, <3>2, <3>3 DEF OrderKept
  <2>. QED BY <2>2, <2>3
<1>9. Len(order') <= Len(Asked)
  BY <1>1, <1>2, <1>5 DEF OrderKept
<1>10. OrderKept'
  BY <1>1, <1>5, <1>6, <1>7, <1>8, <1>9 DEF OrderKept
<1>11. results' \in [Tables -> {"none", "error", "loaded", "ok", "diverged"}]
  BY <1>3, <1>4
<1>12. exit' = "none"
  BY DEF RunInv
<1>. QED BY <1>1, <1>4, <1>10, <1>11, <1>12 DEF RunInv, Working

\* When nothing is left, every table asked for has been tried.
LEMMA AllTried ==
  ASSUME RunInv, pc \in Working, order = <<>>
  PROVE  \A t \in Selected : results[t] # "none"
<1>1. OrderKept /\ Selected \subseteq Tables
  BY DEF RunInv
<1>2. Asked \in Seq(Tables) /\ \A t \in Selected : \E i \in 1 .. Len(Asked) : Asked[i] = t
  BY <1>1, AskedOrder
<1>3. Tried = Len(Asked)
  <2>1. Len(Asked) \in Nat /\ Len(order) = 0
    BY <1>2, LenProperties
  <2>. QED BY <2>1 DEF Tried
<1>4. ASSUME NEW i \in 1 .. Len(Asked) PROVE results[Asked[i]] # "none"
  <2>1. i <= Len(Asked)
    BY <1>2, LenProperties
  <2>. QED BY <1>1, <1>3, <2>1 DEF OrderKept
<1>. QED BY <1>2, <1>4

LEMMA NextRunInv == RunInv /\ [Next]_vars => RunInv'
<1> SUFFICES ASSUME RunInv, [Next]_vars PROVE RunInv'
  OBVIOUS
<1>1. CASE Raises
  BY <1>1, ConfigKept DEF Raises, Exit, RunInv, Working
<1>2. CASE Connect
  BY <1>2, ConfigKept DEF Connect, Exit, RunInv, Working
<1>3. CASE Discover
  <2>1. /\ Selected' = Selected /\ Asked' = Asked /\ Selected \subseteq Tables
        /\ order' = Asked /\ results' = results
        /\ \A t \in Tables : results[t] = "none"
    BY <1>3, ConfigKept DEF Discover, RunInv, Asked
  <2>2. OrderKept'
    <3>1. Asked \in Seq(Tables) /\ Len(Asked) \in Nat
          /\ \A i \in 1 .. Len(Asked) : Asked[i] \in Selected
      BY <2>1, AskedOrder, LenProperties
    <3>2. Tried' = 0
      BY <2>1, <3>1 DEF Tried
    <3>3. \A i \in 1 .. Len(Asked) : 0 + i = i /\ ~ (i <= 0)
      BY <3>1
    <3>4. \A i \in 1 .. Len(Asked) : results[Asked[i]] = "none"
      BY <2>1, <3>1
    <3>. QED BY <2>1, <3>1, <3>2, <3>3, <3>4 DEF OrderKept
  <2>. QED BY <1>3, <2>1, <2>2 DEF Discover, Exit, RunInv, Working
<1>4. CASE Prepare
  BY <1>4, ConfigKept, SameOrder DEF Prepare, RunInv, Working
<1>5. CASE PrepareFails
  BY <1>5, ConfigKept DEF PrepareFails, Exit, RunInv, Working
<1>6. CASE Regenerate
  BY <1>6, ConfigKept, SameOrder DEF Regenerate, RunInv, Working
<1>7. CASE StepA
  <2>1. CASE Done("error")
    BY <1>7, <2>1, DoneKeeps DEF StepA
  <2>2. CASE pc' = "B" /\ UNCHANGED <<order, results>>
    BY <1>7, <2>2, ConfigKept, SameOrder DEF StepA, RunInv, Working
  <2>. QED BY <1>7, <2>1, <2>2 DEF StepA
<1>8. CASE StepB
  <2>1. CASE Done("error")
    BY <1>8, <2>1, DoneKeeps DEF StepB, RunInv
  <2>2. CASE pc' = "create" /\ UNCHANGED <<order, results>>
    BY <1>8, <2>2, ConfigKept, SameOrder DEF StepB, RunInv, Working
  <2>. QED BY <1>8, <2>1, <2>2 DEF StepB, EngineFailed
<1>9. CASE CreateTable
  BY <1>9, ConfigKept, SameOrder DEF CreateTable, Exit, RunInv, Working
<1>10. CASE LoadTable
  BY <1>10, ConfigKept, SameOrder DEF LoadTable, Exit, RunInv, Working
<1>11. CASE CheckTable
  BY <1>11, DoneKeeps DEF CheckTable, RunInv
<1>12. CASE ApplyScript
  BY <1>12, ConfigKept, SameOrder DEF ApplyScript, Exit, RunInv, Working
<1>13. CASE Summary
  <2>1. \A t \in Selected : results[t] # "none"
    BY <1>13, AllTried DEF Summary, RunInv, Working
  <2>. QED BY <1>13, <2>1, ConfigKept DEF Summary, Exit, RunInv, Working
<1>14. CASE UNCHANGED vars
  <2>1. UNCHANGED config /\ UNCHANGED <<pc, order, results, exit>>
    BY <1>14 DEF vars
  <2>. QED BY <2>1, ConfigKept, SameOrder DEF RunInv
<1>. QED BY <1>1, <1>2, <1>3, <1>4, <1>5, <1>6, <1>7, <1>8, <1>9, <1>10, <1>11,
            <1>12, <1>13, <1>14 DEF Next, Terminated

\* In every state of a run of main(), exactly the tables before what is left of
\* the order have a result.
THEOREM RunInvariance == Spec => []RunInv
<1>. QED BY InitRunInv, NextRunInv, PTL DEF Spec

-----------------------------------------------------------------------------
(* What needs no more than the order.                                        *)

\* A run that reaches its summary has tried every table asked for.
THEOREM EveryTableTriedTheorem == Spec => []EveryTableTried
<1>1. RunInv => EveryTableTried
  BY DEF RunInv, EveryTableTried
<1>. QED BY <1>1, RunInvariance, PTL

\* Each table comes after the tables it references and that are asked for,
\* unless a cycle is in the way.
THEOREM ParentsTriedFirstTheorem == Spec => []ParentsTriedFirst
<1>1. RunInv => ParentsTriedFirst
  <2> SUFFICES ASSUME RunInv, pc \in {"B", "create", "load", "check"},
                      ~ BehindCycle(dependencies, Table),
                      NEW p \in Parents(dependencies, Table) \cap Selected
               PROVE  results[p] # "none"
    BY DEF ParentsTriedFirst
  <2>1. pc \in Working /\ order # <<>> /\ OrderKept /\ Selected \subseteq Tables
    BY DEF RunInv, Working
  <2>2. /\ Tried \in Nat /\ Tried + 1 \in 1 .. Len(Asked) /\ Len(Asked) \in Nat
        /\ Table = Asked[Tried + 1]
    BY <2>1, TableIsNext
  <2>3. PICK j \in 1 .. (Tried + 1) - 1 : Asked[j] = p
    BY <2>1, <2>2, AskedOrder
  <2>4. j \in 1 .. Len(Asked) /\ j <= Tried
    BY <2>2, <2>3
  <2>. QED BY <2>1, <2>3, <2>4 DEF OrderKept
<1>. QED BY <1>1, RunInvariance, PTL

-----------------------------------------------------------------------------
(* The files and the target schema.                                          *)

Marks  == {"none", "before", "partial", "now"}
States == {"absent", "created", "partial", "loaded"}

TypeInv ==
  /\ template \in [Tables -> Marks]
  /\ csv \in [Tables -> Marks]
  /\ loaded_from \in [Tables -> Marks]
  /\ target \in [Tables -> States]

LEMMA InitTypeInv == Init => TypeInv
<1> SUFFICES ASSUME Init PROVE TypeInv
  OBVIOUS
<1>1. PICK before \in BeforeChoices :
        LET left == [t \in Tables |-> IF t \in before THEN "before" ELSE "none"] IN
        /\ template = left /\ csv = left /\ loaded_from = left
        /\ target = [t \in Tables |-> IF t \in before THEN "loaded" ELSE "absent"]
  BY DEF Init
<1>. QED BY <1>1 DEF TypeInv, Marks, States

LEMMA NextTypeInv == RunInv /\ TypeInv /\ [Next]_vars => TypeInv'
<1> SUFFICES ASSUME RunInv, TypeInv, [Next]_vars PROVE TypeInv'
  OBVIOUS
<1> USE DEF TypeInv
<1>1. CASE Prepare
  <2>1. \A t \in Tables : target'[t] \in States /\ loaded_from'[t] \in Marks
    BY <1>1 DEF Prepare, Marks, States
  <2>. QED BY <1>1, <2>1 DEF Prepare, files
<1>2. CASE PrepareFails
  <2>1. PICK gone \in SUBSET Drop :
          /\ target' = [t \in Tables |-> IF t \in gone THEN "absent" ELSE target[t]]
          /\ loaded_from' = [t \in Tables |-> IF t \in gone THEN "none" ELSE loaded_from[t]]
    BY <1>2 DEF PrepareFails
  <2>2. target' \in [Tables -> States] /\ loaded_from' \in [Tables -> Marks]
    BY <2>1 DEF Marks, States
  <2>. QED BY <1>2, <2>2 DEF PrepareFails, files
<1>3. CASE StepA
  BY <1>3 DEF StepA, schema, Marks
<1>4. CASE StepB
  <2>1. csv' \in {csv, [csv EXCEPT ![Table] = "partial"], [csv EXCEPT ![Table] = "now"]}
    BY <1>4 DEF StepB
  <2>2. UNCHANGED <<template, target, loaded_from>>
    BY <1>4 DEF StepB, schema
  <2>. QED BY <2>1, <2>2 DEF Marks
<1>5. CASE CreateTable
  BY <1>5 DEF CreateTable, files, States
<1>6. CASE LoadTable
  <2>1. Table \in Tables
    BY <1>6, TableIsNext DEF LoadTable, RunInv, Working
  <2>. QED BY <1>6, <2>1 DEF LoadTable, files, States
<1>7. CASE UNCHANGED <<files, schema>>
  BY <1>7 DEF files, schema
<1>. QED
  BY <1>1, <1>2, <1>3, <1>4, <1>5, <1>6, <1>7
  DEF Next, vars, Connect, Discover, Regenerate, CheckTable, ApplyScript, Summary,
      Raises, Terminated

\* Templates, CSV files and target tables carry one of their marks, whatever an
\* earlier run of main() has left.
THEOREM TypeInvariance == Spec => []TypeInv
<1>. QED BY InitTypeInv, NextTypeInv, RunInvariance, PTL DEF Spec

\* With --tables, what is not asked for stays as it is ("only drop those target
\* tables so referenced parent tables remain available").
THEOREM OthersUntouchedTheorem == Spec => OthersUntouched
<1> DEFINE Untouched == \A t \in Tables \ Selected :
                          target'[t] = target[t] /\ loaded_from'[t] = loaded_from[t]
<1>1. RunInv /\ TypeInv /\ [Next]_vars => [Untouched]_vars
  <2> SUFFICES ASSUME RunInv, TypeInv, [Next]_vars, NEW t \in Tables \ Selected
               PROVE  target'[t] = target[t] /\ loaded_from'[t] = loaded_from[t]
    OBVIOUS
  <2>1. CASE Prepare
    BY <2>1 DEF Prepare, Drop
  <2>2. CASE PrepareFails
    <3>1. PICK gone \in SUBSET Drop :
            /\ target' = [u \in Tables |-> IF u \in gone THEN "absent" ELSE target[u]]
            /\ loaded_from' = [u \in Tables |-> IF u \in gone THEN "none" ELSE loaded_from[u]]
      BY <2>2 DEF PrepareFails
    <3>2. t \notin gone
      BY DEF Drop
    <3>. QED BY <3>1, <3>2
  <2>3. CASE CreateTable
    <3>1. Table # t
      BY <2>3, TableIsNext DEF CreateTable, RunInv, Working
    <3>. QED BY <2>3, <3>1 DEF CreateTable, TypeInv
  <2>4. CASE LoadTable
    <3>1. Table # t
      BY <2>4, TableIsNext DEF LoadTable, RunInv, Working
    <3>. QED BY <2>4, <3>1 DEF LoadTable, TypeInv
  <2>5. CASE UNCHANGED schema
    BY <2>5 DEF schema
  <2>. QED
    BY <2>1, <2>2, <2>3, <2>4, <2>5
    DEF Next, vars, Connect, Discover, Regenerate, StepA, StepB, CheckTable,
        ApplyScript, Summary, Raises, Terminated
<1>. QED BY <1>1, RunInvariance, TypeInvariance, PTL DEF Spec, OthersUntouched

-----------------------------------------------------------------------------
(* Results and what they stand on, with less than ten files to a table: step *)
(* B then finds the file that this run's engine has written.                 *)

StageInv ==
  /\ pc \in {"B", "create", "load", "check"} => template[Table] = "now"
  /\ pc \in {"create", "load", "check"} => csv[Table] = "now"
  /\ pc = "check" => target[Table] = "loaded" /\ loaded_from[Table] = "now"

ResultInv ==
  /\ LoadedFromThisRun
  /\ \A t \in Tables : results[t] = "loaded" => skip_validation
  /\ exit = "0" => pc = "ended" /\ Passed
  /\ constraints # "none" =>
       pc \in {"summary", "ended"} /\ tables_filter = None /\ NothingFailed

DataInv == StageInv /\ ResultInv

LEMMA InitDataInv == Init => DataInv
BY DEF Init, DataInv, StageInv, ResultInv, LoadedFromThisRun

\* A step that leaves the results alone, and the tables that have one.
LEMMA ResultsKept ==
  ASSUME RunInv, ResultInv, UNCHANGED <<config, results>>,
         \A t \in Tables : results[t] # "none" => (HoldsThisRun(t) => HoldsThisRun(t)')
  PROVE  /\ LoadedFromThisRun'
         /\ \A t \in Tables : results'[t] = "loaded" => skip_validation'
         /\ Passed' = Passed /\ NothingFailed' = NothingFailed
<1>1. Selected' = Selected /\ skip_validation' = skip_validation
  BY ConfigKept DEF config
<1>2. LoadedFromThisRun'
  BY DEF ResultInv, LoadedFromThisRun
<1>. QED BY <1>1, <1>2 DEF ResultInv, Passed, NothingFailed

\* A step that fails with a table.
LEMMA FailedKeeps ==
  ASSUME RunInv, DataInv, pc \in {"A", "B"}, order # <<>>, Done("error"),
         UNCHANGED <<config, schema, constraints, exit, template>>
  PROVE  DataInv'
<1>1. Table \in Tables /\ results[Table] = "none"
  BY TableIsNext DEF Working
<1>2. constraints = "none" /\ exit = "none" /\ pc' = "A" /\ skip_validation' = skip_validation
  BY DEF DataInv, ResultInv, RunInv, Done, config
<1>3. results' = [results EXCEPT ![Table] = "error"]
  BY DEF Done
<1>4. ASSUME NEW t \in Tables PROVE t # Table => results'[t] = results[t]
  BY <1>3 DEF RunInv
<1>5. results'[Table] = "error"
  BY <1>1, <1>3 DEF RunInv
<1>6. \A t \in Tables : HoldsThisRun(t)' = HoldsThisRun(t)
  BY DEF HoldsThisRun, schema
<1>7. LoadedFromThisRun'
  BY <1>4, <1>5, <1>6 DEF DataInv, ResultInv, LoadedFromThisRun
<1>8. \A t \in Tables : results'[t] = "loaded" => skip_validation'
  BY <1>2, <1>4, <1>5 DEF DataInv, ResultInv
<1>. QED BY <1>2, <1>7, <1>8 DEF DataInv, StageInv, ResultInv

LEMMA NextDataInv ==
  ASSUME FilesCount < 10
  PROVE  RunInv /\ TypeInv /\ DataInv /\ [Next]_vars => DataInv'
<1> SUFFICES ASSUME RunInv, TypeInv, DataInv, [Next]_vars PROVE DataInv'
  OBVIOUS
<1> USE DEF DataInv
<1>1. CASE Raises
  BY <1>1, ResultsKept
  DEF Raises, Exit, files, schema, config, StageInv, ResultInv, HoldsThisRun
<1>2. CASE Connect
  BY <1>2, ResultsKept DEF Connect, Exit, files, schema, StageInv, ResultInv, HoldsThisRun
<1>3. CASE Discover
  BY <1>3, ResultsKept
  DEF Discover, Exit, files, schema, StageInv, ResultInv, HoldsThisRun, RunInv
<1>4. CASE Prepare
  BY <1>4, ResultsKept DEF Prepare, StageInv, ResultInv, RunInv
<1>5. CASE PrepareFails
  BY <1>5, ResultsKept DEF PrepareFails, Exit, StageInv, ResultInv, RunInv
<1>6. CASE Regenerate
  BY <1>6, ResultsKept DEF Regenerate, files, schema, StageInv, ResultInv, HoldsThisRun
<1>7. CASE StepA
  <2>1. CASE Done("error") /\ template' = template
    BY <1>7, <2>1, FailedKeeps DEF StepA
  <2>2. CASE /\ template' = [template EXCEPT ![Table] = "now"]
             /\ pc' = "B" /\ UNCHANGED <<order, results>>
    <3>1. Table \in Tables /\ Table' = Table
      BY <1>7, <2>2, TableIsNext DEF StepA, Working, Table
    <3>2. template'[Table] = "now" /\ \A t \in Tables : t # Table => template'[t] = template[t]
      BY <2>2, <3>1 DEF TypeInv
    <3>3. \A t \in Tables : HoldsThisRun(t) => HoldsThisRun(t)'
      BY <1>7, <3>2 DEF StepA, schema, HoldsThisRun
    <3>. QED
      BY <1>7, <2>2, <3>1, <3>2, <3>3, ResultsKept DEF StepA, StageInv, ResultInv, RunInv
  <2>. QED BY <1>7, <2>1, <2>2 DEF StepA
<1>8. CASE StepB
  <2>1. CASE Done("error")
    BY <1>8, <2>1, FailedKeeps DEF StepB, RunInv
  <2>2. CASE /\ csv' = [csv EXCEPT ![Table] = "now"]
             /\ pc' = "create" /\ UNCHANGED <<order, results>>
    <3>1. Table \in Tables /\ Table' = Table
      BY <1>8, <2>2, TableIsNext DEF StepB, Working, Table, RunInv
    <3>2. csv'[Table] = "now"
      BY <2>2, <3>1 DEF TypeInv
    <3>3. \A t \in Tables : HoldsThisRun(t) => HoldsThisRun(t)'
      BY <1>8 DEF StepB, schema, HoldsThisRun
    <3>. QED
      BY <1>8, <2>2, <3>1, <3>2, <3>3, ResultsKept DEF StepB, StageInv, ResultInv, RunInv
  <2>. QED BY <1>8, <2>1, <2>2 DEF StepB, EngineFailed, FirstFileNamed
<1>9. CASE CreateTable
  <2>1. Table \in Tables /\ results[Table] = "none" /\ Table' = Table
    BY <1>9, TableIsNext DEF CreateTable, Working, Table, RunInv
  <2>2. \A t \in Tables : t # Table => target'[t] = target[t]
    BY <1>9 DEF CreateTable, TypeInv
  <2>3. \A t \in Tables : results[t] # "none" => (HoldsThisRun(t) => HoldsThisRun(t)')
    BY <1>9, <2>1, <2>2 DEF CreateTable, files, HoldsThisRun
  <2>. QED
    BY <1>9, <2>1, <2>3, ResultsKept DEF CreateTable, Exit, files, StageInv, ResultInv, RunInv
<1>10. CASE LoadTable
  <2>1. Table \in Tables /\ results[Table] = "none" /\ Table' = Table
    BY <1>10, TableIsNext DEF LoadTable, Working, Table, RunInv
  <2>2. \A t \in Tables : t # Table => target'[t] = target[t] /\ loaded_from'[t] = loaded_from[t]
    BY <1>10 DEF LoadTable, TypeInv
  <2>3. \A t \in Tables : results[t] # "none" => (HoldsThisRun(t) => HoldsThisRun(t)')
    BY <1>10, <2>1, <2>2 DEF LoadTable, files, HoldsThisRun
  <2>4. loaded_from'[Table] = "now" /\ (pc' = "check" => target'[Table] = "loaded")
    BY <1>10, <2>1 DEF LoadTable, StageInv, TypeInv, Exit
  <2>. QED
    BY <1>10, <2>1, <2>3, <2>4, ResultsKept
    DEF LoadTable, Exit, files, StageInv, ResultInv, RunInv
<1>11. CASE CheckTable
  <2>1. Table \in Tables /\ HoldsThisRun(Table)
    BY <1>11, TableIsNext DEF CheckTable, Working, RunInv, StageInv, HoldsThisRun
  <2>2. PICK r \in {"loaded", "ok", "diverged"} : Done(r) /\ (r = "loaded" => skip_validation)
    BY <1>11 DEF CheckTable
  <2>3. results' = [results EXCEPT ![Table] = r] /\ pc' = "A"
    BY <2>2 DEF Done
  <2>4. /\ results'[Table] = r
        /\ \A t \in Tables : t # Table => results'[t] = results[t]
    BY <2>1, <2>3 DEF RunInv
  <2>5. /\ \A t \in Tables : HoldsThisRun(t)' = HoldsThisRun(t)
        /\ skip_validation' = skip_validation
    BY <1>11 DEF CheckTable, files, schema, HoldsThisRun, config
  <2>6. LoadedFromThisRun'
    BY <2>1, <2>4, <2>5 DEF ResultInv, LoadedFromThisRun
  <2>7. \A t \in Tables : results'[t] = "loaded" => skip_validation'
    BY <2>2, <2>4, <2>5 DEF ResultInv
  <2>. QED BY <1>11, <2>3, <2>6, <2>7 DEF CheckTable, StageInv, ResultInv, RunInv
<1>12. CASE ApplyScript
  BY <1>12, ResultsKept
  DEF ApplyScript, Exit, files, schema, config, StageInv, ResultInv, HoldsThisRun, RunInv
<1>13. CASE Summary
  BY <1>13, ResultsKept
  DEF Summary, Exit, files, schema, config, StageInv, ResultInv, HoldsThisRun, RunInv
<1>14. CASE UNCHANGED vars
  BY <1>14, ResultsKept
  DEF vars, files, schema, config, StageInv, ResultInv, HoldsThisRun, Table
<1>. QED BY <1>1, <1>2, <1>3, <1>4, <1>5, <1>6, <1>7, <1>8, <1>9, <1>10, <1>11,
            <1>12, <1>13, <1>14 DEF Next, Terminated

LEMMA DataInvariance ==
  ASSUME FilesCount < 10
  PROVE  Spec => []DataInv
<1>. QED BY InitDataInv, NextDataInv, RunInvariance, TypeInvariance, PTL DEF Spec

\* A table with a result other than an error holds the rows that this run's
\* engine has written from this run's template.
THEOREM LoadedFromThisRunTheorem ==
  ASSUME FilesCount < 10
  PROVE  Spec => []LoadedFromThisRun
<1>1. DataInv => LoadedFromThisRun
  BY DEF DataInv, ResultInv
<1>. QED BY <1>1, DataInvariance, PTL

\* Exit code 0: every table asked for is loaded by this run, and has passed when
\* it was to be validated.
THEOREM ZeroMeansAllGoodTheorem ==
  ASSUME FilesCount < 10
  PROVE  Spec => []ZeroMeansAllGood
<1>1. RunInv /\ DataInv => ZeroMeansAllGood
  BY DEF RunInv, DataInv, ResultInv, LoadedFromThisRun, Passed, ZeroMeansAllGood
<1>. QED BY <1>1, RunInvariance, DataInvariance, PTL

\* The constraints of a benchmark are put on tables that are all loaded.
THEOREM ScriptAfterAllLoadedTheorem ==
  ASSUME FilesCount < 10
  PROVE  Spec => []ScriptAfterAllLoaded
<1>1. DataInv => ScriptAfterAllLoaded
  BY DEF DataInv, ResultInv, LoadedFromThisRun, NothingFailed, ScriptAfterAllLoaded, Selected
<1>. QED BY <1>1, DataInvariance, PTL
=============================================================================
