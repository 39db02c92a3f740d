----------------------------- MODULE MCMasterRun -----------------------------
(* Three tables with every dependency graph; one cyclic graph for a second run. *)
EXTENDS MasterRun

\* 2 and 3 reference each other, and 1 references 2.
Cycle == 1 :> {2} @@ 2 :> {3} @@ 3 :> {2}

MCGraphChoices == Dependencies
CyclicChoices  == {Cycle}

MCFilterChoices == {None, {}, {1}, {1, 2}, {2, 3}}
MCBeforeChoices == {{}, {1, 3}, Tables}

WholeRun  == {None}
AllBefore == {Tables}
=============================================================================
