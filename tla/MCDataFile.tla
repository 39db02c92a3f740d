----------------------------- MODULE MCDataFile -----------------------------
(* The tables of TemplateAdvanced.md: B and D derived from A, C from B.      *)
EXTENDS DataFile

MCDerived == << <<2, 4>>, <<3>>, <<>>, <<>> >>
MCMaxChildren == <<0, 2, 1, 1>>
MCInsertRows == <<2, 1>>
=============================================================================
