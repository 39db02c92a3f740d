----------------------------- MODULE MCFileNames ----------------------------
(* The counter of LexCtr in base 10, as in test_lexctr of lexctr.rs.         *)
EXTENDS FileNames

Decimal == INSTANCE FileNames WITH Base <- 10

CounterAt[n \in Nat] == IF n = 0 THEN Decimal!FirstCounter ELSE Decimal!Inc(CounterAt[n - 1])
TextAt(n) == Decimal!CounterText(CounterAt[n])

ASSUME LexCtrTests ==
  /\ TextAt(0) = <<0, 0, 0>>
  /\ TextAt(1) = <<0, 0, 1>>
  /\ TextAt(99) = <<0, 9, 9>>
  /\ Decimal!CounterText([prefix |-> 1, count |-> 0, limit |-> 10000]) = <<1, 0, 0, 0, 0>>
=============================================================================
