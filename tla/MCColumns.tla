----------------------------- MODULE MCColumns -----------------------------
(* Columns of a few rows and values of every kind.                           *)
EXTENDS Columns

CONSTANTS MaxFrequency, MaxValues

MCFrequencies(n) == UNION {[1 .. m -> 1 .. MaxFrequency] : m \in 0 .. n}
MCFew  == MCFrequencies(MaxValues - 1)
MCMany == MCFrequencies(MaxValues)

Plain(kind, freq, null) ==
  [kind |-> kind, freq |-> freq, null |-> null, zero |-> 0, low |-> 1, size |-> 0,
   estimate |-> None, span |-> MaxValues, length |-> 1, rows |-> SumOf(freq) + null]

MCKeys ==
  {[Plain("key part", freq, 0) EXCEPT !.low = low, !.rows = @ + more] :
     freq \in MCFew, low \in {0, 1}, more \in {0, 2}}
  \cup {[Plain("key", Constant(n, 1), 0) EXCEPT !.low = low] :
          n \in 0 .. MaxValues, low \in {0, 1}}

\* A referenced table that is empty, too small, about as large as the number of
\* values, or far larger; with --rows, and with an estimate from TiDB.
MCForeignKeys ==
  {c \in {[Plain("fk", freq, null) EXCEPT
             !.zero = zero, !.low = low, !.size = size,
             !.estimate = more.estimate, !.rows = @ + zero + more.rows] :
            freq \in MCFew, null \in {0, 1}, zero \in {0, 1}, low \in {0, 1},
            size \in {0, 2, 3, 25},
            more \in {[rows |-> 0, estimate |-> None], [rows |-> 2, estimate |-> None],
                      [rows |-> 2, estimate |-> 5], [rows |-> 0, estimate |-> 5]}} :
     (c.low = 0 => c.zero = 0) /\ (c.size = 0 => c.low = 1)}

\* One row in ten has the value of another one, and the range is larger.
MCOverRange ==
  {[Plain(kind, <<2>> \o Constant(9, 1), 0) EXCEPT !.span = 12] : kind \in {"date", "time"}}

MCOthers ==
  {Plain("number", freq, null) : freq \in MCMany, null \in {0, 1}}
  \cup {Plain(kind, freq, null) :
          kind \in {"date", "time", "year", "text", "other"}, freq \in MCFew, null \in {0, 1}}
  \cup {[Plain("date", freq, 1) EXCEPT !.span = None] : freq \in MCFew}
  \cup MCOverRange
  \cup {[Plain("string", freq, null) EXCEPT !.length = length] :
          freq \in MCFew, null \in {0, 1}, length \in {1, 2, 4}}
  \cup {[Plain("enum", freq, null) EXCEPT !.size = MaxValues] : freq \in MCFew, null \in {0, 1}}

MCInputs == MCKeys \cup MCForeignKeys \cup MCOthers
=============================================================================
