----------------------------- MODULE FileNames -----------------------------
(***************************************************************************)
(* The names of the data files (write_data_file and FormatWriter::path in  *)
(* engine/src/cli.rs, LexCtr in engine/src/lexctr.rs).                     *)
(*                                                                         *)
(* With --size each of the workers opens a sequence of files.  They share  *)
(* a directory and no state, so only the names keep their files apart and  *)
(* in order.  A name is the sequence of its digits: the table name and the *)
(* extension are the same for all, and the "." before the extension sorts  *)
(* before every digit, so a prefix sorts first.                            *)
(***************************************************************************)
EXTENDS Integers, Sequences

CONSTANTS
  Base,         \* of the numerals: 10 in the code
  FileIndexes,  \* the files (1-based file_index) whose workers are followed
  FilesCount,   \* what --files-count says, 1 unless it is given
  MaxFiles      \* bounds the files that a worker opens

ASSUME FileNamesAssumption ==
  /\ Base \in Nat \ {0, 1}
  /\ FileIndexes \subseteq Nat \ {0}
  /\ FilesCount \in Nat \ {0}
  /\ MaxFiles \in Nat \ {0}

VARIABLES
  counter,      \* the LexCtr of each worker
  opened        \* the files opened so far: [worker, nth file of it, name]

names_vars == <<counter, opened>>

----------------------------------------------------------------------------
(* Numerals.                                                               *)

\* Base to the n.
Power(n) ==
  LET power[i \in 0..n] == IF i = 0 THEN 1 ELSE Base * power[i - 1]
  IN  power[n]

\* The number of digits of n.
Width(n) == CHOOSE w \in 1..(n + 1) : n < Power(w) /\ \A v \in 1..(w - 1) : n >= Power(v)

\* n with at least w digits: the format {:0w$}.
Padded(n, w) ==
  LET width == IF Width(n) > w THEN Width(n) ELSE w
  IN  [i \in 1..width |-> (n \div Power(width - i)) % Base]

----------------------------------------------------------------------------
(* LexCtr.                                                                 *)

FirstCounter == [prefix |-> 0, count |-> 0, limit |-> Power(2)]

\* Mutant: the prefix is left out of the carry.
IncWithoutPrefix(c) ==
  IF c.count + 1 < c.limit
  THEN [c EXCEPT !.count = @ + 1]
  ELSE [c EXCEPT !.count = 0, !.limit = @ * Power(2)]

Inc(c) ==
  IF c.count + 1 < c.limit
  THEN [c EXCEPT !.count = @ + 1]
  ELSE [prefix |-> c.prefix + 1, count |-> 0, limit |-> c.limit * Power(2)]

CounterText(c) == Padded(c.prefix, 1) \o Padded(c.count, 2 * c.prefix + 2)

----------------------------------------------------------------------------
\* Mutant: the file index is not padded.
FileNumDigitsOne == 1

\* Env::file_num_digits.
FileNumDigits == Width(FilesCount)

Name(f, c) == Padded(f, FileNumDigits) \o CounterText(c)

File(f, n, c) == [worker |-> f, nth |-> n, name |-> Name(f, c)]
OpenedBy(f) == {o \in opened : o.worker = f}
NthOf(f) == CHOOSE n \in 1..MaxFiles :
              /\ \E o \in OpenedBy(f) : o.nth = n
              /\ \A o \in OpenedBy(f) : o.nth <= n

NamesInit ==
  /\ counter = [f \in FileIndexes |-> FirstCounter]
  /\ opened = {}

\* The worker starts and opens its first file.
Start(f) ==
  /\ OpenedBy(f) = {}
  /\ opened' = opened \cup {File(f, 1, counter[f])}
  /\ UNCHANGED counter

\* The target size is reached: the counter is increased, a new file opened.
Rotate(f) ==
  /\ OpenedBy(f) # {}
  /\ NthOf(f) < MaxFiles
  /\ counter' = [counter EXCEPT ![f] = Inc(@)]
  /\ opened' = opened \cup {File(f, NthOf(f) + 1, Inc(counter[f]))}

NamesNext == \E f \in FileIndexes : Start(f) \/ Rotate(f)

NamesSpec == NamesInit /\ [][NamesNext]_names_vars

----------------------------------------------------------------------------
(* Properties.                                                             *)

\* s sorts before t, digit by digit; a prefix sorts first.
LexLess(s, t) ==
  \E i \in 1..(Len(s) + 1) :
    /\ \A j \in 1..(i - 1) : j <= Len(t) /\ s[j] = t[j]
    /\ \/ i = Len(s) + 1 /\ Len(t) > Len(s)
       \/ i <= Len(s) /\ i <= Len(t) /\ s[i] < t[i]

\* Earlier in the output: of an earlier file generator, or earlier of the same.
Before(o, p) ==
  \/ o.worker < p.worker
  \/ o.worker = p.worker /\ o.nth < p.nth

\* No two files ever opened have the same name: no worker truncates what it, or
\* another one, has written (File::create).
NoFileOverwritten == \A o, p \in opened : o.name = p.name => o = p

\* "The file names are still ordered lexicographically" (CLI.md on --size).
NamesOrdered == \A o, p \in opened : Before(o, p) => LexLess(o.name, p.name)
=============================================================================
