---------------------------- MODULE CompositeKeys ----------------------------
(* The rows that MasterRun's build_fk_appendages and the composite-key       *)
(* fallback of GenerateDbgen give a table with a primary key of several      *)
(* columns, and a table that references that key.  A key column is a formula *)
(* over rownum; what it yields is a key tuple per row.                       *)
(*                                                                           *)
(* A source table is the set of its key tuples.  The tables its key columns  *)
(* reference have been generated before it, with the keys 1 .. Size.  What   *)
(* the code reads of the source are counts only: they are computed from the  *)
(* set, so that no combination of counts is used that no table has.          *)
(*                                                                           *)
(* A child's reference is either part of its primary key, or outside it in a *)
(* table whose key is not made of foreign keys only.  Not here: a reference  *)
(* outside a key of foreign keys only, and one that is partly in the key,    *)
(* whose columns are generated each by itself (see FkColumn); and with       *)
(* --rows the estimates that TiDB gives for the counts of the source.        *)
EXTENDS RowCase

CONSTANTS
  Size,        \* keys of every table a key column references
  MaxGroups,   \* DATAGENX_FK_FREQUENCY_SHAPE_MAX_GROUPS
  MaxDistinct, \* DATAGENX_FK_FREQUENCY_SHAPE_MAX_DISTINCT
  MaxSequence, \* the 100 values up to which an integer column is a sequence
  Layouts,     \* kinds of primary key: see below
  Parents(_),  \* sets of key tuples of a parent table of a layout
  Children(_), \* child tables of a parent: [inKey, keys, rows]
  Overrides,   \* what --rows may ask of every table; None: as many as the source
  None

(* "fks":      every key column is a foreign key (PARTSUPP)                  *)
(* "sequence": column 1 is a foreign key, column 2 an integer (LINEITEM)     *)
(* "partner":  column 1 is a foreign key, column 2 something else            *)
(* "plain":    no key column is a foreign key                                *)
ASSUME KeysAssumption ==
  /\ Size \in Nat \ {0} /\ {MaxGroups, MaxDistinct, MaxSequence} \subseteq Nat
  /\ Layouts \subseteq {"fks", "sequence", "partner", "plain"}
  /\ None \notin [frequencies : Seq(Nat), partnerDistinct : Nat]
  /\ Overrides \subseteq (Nat \ {0}) \cup {None}

\* The values of a key column are numbered.
Columns(tuples) == 1 .. Len(CHOOSE t \in tuples : TRUE)
Values(tuples, c) == {t[c] : t \in tuples}

\* A table has rows, its foreign keys hold in the source, and a child table
\* references a key of two columns.  Its own key begins with the reference and
\* may have further columns, or is not looked at.
ASSUME TablesAssumption ==
  \A l \in Layouts : \A tuples \in Parents(l) :
    /\ tuples # {} /\ IsFiniteSet(tuples)
    /\ Len(CHOOSE t \in tuples : TRUE) \in Nat \ {0, 1}
    /\ \A t \in tuples : t \in [Columns(tuples) -> Int]
    /\ l # "plain" => Columns(tuples) = 1 .. 2 /\ Values(tuples, 1) \subseteq 1 .. Size
    /\ l = "fks"   => Values(tuples, 2) \subseteq 1 .. Size
    /\ \A c \in Children(tuples) :
         /\ c.inKey \in BOOLEAN /\ c.rows \in Nat
         /\ c.inKey => /\ IsFiniteSet(c.keys) /\ c.rows = Cardinality(c.keys)
                       /\ \A t \in c.keys : <<t[1], t[2]>> \in tuples
         /\ c.rows > 0 => Columns(tuples) = 1 .. 2

VARIABLES
  layout, source, child,   \* the input: the parent table and the child table
  override,                \* ROWS_OVERRIDE and ROWS_COUNT, or None
  registry,                \* COMPOSITE_PK_FREQUENCY_REGISTRY[parent], or None
  parent,                  \* the generated parent rows, <<>> before they are
  replay,                  \* the generated child rows, <<>> before they are
  earlier                  \* the child rows of the run before this one

vars == <<layout, source, child, override, registry, parent, replay, earlier>>

\* The rows that dbgen is asked for, for a source table of so many.
Asked(rows) == IF override = None THEN rows ELSE override

-----------------------------------------------------------------------------
(* What the queries return.                                                  *)
Distinct(tuples, c) == Cardinality(Values(tuples, c))
Lowest(tuples, c) == Min(Values(tuples, c))

\* SELECT COUNT(*) ... GROUP BY column 1, and the groups of up to a frequency.
Frequency(tuples, v)  == Cardinality({t \in tuples : t[1] = v})
ValuesUpTo(tuples, f) == Cardinality({v \in Values(tuples, 1) : Frequency(tuples, v) <= f})
RowsUpTo(tuples, f)   == Cardinality({t \in tuples : Frequency(tuples, t[1]) <= f})

\* The frequencies in ascending order, one entry for each value.
AscendingFrequencies(tuples) ==
  [i \in 1 .. Distinct(tuples, 1) |->
     Min({f \in 1 .. Cardinality(tuples) : i <= ValuesUpTo(tuples, f)})]

-----------------------------------------------------------------------------
(* All key columns are foreign keys: the largest is grouped, the others      *)
(* cycle (docs/N_CYCLING_COMPOSITE_FK_PK.md).                                *)
RowsPerLargestOneMore(rows, largest) == (rows \div largest) + 1
RowsPerLargestFloor(rows, largest) == AtLeast(1, rows \div largest)
RowsPerLargest(rows, largest) == AtLeast(1, CeilDiv(rows, largest))

CyclingRow(counts, low, rows, r) ==
  LET largest == Largest(counts, DOMAIN counts)
  IN  [c \in DOMAIN counts |->
         low[c] + (IF c = largest
                   THEN (r - 1) \div RowsPerLargest(rows, counts[largest])
                   ELSE (r - 1) % counts[c])]

CyclingKeys(tuples) ==
  LET counts == [c \in Columns(tuples) |-> Distinct(tuples, c)]
      rows   == Cardinality(tuples)
  IN  [r \in 1 .. Asked(rows) |->
         CyclingRow(counts, [c \in DOMAIN counts |-> 1], rows, r)]

-----------------------------------------------------------------------------
(* A foreign key and a column of its own.  The values of one frequency have  *)
(* a band of rows, the first whose end is not before the row: div numbers    *)
(* the values, mod the rows of each.                                         *)
BandOf(tuples, r) == Min({f \in 1 .. Cardinality(tuples) : r <= RowsUpTo(tuples, f)})

BandedRow(tuples, r) ==
  LET f     == BandOf(tuples, r)
      local == r - 1 - RowsUpTo(tuples, f - 1)
  IN  <<1 + ValuesUpTo(tuples, f - 1) + (local \div f), 1 + (local % f)>>

FrequencyShapeApplies(tuples) ==
  LET frequencies == AscendingFrequencies(tuples)
  IN  /\ Distinct(tuples, 1) <= AtMost(MaxDistinct, Size)
      /\ Cardinality(Range(frequencies)) <= MaxGroups
      /\ \A v \in DOMAIN frequencies : frequencies[v] <= Distinct(tuples, 2)

Shape(frequencies, partnerDistinct) ==
  [frequencies |-> frequencies, partnerDistinct |-> partnerDistinct]

\* The parent-and-sequence layout needs an integer partner of few values and
\* enough parents.
GroupedSequenceApplies(tuples) ==
  /\ layout = "sequence"
  /\ Distinct(tuples, 2) <= AtLeast(MaxSequence, Cardinality(tuples) \div 1000)
  /\ Distinct(tuples, 1) <= Size

\* The CASE over the bands ends in an ELSE, for rows the source does not have.
\* The frequency shape comes second and replaces the grouped sequence.
RowAfterBands(tuples) ==
  LET frequencies == AscendingFrequencies(tuples)
  IN  <<Len(frequencies),
        IF FrequencyShapeApplies(tuples) THEN 1 ELSE frequencies[Len(frequencies)]>>

BandedKeys(tuples) ==
  [r \in 1 .. Asked(Cardinality(tuples)) |->
     IF r <= Cardinality(tuples) THEN BandedRow(tuples, r) ELSE RowAfterBands(tuples)]

ProportionalKeys(tuples) ==
  LET rows == Cardinality(tuples)
  IN  [r \in 1 .. Asked(rows) |->
         <<1 + ((r - 1) % Distinct(tuples, 1)),
           1 + (((r - 1) * Distinct(tuples, 2)) \div rows)>>]

PartialKeys(tuples) ==
  IF FrequencyShapeApplies(tuples) \/ GroupedSequenceApplies(tuples)
  THEN BandedKeys(tuples)
  ELSE ProportionalKeys(tuples)

-----------------------------------------------------------------------------
(* No foreign keys in the key: the first column anchors, the others turn     *)
(* through a mixed-radix space that each anchor group shifts.                *)
Anchor(tuples, r) == ((r - 1) * Distinct(tuples, 1)) \div Cardinality(tuples)

Local(tuples, r) ==
  (r - 1) - ((Anchor(tuples, r) * Cardinality(tuples)) \div Distinct(tuples, 1))

Strides(tuples) ==
  LET stride[c \in Columns(tuples)] ==
        IF c <= 2 THEN 1 ELSE stride[c - 1] * Distinct(tuples, c - 1)
  IN  stride

Turned(tuples, c, r) ==
  LET n     == Distinct(tuples, c)
      most  == CeilDiv(Cardinality(tuples), Distinct(tuples, 1))
      shift == AtLeast(1, AtMost(n, CeilDiv(most, Strides(tuples)[c])))
      digit == (Local(tuples, r) \div Strides(tuples)[c]) % n
  IN  (digit + Anchor(tuples, r) * shift) % n

AnchoredKeys(tuples) ==
  [r \in 1 .. Asked(Cardinality(tuples)) |->
     [c \in Columns(tuples) |->
        Lowest(tuples, c) + (IF c = 1 THEN Anchor(tuples, r) ELSE Turned(tuples, c, r))]]

ParentKeys ==
  CASE layout = "fks"                   -> CyclingKeys(source)
    [] layout \in {"sequence", "partner"} -> PartialKeys(source)
    [] layout = "plain"                 -> AnchoredKeys(source)

-----------------------------------------------------------------------------
(* A child table that references the key.  Its reference is a pair of        *)
(* columns; inKey says whether they are part of its own primary key.         *)

\* Child values in ascending frequency take, in order, the parent values that
\* have at least as many rows; a parent value that is too rare is skipped.
\* Mutant: a parent value with exactly as many rows is skipped.
AllocatedAbove(needed, available) ==
  LET allocated[j \in 0 .. Len(needed)] ==
        IF j = 0 THEN 0
        ELSE LET enough == {v \in allocated[j - 1] + 1 .. Len(available) :
                              available[v] > needed[j]}
             IN  IF enough = {} THEN Len(available) + 1 ELSE Min(enough)
  IN  allocated

Allocated(needed, available) ==
  LET allocated[j \in 0 .. Len(needed)] ==
        IF j = 0 THEN 0
        ELSE LET enough == {v \in allocated[j - 1] + 1 .. Len(available) :
                              available[v] >= needed[j]}
             IN  IF enough = {} THEN Len(available) + 1 ELSE Min(enough)
  IN  allocated

AllocationFits(needed, available) ==
  \A j \in DOMAIN needed : Allocated(needed, available)[j] <= Len(available)

\* The parent rows of the values before v.
RowsBefore(frequencies, v) == Cardinality(UNION {{u} \X (1 .. frequencies[u]) : u \in 1 .. v - 1})

\* Row r of the child is the o-th of its j-th value; the rows of a value are
\* spread over the positions of its parent value's rows.  The ELSE is for rows
\* the source does not have.
ShapedRow(keys, shape, r) ==
  LET needed    == AscendingFrequencies(keys)
      available == shape.frequencies
      values    == Allocated(needed, available)
      Position(j, o) == RowsBefore(available, values[j])
                          + ((o - 1) * available[values[j]]) \div needed[j]
  IN  IF r <= Cardinality(keys)
      THEN LET j == BandedRow(keys, r)[1]
               o == BandedRow(keys, r)[2]
           IN  <<values[j], 1 + (Position(j, o) % shape.partnerDistinct)>>
      ELSE <<values[Len(needed)], 1>>

ShapedReplay(keys, shape) ==
  [r \in 1 .. Asked(Cardinality(keys)) |-> ShapedRow(keys, shape, r)]

\* A run of the child table alone rebuilds the shape from the two schemas.
Reconstructible ==
  /\ layout \in {"sequence", "partner"}
  /\ LET frequencies == AscendingFrequencies(source)
     IN  /\ Cardinality(Range(frequencies)) <= MaxGroups
         /\ Len(frequencies) <= Distinct(Range(parent), 1)
  /\ Len(parent) = Cardinality(source)

ShapeOfParentDescending ==
  IF registry # None THEN registry
  ELSE IF Reconstructible
       THEN Shape(Reverse(AscendingFrequencies(source)), Distinct(Range(parent), 2))
       ELSE None
ShapeOfParent ==
  IF registry # None THEN registry
  ELSE IF Reconstructible
       THEN Shape(AscendingFrequencies(source), Distinct(Range(parent), 2))
       ELSE None

ShapeUsable(shape) ==
  LET needed == AscendingFrequencies(child.keys)
  IN  /\ shape # None
      /\ Len(needed) <= MaxDistinct
      /\ Cardinality(Range(needed)) <= MaxGroups
      /\ AllocationFits(needed, shape.frequencies)

\* Without a shape: positions in a parent that is taken to be cycling, evenly
\* apart, and capped for the column that cycles.
PositionedReplay ==
  LET rows    == child.rows
      wanted  == [c \in 1 .. 2 |-> Distinct(child.keys, c)]
      there   == [c \in 1 .. 2 |-> Distinct(Range(parent), c)]
      largest == Largest(wanted, 1 .. 2)
      other   == 3 - largest
      span    == AtLeast(1, CeilDiv(wanted[largest] * Len(parent), there[largest]))
      cap     == AtMost(there[other],
                        AtLeast(wanted[other], (wanted[other] * 100) \div 95))
      Raw(r)  == ((r - 1) * span) \div rows
      Turn(r) == Raw(r) % there[other]
      Position(r) ==
        IF 0 < cap /\ cap < there[other] /\ Turn(r) >= cap
        THEN Raw(r) - (Turn(r) - (Turn(r) % cap))
        ELSE Raw(r)
  IN  [r \in 1 .. Asked(rows) |->
         [c \in 1 .. 2 |->
            Lowest(Range(parent), c)
              + (IF c = largest
                 THEN (Position(r) * there[c]) \div Len(parent)
                 ELSE Position(r) % there[c])]]

\* A reference outside the child's key cycles over the rows of the parent.
CyclingReplayOnce ==
  LET there == [c \in 1 .. 2 |-> Distinct(Range(parent), c)]
      low   == [c \in 1 .. 2 |-> Lowest(Range(parent), c)]
  IN  [r \in 1 .. Asked(child.rows) |-> CyclingRow(there, low, Len(parent), r)]
CyclingReplay ==
  LET there == [c \in 1 .. 2 |-> Distinct(Range(parent), c)]
      low   == [c \in 1 .. 2 |-> Lowest(Range(parent), c)]
  IN  [r \in 1 .. Asked(child.rows) |->
         CyclingRow(there, low, Len(parent), 1 + ((r - 1) % Len(parent)))]

-----------------------------------------------------------------------------
Init ==
  /\ layout \in Layouts
  /\ source \in Parents(layout)
  /\ child \in Children(source)
  /\ override \in Overrides
  /\ registry = None
  /\ parent = <<>> /\ replay = <<>> /\ earlier = <<>>

GenerateParent ==
  /\ parent = <<>>
  /\ parent' = ParentKeys
  /\ registry' = IF layout \in {"sequence", "partner"} /\ FrequencyShapeApplies(source)
                 THEN Shape(AscendingFrequencies(source), Distinct(source, 2))
                 ELSE registry
  /\ UNCHANGED <<layout, source, child, override, replay, earlier>>

GenerateChild ==
  /\ parent # <<>> /\ child.rows > 0 /\ replay = <<>>
  /\ registry' = IF child.inKey THEN ShapeOfParent ELSE registry
  /\ replay' = IF ~child.inKey THEN CyclingReplay
               ELSE IF ShapeUsable(registry')
                    THEN ShapedReplay(child.keys, registry')
                    ELSE PositionedReplay
  /\ UNCHANGED <<layout, source, child, override, parent, earlier>>

\* Another process with --tables naming the child: the parent stays.
RerunChild ==
  /\ replay # <<>> /\ earlier = <<>>
  /\ registry' = None
  /\ replay' = <<>> /\ earlier' = replay
  /\ UNCHANGED <<layout, source, child, override, parent>>

Next == GenerateParent \/ GenerateChild \/ RerunChild
Spec == Init /\ [][Next]_vars

-----------------------------------------------------------------------------
(* No two rows of the parent have the same key: the formulas of its columns  *)
(* are never all equal on two rows, or its load fails on the primary key.    *)
(* --rows may ask for fewer rows than the source has; of more, the formulas  *)
(* promise nothing.                                                          *)
KeysUnique == Len(parent) <= Cardinality(source) => IsInjective(parent)

(* A key column that is a foreign key takes keys the referenced table has,   *)
(* although div and mod are over the counts of the source.                   *)
ReferencesExist ==
  Len(parent) <= Cardinality(source) =>
    \A r \in DOMAIN parent : \A c \in DOMAIN parent[r] :
      layout = "fks" \/ (layout # "plain" /\ c = 1) => parent[r][c] \in 1 .. Size

\* For every frequency, as many values of the parent are above it as of the
\* child: the child's values can be given parent values with enough rows.
ValuesAbove(tuples, f) == {v \in Values(tuples, 1) : Frequency(tuples, v) > f}
Coverable(keys, tuples) ==
  \A f \in 0 .. Cardinality(keys) :
    Cardinality(ValuesAbove(keys, f)) <= Cardinality(ValuesAbove(tuples, f))

(* The greedy allocation in one pass over the frequencies finds parent       *)
(* values for a child's values whenever there are any: always, when the      *)
(* reference is the whole key of the child.  (A child with a larger key may  *)
(* have more rows for a value than the parent, and its rows are then placed  *)
(* without the shape.)  The pairs it gives the child are unique, by the      *)
(* registered shape as by the rebuilt one.                                   *)
ShapedChildFits ==
  child.inKey /\ registry # None =>
    /\ AllocationFits(AscendingFrequencies(child.keys), registry.frequencies)
         <=> Coverable(child.keys, source)
    /\ child.keys \subseteq source => Coverable(child.keys, source)
    /\ ShapeUsable(registry) /\ Len(replay) <= child.rows => IsInjective(replay)

(* Every pair of columns a child row references is the key of a parent row.  *)
ChildTuplesExist == Range(replay) \subseteq Range(parent)

(* So it is when the parent has every combination of its columns' values,    *)
(* generated in full, and the child no more rows than its formulas are for.  *)
GridTuplesExist ==
  /\ Cardinality(source) = Distinct(source, 1) * Distinct(source, 2)
  /\ Len(parent) = Cardinality(source)
  /\ child.inKey => Len(replay) <= child.rows
  => ChildTuplesExist

(* A run of the child alone, which rebuilds the parent's shape, gives the    *)
(* child the same references to the parent's first column as the full run;   *)
(* the shape is rebuilt of a parent with the rows of its source only.        *)
RerunAgrees ==
  Len(parent) = Cardinality(source) =>
    \A r \in DOMAIN earlier : replay # <<>> => replay[r][1] = earlier[r][1]
=============================================================================
