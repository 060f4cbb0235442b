-------------------------------- MODULE Cube ---------------------------------
(* What queries are asked of: dimensions with their levels and members,       *)
(* measures over fact tables, and what each reader may see of them. A label is *)
(* a number that sorts as the code's string does, and 0 is the empty string;   *)
(* level 0 is the physical key of a dimension (the code's None) and level n is *)
(* the n-th level of its hierarchy.                                           *)
EXTENDS Integers, FiniteSets, Sequences, SequencesExt, FiniteSetsExt

CONSTANTS
    Dimension, Depth,       \* the dimensions and how many levels each has, 0 for a flat one
    Member,                 \* of a dimension: its leaves, each with its key and, by level,
                            \* its path label and its plain name
    OwnTable,               \* the fact table a dimension belongs to, or {} where it is shared
    DateDimension,          \* the dimension whose table holds the time flags
    Lists,                  \* the labels whose text is a list of other labels, with these
    Measure, DefaultMeasure,
    TableOf, Aggregation,   \* of a measure
    DefaultFor,             \* of a fact table: its first measure
    TimeFlagged,            \* the measures over the rows a time flag marks
    Fact,                   \* the rows
    Reader, Permitted,      \* the users, and those some role lets read the model
    Sees, HiddenTable,      \* of a user: the rows the role filters keep, the tables denied
    HiddenDimension         \* of a user: the dimensions denied

ASSUME CubeAssumption ==
    /\ IsFiniteSet(Fact) /\ DefaultMeasure \in Measure
    /\ Aggregation \in [Measure -> {"sum", "max"}]
    /\ Permitted \subseteq Reader

\* The elements of a set in a strict order.
Sorted(S, before(_, _)) ==
    [i \in 1..Cardinality(S) |-> CHOOSE x \in S : Cardinality({y \in S : before(y, x)}) = i - 1]

Leaves(d) == DOMAIN Member[d]
\* A member of an axis: its dimension, the level it says it is of, and its label.
All == -1
AllOf(d) == [dim |-> d, level |-> 0, label |-> All]

LabelAt(d, leaf, l) == IF l \in 1..Depth[d] THEN Member[d][leaf].path[l] ELSE Member[d][leaf].key
NameAt(d, leaf, l) == IF l \in 1..Depth[d] THEN Member[d][leaf].name[l] ELSE Member[d][leaf].key
Under(d, l, label) == {leaf \in Leaves(d) : label = All \/ LabelAt(d, leaf, l) = label}
\* The path label of the member a parent has by a plain name (member_key of a prefixed member).
Child(d, l, parent, name) ==
    LET found == {leaf \in Leaves(d) : LabelAt(d, leaf, l - 1) = parent /\ NameAt(d, leaf, l) = name}
    IN IF found = {} THEN name ELSE LabelAt(d, CHOOSE leaf \in found : TRUE, l)

------------------------------------------------------------------------------
(* TypedDimensionFilter: members of a level, a range of one, or a time flag.  *)

MemberFilter(d, l, members) == [dim |-> d, level |-> l, form |-> "members", members |-> members]
RangeFilter(d, l, from, to) == [dim |-> d, level |-> l, form |-> "range", members |-> {from, to}]
FlagFilter == [dim |-> DateDimension, level |-> 0, form |-> "flag", members |-> {}]

Satisfies(row, f) ==
    \/ f.form = "flag" /\ row.current
    \/ f.form = "members" /\ LabelAt(f.dim, row.at[f.dim], f.level) \in f.members
    \/ /\ f.form = "range"
       /\ LabelAt(f.dim, row.at[f.dim], f.level) \in Min(f.members)..Max(f.members)

\* dim_is_compatible_with_measure, compatible_filters
Related(m) == {d \in Dimension : OwnTable[d] \subseteq {TableOf[m]}}
CompatibleFilters(m, filters) == {f \in filters : f.dim \in Related(m)}
\* filters_with_time_flag
FiltersWithTimeFlag(m, filters) ==
    CompatibleFilters(m, filters) \union (IF m \in TimeFlagged THEN {FlagFilter} ELSE {})

Selected(m, filters, u) ==
    {row \in Sees[u] : row.table = TableOf[m] /\ \A f \in filters : Satisfies(row, f)}
Aggregate(m, rows) ==
    CASE rows = {} -> 0
      [] Aggregation[m] = "sum" -> MapThenSumSet(LAMBDA row : row.amount, rows)
      [] Aggregation[m] = "max" -> Max({row.amount : row \in rows})
Additive(m) == Aggregation[m] = "sum"
=============================================================================
