------------------------------- MODULE Rollups -------------------------------
(* Which plan a rollup answers, and what it answers, beside what the fact     *)
(* table answers: one fact table, dimensions with tables of their own         *)
(* (Related) and dimensions that are columns of the fact, and an additive     *)
(* measure.  Levels count from 1; level 0 is the leaf grain (None).           *)
EXTENDS Naturals, FiniteSetsExt, Roles

CONSTANTS Dims,         \* the dimensions, in the order of the model
          Related,      \* those with a relationship to a table
          Levels,       \* per dimension its levels [name, column], coarsest first
          DimRow        \* per related dimension: key -> column -> value

Dim == ToSet(Dims)
Flat == Dim \ Related

ASSUME DimAssumption ==
    /\ Dims \in Seq(Dim) /\ IsInjective(Dims) /\ Related \subseteq Dim /\ "fact" \notin Dim
    /\ \A d \in Dim : Levels[d] \in Seq(ToSet(Levels[d]))
    /\ \A d \in Flat : Levels[d] = << >>

\* A fact row is [id, key, amount]; key maps a dimension to the key of its row
\* or to its value, and any other column of the fact to its value.
Joined(r, d) == r.key[d] \in DOMAIN DimRow[d]
Column(r, d, c) == IF d \in Related THEN DimRow[d][r.key[d]][c] ELSE r.key[d]
LevelValue(r, d, l) == Column(r, d, Levels[d][l].column)
Total(S) == MapThenSumSet(LAMBDA r : r.amount, S)

------------------------------------------------------------------------------
(* engine/aggregate.rs: design, build, validate.                              *)

\* One rollup per level but the last of each related dimension, coarsest first.
Rollup == UNION {{[dim |-> d, level |-> l] : l \in 1..Len(Levels[d]) - 1} : d \in Related}
Position(d) == CHOOSE i \in DOMAIN Dims : Dims[i] = d
Earlier(a, b) == \/ a.level < b.level
                 \/ a.level = b.level /\ Position(a.dim) < Position(b.dim)
design_aggregations == SetToSortSeq(Rollup, Earlier)

\* The table is named by the level, whatever the dimension.
TableName(agg) == Levels[agg.dim][agg.level].name

\* Rollups are built in turn, so a table holds the last one of its name.
Holder(table) ==
    LET named == {a \in Rollup : TableName(a) = table}
    IN  CHOOSE a \in named : \A b \in named \ {a} : Earlier(b, a)

GroupKey(agg, r) == [dates |-> [l \in 1..agg.level |-> LevelValue(r, agg.dim, l)],
                     leaf |-> [d \in Flat |-> r.key[d]]]

build_sql(agg, rows) ==
    LET joined == {r \in rows : Joined(r, agg.dim)}
    IN  {[key |-> k, amount |-> Total({r \in joined : GroupKey(agg, r) = k})] :
            k \in {GroupKey(agg, r) : r \in joined}}

SumsAgree(agg, rows) == Total(build_sql(agg, rows)) = Total(rows)

------------------------------------------------------------------------------
(* engine/aggregate.rs: routing.  A filter is [dim, level, kind, keys, scope]:*)
(* "members" lists key paths, "scope" is a label, a range or a date window    *)
(* (scope: the keys or values it selects), "flag" is a time flag.             *)

filter_level(f) == IF f.level = 0 THEN Len(Levels[f.dim]) ELSE f.level

\* The grain asked for is that of the first grouped dimension, whichever it is.
group_level(plan) == IF plan.group_by = <<>> \/ plan.levels = <<>> \/ plan.levels[1] = 0
                     THEN 1 ELSE plan.levels[1]

agg_covers(agg, plan) ==
    /\ agg.level >= group_level(plan)
    /\ \A d \in ToSet(plan.group_by) : d = agg.dim \/ d \in Flat
    /\ \A f \in plan.filters :
         /\ f.kind # "flag"
         /\ IF f.dim = agg.dim THEN filter_level(f) <= agg.level ELSE f.dim \in Flat

Covering(plan) == {a \in Rollup : plan.additive /\ agg_covers(a, plan)}
agg_for_plan_with(plan) ==
    CHOOSE a \in Covering(plan) : \A b \in Covering(plan) \ {a} : Earlier(a, b)

\* Can every column of a role filter be read from the rollup?
rewrite_predicate_for_rollup(agg, clause) ==
    \A a \in ClauseAtoms(clause) :
        \/ a.dim \in Flat
        \/ a.dim = agg.dim /\ \E l \in 1..agg.level : Levels[agg.dim][l].column = a.col

\* The tables that may carry a role filter, in the order of their clauses: the
\* fact, then the related ones.
RoleTables == << "fact" >> \o Dims
FilteredTables(user) ==
    {t \in {"fact"} \union Related : effective_table_filter(user, t).kind = "filtered"}
RoleClause(user, t) == IF t \in FilteredTables(user)
                       THEN CombinedClause(effective_table_filter(user, t).texts) ELSE NoCondition
RoleClauses(user) == [i \in DOMAIN RoleTables |-> RoleClause(user, RoleTables[i])]

\* A level below the first without a single parent keeps the fact path.
SingleParent(plan, d) == \E f \in plan.filters : f.dim = d /\ Cardinality(f.keys) = 1
needs_path(plan) ==
    \E i \in DOMAIN plan.group_by \intersect DOMAIN plan.levels :
        plan.levels[i] > 1 /\ ~SingleParent(plan, plan.group_by[i])

\* The rollup that answers, as a sequence of at most one.
route_plan(plan, user) ==
    LET agg == agg_for_plan_with(plan)
    IN  IF \/ plan.grouped /\ needs_path(plan)
           \/ Covering(plan) = {}
           \/ \E t \in FilteredTables(user) : ~rewrite_predicate_for_rollup(agg, RoleClause(user, t))
        THEN <<>> ELSE << agg >>

------------------------------------------------------------------------------
(* engine/sql.rs: the rollup query.                                           *)

\* The filter of a plan as a condition on a rollup column.  A path of two keys
\* is compared as it stands, and equals no value; a scope lists no keys.
ColumnAtom(agg, f) ==
    [dim |-> f.dim,
     col |-> IF f.dim = agg.dim THEN Levels[agg.dim][f.level].column ELSE f.dim,
     vals |-> {k[1] : k \in {p \in f.keys : Len(p) = 1}}]
ListedClause(agg, plan) ==
    << {AtomText(ColumnAtom(agg, f)) : f \in {g \in plan.filters : g.keys # {}}} >>

\* Mutant: the role filters only decide about the route.
agg_where_without_roles(agg, plan, user) == << ListedClause(agg, plan) >>

agg_where(agg, plan, user) == << ListedClause(agg, plan) >> \o RoleClauses(user)

RollupValue(agg, g, a) ==
    IF a.dim = agg.dim
    THEN g.key.dates[CHOOSE l \in 1..agg.level : Levels[agg.dim][l].column = a.col]
    ELSE g.key.leaf[a.dim]

\* The answer to rows with labels is a set of pairs: the labels of a group and its sum.
Grouped(label) ==
    {<<k, Total({r \in DOMAIN label : label[r] = k})>> : k \in {label[r] : r \in DOMAIN label}}

RollupHolds(agg, where, g) ==
    LET atoms == UNION {ClauseAtoms(where[i]) : i \in DOMAIN where}
    IN  AndHolds(where, {a \in atoms : RollupValue(agg, g, a) \in a.vals})
RollupLabel(agg, plan, g, i) ==
    IF plan.group_by[i] = agg.dim THEN << g.key.dates[group_level(plan)] >>
    ELSE << g.key.leaf[plan.group_by[i]] >>

RollupAnswer(agg, plan, user, rollup) ==
    LET kept == {g \in rollup : RollupHolds(agg, agg_where(agg, plan, user), g)}
    IN  IF plan.grouped
        THEN Grouped([g \in kept |-> [i \in DOMAIN plan.group_by |-> RollupLabel(agg, plan, g, i)]])
        ELSE {<< <<>>, Total(kept) >>}

------------------------------------------------------------------------------
(* engine/sql.rs: the same plan on the fact table.                            *)

\* A path with fewer keys than levels is anchored at its level, one with more
\* at the root.
PathHolds(r, f, path) ==
    LET base == IF Len(path) > f.level THEN 0 ELSE f.level - Len(path)
    IN  \A j \in 1..Len(path) :
          base + j <= Len(Levels[f.dim]) => LevelValue(r, f.dim, base + j) = path[j]

FilterHolds(r, f) ==
    CASE f.kind \in {"flag", "scope"} -> r.key[f.dim] \in f.scope
      [] f.kind = "members" /\ f.dim \in Related ->
           Joined(r, f.dim) /\ \E p \in f.keys : PathHolds(r, f, p)
      [] OTHER -> f.keys = {} \/ << r.key[f.dim] >> \in f.keys

\* A single parent one level up leaves the plain column, otherwise the whole
\* path of ancestors is the label.
FactLabel(r, plan, i) ==
    LET d == plan.group_by[i]
        l == IF i \in DOMAIN plan.levels THEN plan.levels[i] ELSE 0
        OneUp == \E f \in plan.filters : /\ f.dim = d /\ Cardinality(f.keys) = 1
                                         /\ f.level = 0 \/ l = f.level + 1
    IN  IF l \notin 1..Len(Levels[d]) THEN << r.key[d] >>
        ELSE IF l = 1 \/ OneUp THEN << LevelValue(r, d, l) >>
        ELSE [j \in 1..l |-> LevelValue(r, d, j)]

ClauseHoldsOf(c, r) == ClauseHolds(c, {a \in ClauseAtoms(c) : Column(r, a.dim, a.col) \in a.vals})
FactJoins(plan, user) ==
    Related \intersect (ToSet(plan.group_by) \union FilteredTables(user)
                          \union {f.dim : f \in {g \in plan.filters : g.keys # {}}})
FactKeeps(plan, user, r) ==
    /\ \A d \in FactJoins(plan, user) : Joined(r, d)
    /\ \A f \in plan.filters : FilterHolds(r, f)
    /\ \A t \in FilteredTables(user) : ClauseHoldsOf(RoleClause(user, t), r)

FactAnswer(plan, user, rows) ==
    LET kept == {r \in rows : FactKeeps(plan, user, r)}
    IN  IF plan.grouped
        THEN Grouped([r \in kept |-> [i \in DOMAIN plan.group_by |-> FactLabel(r, plan, i)]])
        ELSE {<< <<>>, Total(kept) >>}
=============================================================================
