------------------------------- MODULE Planner -------------------------------
(* From a statement to rows: the semantic query (mdx/semantic.rs), its plan,   *)
(* the role gates, the key of the plan in the result cache and the execution   *)
(* of the plan (engine/plan.rs, engine/normalize.rs, engine/sql.rs).           *)
(* A statement is a record: its edges, COLUMNS first, each with the dimensions *)
(* and measures of its tuples and NON EMPTY; the measure of its slicer, or {}; *)
(* the filters of slicer and subselects; how it drills and what levels it      *)
(* names; what members it drills into; the set function on its axis; the       *)
(* tuples of a tuple set; the members it collapses.                           *)
EXTENDS Cube

NoSetOp == [op |-> "none", n |-> 0, desc |-> FALSE]

Distinct(s) == FoldLeft(LAMBDA kept, x : IF x \in ToSet(kept) THEN kept ELSE Append(kept, x), <<>>, s)
FlatDims(q) == FlattenSeq([i \in DOMAIN q.edges |-> q.edges[i].dims])
SelectedMeasures(q) == FlattenSeq([i \in DOMAIN q.edges |-> q.edges[i].measures])
References(q) ==
    ToSet(SelectedMeasures(q)) \union q.slicer \union {q.tuples[i].measure : i \in DOMAIN q.tuples}
AllFilters(q) == q.filters \union q.drilled
\* The filters an (All) keeps: not the drill's own, nor any with the same members.
SlicerFilters(q) ==
    {f \in q.filters : ~\E g \in q.drilled : g.dim = f.dim /\ g.members = f.members}

Drills(q) == q.drill # "none"
Kind(q) ==
    CASE q.drill = "member" /\ q.drilled = {} -> "DrilldownMemberProbe"
      [] Drills(q) /\ ~(q.drill = "member" /\ q.drilled = {}) -> "DrilldownCategories"
      [] ~Drills(q) /\ Len(q.edges) = 2 /\ FlatDims(q) # <<>> /\ References(q) # {} ->
            "MeasureByCategory"
      [] OTHER -> "SlicerOnly"
AxisDims(q) == IF Kind(q) = "SlicerOnly" THEN <<>> ELSE FlatDims(q)

\* The level the statement lists of a dimension: the one it names, the top one of a
\* hierarchy it drills, one below the members it drills into, one below a single member
\* its filters keep.
NamedLevel(q, d) == IF Drills(q) /\ Depth[d] > 0 THEN Max({q.levels[d], 1}) ELSE q.levels[d]
DrilledLevel(q, d) ==
    LET into == {f \in q.drilled : f.dim = d}
    IN IF into = {} THEN NamedLevel(q, d) ELSE Min({Max({f.level : f \in into}) + 1, Depth[d]})
LevelOf(q, d) ==
    Max({DrilledLevel(q, d)} \union
        {f.level + 1 : f \in {g \in AllFilters(q) : /\ Drills(q) /\ g.dim = d /\ g.level > 0
                                                   /\ g.form = "members"
                                                   /\ Cardinality(g.members) = 1}})
DrilldownLevels(q) == [i \in DOMAIN AxisDims(q) |-> LevelOf(q, AxisDims(q)[i])]
\* semantic_query_from_mdx: the statement with what the renderer asks of it again and again.
SemanticQuery(q) ==
    [kind |-> Kind(q), axisDims |-> AxisDims(q), levelOf |-> [d \in Dimension |-> LevelOf(q, d)]] @@ q
DrilldownLevel(q) == IF AxisDims(q) = <<>> THEN 0 ELSE DrilldownLevels(q)[1]

\* The measure of the query: the slicer's, else the first selected, else the default.
MeasureForQuery(q) ==
    IF q.slicer # {} THEN CHOOSE m \in q.slicer : TRUE
    ELSE IF SelectedMeasures(q) # <<>> THEN SelectedMeasures(q)[1] ELSE DefaultMeasure

\* The measure of the plan: without one in the statement, the first of the table that owns
\* an axis dimension, if any does.
PlanMeasure(q) ==
    LET owned == SelectSeq(AxisDims(q), LAMBDA d : OwnTable[d] # {})
    IN IF q.slicer = {} /\ SelectedMeasures(q) = <<>> /\ owned # <<>>
       THEN DefaultFor[CHOOSE t \in OwnTable[owned[1]] : TRUE] ELSE MeasureForQuery(q)

------------------------------------------------------------------------------
Empty == [op |-> "empty", measures |-> <<>>]
Total(m, filters) == [op |-> "total", measures |-> <<m>>, filters |-> filters]
GroupBy(m, dims, levels, filters, setOp) ==
    [op |-> "group", measures |-> <<m>>, dims |-> dims, levels |-> levels, filters |-> filters,
     setOp |-> setOp]

KnownMeasures(q) == SelectSeq(SelectedMeasures(q), LAMBDA n : n \in Measure)
KnownCells(q) == SelectSeq(q.tuples, LAMBDA t : t.measure \in Measure)
PlanSlicer(q) ==
    LET m == PlanMeasure(q)
        ms == KnownMeasures(q)
    IN IF Len(q.tuples) > 1 /\ Len(KnownCells(q)) > 1
       THEN [op |-> "tuples", measures |-> <<>>, cells |-> KnownCells(q)]
       ELSE IF Len(SelectedMeasures(q)) > 1 /\ Len(ms) > 1
       THEN [op |-> "multi", measures |-> ms, filters |-> AllFilters(q)]
       ELSE Total(m, FiltersWithTimeFlag(m, AllFilters(q)))

PlanGroups(q) ==
    LET m == PlanMeasure(q)
        ms == KnownMeasures(q)
    IN IF Len(SelectedMeasures(q)) > 1 /\ Len(ms) > 1
       THEN [op |-> "multigroup", measures |-> ms, dims |-> AxisDims(q),
             levels |-> DrilldownLevels(q), filters |-> AllFilters(q)]
       ELSE GroupBy(m, AxisDims(q), DrilldownLevels(q), FiltersWithTimeFlag(m, AllFilters(q)), q.setOp)
BuildPlan(q) == IF Kind(q) = "SlicerOnly" THEN PlanSlicer(q) ELSE PlanGroups(q)

PlannedMeasures(plan) ==
    ToSet(plan.measures) \union
        (IF plan.op = "tuples" THEN {plan.cells[i].measure : i \in DOMAIN plan.cells} ELSE {})
\* Mutant: only the first measure of the plan is looked up in the roles.
PlanForFirst(q, u) ==
    LET plan == BuildPlan(q)
    IN IF u \notin Permitted \/ (plan.measures # <<>> /\ TableOf[plan.measures[1]] \in HiddenTable[u])
       THEN Empty ELSE plan

PlanFor(q, u) ==
    LET plan == BuildPlan(q)
    IN IF u \notin Permitted \/ \E m \in PlannedMeasures(plan) : TableOf[m] \in HiddenTable[u]
       THEN Empty ELSE plan

PlannedFilters(plan) ==
    IF plan.op = "tuples" THEN UNION {plan.cells[i].filters : i \in DOMAIN plan.cells}
    ELSE IF plan.op = "empty" THEN {} ELSE plan.filters
PlanHiddenDimension(plan, u) ==
    \/ plan.op \in {"group", "multigroup"} /\ ToSet(plan.dims) \cap HiddenDimension[u] # {}
    \/ \E f \in PlannedFilters(plan) : f.dim \in HiddenDimension[u]

------------------------------------------------------------------------------
(* The key of a plan in the result cache.                                     *)

\* The members of a filter are joined with commas, a label that has one in it among them.
MemberText(f) == UNION {IF x \in DOMAIN Lists THEN Lists[x] ELSE {x} : x \in f.members}
FilterSuffix(filters) ==
    {<<f.dim, f.form, MemberText(f), f.level>> : f \in {g \in filters : g.members # {}}}
\* Mutant: the key forgets the levels listed.
PlanKeyWithoutLevels(plan) ==
    CASE plan.op = "empty" -> <<"empty">>
      [] plan.op = "tuples" ->
            <<"tupleset", [i \in DOMAIN plan.cells |->
                             <<plan.cells[i].measure, FilterSuffix(plan.cells[i].filters)>>]>>
      [] plan.op \in {"total", "multi"} -> <<plan.op, plan.measures, FilterSuffix(plan.filters)>>
      [] OTHER -> <<plan.op, plan.measures, plan.dims, FilterSuffix(plan.filters),
                    IF plan.op = "group" THEN plan.setOp ELSE NoSetOp>>

PlanKey(plan) ==
    CASE plan.op = "empty" -> <<"empty">>
      [] plan.op = "tuples" ->
            <<"tupleset", [i \in DOMAIN plan.cells |->
                             <<plan.cells[i].measure, FilterSuffix(plan.cells[i].filters)>>]>>
      [] plan.op \in {"total", "multi"} -> <<plan.op, plan.measures, FilterSuffix(plan.filters)>>
      [] plan.op = "group" ->
            <<plan.op, plan.measures, plan.dims, plan.levels, FilterSuffix(plan.filters), plan.setOp>>
      [] plan.op = "multigroup" ->
            <<plan.op, plan.measures, plan.dims, plan.levels, FilterSuffix(plan.filters)>>

------------------------------------------------------------------------------
(* Execution. A row has one label for each grouping dimension and one value    *)
(* for each measure.                                                          *)

\* The filter of one member of a dimension. The code takes the first there is; no question has
\* two (SingleParentAssumption).
SingleParent(d, filters) == {f \in filters : f.dim = d /\ f.form = "members" /\ Cardinality(f.members) = 1}
\* Below the top level a group is labelled by its whole path, unless a filter of one member
\* names its parent: then the renderer knows it.
PlainColumn(d, l, filters) ==
    l = 1 \/ \E f \in SingleParent(d, filters) : f.level = 0 \/ l = f.level + 1
GroupLabel(d, l, filters, leaf) ==
    IF PlainColumn(d, l, filters) THEN NameAt(d, leaf, l) ELSE LabelAt(d, leaf, l)

Weight(keys) == FoldLeft(LAMBDA w, k : 1000 * w + k, 0, keys)
GroupRows(m, dims, levels, filters, u) ==
    LET keysOf == [row \in Selected(m, filters, u) |->
                     [i \in DOMAIN dims |-> GroupLabel(dims[i], levels[i], filters, row.at[dims[i]])]]
        group(keys) == {row \in DOMAIN keysOf : keysOf[row] = keys}
    IN Sorted({[keys |-> keys, values |-> <<Aggregate(m, group(keys))>>] :
                       keys \in {keysOf[row] : row \in DOMAIN keysOf}},
                    LAMBDA a, b : Weight(a.keys) < Weight(b.keys))

\* sort_by_value: a stable sort
SortByValue(totals, desc) ==
    LET before(i, j) == IF totals[i].value = totals[j].value THEN i < j
                        ELSE (totals[i].value > totals[j].value) <=> desc
        order == Sorted(DOMAIN totals, before)
    IN [i \in DOMAIN totals |-> totals[order[i]]]
ApplySetOp(totals, s) ==
    LET sorted == SortByValue(totals, s.desc)
        n == IF s.op = "toppercent" THEN (Len(totals) * s.n + 99) \div 100 ELSE s.n
        top == SubSeq(sorted, 1, Min({n, Len(sorted)}))
    IN CASE s.op = "none" -> totals
         [] s.op \in {"topcount", "toppercent"} -> top
         [] s.op = "topcountfilter" -> SelectSeq(totals, LAMBDA t : t \in ToSet(top))
         [] s.op = "order" -> sorted
         [] s.op = "filter" -> SelectSeq(totals, LAMBDA t : t.value >= s.n)

\* Mutant: a member is ranked by its first row.
TotalsOfFirstRow(rows) ==
    LET outers == Distinct([i \in DOMAIN rows |-> rows[i].keys[1]])
        firstOf(k) == Min({i \in DOMAIN rows : rows[i].keys[1] = k})
    IN [j \in DOMAIN outers |-> [key |-> outers[j], value |-> rows[firstOf(outers[j])].values[1]]]

\* The set function ranks the first grouping dimension by its totals over the rest, and a
\* member it keeps keeps all its rows; over one dimension it orders the rows too.
OuterTotals(rows) ==
    LET outers == Distinct([i \in DOMAIN rows |-> rows[i].keys[1]])
        over(k) == {i \in DOMAIN rows : rows[i].keys[1] = k}
    IN [j \in DOMAIN outers |->
          [key |-> outers[j], value |-> MapThenSumSet(LAMBDA i : rows[i].values[1], over(outers[j]))]]
ApplySetOpToRows(rows, s) ==
    LET kept == ApplySetOp(OuterTotals(rows), s)
        survivors == {kept[i].key : i \in DOMAIN kept}
        rowOf(k) == rows[CHOOSE i \in DOMAIN rows : rows[i].keys = <<k>>]
    IN IF \A i \in DOMAIN rows : Len(rows[i].keys) = 1
       THEN [i \in DOMAIN kept |-> rowOf(kept[i].key)]
       ELSE SelectSeq(rows, LAMBDA row : row.keys[1] \in survivors)

\* Mutant: a group of two measures is listed twice.
MergeRowsTwice(perMeasure, sorted) ==
    LET keysIn(rows) == [i \in DOMAIN rows |-> rows[i].keys]
        found == FlattenSeq([n \in DOMAIN perMeasure |-> keysIn(perMeasure[n])])
        valueIn(rows, keys) ==
            LET at == {i \in DOMAIN rows : rows[i].keys = keys}
            IN IF at = {} THEN 0 ELSE rows[CHOOSE i \in at : TRUE].values[1]
    IN [i \in DOMAIN found |->
          [keys |-> found[i], values |-> [n \in DOMAIN perMeasure |-> valueIn(perMeasure[n], found[i])]]]

\* The rows of several measures, merged by their labels; a measure without the group has 0.
\* Two dimensions or more are sorted, one keeps the order of the first measure.
MergeRows(perMeasure, sorted) ==
    LET keysIn(rows) == [i \in DOMAIN rows |-> rows[i].keys]
        found == Distinct(FlattenSeq([n \in DOMAIN perMeasure |-> keysIn(perMeasure[n])]))
        order == IF sorted THEN Sorted(ToSet(found), LAMBDA a, b : Weight(a) < Weight(b))
                 ELSE found
        valueIn(rows, keys) ==
            LET at == {i \in DOMAIN rows : rows[i].keys = keys}
            IN IF at = {} THEN 0 ELSE rows[CHOOSE i \in at : TRUE].values[1]
    IN [i \in DOMAIN order |->
          [keys |-> order[i], values |-> [n \in DOMAIN perMeasure |-> valueIn(perMeasure[n], order[i])]]]

ScalarOf(m, filters, u) == Aggregate(m, Selected(m, filters, u))
RowsForm(several, dims) ==
    CASE Len(dims) >= 3 -> "n"
      [] Len(dims) = 2 -> IF several THEN "multigrouped2" ELSE "pairs"
      [] OTHER -> IF several THEN "multigrouped" ELSE "grouped"
\* A grouping the measure's table does not join is an error of the engine.
Fails(plan) ==
    /\ plan.op \in {"group", "multigroup"}
    /\ \E m \in ToSet(plan.measures) : ~ToSet(plan.dims) \subseteq Related(m)
Execute(plan, u) ==
    CASE plan.op = "empty" -> [form |-> "empty"]
      [] Fails(plan) -> [form |-> "failed"]
      [] plan.op = "total" -> [form |-> "scalar", values |-> <<ScalarOf(plan.measures[1], plan.filters, u)>>]
      [] plan.op = "multi" ->
            [form |-> "multi", values |-> [i \in DOMAIN plan.measures |->
                ScalarOf(plan.measures[i], FiltersWithTimeFlag(plan.measures[i], plan.filters), u)]]
      [] plan.op = "tuples" ->
            [form |-> "multi", values |-> [i \in DOMAIN plan.cells |->
                ScalarOf(plan.cells[i].measure,
                         FiltersWithTimeFlag(plan.cells[i].measure, plan.cells[i].filters), u)]]
      [] plan.op = "group" ->
            [form |-> RowsForm(FALSE, plan.dims),
             rows |-> ApplySetOpToRows(GroupRows(plan.measures[1], plan.dims, plan.levels, plan.filters, u),
                                       plan.setOp)]
      [] plan.op = "multigroup" ->
            [form |-> RowsForm(TRUE, plan.dims),
             rows |-> MergeRows([n \in DOMAIN plan.measures |->
                        GroupRows(plan.measures[n], plan.dims, plan.levels,
                                  FiltersWithTimeFlag(plan.measures[n], plan.filters), u)],
                        Len(plan.dims) >= 2)]
=============================================================================
