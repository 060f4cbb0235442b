------------------------------- MODULE Cellset -------------------------------
(* From rows to a cellset (execute/render.rs): axes of tuples, and cells whose *)
(* ordinal says which tuple of each axis they stand under, the first axis      *)
(* varying fastest. A tuple is its members and its measure, or {}; the order   *)
(* of the hierarchies within a tuple is left out, and so are captions, parent  *)
(* names and child counts.                                                    *)
EXTENDS Planner, Once

Tuple(members, measures) == [members |-> members, measures |-> measures]
Cell(at, value, m) == [at |-> at, value |-> value, measure |-> m]
Answer(axes, slicer, cells) == [axes |-> axes, slicer |-> slicer, cells |-> cells]
EmptyCellset(q) == Answer(<<>>, {MeasureForQuery(q)}, {})

Measures(q) == SelectSeq(SelectedMeasures(q), LAMBDA m : m \in Measure)
DimEdges(q) == SelectSeq([i \in DOMAIN q.edges |-> i], LAMBDA i : q.edges[i].dims # <<>>)
\* leaf_member_for_dim: the member of a row's label, under the level the caller names
LeafMember(d, level, label) == [dim |-> d, level |-> level, label |-> label]
\* Mutant: the members vary fastest.
MergedByMeasure(memberSets, ms) ==
    [i \in 1..Len(memberSets) * Len(ms) |->
       Tuple(memberSets[1 + ((i - 1) % Len(memberSets))], {ms[1 + (i - 1) \div Len(memberSets)]})]

\* One tuple for each member tuple and measure, the measure varying fastest.
Merged(memberSets, ms) ==
    [i \in 1..Len(memberSets) * Len(ms) |->
       Tuple(memberSets[1 + (i - 1) \div Len(ms)], {ms[1 + ((i - 1) % Len(ms))]})]
Alone(memberSets) == [i \in DOMAIN memberSets |-> Tuple(memberSets[i], {})]
MeasureTuples(ms) == [i \in DOMAIN ms |-> Tuple({}, {ms[i]})]

\* Mutant: the axes of the dimensions and of the measure change places.
FinishSwapped(q, memberSets, cells) ==
    LET own == {i \in DOMAIN q.edges : Len(q.edges[i].measures) = 1}
        de == DimEdges(q)[1]
    IN IF own = {} THEN Answer(<<Alone(memberSets)>>, {MeasureForQuery(q)}, cells)
       ELSE LET ms == q.edges[Min(own)].measures
            IN Answer(IF Min(own) = de THEN <<Merged(memberSets, ms)>>
                      ELSE IF Min(own) < de THEN <<Alone(memberSets), MeasureTuples(ms)>>
                      ELSE <<MeasureTuples(ms), Alone(memberSets)>>, {}, cells)

\* finish_dim_axis: a single selected measure joins the axis of the dimensions, or has the
\* axis of its own edge, or stays on the slicer.
FinishDimAxis(q, memberSets, cells) ==
    LET own == {i \in DOMAIN q.edges : Len(q.edges[i].measures) = 1}
        de == DimEdges(q)[1]
    IN IF own = {} THEN Answer(<<Alone(memberSets)>>, {MeasureForQuery(q)}, cells)
       ELSE LET me == Min(own)
                ms == q.edges[me].measures
            IN Answer(IF me = de THEN <<Merged(memberSets, ms)>>
                      ELSE IF de < me THEN <<Alone(memberSets), MeasureTuples(ms)>>
                      ELSE <<MeasureTuples(ms), Alone(memberSets)>>, {}, cells)
Listed(at, value) == [at |-> at, value |-> value]
\* The places listed with one value each, in the order of the axis.
FinishListed(q, listed, m) ==
    FinishDimAxis(q, [i \in DOMAIN listed |-> listed[i].at],
                  {Cell(i - 1, listed[i].value, m) : i \in DOMAIN listed})
\* The layout of several measures against one axis of members: merged where the statement
\* cross-joined them, else the measures first.
MeasuresAgainst(q, memberSets, cells) ==
    IF \E i \in DOMAIN q.edges : q.edges[i].dims # <<>> /\ q.edges[i].measures # <<>>
    THEN Answer(<<Merged(memberSets, Measures(q))>>, {}, cells)
    ELSE Answer(<<MeasureTuples(Measures(q)), Alone(memberSets)>>, {}, cells)

------------------------------------------------------------------------------
(* No row axis.                                                               *)

BuildSlicerOnly(q, result) ==
    Answer(<<>>, {MeasureForQuery(q)}, {Cell(0, result.values[1], MeasureForQuery(q))})
BuildMultiMeasure(q, result) ==
    Answer(<<MeasureTuples(Measures(q))>>, {},
           {Cell(i - 1, result.values[i], Measures(q)[i]) : i \in DOMAIN result.values})
\* The values are those of the tuples with a measure, paired with the tuples in order.
BuildTupleSet(q, result) ==
    LET membersOf(t) ==
            UNION {{LeafMember(f.dim, f.level, label) : label \in f.members} : f \in t.filters}
        named == {i \in DOMAIN result.values : q.tuples[i].measure \in Measure}
    IN Answer(<<[i \in DOMAIN q.tuples |->
                   Tuple(membersOf(q.tuples[i]), {q.tuples[i].measure} \cap Measure)]>>, {},
              {Cell(i - 1, result.values[i], q.tuples[i].measure) : i \in named})

------------------------------------------------------------------------------
(* One axis of dimensions.                                                    *)

SumOf(rows, n) == MapThenSumSet(LAMBDA i : rows[i].values[n], DOMAIN rows)
\* all_value: the value the engine gave for (All), else the sum of the rows
AllValue(totals, m, summed) == IF m \in DOMAIN totals THEN totals[m] ELSE summed

\* The members of the first filter on a dimension: a slicer's come before a drill's.
FilterKeys(q, d) ==
    LET of(filters) == {f \in filters : f.dim = d}
        first == IF of(q.filters) # {} THEN of(q.filters) ELSE of(q.drilled)
    IN UNION {f.members : f \in {g \in first : g.form = "members"}}
LabelsArePaths(q, d) == q.levelOf[d] > 1 /\ ~PlainColumn(d, q.levelOf[d], AllFilters(q))
\* A drill into one member: its children have plain labels, and its key is prefixed to them.
OneParent(q, d) ==
    q.levelOf[d] > 1 /\ ~q.drag /\ Cardinality(FilterKeys(q, d)) = 1 /\ ~LabelsArePaths(q, d)
ParentKey(q, d) == CHOOSE k \in FilterKeys(q, d) : TRUE
DrilldownMemberOf(q, d, label) ==
    LET l == q.levelOf[d]
    IN LeafMember(d, l, IF OneParent(q, d) THEN Child(d, l, ParentKey(q, d), label) ELSE label)

\* The members above a drilled label, from the top, and the chain down to a drill's parent.
Ancestors(d, l, label) ==
    {LeafMember(d, k, LabelAt(d, leaf, k)) : k \in 1..l - 1, leaf \in Under(d, l, label)}
Chain(q, d) ==
    LET l == q.levelOf[d]
        leaf == CHOOSE x \in Under(d, l - 1, ParentKey(q, d)) : TRUE
    IN [k \in 1..l - 1 |-> LeafMember(d, k, LabelAt(d, leaf, k))]
\* Mutant: level by level.
BreadthFirst(d, members) ==
    <<AllOf(d)>> \o Sorted(members, LAMBDA a, b :
        IF a.level = b.level THEN a.label < b.label ELSE a.level < b.level)

\* Pre-order: every member right before the members below it.
PreOrder(d, members) ==
    LET first(x) == Min({Member[d][leaf].key : leaf \in Under(d, x.level, x.label)})
    IN <<AllOf(d)>> \o Sorted(members, LAMBDA a, b :
           IF first(a) = first(b) THEN a.level < b.level ELSE first(a) < first(b))

\* level0_member_values, pair_level0_values: the members of the top level with their own
\* values, asked for without the drill's own filter and outside the user's context.
Unrestricted == CHOOSE u \in Permitted : Sees[u] = Fact
Level0Rows(q) ==
    LET m == MeasureForQuery(q)
    IN GroupRows(m, q.axisDims, [i \in DOMAIN q.axisDims |-> 1],
                 FiltersWithTimeFlag(m, SlicerFilters(q)), Unrestricted)

\* A drill below the top level: (All), the whole top level, and in it the drilled members
\* under those they belong to. A member between takes the sum of what is below it, but the
\* one parent of a drill and those above it, short of the top, take the total; so does that
\* parent's chain where the top level does not list it, after everything else.
BuildDrilledTree(q, result, totals, roots) ==
    LET d == q.axisDims[1]
        l == q.levelOf[d]
        m == MeasureForQuery(q)
        rows == result.rows
        memberAt(i) == DrilldownMemberOf(q, d, rows[i].keys[1])
        rootAt(i) == LeafMember(d, 1, roots[i].keys[1])
        data == {memberAt(i) : i \in DOMAIN rows}
        top == {rootAt(i) : i \in DOMAIN roots}
        chain == IF OneParent(q, d) THEN Chain(q, d) ELSE <<>>
        stray == chain # <<>> /\ chain[1] \notin top
        above == IF stray THEN {} ELSE ToSet(chain) \union UNION {Ancestors(d, l, x.label) : x \in data}
        order == PreOrder(d, data \union top \union above)
                   \o (IF stray THEN <<AllOf(d)>> \o chain ELSE <<>>)
        total == AllValue(totals, m, SumOf(rows, 1))
        own(x) == {rows[i].values[1] : i \in {k \in DOMAIN rows : memberAt(k) = x}}
                    \union {roots[i].values[1] : i \in {k \in DOMAIN roots : rootAt(k) = x}}
        valueOf(x) ==
            IF own(x) # {} THEN CHOOSE v \in own(x) : TRUE
            ELSE IF x = AllOf(d) \/ OneParent(q, d) THEN total
            ELSE MapThenSumSet(LAMBDA i : rows[i].values[1],
                               {i \in DOMAIN rows : x \in Ancestors(d, l, memberAt(i).label)})
        place(x) == Listed({x}, valueOf(x))
    IN FinishListed(q, [i \in DOMAIN order |-> place(order[i])], m)

\* Without NON EMPTY the axis lists every member of the level, and only those with a row of
\* their label have a cell.
BuildDrilldownDictionary(q, result, totals) ==
    LET d == q.axisDims[1]
        l == IF Depth[d] = 0 THEN 0 ELSE Max({q.levelOf[d], 1})
        m == MeasureForQuery(q)
        rows == result.rows
        members == Sorted({LeafMember(d, l, LabelAt(d, leaf, l)) : leaf \in Leaves(d)},
                                LAMBDA a, b : a.label < b.label)
        axis == IF q.drag THEN members ELSE <<AllOf(d)>> \o members
        cellsAt(i) ==
            IF axis[i] = AllOf(d) THEN {Cell(i - 1, AllValue(totals, m, SumOf(rows, 1)), m)}
            ELSE {Cell(i - 1, rows[j].values[1], m) :
                    j \in {k \in DOMAIN rows : rows[k].keys[1] = axis[i].label}}
    IN FinishDimAxis(q, [i \in DOMAIN axis |-> {axis[i]}], UNION {cellsAt(i) : i \in DOMAIN axis})

BuildDrilldown(q, result, totals) ==
    LET d == q.axisDims[1]
        l == q.levelOf[d]
        m == MeasureForQuery(q)
        rows == result.rows
        lead == IF q.drag THEN <<>> ELSE <<AllOf(d)>>
        members == lead \o [i \in DOMAIN rows |-> DrilldownMemberOf(q, d, rows[i].keys[1])]
        valueAt(i) == IF i <= Len(lead) THEN AllValue(totals, m, SumOf(rows, 1))
                      ELSE rows[i - Len(lead)].values[1]
        \* build_drilldown lists the dimension's own edge; axis_non_empty defaults to true
        nonEmpty == \A i \in DOMAIN q.edges : ToSet(q.edges[i].dims) # {} => q.edges[i].nonEmpty
    IN IF q.setOp = NoSetOp /\ ~nonEmpty THEN BuildDrilldownDictionary(q, result, totals)
       ELSE IF l > 1 /\ ~q.drag THEN Once(LAMBDA roots : BuildDrilledTree(q, result, totals, roots), Level0Rows(q))
       ELSE FinishDimAxis(q, [i \in DOMAIN members |-> {members[i]}],
                          {Cell(i - 1, valueAt(i), m) : i \in DOMAIN members})

Excluded(q, d, label) == \E e \in q.excluded : e.dim = d /\ e.label = label
\* Two dimensions on one edge. Where neither is drilled into: the pairs with data, but those
\* with a collapsed member.
Shown(q, rows) == SelectSeq(rows, LAMBDA r : \A e \in q.excluded : e.label \notin ToSet(r.keys))
PlainPairs(q, rows) ==
    LET shown == Shown(q, rows)
        pair(i) == {DrilldownMemberOf(q, q.axisDims[s], shown[i].keys[s]) : s \in 1..2}
    IN [i \in DOMAIN shown |-> Listed(pair(i), shown[i].values[1])]

\* Where slot s is drilled into: for each member of the other slot, the tree of s. Members
\* drilled into together take the sum of the rows below them; one alone stands between the
\* other members of the top level, and its chain and (All) take the total of its rows.
SlotDrilled(q, d) == q.levelOf[d] > 1 /\ ~q.drag /\ FilterKeys(q, d) # {}
TreeAgainst(q, rows, s, label) ==
    LET d == q.axisDims[s]
        l == q.levelOf[d]
        data == {LeafMember(d, l, r.keys[s]) : r \in ToSet(Shown(q, rows))}
        tree == PreOrder(d, data \union UNION {Ancestors(d, l, x.label) : x \in data})
        below(x) == {i \in DOMAIN rows :
                       /\ rows[i].keys[3 - s] = label
                       /\ x \in Ancestors(d, l, rows[i].keys[s]) \union {LeafMember(d, l, rows[i].keys[s])}}
    IN [i \in DOMAIN tree |->
          Listed(tree[i], MapThenSumSet(LAMBDA r : rows[r].values[1], below(tree[i])))]
BranchAgainst(q, rows, s, label, roots) ==
    LET d == q.axisDims[s]
        kept == SelectSeq(Shown(q, rows), LAMBDA r : r.keys[3 - s] = label)
        total == SumOf(kept, 1)
        labels == Sorted({roots[i].keys[s] : i \in DOMAIN roots}, <)
        isTarget(i) == labels[i] = ParentKey(q, d)
        before == SelectSeq([i \in DOMAIN labels |-> i], LAMBDA i : ~\E t \in 1..i : isTarget(t))
        after == SelectSeq([i \in DOMAIN labels |-> i], LAMBDA i : \E t \in 1..i - 1 : isTarget(t))
        rootListed(i) ==
            Listed(LeafMember(d, 1, labels[i]),
                  MapThenSumSet(LAMBDA r : roots[r].values[1],
                                {r \in DOMAIN roots : /\ roots[r].keys[s] = labels[i]
                                                      /\ roots[r].keys[3 - s] = label}))
        entries(indexes) == [i \in DOMAIN indexes |-> rootListed(indexes[i])]
        totals(members) == [i \in DOMAIN members |-> Listed(members[i], total)]
    IN totals(<<AllOf(d)>>) \o entries(before) \o totals(Chain(q, d))
         \o [i \in DOMAIN kept |->
               Listed(DrilldownMemberOf(q, d, kept[i].keys[s]), kept[i].values[1])]
         \o entries(after)
DrilledPairs(q, rows, s, roots) ==
    LET o == q.axisDims[3 - s]
        labels == Sorted({r.keys[3 - s] : r \in ToSet(Shown(q, rows))}, <)
        against(label) == IF OneParent(q, q.axisDims[s]) THEN BranchAgainst(q, rows, s, label, roots)
                          ELSE TreeAgainst(q, rows, s, label)
        beside(here, label) ==
            [j \in DOMAIN here |-> Listed({here[j].at, LeafMember(o, q.levelOf[o], label)}, here[j].value)]
    IN FlattenSeq([i \in DOMAIN labels |-> Once(LAMBDA here : beside(here, labels[i]), against(labels[i]))])

BuildDrilldownMulti(q, result) ==
    LET drilled == {s \in 1..2 : SlotDrilled(q, q.axisDims[s])}
    IN Once(LAMBDA listed : FinishListed(q, listed, MeasureForQuery(q)),
            IF drilled = {} THEN PlainPairs(q, result.rows)
            ELSE Once(LAMBDA roots : DrilledPairs(q, result.rows, Min(drilled), roots), Level0Rows(q)))

\* DrilldownMember of one dimension by another: the root, then under each parent its own
\* total and the pairs with data. A collapsed parent shows its total only; a collapsed
\* second member shows once, against (All), the total of its column.
BuildDrilldownMember(q, result, totals) ==
    LET d0 == q.axisDims[1]
        d1 == q.axisDims[2]
        m == MeasureForQuery(q)
        rows == result.rows
        leaf(d, label) == LeafMember(d, 0, label)
        over(i, n) == {j \in DOMAIN rows : rows[j].keys[n] = rows[i].keys[n]}
        sum(S) == MapThenSumSet(LAMBDA j : rows[j].values[1], S)
        shown(i) == ~Excluded(q, d0, rows[i].keys[1])
        column(i) == Excluded(q, d1, rows[i].keys[2])
        firstOf(i) == i = Min({j \in over(i, 2) : shown(j)})
        parent(i) == IF i = Min(over(i, 1))
                     THEN <<[at |-> {leaf(d0, rows[i].keys[1]), AllOf(d1)}, value |-> sum(over(i, 1))]>>
                     ELSE <<>>
        child(i) == CASE ~shown(i) \/ (column(i) /\ ~firstOf(i)) -> <<>>
                      [] shown(i) /\ column(i) /\ firstOf(i) ->
                            <<[at |-> {AllOf(d0), leaf(d1, rows[i].keys[2])}, value |-> sum(over(i, 2))]>>
                      [] OTHER -> <<[at |-> {leaf(d0, rows[i].keys[1]), leaf(d1, rows[i].keys[2])},
                                     value |-> rows[i].values[1]]>>
        root == <<[at |-> {AllOf(d0), AllOf(d1)}, value |-> AllValue(totals, m, SumOf(rows, 1))]>>
        listed == root \o FlattenSeq([i \in DOMAIN rows |-> parent(i) \o child(i)])
    IN FinishListed(q, listed, m)

BuildMeasureByCategory(q, result) ==
    LET d == q.axisDims[1]
        m == MeasureForQuery(q)
        members == [i \in DOMAIN result.rows |->
                      {LeafMember(d, q.levelOf[d], result.rows[i].keys[1])}]
        cells == {Cell(i - 1, result.rows[i].values[1], m) : i \in DOMAIN result.rows}
    IN IF \E i \in DOMAIN q.edges : q.edges[i].dims # <<>> /\ q.edges[i].measures # <<>>
       THEN Answer(<<Merged(members, <<m>>)>>, {m}, cells)
       ELSE Answer(<<MeasureTuples(<<m>>), Alone(members)>>, {m}, cells)

\* Several measures: one cell for each member and measure, the measure varying fastest.
MeasureCells(q, table) ==
    LET ms == Measures(q)
    IN UNION {{Cell((i - 1) * Len(ms) + n - 1, table[i][n], ms[n]) : n \in DOMAIN ms} :
                i \in DOMAIN table}
BuildMultiMeasureByCategory(q, result, totals) ==
    LET d == q.axisDims[1]
        ms == Measures(q)
        rows == result.rows
        lead == IF q.drag THEN <<>> ELSE <<AllOf(d)>>
        totalRow == [n \in DOMAIN ms |-> AllValue(totals, ms[n], SumOf(rows, n))]
        table == [i \in DOMAIN lead |-> totalRow] \o [i \in DOMAIN rows |-> rows[i].values]
        members == lead \o [i \in DOMAIN rows |-> LeafMember(d, q.levelOf[d], rows[i].keys[1])]
    IN MeasuresAgainst(q, [i \in DOMAIN members |-> {members[i]}], MeasureCells(q, table))
BuildMultiMeasureCrossjoin(q, result) ==
    LET leafPair(row) == {LeafMember(q.axisDims[i], 0, row.keys[i]) : i \in 1..2}
    IN MeasuresAgainst(q, [i \in DOMAIN result.rows |-> leafPair(result.rows[i])],
                       MeasureCells(q, [i \in DOMAIN result.rows |-> result.rows[i].values]))

------------------------------------------------------------------------------
(* A grid: a coordinate of each edge, (All) first, and a cell where the rows  *)
(* have a value.                                                              *)

Edge(q, n) == q.edges[DimEdges(q)[n]]
GridMeasures(q) ==
    LET ms == SelectSeq(Edge(q, 1).measures \o Edge(q, 2).measures, LAMBDA m : m \in Measure)
    IN IF ms = <<>> THEN <<MeasureForQuery(q)>> ELSE ms
EdgeTuples(q, n, memberSets) ==
    IF Edge(q, n).measures = <<>> THEN Alone(memberSets) ELSE Merged(memberSets, GridMeasures(q))
\* values[r][c][n] holds the value of a row, a column and a measure, or nothing. The ordinal
\* counts columns, and measures within a column, whichever edge the measures are on.
Grid(q, columns, rows, values) ==
    LET ms == GridMeasures(q)
        ordinal(r, c, n) == ((r - 1) * Len(columns) + c - 1) * Len(ms) + n - 1
    IN Answer(<<EdgeTuples(q, 1, columns), EdgeTuples(q, 2, rows)>>, {MeasureForQuery(q)},
              UNION {{Cell(ordinal(r, c, n), v, ms[n]) : v \in values[r][c][n]} :
                       r \in DOMAIN rows, c \in DOMAIN columns, n \in DOMAIN ms})

\* One dimension on each of two edges. An (All) of one side takes what the engine injected
\* for the member of the other (by the member's label), else the sum of its pairs.
BuildCrossTab(q, result, totals, dimensionValues) ==
    LET dims == <<Edge(q, 1).dims[1], Edge(q, 2).dims[1]>>
        ms == GridMeasures(q)
        rows == result.rows
        labels(s) == <<All>> \o Sorted({r.keys[s] : r \in ToSet(rows)}, <)
        members(s) == [i \in DOMAIN labels(s) |->
                         {IF i = 1 THEN AllOf(dims[s])
                          ELSE LeafMember(dims[s], DrilldownLevel(q), labels(s)[i])}]
        sum(S, n) == MapThenSumSet(LAMBDA i : rows[i].values[n], S)
        having(s, label) == {i \in DOMAIN rows : rows[i].keys[s] = label}
        side(s, label, n) ==
            LET known == {v \in dimensionValues : v.dim = dims[s] /\ v.label = label /\ v.measure = ms[n]}
            IN IF known # {} THEN {v.value : v \in known} ELSE {sum(having(s, label), n)}
        value(a, b, n) ==
            CASE a # All /\ b # All -> {rows[i].values[n] : i \in having(1, a) \cap having(2, b)}
              [] a # All /\ b = All -> side(1, a, n)
              [] a = All /\ b # All -> side(2, b, n)
              [] OTHER -> IF rows = <<>> THEN {} ELSE {AllValue(totals, ms[n], SumOf(rows, n))}
    IN Grid(q, members(1), members(2),
            [r \in DOMAIN labels(2) |-> [c \in DOMAIN labels(1) |-> [n \in DOMAIN ms |->
               value(labels(1)[c], labels(2)[r], n)]]])

\* coords.rs: the key of a coordinate. The separator of two labels is left out while the key
\* is empty, so blank labels in front disappear; the key of a row keeps them.
CoordKey(labels) ==
    LET full == {i \in DOMAIN labels : labels[i] # 0}
    IN IF full = {} THEN <<>> ELSE SubSeq(labels, Min(full), Len(labels))
RowKey(labels) == IF labels = <<0>> THEN <<>> ELSE labels
Surviving(labels, coord) ==
    LET slots == SelectSeq([i \in DOMAIN coord |-> i], LAMBDA i : coord[i] # All)
    IN [i \in DOMAIN slots |-> labels[slots[i]]]
\* Mutant: a coordinate with several rows is not rolled up.
ValueOfOneRow(rows, coord, n) ==
    LET found == {i \in DOMAIN rows :
                    RowKey(Surviving(rows[i].keys, coord)) = CoordKey(Surviving(coord, coord))}
    IN IF Cardinality(found) # 1 THEN {} ELSE {rows[i].values[n] : i \in found}

CoordValue(rows, coord, n) ==
    LET found == {i \in DOMAIN rows :
                    RowKey(Surviving(rows[i].keys, coord)) = CoordKey(Surviving(coord, coord))}
    IN IF found = {} THEN {} ELSE {MapThenSumSet(LAMBDA i : rows[i].values[n], found)}

\* Three dimensions or more over two edges, at most two on each: an edge lists every pair of
\* its members, or under DrilldownMember the parents with the pairs that have data.
EdgeCoords(q, result, n) ==
    LET dims == Edge(q, n).dims
        first == IF n = 1 THEN 0 ELSE Len(Edge(q, 1).dims)
        labels(s) == Sorted({r.keys[first + s] : r \in ToSet(result.rows)}, <)
        collapsed(a) == \E e \in q.excluded : e.dim \in ToSet(dims) /\ e.label = a
        withData(a) == SelectSeq(labels(2), LAMBDA b :
                           \E r \in ToSet(result.rows) : SubSeq(r.keys, first + 1, first + 2) = <<a, b>>)
        nested(a) == <<<<a, All>>>> \o (IF collapsed(a) THEN <<>>
                        ELSE [i \in DOMAIN withData(a) |-> <<a, withData(a)[i]>>])
        every(a) == [i \in 1..Len(labels(2)) + 1 |-> <<a, (<<All>> \o labels(2))[i]>>]
    IN IF Len(dims) = 1 THEN [i \in 1..Len(labels(1)) + 1 |-> <<(<<All>> \o labels(1))[i]>>]
       ELSE IF q.drill = "member"
       THEN <<<<All, All>>>> \o FlattenSeq([i \in DOMAIN labels(1) |-> nested(labels(1)[i])])
       ELSE FlattenSeq([i \in 1..Len(labels(1)) + 1 |-> every((<<All>> \o labels(1))[i])])
BuildMultiDimPivot(q, result) ==
    LET coords(n) == EdgeCoords(q, result, n)
        member(d, label) == IF label = All THEN AllOf(d) ELSE LeafMember(d, 0, label)
        members(n) == [i \in DOMAIN coords(n) |->
                         {member(Edge(q, n).dims[s], coords(n)[i][s]) : s \in DOMAIN Edge(q, n).dims}]
    IN IF Len(DimEdges(q)) # 2 THEN EmptyCellset(q)
       ELSE Grid(q, members(1), members(2),
                 [r \in DOMAIN coords(2) |-> [c \in DOMAIN coords(1) |-> [n \in DOMAIN GridMeasures(q) |->
                    CoordValue(result.rows, coords(1)[c] \o coords(2)[r], n)]]])

------------------------------------------------------------------------------
\* dispatch_with_backend: the builder is chosen by the form of the result before the kind of
\* the query. A builder that finds another form than its own does not return.
Unreachable == Answer(<<>>, {}, {})
Dispatch(q, result, totals, dimensionValues) ==
    CASE result.form = "empty" -> EmptyCellset(q)
      [] result.form = "n" -> BuildMultiDimPivot(q, result)
      [] Len(DimEdges(q)) >= 2 /\ result.form # "n" ->
            IF result.form \in {"pairs", "multigrouped2"}
            THEN BuildCrossTab(q, result, totals, dimensionValues) ELSE EmptyCellset(q)
      [] Len(DimEdges(q)) < 2 /\ result.form = "multigrouped" ->
            BuildMultiMeasureByCategory(q, result, totals)
      [] Len(DimEdges(q)) < 2 /\ result.form = "multigrouped2" ->
            BuildMultiMeasureCrossjoin(q, result)
      [] Len(DimEdges(q)) < 2 /\ result.form = "multi" ->
            IF Len(q.tuples) > 1 THEN BuildTupleSet(q, result) ELSE BuildMultiMeasure(q, result)
      [] Len(DimEdges(q)) < 2 /\ result.form = "scalar" -> BuildSlicerOnly(q, result)
      [] Len(DimEdges(q)) < 2 /\ result.form = "grouped" ->
            IF q.kind = "MeasureByCategory" THEN BuildMeasureByCategory(q, result)
            ELSE BuildDrilldown(q, result, totals)
      [] Len(DimEdges(q)) < 2 /\ result.form = "pairs" ->
            CASE q.kind = "MeasureByCategory" -> Unreachable
              [] q.kind = "DrilldownMemberProbe" -> BuildDrilldownMember(q, result, totals)
              [] OTHER -> BuildDrilldownMulti(q, result)
=============================================================================
