---------------------------- MODULE AnswerProperties ---------------------------
(* What an answer promises: every cell is the measure over the rows that its  *)
(* members, its filters and its reader leave; every such cell is there, in the *)
(* layout asked for; and nothing denied is in it. Where the renderer is known  *)
(* to answer otherwise, the departure is an operator with a name.             *)
EXTENDS Answers

\* Rows kept under the names of several members are given for the one whose name is a list of
\* them, and the other way round (filter_suffix).
CommaNames == UNION {{x} \union Lists[x] : x \in DOMAIN Lists}
MistakenRows(q) ==
    asked > 1 /\ \E f \in PlannedFilters(BuildPlan(q)) : f.members \intersect CommaNames # {}

Answered == stage = "answered" /\ PlanFor(question, asker) # Empty /\ ~MistakenRows(question)

\* The places of a cellset, and the tuples a place stands under: the first axis varies fastest.
Places(c) == 0..FoldLeft(LAMBDA n, axis : n * Len(axis), 1, c.axes) - 1
TuplesAt(c, at) ==
    CASE Len(c.axes) = 0 -> {}
      [] Len(c.axes) = 1 -> {c.axes[1][1 + at]}
      [] OTHER -> {c.axes[1][1 + (at % Len(c.axes[1]))], c.axes[2][1 + (at \div Len(c.axes[1]))]}
MembersAt(c, at) == UNION {t.members : t \in TuplesAt(c, at)}
MeasuresAt(c, at) ==
    LET own == UNION {t.measures : t \in TuplesAt(c, at)} IN IF own = {} THEN c.slicer ELSE own
DimsOf(axis) == {x.dim : x \in UNION {t.members : t \in ToSet(axis)}}

\* What a place means. A tuple of a tuple set has no filters but its members; the (All) of a
\* ranked axis is that of the members kept.
Stands(row, x) == x.label = All \/ LabelAt(x.dim, row.at[x.dim], x.level) = x.label
ListedOf(axis, d) == {x \in UNION {t.members : t \in ToSet(axis)} : x.dim = d /\ x.label # All}
KeptBy(q, c) ==
    IF q.setOp = NoSetOp THEN Fact
    ELSE {row \in Fact : \E x \in ListedOf(c.axes[1], AxisDims(q)[1]) : Stands(row, x)}
InContext(q, u, m) == Selected(m, FiltersWithTimeFlag(m, IF q.tuples = <<>> THEN q.filters ELSE {}), u)
RowsAt(q, u, c, at, m) ==
    {row \in InContext(q, u, m) \intersect KeptBy(q, c) :
       \A x \in MembersAt(c, at) : x.dim \in Related(m) => Stands(row, x)}
Means(q, u, c, cell) ==
    /\ MeasuresAt(c, cell.at) = {cell.measure}
    /\ cell.value = Aggregate(cell.measure, RowsAt(q, u, c, cell.at, cell.measure))

------------------------------------------------------------------------------
(* Departures.                                                                *)

\* A grid gives the members of both edges the level of the first dimension, a larger pivot
\* gives none (build_cross_tab, build_multi_dim_pivot).
Mislabelled(q) ==
    /\ Len(DimEdges(q)) = 2
    /\ \E i \in DOMAIN AxisDims(q) :
          DrilldownLevels(q)[i] # (IF Len(AxisDims(q)) > 2 THEN 0 ELSE DrilldownLevel(q))
\* Several measures on the second edge of a grid: the ordinal puts them on the first.
MeasuresOnRows(q) == Len(DimEdges(q)) = 2 /\ Len(Edge(q, 2).measures) > 1
\* Several measures on an edge of their own after the dimensions come first instead.
MeasuresLast(q) ==
    \E i, j \in DOMAIN q.edges : i < j /\ q.edges[i].dims # <<>> /\ Len(q.edges[j].measures) > 1
\* Without a measure the plan takes the first of the table that owns an axis dimension, the
\* renderer the default of the model (build_plan_inner, measure_id_for_query).
OtherDefault(q) == PlanMeasure(q) # MeasureForQuery(q)
\* A level dragged below one member of its parent: the labels lack the parent.
DragUnderOne(q) == q.drag /\ \E d \in ToSet(AxisDims(q)) : LevelOf(q, d) > 1 /\ ~LabelsArePaths(q, d)
\* A drill without NON EMPTY lists members by paths, and looks for their plain labels.
LooseDrill(q) == \E i \in DOMAIN q.edges : ~q.edges[i].nonEmpty /\ \E d \in ToSet(q.edges[i].dims) : OneParent(q, d)
\* A slicer with the members drilled into is taken for the drill's own filter.
SlicedAsDrilled(q) == SlicerFilters(q) # q.filters
\* Totals of larger pivots and of nested drills are sums, whatever the measure aggregates.
SummedTotal(q, m) == ~Additive(m) /\ (Len(AxisDims(q)) > 2 \/ Kind(q) = "DrilldownMemberProbe")
\* A blank label in front of a coordinate is lost (coord_key).
Blank(members) == \E x \in members : x.label = 0

\* Above the members a drill lists: the top level is read without the reader's roles, one
\* parent and those above it short of the top take the total, as does a parent without rows,
\* other members between take sums, and on an edge of two dimensions the drilled branch
\* stands for the whole.
Above(q, x) == ~q.drag /\ 1 < LevelOf(q, x.dim) /\ x.level < LevelOf(q, x.dim)
AboveDrill(q, u, c, cell) ==
    \E x \in {y \in MembersAt(c, cell.at) : Above(q, y)} :
       \/ Len(AxisDims(q)) > 1
       \/ x.label # All /\ x.level = 1 /\ Sees[u] # Fact
       \/ x.label # All /\ x.level > 1 /\ (OneParent(q, x.dim) \/ ~Additive(cell.measure))
       \/ x.label # All /\ RowsAt(q, u, c, cell.at, cell.measure) = {}
\* The members such a drill repeats: those above a parent the top level does not list, and
\* on an edge of two dimensions those above a parent below the top.
Repeats(q, u) ==
    \E d \in {e \in ToSet(AxisDims(q)) : OneParent(q, e)} :
       \/ Len(AxisDims(q)) > 1 /\ LevelOf(q, d) > 2
       \/ Len(AxisDims(q)) = 1 /\ {r \in InContext(q, Unrestricted, MeasureForQuery(q)) :
                                     LabelAt(d, r.at[d], LevelOf(q, d) - 1) = ParentKey(q, d)} = {}

------------------------------------------------------------------------------
\* A cell is its measure over the rows of the members it stands under that its reader may
\* see: whatever levels are listed, however the labels of the rows were qualified, and
\* whatever axes the measures share. Under an (All) it is evaluated there, not put together
\* from the members beside it, and the members drilled into do not constrain it. Excepted are
\* the departures above: an (All) of a larger pivot or a nested drill (SummedTotal) or beside a
\* slicer with the drilled members (SlicedAsDrilled), a level dragged below one parent
\* (DragUnderOne), the places above a drill, whose top level render.rs reads without the
\* reader's roles (AboveDrill), and the answers of Mislabelled, MeasuresOnRows and OtherDefault.
CellsAnswerTheirRows ==
    Answered /\ ~Mislabelled(question) /\ ~MeasuresOnRows(question) /\ ~OtherDefault(question)
      => \A cell \in cellset.cells :
            LET total == \E x \in MembersAt(cellset, cell.at) : x.label = All
            IN \/ total /\ (SlicedAsDrilled(question) \/ SummedTotal(question, cell.measure))
               \/ ~total /\ DragUnderOne(question)
               \/ AboveDrill(question, asker, cellset, cell)
               \/ Means(question, asker, cellset, cell)

\* A place whose members have rows has one cell: none is missing, no two share a place, none
\* lies outside the axes, and no axis lists a tuple twice.
EveryPlaceHasItsCell ==
    /\ Answered /\ ~MeasuresOnRows(question) /\ ~LooseDrill(question)
       => \A at \in Places(cellset) :
             \/ \E cell \in cellset.cells : cell.at = at
             \/ Len(AxisDims(question)) > 2 /\ Blank(MembersAt(cellset, at))
             \/ \A m \in MeasuresAt(cellset, at) : RowsAt(question, asker, cellset, at, m) = {}
    /\ Answered /\ ~Repeats(question, asker)
       => /\ \A cell \in cellset.cells : cell.at \in Places(cellset)
          /\ \A c1, c2 \in cellset.cells : c1.at = c2.at => c1 = c2
          /\ \A a \in DOMAIN cellset.axes : IsInjective(cellset.axes[a])

\* Along an axis a member comes before those below it, and these follow it without a member
\* from elsewhere between, for the same members of the other dimensions.
Below(y, x) ==
    /\ y # x
    /\ \/ x.label = All
       \/ /\ y.label # All /\ 0 < x.level /\ x.level < y.level
          /\ Under(y.dim, y.level, y.label) \subseteq Under(x.dim, x.level, x.label)
InTreeOrder(axis) ==
    LET others(t, d) == <<{x \in t.members : x.dim # d}, t.measures>>
        memberOf(t, d) == CHOOSE x \in t.members : x.dim = d
    IN \A d \in DimsOf(axis) : \A i, j \in DOMAIN axis :
          (/\ others(axis[i], d) = others(axis[j], d)
           /\ Below(memberOf(axis[j], d), memberOf(axis[i], d)))
          => /\ i < j
             /\ \A k \in i + 1..j : others(axis[k], d) = others(axis[i], d)
                                     => Below(memberOf(axis[k], d), memberOf(axis[i], d))

\* An answer has an axis for each edge of the statement, with the dimensions and measures of
\* that edge; every member named on one exists at the level it names, and the members of a
\* tree are listed as a tree; and every place has its cell.
LaidOutAsAsked ==
    LET edges == SelectSeq(question.edges, LAMBDA e : e.dims # <<>> \/ e.measures # <<>>)
        measuresOf(axis) == UNION {t.measures : t \in ToSet(axis)}
    IN
    /\ EveryPlaceHasItsCell
    /\ Answered /\ question.tuples = <<>> /\ ~Repeats(question, asker)
       => \A axis \in ToSet(cellset.axes) : InTreeOrder(axis)
    /\ Answered /\ question.tuples = <<>> /\ ~MeasuresLast(question)
       /\ ~(Kind(question) = "MeasureByCategory" /\ \E i \in DOMAIN edges : Len(edges[i].dims) = 2)
       => /\ Len(cellset.axes) = Len(edges)
          /\ \A a \in DOMAIN edges :
                \/ cellset.axes[a] = <<>>
                \/ /\ DimsOf(cellset.axes[a]) = ToSet(edges[a].dims)
                   /\ measuresOf(cellset.axes[a]) = ToSet(edges[a].measures)
          /\ Mislabelled(question) \/ DragUnderOne(question)
             \/ \A a \in DOMAIN edges : \A t \in ToSet(cellset.axes[a]) : \A x \in t.members :
                   x.label = All \/ Under(x.dim, x.level, x.label) # {}

\* A ranked axis keeps the members the whole of their rows ranks first, as many as asked, and
\* all rows of each: ranking does not look at the rows of one pair, nor at other readers'.
RankingKeepsTheTop ==
    Answered /\ question.setOp # NoSetOp
      => LET d == AxisDims(question)[1]
             m == MeasureForQuery(question)
             op == question.setOp
             rowsOf(k) == {row \in InContext(question, asker, m) : row.at[d] = k}
             found == {k \in Leaves(d) : rowsOf(k) # {}}
             shown == {x.label : x \in ListedOf(cellset.axes[1], d)}
             size == CASE op.op \in {"topcount", "topcountfilter"} -> Min({op.n, Cardinality(found)})
                       [] op.op = "toppercent" -> (Cardinality(found) * op.n + 99) \div 100
                       [] op.op = "order" -> Cardinality(found)
                       [] op.op = "filter" -> Cardinality({k \in found : Aggregate(m, rowsOf(k)) >= op.n})
             beats(k, j) == Aggregate(m, rowsOf(k)) >= Aggregate(m, rowsOf(j))
         IN /\ shown \subseteq found /\ Cardinality(shown) = size
            /\ op.op = "order" \/ \A k \in shown, j \in found \ shown : beats(k, j)
            /\ \A k \in shown : \A row \in rowsOf(k) : \E t \in ToSet(cellset.axes[1]) :
                  t.members = {LeafMember(e, 0, row.at[e]) : e \in ToSet(AxisDims(question))}

\* A drill without a measure: its (All) is evaluated for the model's default, looking at the
\* table of the measure planned and not at the default's (drilldown_all_values); its other
\* cells bear the default's name and hold values of the measure planned.
DefaultUnasked(q, c, cell) ==
    /\ OtherDefault(q) /\ cell.measure = MeasureForQuery(q)
    /\ TableOf[PlanMeasure(q)] \notin HiddenTable[asker]
    /\ \/ \E x \in MembersAt(c, cell.at) : x.label = All
       \/ cell.value = Aggregate(PlanMeasure(q), RowsAt(q, asker, c, cell.at, PlanMeasure(q)))

\* No member of a denied dimension reaches its reader, nor any value one whom no role lets
\* read, nor a value of a denied table (runtime.rs: "a hidden fact table yields no values at
\* all"). The last with one exception, in which the code departs from that line: DefaultUnasked.
NothingDeniedIsShown ==
    stage = "answered"
      => /\ asker \in Permitted \/ cellset.cells = {}
         /\ \A a \in DOMAIN cellset.axes : DimsOf(cellset.axes[a]) \intersect HiddenDimension[asker] = {}
         /\ \A cell \in cellset.cells :
               TableOf[cell.measure] \notin HiddenTable[asker] \/ DefaultUnasked(question, cellset, cell)

\* Rows taken from the cache are those the question itself would have fetched, for the user
\* who asks: two plans share a key only if they have the same rows. A member whose name has a
\* comma is the exception.
KeptRowsAreTheQuestions ==
    stage \in {"fetched", "evaluated", "answered"}
      /\ ~MistakenRows(question)
      => result = Execute(PlanFor(question, asker), asker)
=============================================================================
