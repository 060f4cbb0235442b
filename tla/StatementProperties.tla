-------------------------- MODULE StatementProperties -------------------------
(* What reading a statement promises: the text a client makes of a question is *)
(* read as that question, and the conditions of a statement keep the rows they *)
(* denote, wherever the statement puts them. The spellings are those of the   *)
(* statements Excel and the project's own tests send.                         *)
EXTENDS Statements

VARIABLES statement,    \* what is asked: a tree, and the question or the conditions it spells
          heard         \* what was made of its text

readingVars == <<statement, heard>>

------------------------------------------------------------------------------
(* Text.                                                                      *)

Commas(tokens) == FlattenSeq([i \in DOMAIN tokens |-> IF i = 1 THEN tokens[i] ELSE <<Mark(",")>> \o tokens[i]])
Flags == {"DESC", "BASC", "INCLUDE_CALC_MEMBERS"}
PropertyWords == {"CURRENTMEMBER", "LEVELS"} \union Caption \union MemberProperty
SpellParts(parts) ==
    FlattenSeq([i \in DOMAIN parts |->
       <<IF parts[i] \in PropertyWords THEN Word(parts[i]) ELSE Token("name", parts[i])>>
         \o (IF i < Len(parts) THEN <<Mark(".")>> ELSE <<>>)])
\* Keys of a member named by the first level are written with dots, any others without.
SpellKey(parts, key) ==
    LET dotted == Len(parts) = 3 /\ Len(key) > 1 /\ \E d \in Dimension : Depth[d] > 0 /\ parts[3] = LevelName[d][1]
    IN FlattenSeq([i \in DOMAIN key |-> (IF i = 1 \/ dotted THEN <<Mark(".")>> ELSE <<>>) \o <<Token("key", key[i])>>])
\* Excel leaves out the arguments before a flag, and the number of a level follows .Levels.
RECURSIVE Spell(_), SpellStatement(_)
SpellAll(es) == Commas([i \in DOMAIN es |-> Spell(es[i])])
Spell(e) ==
    CASE e.k = "text" -> <<IF e.name \in Flags THEN Word(e.name) ELSE Token("text", e.name)>>
      [] e.k = "number" -> <<Token("number", e.name)>>
      [] e.k = "measure" -> SpellParts(<<"Measures", e.name>>)
      [] e.k = "member" -> SpellParts(e.parts) \o SpellKey(e.parts, e.key)
      [] e.k = "set" -> <<Mark("{")>> \o SpellAll(e.kids) \o <<Mark("}")>>
      [] e.k = "tuple" -> <<Mark("(")>> \o SpellAll(e.kids) \o <<Mark(")")>>
      [] e.k = "call" ->
            LET flagged == e.name = "DRILLDOWNMEMBER" /\ Len(e.kids) = 3 /\ e.kids[3].k = "text"
                levels == e.kids # <<>> /\ e.kids[1].k = "member" /\ e.kids[1].parts[Len(e.kids[1].parts)] = "LEVELS"
                args == CASE flagged -> SpellAll(SubSeq(e.kids, 1, 2)) \o <<Mark(","), Mark(","), Mark(",")>>
                                          \o Spell(e.kids[3])
                          [] levels -> Spell(e.kids[1]) \o SpellAll(Tail(e.kids))
                          [] OTHER -> SpellAll(e.kids)
            IN <<Word(e.name), Mark("(")>> \o args \o <<Mark(")")>>
      [] e.k = "range" -> Spell(e.kids[1]) \o <<Mark(":")>> \o Spell(e.kids[2])
      [] e.k = "binary" -> Spell(e.kids[1]) \o <<Mark(e.name)>> \o Spell(e.kids[2])
      [] e.k = "members" -> Spell(e.kids[1]) \o <<Mark("."), Word("MEMBERS")>>
      [] e.k = "children" -> Spell(e.kids[1]) \o <<Mark("."), Word("CHILDREN")>>
      [] e.k = "exclude" -> <<Mark("-")>> \o Spell(e.kids[1])

Listing(words) == FlattenSeq([i \in DOMAIN words |-> <<Word(words[i])>>])
\* Axes carry properties, and a statement those of its cells.
SpellAxis(a) ==
    (IF a.nonEmpty THEN Listing(<<"NON", "EMPTY">>) ELSE <<>>) \o SpellAll(a.exprs)
      \o Listing(<<"DIMENSION", "PROPERTIES", "PARENT_UNIQUE_NAME">>)
      \o <<Mark(","), Word("HIERARCHY_UNIQUE_NAME"), Word("ON")>>
      \o <<IF a.ordinal = 0 THEN Word("COLUMNS") ELSE Token("number", a.ordinal)>>
SpellWith(w) ==
    <<Word(IF w.set THEN "SET" ELSE "MEMBER")>> \o Spell(w.name) \o <<Word("AS")>> \o Spell(w.body)
SpellStatement(s) ==
    (IF s.withs = <<>> THEN <<>>
     ELSE <<Word("WITH")>> \o FlattenSeq([i \in DOMAIN s.withs |-> SpellWith(s.withs[i])]))
      \o <<Word("SELECT")>> \o Commas([i \in DOMAIN s.axes |-> SpellAxis(s.axes[i])]) \o <<Word("FROM")>>
      \o (IF s.sub = <<>> THEN <<Token("name", s.cube)>>
          ELSE <<Mark("(")>> \o SpellStatement(s.sub[1]) \o <<Mark(")")>>)
      \o (IF s.slicer = <<>> THEN <<>> ELSE <<Word("WHERE")>> \o Spell(s.slicer[1]))
      \o Listing(<<"CELL", "PROPERTIES", "VALUE">>)

------------------------------------------------------------------------------
(* Members and conditions as expressions.                                     *)

HierarchyOf(d) == IF Depth[d] > 0 THEN "Calendar" ELSE d
AllMember(d) == Reference(<<d, HierarchyOf(d), "All">>, <<>>)
LevelRef(d, l) == Reference(<<d, HierarchyOf(d), IF l = 0 THEN d ELSE LevelName[d][l]>>, <<>>)
\* The member a label names at a level: with its path under its own level or under the first.
KeyPath(d, l, x) ==
    LET leaf == CHOOSE y \in Under(d, l, x) : TRUE
    IN IF l = 0 THEN <<ToString(Member[d][leaf].key)>>
       ELSE [i \in 1..l |-> ToString(NameAt(d, leaf, i))]
MemberNamed(d, l, x, fromTop) ==
    Reference(CASE l = 0 -> <<d, d>> [] l > 0 /\ fromTop -> <<d, HierarchyOf(d), LevelName[d][1]>>
                [] OTHER -> LevelRef(d, l).parts, KeyPath(d, l, x))
MembersOf(d, l, labels, fromTop) ==
    [i \in 1..Cardinality(labels) |-> MemberNamed(d, l, SetToSortSeq(labels, <)[i], fromTop)]
FilterExpr(f, fromTop) ==
    IF f.form = "range"
    THEN RangeOf(MemberNamed(f.dim, f.level, Min(f.members), FALSE), MemberNamed(f.dim, f.level, Max(f.members), FALSE))
    ELSE SetOf(MembersOf(f.dim, f.level, f.members, fromTop))

------------------------------------------------------------------------------
(* Questions as statements.                                                   *)

MeasureSet(ms) == SetOf([i \in DOMAIN ms |-> MeasureRef(ms[i])])
DrillLevel(d, l) ==
    Call("DRILLDOWNLEVEL", <<SetOf(<<AllMember(d)>>)>> \o (IF l > 1 THEN <<LevelRef(d, l)>> ELSE <<>>))
CrossOf(es) == FoldLeft(LAMBDA done, e : Call("CROSSJOIN", <<done, e>>), es[1], Tail(es))
DimExpr(q, d) ==
    LET into == {f \in q.drilled : f.dim = d}
        gone == SelectSeq(SetToSeq(q.excluded), LAMBDA e : e.dim = d)
        level == DrillLevel(d, q.levels[d])
    IN CASE q.drill = "none" -> SetOf(<<AllMember(d)>>)
         [] q.drill # "none" /\ q.drag /\ Depth[d] > 0 ->
                Call("HIERARCHIZE", <<Call("ADDCALCULATEDMEMBERS", <<SetOf(<<Members(LevelRef(d, q.levels[d]))>>)>>)>>)
         [] q.drill # "none" /\ into # {} ->
                LET f == CHOOSE f \in into : TRUE
                IN Call("DRILLDOWNMEMBER", <<SetOf(<<SetOf(<<level>>)>>), SetOf(MembersOf(d, f.level, f.members, FALSE)),
                                             Text("INCLUDE_CALC_MEMBERS")>>)
         [] OTHER -> IF gone = <<>> THEN level
                     ELSE SetOf(<<level, Exclude(SetOf(<<MemberNamed(d, 0, gone[1].label, FALSE)>>))>>)
\* A nested drill expands the outer members of an edge, but those collapsed, into the inner.
NestExpr(q, outer, inner) ==
    LET gone == SelectSeq(SetToSeq(q.excluded), LAMBDA e : e.dim \in {outer, inner})
        listed == IF Depth[outer] > 0 THEN DrillLevel(outer, 1)
                  ELSE SetOf(<<AllMember(outer), Members(Reference(<<outer, outer, outer>>, <<>>))>>)
        into == IF gone = <<>> THEN Members(Reference(<<outer, outer, outer>>, <<>>))
                ELSE Exclude(SetOf(<<MemberNamed(gone[1].dim, 0, gone[1].label, FALSE)>>))
    IN Call("DRILLDOWNMEMBER",
            <<Call("CROSSJOIN", <<listed, SetOf(<<ParenOf(<<AllMember(inner)>>)>>)>>), SetOf(<<into>>),
              Reference(<<inner, inner>>, <<>>)>>)
RankedExpr(q, e) ==
    LET m == MeasureRef(MeasureForQuery(q))
        op == q.setOp
    IN CASE op.op \in {"none", "topcountfilter"} -> e
         [] op.op = "topcount" -> Call(IF op.desc THEN "TOPCOUNT" ELSE "BOTTOMCOUNT", <<e, Number(op.n), m>>)
         [] op.op = "toppercent" -> Call("TOPPERCENT", <<e, Number(op.n), m>>)
         [] op.op = "order" -> Call("ORDER", <<e, m, Text(IF op.desc THEN "DESC" ELSE "BASC")>>)
         [] op.op = "filter" -> Call("FILTER", <<e, Compare(">=", m, Number(op.n))>>)
EdgeExpr(q, edge) ==
    LET nested == q.drill = "member" /\ q.drilled = {} /\ Len(edge.dims) = 2
        dims == IF nested THEN <<NestExpr(q, edge.dims[1], edge.dims[2])>>
                ELSE [i \in DOMAIN edge.dims |-> DimExpr(q, edge.dims[i])]
        ms == IF edge.measures = <<>> THEN <<>> ELSE <<MeasureSet(edge.measures)>>
    IN IF q.setOp.op \in {"none", "topcountfilter"} THEN CrossOf(dims \o ms) ELSE RankedExpr(q, CrossOf(dims))
TupleExpr(t) ==
    ParenOf(<<MeasureRef(t.measure)>> \o
            [i \in 1..Cardinality(t.filters) |-> FilterExpr(SetToSeq(t.filters)[i], FALSE).kids[1]])
\* Its filters in the slicer or in subselects, ranges always in the slicer; its axes in
\* the order of their numbers or the other way round.
Written(q, subs, backwards, fromTop) ==
    LET filters == SetToSeq(q.filters)
        top == IF q.setOp.op # "topcountfilter" THEN <<>>
               ELSE <<Call("TOPCOUNT", <<DrillLevel(FlatDims(q)[1], 0), Number(q.setOp.n), MeasureRef(MeasureForQuery(q))>>)>>
        below == top \o (IF ~subs THEN <<>> ELSE LET fs == SelectSeq(filters, LAMBDA f : f.form = "members")
                                              IN [i \in DOMAIN fs |-> FilterExpr(fs[i], fromTop)])
        beside == SelectSeq(filters, LAMBDA f : ~subs \/ f.form # "members")
        slicer == [i \in 1..Cardinality(q.slicer) |-> MeasureRef(SetToSeq(q.slicer)[i])]
                    \o [i \in DOMAIN beside |-> FilterExpr(beside[i], fromTop)]
        axes == IF q.tuples # <<>> THEN <<Axis(0, TRUE, <<SetOf([i \in DOMAIN q.tuples |-> TupleExpr(q.tuples[i])])>>)>>
                ELSE [i \in DOMAIN q.edges |-> Axis(i - 1, q.edges[i].nonEmpty, <<EdgeExpr(q, q.edges[i])>>)]
        inner(within, e) == <<Statement(<<>>, <<Axis(0, FALSE, <<e>>)>>, "cube", within, <<>>)>>
    IN Statement(<<>>, IF backwards THEN Reverse(axes) ELSE axes, "cube",
                 FoldLeft(inner, <<>>, Reverse(below)), IF slicer = <<>> THEN <<>> ELSE <<ParenOf(slicer)>>)
\* What the planner is told of a question. A drill of a nested edge expands one member.
Told(q) ==
    [kind |-> Kind(q), edges |-> q.edges, slicer |-> q.slicer, filters |-> q.filters, drilled |-> q.drilled,
     levels |-> DrilldownLevels(q), drag |-> q.drag, setOp |-> q.setOp,
     tuples |-> q.tuples, excluded |-> {<<e.dim, <<ToString(e.label)>>>> : e \in q.excluded}]

------------------------------------------------------------------------------
(* Conditions: an expression, its dimension and the leaves it denotes.        *)

Denoting(form, d, expr, leaves) == [form |-> form, dim |-> d, expr |-> expr, leaves |-> leaves]
\* Members of one level or several, as <<level, label>>, in the order they are listed.
OneOf(d, ms, fromTop) ==
    Denoting("members", d, SetOf([i \in DOMAIN ms |-> MemberNamed(d, ms[i][1], ms[i][2], fromTop)]),
               UNION {Under(d, m[1], m[2]) : m \in ToSet(ms)})
ShortKey(d, l, name) ==
    Denoting("members", d, Reference(LevelRef(d, l).parts, <<ToString(name)>>),
               {leaf \in Leaves(d) : NameAt(d, leaf, l) = name})
ByName(d, label) ==
    Denoting("members", d, Reference(<<d, d, ToString(label)>>, <<>>), {leaf \in Leaves(d) : Member[d][leaf].key = label})
Whole(d) == Denoting("all", d, AllMember(d), Leaves(d))
Between(d, l, a, b) ==
    Denoting("range", d, SetOf(<<FilterExpr(RangeFilter(d, l, a, b), FALSE)>>),
               {leaf \in Leaves(d) : LabelAt(d, leaf, l) \in a..b})
\* Captions that compare with a text, or begin with it, end with it or contain it.
Captioned(d, op, text) ==
    LET caption == Reference(<<d, HierarchyOf(d), "CURRENTMEMBER", "MEMBER_CAPTION">>, <<>>)
        test == CASE op = "begins" -> Compare("=", Call("LEFT", <<caption, Number(1)>>), Text(text))
                  [] op = "ends" -> Compare("<>", Call("RIGHT", <<caption, Number(1)>>), Text(text))
                  [] op = "contains" -> Compare(">", Call("INSTR", <<Number(1), caption, Text(text)>>), Number(0))
                  [] OTHER -> Compare(op, caption, Text(text))
        labelled(leaf) == Member[d][leaf].key
        holds(leaf) == CASE op \in {"begins", "contains"} -> labelled(leaf) \in Matching[op][text]
                         [] op = "ends" -> labelled(leaf) \notin Matching[op][text]
                         [] OTHER -> \E x \in Leaves(d) : ToString(labelled(x)) = text
                                                        /\ Compares(op, labelled(leaf), labelled(x))
    IN Denoting("filter", d, Call("FILTER", <<Members(LevelRef(d, 0)), ParenOf(<<test>>)>>),
                  {leaf \in Leaves(d) : holds(leaf)})
Dated(d, op, date) ==
    LET value == Reference(<<d, HierarchyOf(d), "CURRENTMEMBER", "MEMBERVALUE">>, <<>>)
        test == Compare(op, value, Call("CDATE", <<Text(ToString(date))>>))
    IN Denoting("filter", d,
                  Call("FILTER", <<Reference(<<d, HierarchyOf(d), "LEVELS">>, <<>>),
                                   Members(ParenOf(<<Number(Depth[d])>>)), ParenOf(<<test>>)>>),
                  {leaf \in Leaves(d) : Compares(op, Member[d][leaf].key, date)})
\* The same over the members of a level, with the test bare or in parentheses.
DatedPlainly(d, op, date, bare) ==
    LET excel == Dated(d, op, date)
        test == excel.expr.kids[3].kids[1]
        set == Members(LevelRef(d, Depth[d]))
    IN [excel EXCEPT !.form = "plain", !.expr = Call("FILTER", <<set, IF bare THEN test ELSE ParenOf(<<test>>)>>)]
\* The dates of the period a member is in, until the last of the member.
UntilMember(d, unit, l, x) ==
    LET end == Max({Member[d][leaf].key : leaf \in Under(d, l, x)})
        within == CHOOSE u \in 1..Depth[d] : LevelName[d][u] = unit
        period == LabelAt(d, CHOOSE leaf \in Under(d, l, x) : TRUE, within)
    IN {leaf \in Under(d, within, period) : Member[d][leaf].key <= end}
ToDate(f, d, l, x, fromTop) ==
    Denoting("window", d, Call(f, <<MemberNamed(d, l, x, fromTop)>>), UntilMember(d, Period[f], l, x))
PeriodToDate(d, unit, l, x) ==
    LET at == CHOOSE u \in 1..Depth[d] : LevelName[d][u] = unit
    IN Denoting("window", d, Call("PERIODSTODATE", <<LevelRef(d, at), MemberNamed(d, l, x, TRUE)>>),
                  UntilMember(d, unit, l, x))

\* A statement of conditions, each said in a place: on an axis, in a set named on an axis, in
\* the slicer, in a subselect or in the subselect of that.
Said(place, c) == [place |-> place, condition |-> c]
Saying(said, m) ==
    LET at(place) == LET here == SelectSeq(said, LAMBDA x : x.place = place)
                     IN [i \in DOMAIN here |-> here[i].condition.expr]
        axes(es) == IF es = <<>> THEN <<>> ELSE <<Axis(1, TRUE, <<CrossOf(es)>>)>>
        inner(es, within) ==
            IF es = <<>> /\ within = <<>> THEN <<>>
            ELSE <<Statement(<<>>, [i \in DOMAIN es |-> Axis(i - 1, FALSE, <<es[i]>>)], "cube", within, <<>>)>>
        chosen == Reference(<<"Chosen">>, <<>>)
        sets == [i \in DOMAIN at("set") |-> [set |-> TRUE, name |-> chosen, body |-> at("set")[i]]]
        listed == at("axis") \o [i \in DOMAIN sets |-> chosen]
    IN Statement(sets, <<Axis(0, FALSE, <<SetOf(<<MeasureRef(m)>>)>>)>> \o axes(listed), "cube",
                 inner(at("sub"), inner(at("nested"), <<>>)),
                 IF at("where") = <<>> THEN <<>> ELSE <<ParenOf(at("where"))>>)

------------------------------------------------------------------------------
(* Reading one.                                                               *)

Unheard == [stage |-> "unheard", tree |-> <<>>]
Hear ==
    /\ heard = Unheard
    /\ \E read \in {ParseSelect(SpellStatement(statement.tree))} :
          LET as(stage) == [stage |-> stage, tree |-> read.it]
          IN heard' = CASE ~read.ok -> as("fault")
                        [] read.ok /\ RefusedStatement(read.it) -> as("refused")
                        [] OTHER -> as("read")
    /\ UNCHANGED statement

------------------------------------------------------------------------------
(* Departures.                                                                *)

\* Conditions on one dimension in several places are united, where each restricts the rows
\* the others leave (ast.rs says so of a subselect).
United(said) ==
    \E i, j \in DOMAIN said :
       /\ i # j /\ said[i].condition.dim = said[j].condition.dim
       /\ \A n \in {i, j} : said[n].condition.form = "members"
\* Members of several levels are all read at the level of the first.
DeepestFirst(c) ==
    /\ c.form = "members" /\ c.expr.k = "set"
    /\ \E i \in DOMAIN c.expr.kids : Len(c.expr.kids[i].key) < Len(c.expr.kids[1].key)
\* A range is compared under the ancestors of its first end, and of a dimension without
\* levels it keeps everything.
OutOfRange(c) ==
    LET ends == c.expr.kids[1].kids
        above(e) == SubSeq(e.key, 1, Len(e.key) - 1)
    IN c.form = "range" /\ (Depth[c.dim] = 0 \/ above(ends[1]) # above(ends[2]))
\* Ranges of subselects and named sets, filters of the slicer and of inner subselects, and
\* windows off the axes are not looked for.
Overlooked(x) ==
    \/ x.condition.form = "range" /\ x.place \in {"sub", "nested", "set"}
    \/ x.condition.form = "filter" /\ x.place \in {"where", "nested"}
    \/ x.condition.form = "window" /\ x.place \notin {"axis", "set"}
\* The date filter of a set without .Levels is not applied, and refused only if its test is
\* bare, on an axis or in the slicer.
Unseen(x) ==
    x.condition.form = "plain" /\ (x.place \in {"sub", "nested"} \/ x.condition.expr.kids[2].k = "tuple")
\* The refusal compares two counts: an applied date filter makes up for one that is not.
MadeUpFor(said) ==
    \E i, j \in DOMAIN said : /\ said[i].condition.form = "plain" /\ said[j].condition.form = "filter"
                              /\ said[j].condition.expr.kids[1].k = "member"
Departs(said) ==
    \/ United(said) \/ MadeUpFor(said)
    \/ \E i \in DOMAIN said :
          DeepestFirst(said[i].condition) \/ OutOfRange(said[i].condition) \/ Overlooked(said[i]) \/ Unseen(said[i])

------------------------------------------------------------------------------
\* The text of a question is parsed to the tree it was written from and understood as the
\* question: its edges by number whatever their order, its filters, members, levels, tuples
\* and set functions, whatever clause, spelling or nesting they are written in.
StatementReadsBack ==
    heard.stage # "unheard"
      => /\ heard.tree = statement.tree
         /\ \A q \in ToSet(statement.asks) : heard.stage = "read" /\ Understood(heard.tree) = Told(q)

\* The rows a condition denotes.
Denoted(x) == {row \in Fact : row.at[x.condition.dim] \in x.condition.leaves}

\* A statement that is not refused and has none of the departures above reads the rows its
\* conditions denote together: none is lost between the clauses, and each is taken at its own
\* level. Excepted, as the code does otherwise: conditions of two places on one dimension
\* (United), a date filter another makes up for (MadeUpFor), members of several levels
\* (DeepestFirst), a range over several parents (OutOfRange), and the ranges, filters and windows
\* in the places where they are not looked for (Overlooked, Unseen).
FiltersKeepTheirRows ==
    heard.stage = "read" /\ statement.said # <<>> /\ ~Departs(statement.said)
      => KeptRows(FiltersRead(heard.tree)) = {row \in Fact : \A x \in ToSet(statement.said) : row \in Denoted(x)}

\* A subselect restricts the statement around it (ast.rs: "a subselect restricts the outer
\* query"): whatever its slicer names, a statement that is read keeps no row outside it.
SubselectsRestrict ==
    heard.stage = "read"
      => \A x \in ToSet(statement.said) :
            x.place \in {"sub", "nested"} => KeptRows(FiltersRead(heard.tree)) \subseteq Denoted(x)
=============================================================================
