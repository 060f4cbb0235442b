------------------------------ MODULE Statements ------------------------------
(* What a parsed statement asks (mdx/frontend.rs, mdx/parser.rs,               *)
(* mdx/semantic.rs): what is refused, and of the rest the axes, the slicer, the *)
(* filters, the drill and its levels, as Planner reads them. Each question is  *)
(* put to the tree by a walk of its own, and the walks do not enter the same   *)
(* nodes. Quoted bodies, probes and windows relative to today are left out.   *)
EXTENDS Planner, Syntax

CONSTANTS LevelName,    \* of a dimension: the names of its levels, top first
          Matching      \* of a text test and a text: the labels it holds of

ASSUME LevelNameAssumption == \A d \in Dimension : Len(LevelName[d]) = Depth[d]

------------------------------------------------------------------------------
(* Walks.                                                                     *)

Wrappers == {"members", "children"}
Everything == {"set", "tuple", "call", "range", "binary", "exclude"} \union Wrappers

\* The nodes of an expression, depth first, entering those of the kinds in through.
RECURSIVE Nodes(_, _), Root(_), EveryExpr(_), SubMembers(_), Expanded(_, _), SetCalls(_)
Nodes(e, through) ==
    <<e>> \o (IF e.k \in through
              THEN FlattenSeq([i \in DOMAIN e.kids |-> Nodes(e.kids[i], through)]) ELSE <<>>)
NodesOf(es, through, kinds) ==
    SelectSeq(FlattenSeq([i \in DOMAIN es |-> Nodes(es[i], through)]), LAMBDA e : e.k \in kinds)

\* as_member: the member at the root, none or one.
Root(e) == IF e.k \in Wrappers THEN Root(e.kids[1]) ELSE IF e.k = "member" THEN {e} ELSE {}
DimOf(m) == m.parts[1]
LevelToken(m) == IF Len(m.parts) >= 3 THEN m.parts[3] ELSE ""
IsAll(name) == name \in {"All", "(All)"}

ExprsOf(axes) == FlattenSeq([i \in DOMAIN axes |-> axes[i].exprs])
InOrder(s) == FlattenSeq([n \in 1..3 |-> SelectSeq(s.axes, LAMBDA a : a.ordinal = n - 1)])
Bodies(s, sets) ==
    LET those == SelectSeq(s.withs, LAMBDA w : w.set = sets) IN [i \in DOMAIN those |-> those[i].body]
EveryExpr(s) ==
    ExprsOf(InOrder(s)) \o s.slicer \o (IF s.sub = <<>> THEN <<>> ELSE EveryExpr(s.sub[1]))
      \o Bodies(s, TRUE) \o Bodies(s, FALSE)
SubExprs(s) == IF s.sub = <<>> THEN <<>> ELSE ExprsOf(s.sub[1].axes)
Calls(es, names) ==
    SelectSeq(NodesOf(es, Everything, {"call"}), LAMBDA e : e.name \in names)
MentionsCall(s, name) == Calls(EveryExpr(s), {name}) # <<>>
MentionsMembers(s) == NodesOf(EveryExpr(s), Everything, {"members"}) # <<>>

SetLike(e) == e.k \in {"set", "tuple", "member", "measure", "members", "children", "range", "call"}
NamedSets(s) == SelectSeq(s.withs, LAMBDA w : w.set /\ SetLike(w.body))
\* Sets named in an expression are replaced by their bodies.
Expanded(e, sets) ==
    LET named == SelectSeq(sets, LAMBDA w : w.name.parts = e.parts)
    IN IF e.k = "member" /\ Len(e.parts) = 1 /\ named # <<>> THEN Expanded(named[1].body, sets)
       ELSE [e EXCEPT !.kids = [i \in DOMAIN e.kids |-> Expanded(e.kids[i], sets)]]
ExpandedAll(s, es) == [i \in DOMAIN es |-> Expanded(es[i], NamedSets(s))]

------------------------------------------------------------------------------
(* Axes.                                                                      *)

\* Mutant: the axes are taken as they are written.
AxisSpecsAsWritten(s) ==
    LET specOf(a) ==
            LET dims == NodesOf(a.exprs, Everything, {"member"})
                ms == NodesOf(a.exprs, Everything, {"measure"})
                named == SelectSeq(dims, LAMBDA m : DimOf(m) # "Measures")
            IN [dims |-> Distinct([i \in DOMAIN named |-> DimOf(named[i])]),
                measures |-> Distinct([i \in DOMAIN ms |-> ms[i].name]), nonEmpty |-> a.nonEmpty]
    IN [i \in DOMAIN s.axes |-> specOf(s.axes[i])]

\* The dimensions and measures of each axis, COLUMNS first, each where it first occurs.
AxisSpecs(s) ==
    LET specOf(a) ==
            LET dims == NodesOf(a.exprs, Everything, {"member"})
                ms == NodesOf(a.exprs, Everything, {"measure"})
                named == SelectSeq(dims, LAMBDA m : DimOf(m) # "Measures")
            IN [dims |-> Distinct([i \in DOMAIN named |-> DimOf(named[i])]),
                measures |-> Distinct([i \in DOMAIN ms |-> ms[i].name]), nonEmpty |-> a.nonEmpty]
    IN [i \in DOMAIN InOrder(s) |-> specOf(InOrder(s)[i])]
ShapeDims(s) ==
    SelectSeq(FlattenSeq([i \in DOMAIN AxisSpecs(s) |-> AxisSpecs(s)[i].dims]), LAMBDA d : d \in Dimension)
HasAxis(s, n) == \E i \in DOMAIN s.axes : s.axes[i].ordinal = n
MentionsMeasure(s) ==
    \/ NodesOf(ExprsOf(s.axes) \o s.slicer \o SubExprs(s), Everything, {"measure"}) # <<>>
    \/ \E i \in DOMAIN s.withs : s.withs[i].name.k = "measure"

------------------------------------------------------------------------------
(* Members. A listed member is the (All), a measure or a leaf with its key.    *)

ListedMember(e) ==
    LET leaf(key, level) == <<[as |-> "leaf", dim |-> DimOf(e), key |-> key, level |-> level]>>
    IN CASE e.k = "measure" -> <<[as |-> "measure", dim |-> "", key |-> <<e.name>>, level |-> ""]>>
         [] e.k = "member" /\ e.key # <<>> -> leaf(e.key, LevelToken(e))
         [] e.k = "member" /\ e.key = <<>> /\ IsAll(e.parts[Len(e.parts)]) ->
                <<[as |-> "all", dim |-> DimOf(e), key |-> <<>>, level |-> ""]>>
         [] e.k = "member" /\ e.key = <<>> /\ ~IsAll(e.parts[Len(e.parts)]) ->
                CASE Len(e.parts) = 3 -> leaf(<<e.parts[3]>>, "")
                  [] Len(e.parts) >= 4 -> leaf(<<e.parts[4]>>, e.parts[3])
                  [] OTHER -> <<>>
         [] OTHER -> <<>>
\* flatten_members: sets and tuples are lists, an exclusion is read as what it excludes; the
\* ends of a range are not members.
FlattenMembers(es) ==
    LET at == NodesOf(es, {"set", "tuple", "exclude"}, {"member", "measure"})
    IN FlattenSeq([i \in DOMAIN at |-> ListedMember(at[i])])
WhereMembers(s) == FlattenMembers(s.slicer)
SubMembers(s) ==
    IF s.sub = <<>> THEN <<>> ELSE FlattenMembers(ExprsOf(s.sub[1].axes)) \o SubMembers(s.sub[1])
SelectTuples(s) ==
    LET sets == SelectSeq(ExprsOf(s.axes), LAMBDA e : e.k = "set")
        ts == SelectSeq(FlattenSeq([i \in DOMAIN sets |-> sets[i].kids]), LAMBDA e : e.k = "tuple")
    IN [i \in DOMAIN ts |-> FlattenMembers(ts[i].kids)]
ExcludedMembers(s) ==
    LET at == NodesOf(ExprsOf(s.axes), Everything \ {"exclude", "binary"}, {"exclude"})
        ms == FlattenMembers(FlattenSeq([i \in DOMAIN at |-> at[i].kids]))
    IN {<<m.dim, m.key>> : m \in {n \in ToSet(ms) : n.as = "leaf"}}
MeasuresIn(ms) == SelectSeq(ms, LAMBDA m : m.as = "measure")

\* Mutant: a key always belongs to the level its member names.
LevelAsNamed(d, token, key) ==
    LET named == {i \in 1..Depth[d] : LevelName[d][i] = token} IN IF named = {} THEN 0 ELSE Min(named)

\* member_level_index: the length of the key says the level, if the member names that level
\* or the first; else the level it names, 0 if there is none.
MemberLevel(d, token, key) ==
    LET named == {i \in 1..Depth[d] : LevelName[d][i] = token}
    IN IF Len(key) \in 1..Depth[d] /\ token \in {LevelName[d][1], LevelName[d][Len(key)]} THEN Len(key)
       ELSE IF named = {} THEN 0 ELSE Min(named)

------------------------------------------------------------------------------
(* Filters: a dimension, a level, and what is kept of it.                     *)

Kept(d, level, form, what) == [dim |-> d, level |-> level, form |-> form, what |-> what]

\* The members of a dimension, wherever they are listed, are one filter at the level of the
\* first (filters_from_parsed).
MembersFilters(ms) ==
    LET of(d) == SelectSeq(ms, LAMBDA m : m.as = "leaf" /\ m.dim = d)
    IN {Kept(d, MemberLevel(d, of(d)[1].level, of(d)[1].key), "members", {m.key : m \in ToSet(of(d))}) :
          d \in {m.dim : m \in {n \in ToSet(ms) : n.as = "leaf"}}}

\* The two ends of each range that names its level and both keys; ranges within are not met.
Ranges(es) ==
    LET pairs == NodesOf(es, {"call", "set", "tuple"} \union Wrappers, {"range"})
        ends(p) == {<<a, b>> \in Root(p.kids[1]) \X Root(p.kids[2]) :
                      LevelToken(a) # "" /\ a.key # <<>> /\ b.key # <<>>}
    IN FlattenSeq([i \in DOMAIN pairs |-> SetToSeq(ends(pairs[i]))])
RangeFilters(es) ==
    {Kept(DimOf(p[1]), MemberLevel(DimOf(p[1]), LevelToken(p[1]), p[1].key), "range", <<p[1].key, p[2].key>>) :
       p \in ToSet(Ranges(es))}

\* The comparison among the arguments of a Filter, bare or in parentheses, none or one.
Condition(call) ==
    LET isParen(a) == a.k = "tuple" /\ a.kids # <<>> /\ a.kids[1].k = "binary"
        at == {i \in DOMAIN call.kids : call.kids[i].k = "binary" \/ isParen(call.kids[i])}
        first == call.kids[Min(at)]
    IN IF at = {} THEN {} ELSE {IF first.k = "binary" THEN first ELSE first.kids[1]}

Names(e, words) == \E m \in Root(e) : ToSet(m.parts) \intersect words # {}
Caption == {"MEMBER_CAPTION", "MEMBER_NAME"}
MemberValue == {"MEMBERVALUE", "MEMBER_VALUE"}
MemberProperty == MemberValue \union {"MEMBERKEY", "MEMBER_KEY"}

\* label_filter_condition: the test of a caption and its text, none or one.
LabelTest(c) ==
    LET a == c.kids[1]
        b == c.kids[2]
        affix == "LEFT" :> "begins" @@ "RIGHT" :> "ends"
        texts == SelectSeq(a.kids, LAMBDA e : e.k = "text")
        test(t, holds, text) == {[test |-> t, holds |-> holds, text |-> text]}
    IN CASE Names(a, Caption) -> IF b.k = "text" THEN test(c.name, TRUE, b.name) ELSE {}
         [] a.k = "call" /\ a.name \in DOMAIN affix ->
                IF b.k = "text" /\ c.name \in {"=", "<>"} THEN test(affix[a.name], c.name = "=", b.name) ELSE {}
         [] a.k = "call" /\ a.name = "INSTR" ->
                IF texts # <<>> /\ b = Number(0) /\ c.name \in {">", "="}
                THEN test("contains", c.name = ">", texts[1].name) ELSE {}
         [] OTHER -> {}
LabelDims(a) ==
    LET named == SelectSeq(IF a.k = "call" THEN a.kids ELSE <<a>>, LAMBDA e : Names(e, Caption))
    IN IF named = <<>> THEN {} ELSE {DimOf(m) : m \in Root(named[1])}
\* Axes and the first subselect are looked through, the slicer is not.
FilterCalls(s) == ToSet(Calls(ExpandedAll(s, ExprsOf(s.axes) \o SubExprs(s)), {"FILTER"}))
\* Only statements that spell out member_caption or InStr are looked at.
LabelFilters(s) ==
    LET spelled == \/ MentionsCall(s, "INSTR")
                   \/ \E e \in ToSet(NodesOf(EveryExpr(s), Everything, {"member"})) : Names(e, {"MEMBER_CAPTION"})
    IN IF ~spelled THEN {}
       ELSE UNION {{Kept(d, 0, "label", t) : d \in LabelDims(c.kids[1]) \intersect Dimension, t \in LabelTest(c)} :
                     c \in UNION {Condition(f) : f \in FilterCalls(s)}}

\* date_value_filters: a member value against a date, none or one for a call.
Dates(e) ==
    CASE e.k = "text" -> {e.name}
      [] e.k = "call" /\ e.name = "CDATE" /\ e.kids # <<>> /\ e.kids[1].k = "text" -> {e.kids[1].name}
      [] OTHER -> {}
DateTests(call) ==
    LET ms == SelectSeq(call.kids, LAMBDA e : e.k = "member" /\ Len(e.parts) >= 2)
    IN IF ms = <<>> THEN {}
       ELSE UNION {{<<DimOf(ms[1]), c.name, date>> : date \in Dates(c.kids[2])} :
                     c \in {x \in Condition(call) : Names(x.kids[1], MemberProperty)}}
DateFilters(s) ==
    IF ~MentionsCall(s, "CDATE") THEN {}
    ELSE {Kept(t[1], Depth[t[1]], "date", <<t[2], t[3]>>) :
            t \in {u \in UNION {DateTests(f) : f \in FilterCalls(s)} : u[1] \in Dimension}}

------------------------------------------------------------------------------
(* Windows: the dates from the start of a period to a member, of a parallel    *)
(* period, or of the last periods. The member is pinned by the levels of its   *)
(* key.                                                                       *)

Period == "YTD" :> "Year" @@ "QTD" :> "Quarter" @@ "MTD" :> "Month"
LevelPeriod(token) == {u \in {"Year", "Quarter", "Month"} : u = token}

Pins(d, token, key) ==
    LET l == MemberLevel(d, token, key)
        first == Max({l - Len(key) + 1, 1})
    IN IF l = 0 THEN <<>>
       ELSE [i \in first..Min({l, first + Len(key) - 1}) |-> key[i - first + 1]]
WindowOf(m, level, form, unit, n) ==
    Kept(DimOf(m), level, "window",
         [form |-> form, unit |-> unit, n |-> n, pins |-> Pins(DimOf(m), LevelToken(m), m.key)])
\* A resolved anchor is at the level of its key, any other at the one it names.
LevelNamed(d, token) == MemberLevel(d, token, <<>>)
Windows(call) ==
    LET arg(i) == IF i \in DOMAIN call.kids THEN {m \in Root(call.kids[i]) : LevelToken(m) # ""} ELSE {}
        anchors(i) == {m \in arg(i) : m.key # <<>>}
        count(i) == IF i \in DOMAIN call.kids /\ call.kids[i].k = "number" THEN {call.kids[i].name} ELSE {}
        resolved(m) == MemberLevel(DimOf(m), LevelToken(m), m.key)
    IN CASE call.name \in DOMAIN Period ->
                {WindowOf(m, resolved(m), "todate", Period[call.name], 0) : m \in anchors(1)}
         [] call.name = "PERIODSTODATE" ->
                {WindowOf(m, resolved(m), "todate", u, 0) :
                   m \in anchors(2), u \in UNION {LevelPeriod(LevelToken(l)) : l \in arg(1)}}
         [] call.name = "PARALLELPERIOD" ->
                {WindowOf(m, LevelNamed(DimOf(m), LevelToken(m)), "parallel", u, n) :
                   m \in anchors(3), n \in count(2), u \in UNION {LevelPeriod(LevelToken(l)) : l \in arg(1)}}
         [] call.name = "LASTPERIODS" ->
                UNION {{WindowOf(m, LevelNamed(DimOf(m), LevelToken(m)), "last", u, n) :
                          n \in count(1), u \in LevelPeriod(LevelToken(m))} : m \in anchors(2)}
         [] OTHER -> {}
\* date_windows: axes and named sets; neither the slicer nor the subselect is looked through.
DateWindows(s) ==
    LET es == ExpandedAll(s, ExprsOf(s.axes)) \o [i \in DOMAIN NamedSets(s) |-> NamedSets(s)[i].body]
        calls == NodesOf(es, Everything \ {"binary"}, {"call"})
    IN FlattenSeq([i \in DOMAIN calls |-> SetToSeq(Windows(calls[i]))])

------------------------------------------------------------------------------
(* What a filter keeps (engine/sql.rs).                                       *)

HasName(d, leaf, l, text) == l \in 1..Depth[d] /\ ToString(NameAt(d, leaf, l)) = text
Reaches(d, text, l, leaf, up) ==
    \E other \in Leaves(d) : /\ ToString(NameAt(d, other, l)) = text
                             /\ IF up THEN NameAt(d, leaf, l) <= NameAt(d, other, l)
                                ELSE NameAt(d, other, l) <= NameAt(d, leaf, l)
Compares(op, a, b) ==
    CASE op = "=" -> a = b [] op = "<>" -> a # b [] op = ">" -> a > b
      [] op = ">=" -> a >= b [] op = "<" -> a < b [] op = "<=" -> a <= b

\* A key longer than its level is read from the top, any other ends at the level.
KeepsKey(d, l, key, leaf) ==
    LET above == IF Len(key) > l THEN 0 ELSE l - Len(key)
    IN IF l = 0 THEN <<ToString(Member[d][leaf].key)>> = key
       ELSE \A j \in DOMAIN key : above + j <= Depth[d] => HasName(d, leaf, above + j, key[j])
\* The ends of a range are compared at its level, under the ancestors of the first.
KeepsRange(d, l, from, to, leaf) ==
    \/ l = 0
    \/ /\ \A j \in DOMAIN from : j < l => HasName(d, leaf, j, from[j])
       /\ Reaches(d, from[Len(from)], l, leaf, FALSE) /\ Reaches(d, to[Len(to)], l, leaf, TRUE)
KeepsLabel(d, t, leaf) ==
    IF t.test \in {"begins", "ends", "contains"}
    THEN Member[d][leaf].key \in Matching[t.test][t.text] <=> t.holds
    ELSE \E other \in Leaves(d) : /\ ToString(Member[d][other].key) = t.text
                                  /\ Compares(t.test, Member[d][leaf].key, Member[d][other].key)
\* The dates of a dimension are its keys; a period is counted from a fixed start.
PeriodNumber(d, leaf, unit) ==
    LET y == NameAt(d, leaf, 1)
        q == NameAt(d, leaf, 2)
    IN CASE unit = "Year" -> y [] unit = "Quarter" -> 4 * y + q
         [] unit = "Month" -> 12 * y + 3 * (q - 1) + NameAt(d, leaf, 3)
KeepsWindow(d, w, leaf) ==
    LET pinned == {a \in Leaves(d) : \A l \in DOMAIN w.pins : HasName(d, a, l, w.pins[l])}
        anchor == CHOOSE a \in pinned : \A b \in pinned : Member[d][b].key <= Member[d][a].key
        past == PeriodNumber(d, leaf, w.unit) - PeriodNumber(d, anchor, w.unit)
        untilAnchor == Member[d][leaf].key <= Member[d][anchor].key
    IN /\ pinned # {}
       /\ CASE w.form = "todate" -> past = 0 /\ untilAnchor
            [] w.form = "parallel" -> past = w.n
            [] w.form = "last" -> past >= -Max({w.n - 1, 0}) /\ untilAnchor
Keeps(f, leaf) ==
    CASE f.form = "members" -> \E key \in f.what : KeepsKey(f.dim, f.level, key, leaf)
      [] f.form = "range" -> KeepsRange(f.dim, f.level, f.what[1], f.what[2], leaf)
      [] f.form = "label" -> KeepsLabel(f.dim, f.what, leaf)
      [] f.form = "date" ->
            f.level = 0 \/ \E other \in Leaves(f.dim) :
                              /\ ToString(Member[f.dim][other].key) = f.what[2]
                              /\ Compares(f.what[1], Member[f.dim][leaf].key, Member[f.dim][other].key)
      [] f.form = "window" -> f.level = 0 \/ KeepsWindow(f.dim, f.what, leaf)
KeptRows(filters) == {row \in Fact : \A f \in filters : Keeps(f, row.at[f.dim])}

------------------------------------------------------------------------------
(* Drills, set functions and kinds.                                           *)

\* extract_drill_members: the members with keys in the second argument of the first
\* DrilldownMember, at the level of the first; none for a dimension without levels.
DrillMembers(s) ==
    LET calls == Calls(EveryExpr(s), {"DRILLDOWNMEMBER"})
        into == IF calls = <<>> \/ Len(calls[1].kids) < 2 THEN <<>>
                ELSE SelectSeq(Nodes(calls[1].kids[2], Everything), LAMBDA e : e.k = "member" /\ e.key # <<>>)
    IN IF into = <<>> THEN {}
       ELSE LET d == DimOf(into[1])
            IN IF d \notin Dimension \/ Depth[d] = 0 THEN {}
               ELSE {Kept(d, MemberLevel(d, LevelToken(into[1]), into[1].key), "members",
                          {into[i].key : i \in DOMAIN into})}

\* parse_drilldown_targets: the level a DrilldownLevel names or counts, below (All) the first.
Position(d, token) == {i \in 1..Depth[d] : LevelName[d][i] = token}
DrillTargets(s) ==
    LET calls == Calls(ExprsOf(InOrder(s)), {"DRILLDOWNLEVEL"})
        members(c) == SelectSeq(Nodes(c.kids[1], Everything), LAMBDA e : e.k = "member")
        from(c) == members(c)[1]
        named(c) == Len(c.kids) >= 2 /\ c.kids[2].k = "member"
        level(c) == IF named(c) THEN LevelToken(c.kids[2]) ELSE ""
        at(c) == IF named(c) THEN 3 ELSE 2
        counted(c) == IF at(c) \in DOMAIN c.kids /\ c.kids[at(c)].k = "number" THEN {c.kids[at(c)].name} ELSE {}
        told == SelectSeq(calls, LAMBDA c : /\ c.kids # <<>> /\ members(c) # <<>> /\ DimOf(from(c)) \in Dimension
                                            /\ IsAll(LevelToken(from(c))) \/ level(c) # "" \/ counted(c) # {})
        target(c) ==
            LET d == DimOf(from(c))
                own == Position(d, level(c))
                hierarchy == IF Len(from(c).parts) < 2 THEN {} ELSE Position(d, from(c).parts[2])
            IN [dim |-> d, flat |-> hierarchy # {},
                level |-> CASE own # {} -> Min(own)
                            [] own = {} /\ hierarchy # {} -> Min(hierarchy)
                            [] OTHER -> Min({Depth[d]} \union {n + 1 : n \in counted(c)}
                                              \union (IF counted(c) = {} THEN {1} ELSE {}))]
    IN [i \in DOMAIN told |-> target(told[i])]

\* The levels an axis sets out, the last counts: by .Members, by a range, by a time function.
LevelSets(s, d) ==
    LET members == NodesOf(ExprsOf(s.axes), Everything \ {"exclude", "binary"}, {"members"})
        ranges == Ranges(ExprsOf(s.axes))
        named == FlattenSeq([i \in DOMAIN members |-> SetToSeq(Root(members[i]))])
                   \o [i \in DOMAIN ranges |-> ranges[i][1]]
        ofDim == SelectSeq(named, LAMBDA m : DimOf(m) = d)
        windows == SelectSeq(DateWindows(s), LAMBDA w : w.dim = d)
    IN SelectSeq([i \in DOMAIN ofDim |-> LevelNamed(d, LevelToken(ofDim[i]))]
                   \o [i \in DOMAIN windows |-> windows[i].level], LAMBDA l : l > 0)

------------------------------------------------------------------------------
(* Set functions.                                                             *)

SetFunctions == {"TOPCOUNT", "BOTTOMCOUNT", "TOPPERCENT", "BOTTOMPERCENT", "ORDER", "FILTER"}
\* The outermost set functions of an expression.
SetCalls(e) ==
    IF e.k = "call" /\ e.name \in SetFunctions THEN <<e>>
    ELSE IF e.k \in Everything \ {"exclude", "binary"}
    THEN FlattenSeq([i \in DOMAIN e.kids |-> SetCalls(e.kids[i])]) ELSE <<>>
SetOpsOf(call) ==
    LET n == IF Len(call.kids) >= 2 /\ call.kids[2].k = "number" THEN {call.kids[2].name} ELSE {}
        descending == \E i \in DOMAIN call.kids : call.kids[i] = Text("DESC")
        op(name, m, desc) == [op |-> name, n |-> m, desc |-> desc]
    IN CASE call.name \in {"TOPCOUNT", "BOTTOMCOUNT"} -> {op("topcount", m, call.name = "TOPCOUNT") : m \in n}
         [] call.name \in {"TOPPERCENT", "BOTTOMPERCENT"} -> {op("toppercent", m, TRUE) : m \in n}
         [] call.name = "ORDER" -> {op("order", 0, descending)}
         [] call.name = "FILTER" ->
                {op(IF c.name = ">=" THEN "filter" ELSE c.name, c.kids[2].name, FALSE) :
                   c \in {x \in Condition(call) : x.kids[1].k = "measure" /\ x.kids[2].k = "number"}}
FirstSetOp(es) ==
    LET calls == FlattenSeq([i \in DOMAIN es |-> SetCalls(es[i])])
        told == {i \in DOMAIN calls : SetOpsOf(calls[i]) # {}}
    IN IF told = {} THEN NoSetOp ELSE CHOOSE o \in SetOpsOf(calls[Min(told)]) : TRUE
\* axis_set_op: the first of the axes; that of a subselect filters the axis.
AxisSetOp(s) ==
    LET own == FirstSetOp(ExprsOf(s.axes))
        sub == FirstSetOp(SubExprs(s))
    IN CASE own # NoSetOp -> own
         [] own = NoSetOp /\ sub.op = "topcount" -> [sub EXCEPT !.op = "topcountfilter"]
         [] OTHER -> sub

------------------------------------------------------------------------------
(* What is refused (unsupported_features).                                    *)

\* A filter that nothing lowers, in the axes, the slicer or a subselect of any depth.
RECURSIVE UnsupportedFilter(_)
Lowered(call) ==
    LET dated == {"DATEADD", "CDATE", "VBA_DATE"}
    IN \/ Calls(call.kids, {"ISEMPTY"}) # <<>>
       \/ \E c \in Condition(call) :
             \/ LabelTest(c) # {}
             \/ /\ Names(c.kids[1], MemberProperty)
                /\ c.kids[2].k \in {"number", "text"} \/ (c.kids[2].k = "call" /\ c.kids[2].name \in dated)
             \/ c.kids[1].k = "measure" /\ c.kids[2].k = "number"
UnsupportedFilter(s) ==
    \/ \E c \in ToSet(Calls(ExpandedAll(s, ExprsOf(s.axes) \o s.slicer), {"FILTER"})) : ~Lowered(c)
    \/ s.sub # <<>> /\ UnsupportedFilter(s.sub[1])
\* Filters over a member value that more are met of than are turned into dates.
UnloweredProperty(s) ==
    LET named == [i \in DOMAIN NamedSets(s) |-> NamedSets(s)[i].body]
        met == SelectSeq(Calls(ExpandedAll(s, ExprsOf(s.axes) \o s.slicer) \o named, {"FILTER"}),
                         LAMBDA c : /\ Len(c.kids) >= 2 /\ c.kids[2].k = "binary"
                                    /\ Names(c.kids[2].kids[1], MemberValue))
        lowered == SelectSeq(Calls(ExpandedAll(s, ExprsOf(s.axes) \o SubExprs(s)), {"FILTER"}),
                             LAMBDA c : DateTests(c) # {})
    IN Len(met) > Len(lowered)
RefusedStatement(s) ==
    \/ Len(NamedSets(s)) < Len(Bodies(s, TRUE))
    \/ MeasuresIn(WhereMembers(s)) # <<>> /\ \E i \in DOMAIN AxisSpecs(s) : AxisSpecs(s)[i].measures # <<>>
    \/ Calls(ExprsOf(s.axes) \o s.slicer \o SubExprs(s), {"CLOSINGPERIOD", "OPENINGPERIOD"}) # <<>>
    \/ UnloweredProperty(s)
    \/ UnsupportedFilter(s)
    \/ \E c \in ToSet(Calls(s.slicer, {"FILTER"})) : NodesOf(c.kids, Everything, {"measure"}) # <<>>
    \/ \E w \in ToSet(DateWindows(s)) :
          Cardinality({i \in DOMAIN AxisSpecs(s) : w.dim \in ToSet(AxisSpecs(s)[i].dims)}) > 1

------------------------------------------------------------------------------
(* The semantic query.                                                        *)

\* A set alone on an axis without measures is a probe (set_probe_expr, set_expr_from_ast).
RECURSIVE SetExpr(_)
SetExpr(e) ==
    LET anchor == "PERIODSTODATE" :> 2 @@ "LASTPERIODS" :> 2 @@ "PARALLELPERIOD" :> 3
                    @@ "YTD" :> 1 @@ "QTD" :> 1 @@ "MTD" :> 1
    IN CASE e.k = "members" -> Root(e) # {}
         [] e.k = "children" -> \E m \in Root(e) : IsAll(LevelToken(m))
         [] e.k = "range" -> Root(e.kids[1]) # {} /\ Root(e.kids[2]) # {}
         [] e.k = "set" -> \/ Len(e.kids) = 1 /\ SetExpr(e.kids[1])
                           \/ \A i \in DOMAIN e.kids : e.kids[i].k \in {"member", "measure"}
         [] e.k = "call" /\ e.name \in {"HEAD", "TAIL"} ->
                Len(e.kids) >= 2 /\ SetExpr(e.kids[1]) /\ e.kids[2].k = "number"
         [] e.k = "call" /\ e.name = "FILTER" -> e.kids # <<>> /\ SetExpr(e.kids[1])
         [] e.k = "call" /\ e.name \in DOMAIN anchor ->
                anchor[e.name] \in DOMAIN e.kids /\ Root(e.kids[anchor[e.name]]) # {}
         [] OTHER -> FALSE
SetProbe(s) ==
    /\ Len(s.axes) = 1 /\ s.axes[1].exprs # <<>> /\ SetExpr(Expanded(s.axes[1].exprs[1], NamedSets(s)))
    /\ NodesOf(s.axes[1].exprs, Everything \ {"exclude", "binary"}, {"measure"}) = <<>>
    /\ ~\E f \in {"DRILLDOWNLEVEL", "DRILLDOWNMEMBER", "CROSSJOIN"} : MentionsCall(s, f)
    /\ AxisSetOp(s) = NoSetOp /\ SelectTuples(s) = <<>>

Classified(s) ==
    LET drilled == MentionsCall(s, "DRILLDOWNMEMBER")
        rows == HasAxis(s, 1)
        cols == HasAxis(s, 0)
    IN CASE drilled -> IF DrillMembers(s) = {} THEN "DrilldownMemberProbe" ELSE "DrilldownCategories"
         [] ~drilled /\ SetProbe(s) -> "SetProbe"
         [] ~drilled /\ ~SetProbe(s) ->
              CASE MentionsCall(s, "DRILLDOWNLEVEL") \/ MentionsMembers(s) -> "DrilldownCategories"
                [] ~MentionsCall(s, "DRILLDOWNLEVEL") /\ ~MentionsMembers(s) ->
                     IF rows /\ cols /\ ShapeDims(s) # <<>> /\ MentionsMeasure(s) THEN "MeasureByCategory"
                     ELSE IF cols /\ ~rows /\ ~MentionsMeasure(s) THEN "MemberOnlyProbe" ELSE "SlicerOnly"
\* The filters without the drill's own.
FiltersRead(s) ==
    MembersFilters(WhereMembers(s) \o SubMembers(s) \o FlattenSeq(SelectTuples(s)))
      \union LabelFilters(s) \union DateFilters(s)
      \union RangeFilters(ExprsOf(s.axes)) \union RangeFilters(s.slicer) \union ToSet(DateWindows(s))
LevelRead(s, d, filters, into) ==
    LET targets == SelectSeq(DrillTargets(s), LAMBDA t : t.dim = d /\ Depth[d] > 0)
        listed(levels) == levels[Len(levels)]
        keys == UNION {f.what : f \in {g \in into : g.dim = d}}
        below(level) == IF keys = {} THEN level ELSE Min({Depth[d], Max({Len(key) : key \in keys}) + 1})
        single == {f \in filters \union into :
                     f.dim = d /\ f.form = "members" /\ f.level > 0 /\ Cardinality(f.what) = 1}
        drills == MentionsCall(s, "DRILLDOWNLEVEL") \/ MentionsCall(s, "DRILLDOWNMEMBER")
        reached(level) == {f.level + 1 : f \in IF drills THEN single ELSE {}} \union {level}
        first == <<0>> \o (IF targets = <<>> THEN <<>> ELSE <<targets[1].level>>) \o LevelSets(s, d)
    IN Once(LAMBDA levels : Max(levels), Once(LAMBDA level : reached(below(level)), Once(listed, first)))
LevelDrag(s) ==
    \E d \in ToSet(ShapeDims(s)) :
       \/ LevelSets(s, d) # <<>>
       \/ \E t \in ToSet(DrillTargets(s)) : t.dim = d /\ Depth[d] > 0 /\ t.flat

\* A filter as the planner takes it: the labels its level has of what it keeps.
Planned(f) ==
    LET labels == {LabelAt(f.dim, leaf, f.level) : leaf \in {x \in Leaves(f.dim) : Keeps(f, x)}}
    IN IF f.form = "range" THEN RangeFilter(f.dim, f.level, Min(labels), Max(labels))
       ELSE MemberFilter(f.dim, f.level, labels)
\* semantic_query_from_mdx, as Planner's statements have it.
Understanding(s, filters, into) ==
    LET tuples == SelectTuples(s)
        wheres == MeasuresIn(WhereMembers(s))
        kind == Classified(s)
        dims == IF kind = "SlicerOnly" THEN <<>> ELSE ShapeDims(s)
        tupleOf(ms) == [measure |-> MeasuresIn(ms)[1].key[1], filters |-> {Planned(f) : f \in MembersFilters(ms)}]
        kept == filters \ (IF tuples = <<>> THEN {} ELSE MembersFilters(FlattenSeq(tuples)))
    IN [kind |-> kind, edges |-> IF tuples = <<>> THEN AxisSpecs(s) ELSE <<>>,
        slicer |-> IF wheres = <<>> THEN {} ELSE {wheres[1].key[1]},
        filters |-> {Planned(f) : f \in kept}, drilled |-> {Planned(f) : f \in into},
        levels |-> Once(LAMBDA ds : [i \in DOMAIN ds |-> LevelRead(s, ds[i], filters, into)], dims), drag |-> LevelDrag(s),
        setOp |-> AxisSetOp(s), tuples |-> [i \in DOMAIN tuples |-> tupleOf(tuples[i])],
        excluded |-> ExcludedMembers(s)]
Understood(s) ==
    Once(LAMBDA filters : Once(LAMBDA into : Understanding(s, filters, into), DrillMembers(s)), FiltersRead(s))
=============================================================================
