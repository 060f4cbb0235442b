------------------------------ MODULE AnswerProofs ------------------------------
(* Rows taken from the result cache are the question's own, however many      *)
(* statements, readers, dimensions, measures and levels there are: the key of *)
(* a plan says all that its execution reads.                                  *)
(*                                                                            *)
(* A key names the shape of its plan, and with it the measures, dimensions,   *)
(* levels and set function. Of the filters it has a text: the members joined  *)
(* with commas. A filter whose members have no comma shares its text with no  *)
(* other one, so plans of one key are equal; tuple sets are equal cell by     *)
(* cell. The flag a time measure brings is not in the key, and need not be:   *)
(* the measure is.                                                            *)
EXTENDS AnswerProperties, TLAPS

\* The text of a filter whose members have no comma is that of no other filter.
NoCommas(filters) == \A f \in filters : f.members \intersect CommaNames = {}

LEMMA TextOfMembers ==
  ASSUME NEW f, NEW g, f.members \intersect CommaNames = {}, MemberText(f) = MemberText(g)
  PROVE  f.members = g.members
<1> DEFINE text(x) == IF x \in DOMAIN Lists THEN Lists[x] ELSE {x}
<1>1. \A x \in DOMAIN Lists : x \in CommaNames /\ Lists[x] \subseteq CommaNames /\ Lists[x] # {}
  BY ListsAssumption DEF CommaNames
<1>2. MemberText(f) = UNION {text(x) : x \in f.members} /\ MemberText(g) = UNION {text(x) : x \in g.members}
  BY DEF MemberText
<1>3. ASSUME NEW h, \A x \in h.members : x \notin DOMAIN Lists
      PROVE  UNION {text(x) : x \in h.members} = h.members
  <2>1. \A x \in h.members : text(x) = {x}
    BY <1>3
  <2> HIDE DEF text
  <2> QED
    BY <2>1
<1>4. MemberText(f) = f.members
  BY <1>1, <1>2, <1>3
<1>5. \A x \in g.members : x \notin DOMAIN Lists
  <2> SUFFICES ASSUME NEW x \in g.members, x \in DOMAIN Lists PROVE FALSE
    OBVIOUS
  <2>1. text(x) \subseteq MemberText(g)
    <3> HIDE DEF text
    <3> QED
      BY <1>2
  <2>2. Lists[x] \subseteq f.members
    BY <1>4, <2>1
  <2> QED
    BY <1>1, <2>2
<1>6. MemberText(g) = g.members
  BY <1>2, <1>3, <1>5
<1> QED
  BY <1>4, <1>6

LEMMA SuffixTellsFilters ==
  ASSUME NEW F, NEW G, \A f \in F \union G : IsCondition(f),
         NoCommas(F), FilterSuffix(F) = FilterSuffix(G)
  PROVE  F = G
<1>1. \A H : FilterSuffix(H) = {<<h.dim, h.form, MemberText(h), h.level>> : h \in {g \in H : g.members # {}}}
  BY DEF FilterSuffix
<1>2. ASSUME NEW f \in F, NEW g \in G, <<f.dim, f.form, MemberText(f), f.level>> = <<g.dim, g.form, MemberText(g), g.level>>
      PROVE  f = g
  <2>1. f.members = g.members
    BY <1>2, TextOfMembers DEF NoCommas
  <2>2. f.dim = g.dim /\ f.form = g.form /\ f.level = g.level
    BY <1>2
  <2> QED
    BY <2>1, <2>2 DEF IsCondition
<1>3. ASSUME NEW f \in F PROVE f \in G
  <2>1. <<f.dim, f.form, MemberText(f), f.level>> \in FilterSuffix(G)
    BY <1>1 DEF IsCondition
  <2>2. PICK g \in G : <<f.dim, f.form, MemberText(f), f.level>> = <<g.dim, g.form, MemberText(g), g.level>>
    BY <1>1, <2>1
  <2> QED
    BY <1>2, <2>2
<1>4. ASSUME NEW g \in G PROVE g \in F
  <2>1. <<g.dim, g.form, MemberText(g), g.level>> \in FilterSuffix(F)
    BY <1>1 DEF IsCondition
  <2>2. PICK f \in F : <<g.dim, g.form, MemberText(g), g.level>> = <<f.dim, f.form, MemberText(f), f.level>>
    BY <1>1, <2>1
  <2> QED
    BY <1>2, <2>2
<1> QED
  BY <1>3, <1>4

LEMMA SuffixTellsFlagged ==
  ASSUME NEW m, NEW F, NEW G, \A f \in F \union G : IsCondition(f),
         NoCommas(FiltersWithTimeFlag(m, F)),
         FilterSuffix(FiltersWithTimeFlag(m, F)) = FilterSuffix(FiltersWithTimeFlag(m, G))
  PROVE  FiltersWithTimeFlag(m, F) = FiltersWithTimeFlag(m, G)
<1> DEFINE flag == IF m \in TimeFlagged THEN {FlagFilter} ELSE {}
<1>1. \A H : FiltersWithTimeFlag(m, H) = CompatibleFilters(m, H) \union flag
  BY DEF FiltersWithTimeFlag
<1>2. \A f \in flag : f.members = {}
  BY DEF FlagFilter
<1> HIDE DEF flag
<1>3. \A H : FilterSuffix(CompatibleFilters(m, H) \union flag) = FilterSuffix(CompatibleFilters(m, H))
  <2> TAKE H
  <2>1. {g \in CompatibleFilters(m, H) \union flag : g.members # {}}
          = {g \in CompatibleFilters(m, H) : g.members # {}}
    BY <1>2
  <2> QED
    BY <2>1 DEF FilterSuffix
<1>4. /\ \A f \in CompatibleFilters(m, F) \union CompatibleFilters(m, G) : IsCondition(f)
      /\ NoCommas(CompatibleFilters(m, F))
  BY <1>1 DEF CompatibleFilters, NoCommas
<1>5. FilterSuffix(CompatibleFilters(m, F)) = FilterSuffix(CompatibleFilters(m, G))
  BY <1>1, <1>3
<1>6. CompatibleFilters(m, F) = CompatibleFilters(m, G)
  BY <1>4, <1>5, SuffixTellsFilters
<1> QED
  BY <1>1, <1>6

\* The shapes of a plan; the key says which it is.
Tuples(cells) == [op |-> "tuples", measures |-> <<>>, cells |-> cells]
Multi(ms, filters) == [op |-> "multi", measures |-> ms, filters |-> filters]
MultiGroup(ms, dims, levels, filters) ==
    [op |-> "multigroup", measures |-> ms, dims |-> dims, levels |-> levels, filters |-> filters]
\* The keys of the plans of each shape.
LEMMA KeyOfTuples ==
  ASSUME NEW cells
  PROVE  /\ PlanKey(Tuples(cells))
              = <<"tupleset", [i \in DOMAIN cells |-> <<cells[i].measure, FilterSuffix(cells[i].filters)>>]>>
         /\ Tuples(cells).op = "tuples"
BY DEF PlanKey, Tuples
LEMMA KeyOfMulti ==
  ASSUME NEW ms, NEW filters
  PROVE  PlanKey(Multi(ms, filters)) = <<"multi", ms, FilterSuffix(filters)>> /\ Multi(ms, filters).op = "multi"
BY DEF PlanKey, Multi
LEMMA KeyOfTotal ==
  ASSUME NEW m, NEW filters
  PROVE  PlanKey(Total(m, filters)) = <<"total", <<m>>, FilterSuffix(filters)>> /\ Total(m, filters).op = "total"
BY DEF PlanKey, Total
LEMMA KeyOfMultiGroup ==
  ASSUME NEW ms, NEW dims, NEW levels, NEW filters
  PROVE  /\ PlanKey(MultiGroup(ms, dims, levels, filters)) = <<"multigroup", ms, dims, levels, FilterSuffix(filters)>>
         /\ MultiGroup(ms, dims, levels, filters).op = "multigroup"
BY DEF PlanKey, MultiGroup
LEMMA KeyOfGroupBy ==
  ASSUME NEW m, NEW dims, NEW levels, NEW filters, NEW setOp
  PROVE  /\ PlanKey(GroupBy(m, dims, levels, filters, setOp))
              = <<"group", <<m>>, dims, levels, FilterSuffix(filters), setOp>>
         /\ GroupBy(m, dims, levels, filters, setOp).op = "group"
BY DEF PlanKey, GroupBy
LEMMA KeyOfEmpty == PlanKey(Empty) = <<"empty">> /\ Empty.op = "empty"
BY DEF PlanKey, Empty

\* Two tuple sets of one key have the same measures, and the same filters.
LEMMA TuplesAlike ==
  ASSUME NEW c, NEW d, NEW u,
         \A i \in DOMAIN c : \A f \in c[i].filters : IsCondition(f) /\ f.members \intersect CommaNames = {},
         \A i \in DOMAIN d : \A f \in d[i].filters : IsCondition(f),
         [i \in DOMAIN c |-> <<c[i].measure, FilterSuffix(c[i].filters)>>]
           = [i \in DOMAIN d |-> <<d[i].measure, FilterSuffix(d[i].filters)>>]
  PROVE  Execute([op |-> "tuples", measures |-> <<>>, cells |-> c], u)
           = Execute([op |-> "tuples", measures |-> <<>>, cells |-> d], u)
<1>1. DOMAIN c = DOMAIN d
  OBVIOUS
<1>2. ASSUME NEW i \in DOMAIN c PROVE c[i].measure = d[i].measure /\ c[i].filters = d[i].filters
  <2>1. <<c[i].measure, FilterSuffix(c[i].filters)>> = <<d[i].measure, FilterSuffix(d[i].filters)>>
    BY <1>1
  <2>2. c[i].measure = d[i].measure /\ FilterSuffix(c[i].filters) = FilterSuffix(d[i].filters)
    BY <2>1
  <2>3. NoCommas(c[i].filters) /\ \A f \in c[i].filters \union d[i].filters : IsCondition(f)
    BY <1>1 DEF NoCommas
  <2> QED
    BY <2>2, <2>3, SuffixTellsFilters
<1> DEFINE values(x) == [i \in DOMAIN x |-> ScalarOf(x[i].measure, FiltersWithTimeFlag(x[i].measure, x[i].filters), u)]
<1>3. values(c) = values(d)
  BY <1>1, <1>2
<1>4. ASSUME NEW x
      PROVE  Execute([op |-> "tuples", measures |-> <<>>, cells |-> x], u) = [form |-> "multi", values |-> values(x)]
  BY DEF Execute, Fails
<1> HIDE DEF values
<1> QED
  BY <1>3, <1>4

HasShape(p, q) ==
    LET m == PlanMeasure(q) IN
    \/ p = Empty
    \/ p = Tuples(KnownCells(q))
    \/ p = Multi(KnownMeasures(q), AllFilters(q))
    \/ p = Total(m, FiltersWithTimeFlag(m, AllFilters(q)))
    \/ p = MultiGroup(KnownMeasures(q), AxisDims(q), DrilldownLevels(q), AllFilters(q))
    \/ p = GroupBy(m, AxisDims(q), DrilldownLevels(q), FiltersWithTimeFlag(m, AllFilters(q)), q.setOp)

LEMMA PlanHasShape == ASSUME NEW q, NEW u PROVE HasShape(BuildPlan(q), q) /\ HasShape(PlanFor(q, u), q)
<1>1. HasShape(BuildPlan(q), q)
  BY DEF BuildPlan, PlanSlicer, PlanGroups, HasShape, Tuples, Multi, MultiGroup
<1>2. PlanFor(q, u) \in {Empty, BuildPlan(q)}
  BY DEF PlanFor
<1> QED
  BY <1>1, <1>2 DEF HasShape

KeyName(p) == IF p.op = "tuples" THEN "tupleset" ELSE p.op

LEMMA KeyTellsShape ==
  ASSUME NEW p, NEW q, HasShape(p, q)
  PROVE  PlanKey(p)[1] = KeyName(p) /\ p.op \in {"empty", "tuples", "multi", "total", "multigroup", "group"}
<1> DEFINE m == PlanMeasure(q)
           flagged == FiltersWithTimeFlag(m, AllFilters(q))
<1>1. CASE p = Empty
  BY <1>1, KeyOfEmpty DEF KeyName
<1>2. CASE p = Tuples(KnownCells(q))
  BY <1>2, KeyOfTuples DEF KeyName
<1>3. CASE p = Multi(KnownMeasures(q), AllFilters(q))
  BY <1>3, KeyOfMulti DEF KeyName
<1>4. CASE p = Total(m, flagged)
  BY <1>4, KeyOfTotal DEF KeyName
<1>5. CASE p = MultiGroup(KnownMeasures(q), AxisDims(q), DrilldownLevels(q), AllFilters(q))
  BY <1>5, KeyOfMultiGroup DEF KeyName
<1>6. CASE p = GroupBy(m, AxisDims(q), DrilldownLevels(q), flagged, q.setOp)
  BY <1>6, KeyOfGroupBy DEF KeyName
<1> QED
  BY <1>1, <1>2, <1>3, <1>4, <1>5, <1>6 DEF HasShape

\* The shape a plan has is that of its operation.
LEMMA ShapeByOp ==
  ASSUME NEW p, NEW q, HasShape(p, q)
  PROVE  LET m == PlanMeasure(q) IN
         /\ p.op = "empty" => p = Empty
         /\ p.op = "tuples" => p = Tuples(KnownCells(q))
         /\ p.op = "multi" => p = Multi(KnownMeasures(q), AllFilters(q))
         /\ p.op = "total" => p = Total(m, FiltersWithTimeFlag(m, AllFilters(q)))
         /\ p.op = "multigroup" => p = MultiGroup(KnownMeasures(q), AxisDims(q), DrilldownLevels(q), AllFilters(q))
         /\ p.op = "group" => p = GroupBy(m, AxisDims(q), DrilldownLevels(q), FiltersWithTimeFlag(m, AllFilters(q)), q.setOp)
BY KeyOfEmpty, KeyOfTuples, KeyOfMulti, KeyOfTotal, KeyOfMultiGroup, KeyOfGroupBy DEF HasShape

\* Two plans of one key read the same rows, unless a label with a comma is in one of them.
LEMMA KeyTellsRows ==
  ASSUME NEW q, NEW r, NEW u, \A f \in ConditionsOf(q) \union ConditionsOf(r) : IsCondition(f),
         NoCommas(PlannedFilters(BuildPlan(q))),
         PlanKey(PlanFor(q, u)) = PlanKey(PlanFor(r, u))
  PROVE  Execute(PlanFor(q, u), u) = Execute(PlanFor(r, u), u)
<1>1. PICK p, o : p = PlanFor(q, u) /\ o = PlanFor(r, u)
  OBVIOUS
<1>2. HasShape(p, q) /\ HasShape(o, r) /\ PlanKey(p) = PlanKey(o)
  BY <1>1, PlanHasShape
<1>3. /\ \A f \in AllFilters(q) \union AllFilters(r) : IsCondition(f)
      /\ \A i \in DOMAIN KnownCells(q) : \A f \in KnownCells(q)[i].filters : IsCondition(f)
      /\ \A i \in DOMAIN KnownCells(r) : \A f \in KnownCells(r)[i].filters : IsCondition(f)
  BY DEF ConditionsOf
<1>4. p.op # "empty" => NoCommas(PlannedFilters(p))
  BY <1>1 DEF PlanFor, Empty
<1>5. o.op = p.op
  <2>1. /\ p.op \in {"empty", "tuples", "multi", "total", "multigroup", "group"}
        /\ o.op \in {"empty", "tuples", "multi", "total", "multigroup", "group"}
        /\ KeyName(p) = KeyName(o)
    BY <1>2, KeyTellsShape
  <2> QED
    BY <2>1 DEF KeyName
<1>6. CASE p.op = "empty"
  <2>1. p = Empty /\ o = Empty
    BY <1>2, ShapeByOp, <1>5, <1>6
  <2> QED
    BY <1>1, <2>1
<1>7. CASE p.op = "tuples"
  <2>1. p = Tuples(KnownCells(q)) /\ o = Tuples(KnownCells(r))
    BY <1>2, ShapeByOp, <1>5, <1>7
  <2>2. [i \in DOMAIN KnownCells(q) |-> <<KnownCells(q)[i].measure, FilterSuffix(KnownCells(q)[i].filters)>>]
          = [i \in DOMAIN KnownCells(r) |-> <<KnownCells(r)[i].measure, FilterSuffix(KnownCells(r)[i].filters)>>]
    BY <1>2, <2>1, KeyOfTuples
  <2>3. \A i \in DOMAIN KnownCells(q) : \A f \in KnownCells(q)[i].filters : f.members \intersect CommaNames = {}
    BY <1>4, <1>7, <2>1 DEF Tuples, PlannedFilters, NoCommas
  <2> QED
    BY <1>1, <1>3, <2>1, <2>2, <2>3, TuplesAlike DEF Tuples
<1>8. CASE p.op = "multi"
  <2>1. p = Multi(KnownMeasures(q), AllFilters(q)) /\ o = Multi(KnownMeasures(r), AllFilters(r))
    BY <1>2, ShapeByOp, <1>5, <1>8
  <2>2. KnownMeasures(q) = KnownMeasures(r) /\ FilterSuffix(AllFilters(q)) = FilterSuffix(AllFilters(r))
    BY <1>2, <2>1, KeyOfMulti
  <2>3. NoCommas(AllFilters(q))
    BY <1>4, <1>8, <2>1 DEF PlannedFilters, Multi
  <2>4. AllFilters(q) = AllFilters(r)
    BY <1>3, <2>2, <2>3, SuffixTellsFilters
  <2> QED
    BY <1>1, <2>1, <2>2, <2>4
<1>9. CASE p.op = "total"
  <2>1. PICK m, n : /\ p = Total(m, FiltersWithTimeFlag(m, AllFilters(q)))
                    /\ o = Total(n, FiltersWithTimeFlag(n, AllFilters(r)))
    BY <1>2, ShapeByOp, <1>5, <1>9
  <2>2. /\ m = n
        /\ FilterSuffix(FiltersWithTimeFlag(m, AllFilters(q))) = FilterSuffix(FiltersWithTimeFlag(n, AllFilters(r)))
    BY <1>2, <2>1, KeyOfTotal
  <2>3. NoCommas(FiltersWithTimeFlag(m, AllFilters(q)))
    BY <1>4, <1>9, <2>1 DEF PlannedFilters, Total
  <2>4. FiltersWithTimeFlag(m, AllFilters(q)) = FiltersWithTimeFlag(m, AllFilters(r))
    BY <1>3, <2>2, <2>3, SuffixTellsFlagged
  <2> QED
    BY <1>1, <2>1, <2>2, <2>4
<1>10. CASE p.op = "multigroup"
  <2>1. /\ p = MultiGroup(KnownMeasures(q), AxisDims(q), DrilldownLevels(q), AllFilters(q))
        /\ o = MultiGroup(KnownMeasures(r), AxisDims(r), DrilldownLevels(r), AllFilters(r))
    BY <1>2, ShapeByOp, <1>5, <1>10
  <2>2. /\ KnownMeasures(q) = KnownMeasures(r) /\ AxisDims(q) = AxisDims(r) /\ DrilldownLevels(q) = DrilldownLevels(r)
        /\ FilterSuffix(AllFilters(q)) = FilterSuffix(AllFilters(r))
    BY <1>2, <2>1, KeyOfMultiGroup
  <2>3. NoCommas(AllFilters(q))
    BY <1>4, <1>10, <2>1 DEF PlannedFilters, MultiGroup
  <2>4. AllFilters(q) = AllFilters(r)
    BY <1>3, <2>2, <2>3, SuffixTellsFilters
  <2> QED
    BY <1>1, <2>1, <2>2, <2>4
<1>11. CASE p.op = "group"
  <2>1. PICK m, n : /\ p = GroupBy(m, AxisDims(q), DrilldownLevels(q), FiltersWithTimeFlag(m, AllFilters(q)), q.setOp)
                    /\ o = GroupBy(n, AxisDims(r), DrilldownLevels(r), FiltersWithTimeFlag(n, AllFilters(r)), r.setOp)
    BY <1>2, ShapeByOp, <1>5, <1>11
  <2>2. /\ m = n /\ AxisDims(q) = AxisDims(r) /\ DrilldownLevels(q) = DrilldownLevels(r) /\ q.setOp = r.setOp
        /\ FilterSuffix(FiltersWithTimeFlag(m, AllFilters(q))) = FilterSuffix(FiltersWithTimeFlag(n, AllFilters(r)))
    BY <1>2, <2>1, KeyOfGroupBy
  <2>3. NoCommas(FiltersWithTimeFlag(m, AllFilters(q)))
    BY <1>4, <1>11, <2>1 DEF PlannedFilters, GroupBy
  <2>4. FiltersWithTimeFlag(m, AllFilters(q)) = FiltersWithTimeFlag(m, AllFilters(r))
    BY <1>3, <2>2, <2>3, SuffixTellsFlagged
  <2> QED
    BY <1>1, <2>1, <2>2, <2>4
<1>12. p.op \in {"empty", "tuples", "multi", "total", "multigroup", "group"}
  BY <1>2, KeyTellsShape
<1> QED
  BY <1>6, <1>7, <1>8, <1>9, <1>10, <1>11, <1>12

------------------------------------------------------------------------------
(* Rows are kept under the key of a plan and its reader, and are those of some *)
(* statement of that key for that reader; nothing is kept before the first.    *)
KeptFor(key, rows) ==
    \E q \in Question, u \in Reader :
       key = CacheKey(SemanticQuery(q), u) /\ rows = Execute(PlanFor(SemanticQuery(q), u), u)
KeptWithKey ==
    /\ asked \in Nat
    /\ stage # "idle" => asker \in Reader /\ \E q \in Question : question = SemanticQuery(q)
    /\ \A key \in DOMAIN kept : KeptFor(key, kept[key])
    /\ asked = 0 => stage = "idle"
    /\ asked = 0 \/ (asked = 1 /\ stage = "planned") => DOMAIN kept = {}
    /\ KeptRowsAreTheQuestions

LEMMA InitKept == AnswersInit => KeptWithKey
BY DEF AnswersInit, KeptWithKey, KeptRowsAreTheQuestions

LEMMA AskKept == ASSUME KeptWithKey, NEW u \in Reader, NEW q \in Question, Ask(u, q) PROVE KeptWithKey'
<1>1. /\ asked' = asked + 1 /\ asker' = u /\ question' = SemanticQuery(q) /\ kept' = kept
      /\ stage' \in {"refused", "planned"}
  BY DEF Ask
<1> QED
  BY <1>1 DEF KeptWithKey, KeptRowsAreTheQuestions

\* What is kept under the key of a statement are its rows.
LEMMA FoundRows ==
  ASSUME KeptWithKey, stage = "planned", ~MistakenRows(question), CacheKey(question, asker) \in DOMAIN kept
  PROVE  kept[CacheKey(question, asker)] = Execute(PlanFor(question, asker), asker)
<1>1. PICK q \in Question, u \in Reader :
        /\ CacheKey(question, asker) = CacheKey(SemanticQuery(q), u)
        /\ kept[CacheKey(question, asker)] = Execute(PlanFor(SemanticQuery(q), u), u)
  BY DEF KeptWithKey, KeptFor
<1>2. asker = u /\ PlanKey(PlanFor(question, u)) = PlanKey(PlanFor(SemanticQuery(q), u))
  BY <1>1 DEF CacheKey
<1>3. PICK r \in Question : question = SemanticQuery(r)
  BY DEF KeptWithKey
<1>4. \A f \in ConditionsOf(question) \union ConditionsOf(SemanticQuery(q)) : IsCondition(f)
  BY <1>3, QuestionAssumption
<1>5. NoCommas(PlannedFilters(BuildPlan(question)))
  <2>1. asked \in Nat /\ asked # 0 /\ asked # 1
    BY DEF KeptWithKey
  <2> QED
    BY <2>1 DEF MistakenRows, NoCommas
<1>6. Execute(PlanFor(question, u), u) = Execute(PlanFor(SemanticQuery(q), u), u)
  BY <1>2, <1>4, <1>5, KeyTellsRows
<1> QED
  BY <1>1, <1>2, <1>6

LEMMA FetchKept == ASSUME KeptWithKey, Fetch PROVE KeptWithKey'
<1> DEFINE key == CacheKey(question, asker)
           rows == Execute(PlanFor(question, asker), asker)
<1>1. stage = "planned" /\ asker' = asker /\ question' = question /\ asked' = asked /\ Take(key, rows)
  BY DEF Fetch
<1>2. KeptFor(key, rows)
  BY <1>1 DEF KeptWithKey, KeptFor
<1>3. asker' \in Reader /\ \E q \in Question : question' = SemanticQuery(q)
  BY <1>1 DEF KeptWithKey
<1>4. asked' \in Nat /\ asked' # 0 /\ stage' \in {"fetched", "fault"}
  <2>1. stage' \in {"fetched", "fault"}
    BY <1>1 DEF Take
  <2>2. asked # 0
    BY <1>1 DEF KeptWithKey
  <2> QED
    BY <1>1, <2>1, <2>2 DEF KeptWithKey
<1>5. \A k \in DOMAIN kept' : KeptFor(k, kept'[k])
  <2>1. CASE kept' = kept
    BY <2>1 DEF KeptWithKey
  <2>2. CASE kept' = [k \in DOMAIN kept \union {key} |-> IF k = key THEN rows ELSE kept[k]]
    BY <1>2, <2>2 DEF KeptWithKey
  <2> QED
    BY <1>1, <2>1, <2>2 DEF Take
<1>6. stage' = "fetched" /\ ~MistakenRows(question) => result' = rows
  BY <1>1, FoundRows DEF Take
<1>7. KeptRowsAreTheQuestions'
  BY <1>1, <1>4, <1>6 DEF KeptRowsAreTheQuestions, MistakenRows
<1> QED
  BY <1>3, <1>4, <1>5, <1>7 DEF KeptWithKey

LEMMA RestKept == ASSUME KeptWithKey, Inject \/ Render \/ UNCHANGED answerVars PROVE KeptWithKey'
<1>1. /\ asker' = asker /\ question' = question /\ asked' = asked /\ kept' = kept /\ result' = result
      /\ \/ stage' = stage
         \/ stage = "fetched" /\ stage' = "evaluated"
         \/ stage = "evaluated" /\ stage' = "answered"
  BY DEF Inject, Render, answerVars
<1> QED
  BY <1>1 DEF KeptWithKey, KeptRowsAreTheQuestions, MistakenRows

LEMMA NextKept == KeptWithKey /\ [AnswersNext]_answerVars => KeptWithKey'
BY AskKept, FetchKept, RestKept DEF AnswersNext

\* Rows taken from the result cache are those the question itself would have fetched, for the
\* user who asks it.
THEOREM KeptRowsServeTheQuestion == AnswersSpec => []KeptRowsAreTheQuestions
<1>1. KeptWithKey => KeptRowsAreTheQuestions
  BY DEF KeptWithKey
<1> QED
  BY <1>1, InitKept, NextKept, PTL DEF AnswersSpec

------------------------------------------------------------------------------
(* A reader whom no role lets read, or whom the plan asks for a denied table,  *)
(* gets no value: not even one kept for another reader or another statement.  *)
Denied == PlanFor(question, asker) = Empty
DeniedGetNoValue == stage = "answered" /\ Denied => cellset.cells = {}
DeniedInv ==
    /\ KeptWithKey
    /\ stage \in {"fetched", "evaluated"} /\ Denied => result = [form |-> "empty"]
    /\ DeniedGetNoValue

LEMMA NoRowsOfEmpty == ASSUME NEW u PROVE Execute(Empty, u) = [form |-> "empty"]
BY DEF Execute, Fails, Empty

\* Only the empty plan has its key.
LEMMA KeptOfEmpty ==
  ASSUME KeptWithKey, Denied, CacheKey(question, asker) \in DOMAIN kept
  PROVE  kept[CacheKey(question, asker)] = [form |-> "empty"]
<1>1. PICK q \in Question, u \in Reader :
        /\ CacheKey(question, asker) = CacheKey(SemanticQuery(q), u)
        /\ kept[CacheKey(question, asker)] = Execute(PlanFor(SemanticQuery(q), u), u)
  BY DEF KeptWithKey, KeptFor
<1> DEFINE o == PlanFor(SemanticQuery(q), u)
<1>2. PlanKey(o) = <<"empty">>
  BY <1>1, KeyOfEmpty DEF CacheKey, Denied
<1>3. HasShape(o, SemanticQuery(q))
  BY PlanHasShape
<1> HIDE DEF o
<1>4. o.op = "empty"
  BY <1>2, <1>3, KeyTellsShape DEF KeyName
<1>5. o = Empty
  BY <1>3, <1>4, ShapeByOp
<1> QED
  BY <1>1, <1>5, NoRowsOfEmpty DEF o

LEMMA NextDenied == DeniedInv /\ [AnswersNext]_answerVars => DeniedInv'
<1> SUFFICES ASSUME DeniedInv, [AnswersNext]_answerVars PROVE DeniedInv'
  OBVIOUS
<1>1. KeptWithKey'
  BY NextKept DEF DeniedInv
<1>2. ASSUME NEW u \in Reader, NEW q \in Question, Ask(u, q) PROVE DeniedInv'
  BY <1>1, <1>2 DEF Ask, DeniedInv, DeniedGetNoValue
<1>3. CASE Fetch
  <2> DEFINE key == CacheKey(question, asker)
  <2>1. /\ stage = "planned" /\ asker' = asker /\ question' = question
        /\ Take(key, Execute(PlanFor(question, asker), asker))
    BY <1>3 DEF Fetch
  <2>2. Denied => Execute(PlanFor(question, asker), asker) = [form |-> "empty"]
    BY NoRowsOfEmpty DEF Denied
  <2>3. Denied /\ key \in DOMAIN kept => kept[key] = [form |-> "empty"]
    BY KeptOfEmpty DEF DeniedInv
  <2>4. Denied' => Denied
    BY <2>1 DEF Denied
  <2> HIDE DEF key
  <2>5. stage' \in {"fetched", "fault"} /\ (stage' = "fetched" /\ Denied => result' = [form |-> "empty"])
    BY <2>1, <2>2, <2>3 DEF Take
  <2> QED
    BY <1>1, <2>4, <2>5 DEF DeniedInv, DeniedGetNoValue
<1>4. CASE Inject
  BY <1>1, <1>4 DEF Inject, DeniedInv, DeniedGetNoValue, Denied
<1>5. CASE Render
  <2>1. /\ stage = "evaluated" /\ stage' = "answered" /\ asker' = asker /\ question' = question
        /\ cellset' = Dispatch(question, result, totals, dimensionValues)
    BY <1>5 DEF Render
  <2>2. ASSUME result = [form |-> "empty"] PROVE Dispatch(question, result, totals, dimensionValues).cells = {}
    <3>1. result.form = "empty"
      BY <2>2
    <3>2. Dispatch(question, result, totals, dimensionValues) = EmptyCellset(question)
      BY <3>1 DEF Dispatch
    <3> QED
      BY <3>2 DEF EmptyCellset, Answer
  <2>3. Denied' => result = [form |-> "empty"]
    BY <2>1 DEF DeniedInv, Denied
  <2>4. DeniedGetNoValue'
    BY <2>1, <2>2, <2>3 DEF DeniedGetNoValue
  <2> QED
    BY <1>1, <2>1, <2>4 DEF DeniedInv
<1>6. CASE UNCHANGED answerVars
  BY <1>1, <1>6 DEF answerVars, DeniedInv, DeniedGetNoValue, Denied
<1> QED
  BY <1>2, <1>3, <1>4, <1>5, <1>6 DEF AnswersNext

\* A reader whom no role lets read, or one asking for a measure of a table denied to him, is
\* answered without a value, whatever is kept for others: what NothingDeniedIsShown says of
\* such readers, and for every plan the role gates empty.
THEOREM DeniedReadersGetNoValue == AnswersSpec => []DeniedGetNoValue
<1>1. AnswersInit => DeniedInv
  BY InitKept DEF AnswersInit, DeniedInv, DeniedGetNoValue
<1>2. DeniedInv => DeniedGetNoValue
  BY DEF DeniedInv
<1> QED
  BY <1>1, <1>2, NextDenied, PTL DEF AnswersSpec
=============================================================================
