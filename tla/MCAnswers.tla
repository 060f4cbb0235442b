------------------------------- MODULE MCAnswers -------------------------------
(* A small cube: a flat dimension with a label that lists two others, one with *)
(* a blank label, one that belongs to the second fact table, and dates of      *)
(* three levels; amounts are powers of two, so that a sum names its rows.     *)
EXTENDS ResultCache, AnswerProperties, StatementProperties, Requests

\* Three keys and three results, the largest bigger than the whole budget.
CONSTANTS k1, k2, k3, small, wide, huge
MCKey == {k1, k2, k3}
MCValue == {small, wide, huge}
MCSizeOf == small :> 1 @@ wide :> 2 @@ huge :> 4

MCDimension == {"Cat", "Chan", "Shelf", "Date"}
MCDepth == [d \in MCDimension |-> IF d = "Date" THEN 3 ELSE 0]
Flat(labels) == [x \in labels |-> [key |-> x, path |-> <<>>, name |-> <<>>]]
Day(key, path, name) == [key |-> key, path |-> path, name |-> name]
MCMember ==
    [Cat |-> Flat({3, 4, 5}), Chan |-> Flat({0, 6}), Shelf |-> Flat({7, 8}),
     Date |-> 91 :> Day(91, <<1, 11, 111>>, <<1, 1, 1>>) @@ 92 :> Day(92, <<1, 11, 112>>, <<1, 1, 2>>)
              @@ 93 :> Day(93, <<1, 12, 121>>, <<1, 2, 1>>) @@ 94 :> Day(94, <<2, 21, 211>>, <<2, 1, 1>>)]
MCLists == 4 :> {3, 5}
MCOwnTable == [d \in MCDimension |-> IF d = "Shelf" THEN {"stock"} ELSE {}]
MCMeasure == {"rev", "top", "ytd", "stk", "peak"}
MCTableOf == [m \in MCMeasure |-> IF m \in {"stk", "peak"} THEN "stock" ELSE "sales"]
MCAggregation == [m \in MCMeasure |-> IF m \in {"top", "peak"} THEN "max" ELSE "sum"]
MCDefaultFor == [stock |-> "stk", sales |-> "rev"]
MCTimeFlagged == {"ytd"}

Row(table, cat, chan, shelf, date, amount, current) ==
    [table |-> table, at |-> [Cat |-> cat, Chan |-> chan, Shelf |-> shelf, Date |-> date],
     amount |-> amount, current |-> current]
MCFact ==
    {Row("sales", 3, 0, 7, 91, 1, FALSE), Row("sales", 3, 6, 7, 92, 2, TRUE),
     Row("sales", 4, 6, 7, 93, 4, FALSE), Row("sales", 5, 0, 7, 92, 8, TRUE),
     Row("sales", 5, 6, 7, 94, 16, FALSE), Row("sales", 3, 6, 7, 94, 32, TRUE),
     Row("stock", 3, 6, 7, 91, 64, FALSE), Row("stock", 5, 6, 8, 94, 128, FALSE),
     Row("stock", 3, 0, 8, 94, 256, FALSE), Row("stock", 3, 6, 7, 93, 512, FALSE)}

\* One sees everything, one the rows of a category only, one neither stock nor channels, one no
\* sales, and one nothing.
MCReader == {"all", "north", "blind", "keeper", "stranger"}
MCPermitted == MCReader \ {"stranger"}
MCSees == [u \in MCReader |-> IF u = "north" THEN {r \in MCFact : r.at.Cat = 3} ELSE MCFact]
MCHiddenTable == [u \in MCReader |-> CASE u = "blind" -> {"stock"} [] u = "keeper" -> {"sales"}
                                     [] OTHER -> {}]
MCHiddenDimension == [u \in MCReader |-> IF u = "blind" THEN {"Chan"} ELSE {}]

------------------------------------------------------------------------------
(* The statements.                                                            *)

Side(dims, ms) == [dims |-> dims, measures |-> ms, nonEmpty |-> TRUE]
Plainly(edges, drill) ==
    [edges |-> edges, slicer |-> {}, filters |-> {}, drill |-> drill,
     levels |-> [d \in MCDimension |-> 0], drilled |-> {}, drag |-> FALSE, setOp |-> NoSetOp,
     tuples |-> <<>>, excluded |-> {}]
Sliced(q, m) == [q EXCEPT !.slicer = {m}]
Where(q, fs) == [q EXCEPT !.filters = fs]
Into(q, l, members) == [q EXCEPT !.drilled = {MemberFilter("Date", l, members)}]
Level(q, l) == [q EXCEPT !.levels["Date"] = l]
Drag(q, l) == [q EXCEPT !.levels["Date"] = l, !.drag = TRUE]
Ranked(q, op, n, desc) == [q EXCEPT !.setOp = [op |-> op, n |-> n, desc |-> desc]]
Loose(q) == [q EXCEPT !.edges[1].nonEmpty = FALSE]
Collapsed(q, es) == [q EXCEPT !.excluded = es]
Collapse(d, label) == [dim |-> d, label |-> label]

CatIs(labels) == MemberFilter("Cat", 0, labels)
ChanIs(label) == MemberFilter("Chan", 0, {label})
YearIs(labels) == MemberFilter("Date", 1, labels)
Quarters == RangeFilter("Date", 2, 11, 12)
MCFilters == {{}, {CatIs({3, 5})}, {CatIs({4})}, {ChanIs(6)}, {YearIs({1}), CatIs({3})}, {Quarters}}

Totals == {Where(Sliced(Plainly(<<>>, "none"), m), fs) : m \in MCMeasure, fs \in MCFilters}
            \union {Sliced(Plainly(<<>>, "none"), "bogus"), Plainly(<<>>, "none")}
Several(ms) == Plainly(<<Side(<<>>, ms)>>, "none")
SeveralTotals ==
    {Several(<<"rev", "ytd", "top">>), Several(<<"rev", "stk">>), Several(<<"rev", "bogus">>),
     Where(Several(<<"top", "rev">>), {ChanIs(6)})}
Point(m, fs) == [measure |-> m, filters |-> fs]
TupleSets ==
    {[Plainly(<<>>, "none") EXCEPT !.tuples = ts] :
       ts \in {<<Point("rev", {CatIs({3})}), Point("ytd", {YearIs({2})})>>,
               <<Point("rev", {ChanIs(6)}), Point("stk", {ChanIs(6)}), Point("top", {})>>,
               <<Point("rev", {CatIs({4})}), Point("rev", {CatIs({3})})>>}}

Drill(edges) == Plainly(edges, "level")
One(d) == Drill(<<Side(<<d>>, <<>>)>>)
OneDimension ==
    {Sliced(One(d), m) : d \in MCDimension, m \in {"rev", "top", "stk"}}
      \union {One("Shelf"), One("Cat"), Sliced(One("Date"), "ytd"), Loose(Sliced(One("Cat"), "top")),
              Drill(<<Side(<<"Cat">>, <<"rev">>)>>), Drill(<<Side(<<>>, <<"top">>), Side(<<"Cat">>, <<>>)>>),
              Drill(<<Side(<<"Date">>, <<>>), Side(<<>>, <<"rev">>)>>),
              Drill(<<Side(<<"Cat">>, <<"rev", "top">>)>>), Drill(<<Side(<<>>, <<"rev", "stk">>), Side(<<"Date">>, <<>>)>>),
              Drill(<<Side(<<"Cat">>, <<>>), Side(<<>>, <<"rev", "top">>)>>)}
Measured(d, m) == Sliced(One(d), m)
Levels ==
    {Level(Measured("Date", m), l) : m \in {"rev", "top"}, l \in 2..3}
      \union {Drag(Measured("Date", "rev"), l) : l \in 1..3}
      \union {Loose(Level(Measured("Date", "rev"), 2)), Loose(Drag(Measured("Date", "top"), 2)),
              Where(Drag(Measured("Date", "rev"), 2), {YearIs({1})}),
              Where(Level(Measured("Date", "rev"), 3), {Quarters}),
              Where(Level(Measured("Date", "rev"), 3), {YearIs({1})}),
              Where(Measured("Date", "rev"), {CatIs({4})})}
Drills1 ==
    {Into(Measured("Date", m), l[1], l[2]) :
       m \in {"rev", "top"}, l \in {<<1, {1}>>, <<1, {2}>>, <<1, {1, 2}>>, <<2, {11}>>, <<2, {11, 21}>>}}
      \union {Where(Into(Measured("Date", "rev"), 1, {1}), {fs}) : fs \in {YearIs({1}), CatIs({3}), CatIs({4})}}
      \union {Where(Into(Measured("Date", "rev"), 1, {2}), {CatIs({4})}),
              Loose(Into(Measured("Date", "rev"), 1, {1}))}
\* The measure that ranks a set on an axis is a measure of the axis.
RankedSets ==
    {Ranked(Drill(<<Side(dims, <<"rev">>)>>), s[1], s[2], s[3]) :
       dims \in {<<"Cat">>, <<"Cat", "Chan">>},
       s \in {<<"topcount", 2, TRUE>>, <<"order", 0, FALSE>>, <<"filter", 16, FALSE>>, <<"toppercent", 40, TRUE>>}}
      \union {Ranked(Sliced(Drill(<<Side(dims, <<>>)>>), "rev"), "topcountfilter", 1, TRUE) :
                dims \in {<<"Cat">>, <<"Cat", "Chan">>}}
Pairs(d0, d1) == Sliced(Drill(<<Side(<<d0, d1>>, <<>>)>>), "rev")
TwoOnOneEdge ==
    {Pairs("Cat", "Chan"), Pairs("Chan", "Date"), Pairs("Shelf", "Cat"),
     Level(Pairs("Cat", "Date"), 2), Collapsed(Pairs("Cat", "Chan"), {Collapse("Cat", 3)}),
     Into(Pairs("Cat", "Date"), 1, {1}), Into(Pairs("Date", "Cat"), 1, {2}),
     Into(Pairs("Cat", "Date"), 1, {1, 2}), Into(Pairs("Date", "Cat"), 2, {11}),
     Into(Sliced(Pairs("Cat", "Date"), "top"), 1, {1}),
     Drill(<<Side(<<"Cat", "Chan">>, <<"rev", "ytd">>)>>), Plainly(<<Side(<<>>, <<"rev">>), Side(<<"Cat", "Chan">>, <<>>)>>, "none")}
Nest(d0, d1) == Sliced(Plainly(<<Side(<<d0, d1>>, <<>>)>>, "member"), "rev")
Nested ==
    {Nest("Cat", "Chan"), Sliced(Nest("Chan", "Cat"), "top")}
      \union {Collapsed(Nest("Cat", "Chan"), {e}) : e \in {Collapse("Cat", 3), Collapse("Chan", 6)}}
Cross(d0, d1) == Sliced(Drill(<<Side(<<d0>>, <<>>), Side(<<d1>>, <<>>)>>), "rev")
CrossTabs ==
    {Cross("Cat", "Chan"), Cross("Chan", "Cat"), Sliced(Cross("Cat", "Chan"), "top"),
     Cross("Cat", "Date"), Cross("Date", "Cat"), Where(Cross("Cat", "Chan"), {YearIs({1})}),
     Sliced(Level(Cross("Cat", "Date"), 2), "top"), Cross("Shelf", "Cat"),
     Drill(<<Side(<<"Cat">>, <<"rev", "top">>), Side(<<"Chan">>, <<>>)>>),
     Drill(<<Side(<<"Cat">>, <<>>), Side(<<"Chan">>, <<"rev">>)>>),
     Drill(<<Side(<<"Cat">>, <<>>), Side(<<"Chan">>, <<"rev", "top">>)>>),
     Plainly(<<Side(<<"Cat">>, <<"top">>), Side(<<"Chan">>, <<>>)>>, "none")}
Three(e1, e2) == Drill(<<e1, e2>>)
Pivots ==
    {Three(Side(<<"Cat">>, <<"stk">>), Side(<<"Shelf", "Chan">>, <<>>)),
     Three(Side(<<"Shelf", "Cat">>, <<>>), Side(<<"Chan">>, <<"peak">>)),
     Three(Side(<<"Chan">>, <<>>), Side(<<"Cat", "Shelf">>, <<"stk", "peak">>)),
     Three(Side(<<"Cat", "Chan">>, <<"stk", "peak">>), Side(<<"Shelf">>, <<>>)),
     Collapsed([Three(Side(<<"Shelf">>, <<"stk">>), Side(<<"Cat", "Chan">>, <<>>)) EXCEPT !.drill = "member"],
               {Collapse("Cat", 5)}),
     Three(Side(<<"Cat">>, <<"rev">>), Side(<<"Date", "Chan">>, <<>>)),
     Three(Side(<<"Chan">>, <<"rev">>), Side(<<"Cat", "Date">>, <<>>)),
     Sliced(Three(Side(<<"Cat", "Date">>, <<>>), Side(<<"Chan">>, <<>>)), "top"),
     Three(Side(<<"Cat">>, <<"rev", "ytd">>), Side(<<"Date", "Chan">>, <<>>)),
     [Three(Side(<<"Cat">>, <<"rev">>), Side(<<"Date", "Chan">>, <<>>)) EXCEPT !.drill = "member"]}
ByCategory ==
    {Plainly(<<Side(<<>>, <<m>>), Side(<<d>>, <<>>)>>, "none") : m \in {"rev", "stk"}, d \in {"Cat", "Shelf"}}
MCQuestion ==
    Totals \union SeveralTotals \union TupleSets \union OneDimension \union Levels \union Drills1
      \union RankedSets \union TwoOnOneEdge \union Nested \union CrossTabs \union Pivots \union ByCategory

------------------------------------------------------------------------------
(* What is said: each question in either order of its axes, its filters in the *)
(* slicer or in subselects, members under their own level or under the first;  *)
(* and conditions, one or two of them, in every place.                        *)
MCLevelName == [d \in MCDimension |-> IF d = "Date" THEN <<"Year", "Quarter", "Month">> ELSE <<>>]
MCMatching == [begins |-> "a" :> {3, 4}, ends |-> "b" :> {4, 5}, contains |-> "c" :> {5, 6}]

Asking(q, subs, backwards, fromTop) == [tree |-> Written(q, subs, backwards, fromTop), asks |-> <<q>>, said |-> <<>>]
SpokenQuestions ==
    {Asking(q, subs, backwards, fromTop) : q \in MCQuestion, subs \in BOOLEAN, backwards \in BOOLEAN, fromTop \in BOOLEAN}

MCConditions ==
    {OneOf("Cat", <<<<0, 3>>>>, FALSE), OneOf("Cat", <<<<0, 3>>, <<0, 5>>>>, FALSE), OneOf("Chan", <<<<0, 6>>>>, FALSE),
     ByName("Cat", 5), Whole("Cat"), Whole("Date"), ShortKey("Date", 2, 1), ShortKey("Date", 3, 1),
     OneOf("Date", <<<<1, 1>>, <<3, 211>>>>, TRUE), OneOf("Date", <<<<2, 11>>, <<1, 2>>>>, TRUE),
     OneOf("Date", <<<<2, 11>>, <<2, 21>>>>, FALSE), OneOf("Date", <<<<1, 1>>, <<2, 21>>>>, FALSE),
     Between("Date", 1, 1, 2), Between("Date", 2, 11, 12), Between("Date", 3, 111, 112), Between("Date", 2, 12, 21),
     Between("Cat", 0, 4, 5),
     Captioned("Cat", "=", "4"), Captioned("Cat", ">=", "4"), Captioned("Cat", "<>", "3"),
     Captioned("Cat", "begins", "a"), Captioned("Cat", "ends", "b"), Captioned("Chan", "contains", "c"),
     DatedPlainly("Date", ">=", 93, TRUE), DatedPlainly("Date", ">=", 93, FALSE),
     Dated("Date", ">=", 92), Dated("Date", "<>", 92), Dated("Date", "<", 93),
     ToDate("YTD", "Date", 3, 112, TRUE), ToDate("YTD", "Date", 2, 12, FALSE), ToDate("QTD", "Date", 3, 112, FALSE),
     PeriodToDate("Date", "Quarter", 3, 111), PeriodToDate("Date", "Year", 3, 121)}
     \union {OneOf("Date", <<<<l[1], l[2]>>>>, top) : l \in {<<1, 1>>, <<2, 12>>, <<3, 112>>}, top \in BOOLEAN}
PlacesOf(c) == {"where", "sub", "nested"} \union (IF c.form \in {"range", "filter", "plain", "window"} THEN {"axis", "set"} ELSE {})
SaidOnce == UNION {{<<Said(place, c)>> : place \in PlacesOf(c)} : c \in MCConditions}
Speaking(said) == [tree |-> Saying(said, "rev"), asks |-> <<>>, said |-> said]
SpokenConditions ==
    {Speaking(x) : x \in SaidOnce}
      \union {Speaking(<<x[1][1], x[2][1]>>) : x \in
                {y \in SaidOnce \X SaidOnce :
                   /\ y[1][1].place = "where" \/ (y[1][1].place = "sub" /\ y[2][1].place # "where")
                   /\ y[1][1].condition.dim = y[2][1].condition.dim => y[1][1].place # y[2][1].place
                   /\ ~Departs(y[1]) /\ ~Departs(y[2])}}

------------------------------------------------------------------------------
(* The requests: two of them, with one change at any of their places, and those *)
(* below as they are.                                                           *)
\* Requests as clients send them: a Discover of every rowset with every restriction it
\* advertises, one it does not, and none; an Execute with its properties.
El(name, inner) == Element(name, "xmla", inner)
Leaf(name, word) == El(name, <<Words(<<word>>)>>)
Soap(header, body) ==
    Element("Envelope", "soap", <<Element("Header", "soap", header), Element("Body", "soap", <<[body EXCEPT !.own = "default"]>>)>>)
SessionHeader == <<El("Session", <<>>)>>
MCNumberText == {<<"1">>}
ValueFor(name) == IF name \in ByNumber \union {"TREE_OP", "PROPERTY_TYPE", "LEVEL_NUMBER"} THEN "1" ELSE "Sales"
Discovery(type, restrictions) ==
    Soap(SessionHeader,
         El("Discover", <<Leaf("RequestType", type), El("Restrictions", <<El("RestrictionList", restrictions)>>),
                          El("Properties", <<El("PropertyList", <<Leaf("Catalog", "Mallard"), Leaf("Format", "Tabular")>>)>>)>>))
Execution(header, command) ==
    Soap(header,
         El("Execute", <<El("Command", <<El("Statement", command)>>),
                         El("Properties",
                            <<El("PropertyList", <<Leaf("Catalog", "Mallard"), Leaf("Format", "Tabular"), Leaf("Content", "Data")>>)>>)>>))
Select == <<Words(<<"SELECT", "FROM", "Sales">>)>>
ScopedDiscovery == Discovery("MDSCHEMA_LEVELS", <<Leaf("CUBE_NAME", "Sales"), Leaf("LEVEL_VISIBILITY", "1")>>)
BaseRequests == {ScopedDiscovery, Execution(<<El("BeginSession", <<>>)>>, Select)}

\* One change anywhere in a request.
RECURSIVE Put(_, _, _), Unprefixed(_)
Put(node, p, new) == IF p = <<>> THEN new ELSE [node EXCEPT !.inner[Head(p)] = Put(@, Tail(p), new)]
Unprefixed(node) == [node EXCEPT !.space = IF node.is = "element" THEN "none" ELSE @, !.inner = [i \in DOMAIN @ |-> Unprefixed(@[i])]]
OtherNames ==
    {"Envelope", "Header", "Body", "Discover", "Restrictions", "RestrictionList", "PropertyName", "Value", "BeginSession", "BOGUS", "Catalog"}
Altered(node) ==
    IF node.is # "element" THEN {[node EXCEPT !.flaw = TRUE]}
    ELSE {[node EXCEPT !.space = s] : s \in {"xmla", "soap", "foreign", "unknown", "none"}}
           \union {[node EXCEPT !.flaw = TRUE], [Unprefixed(node) EXCEPT !.own = "undeclared"], [node EXCEPT !.own = "undeclared"]}
           \union {[node EXCEPT !.name = n] : n \in OtherNames}
           \union {[Unprefixed(node) EXCEPT !.own = "undeclared", !.inner[i].own = "default"] :
                      i \in {j \in DOMAIN node.inner : node.inner[j].is = "element"}}
\* A child left out, doubled, or put in before the others or after them.
Guests ==
    {El(n, <<>>) : n \in (OtherNames \ {"Value"}) \union {"EndSession"}}
      \union {Element("Body", "soap", <<>>), Element("Header", "soap", <<>>), Element("EndSession", "foreign", <<>>),
              Lexical("doctype", FALSE), Lexical("unknown reference", FALSE), Lexical("comment", TRUE)}
Rearranged(node) ==
    IF node.is # "element" THEN {}
    ELSE {[node EXCEPT !.inner = RemoveAt(@, i)] : i \in DOMAIN node.inner}
           \union {[node EXCEPT !.inner = InsertAt(@, i, @[i])] : i \in DOMAIN node.inner}
           \union IF \E i \in DOMAIN node.inner : node.inner[i].is = "text" THEN {}
                  ELSE UNION {{[node EXCEPT !.inner = <<g>> \o @], [node EXCEPT !.inner = Append(@, g)]} : g \in Guests}
Changes ==
    UNION {UNION {{Put(d, p, n) : n \in Altered(NodeAt(d, p)) \union Rearranged(NodeAt(d, p))} : p \in NodePlaces(d)} : d \in BaseRequests}

Discoveries ==
    UNION {{Discovery(type, <<Leaf(n, ValueFor(n))>>) : n \in Advertised[type]}
             \union {Discovery(type, <<>>), Discovery(type, <<Leaf("BOGUS", "1")>>)} : type \in DOMAIN Advertised}
    \union {Discovery("MDSCHEMA_LEVELS", <<Leaf("CUBE_NAME", "Sales"), El(n, <<Words(t)>>)>>) :
              n \in {"CATALOG_NAME", "LEVEL_NAME", "LEVEL_VISIBILITY"}, t \in {<<>>, <<"Sales">>, <<"Net", "Sales">>}}
    \union {Discovery("DISCOVER_PROPERTIES", <<El("PropertyName", <<Leaf("Value", "Catalog")>>), Leaf("PropertyName", "Format")>>)}
Executions ==
    {Execution(h, s) : s \in {<<>>, Select, <<Words(<<>>)>>},
                       h \in {<<>>, SessionHeader, <<El("BeginSession", <<>>)>>, <<El("EndSession", <<>>), El("Session", <<>>)>>}}

MCDocument == Changes \union Discoveries \union Executions
\* In every way those sent as they are; self-closed those with more than one element
\* to close so.
Childless(d) == {p \in NodePlaces(d) : NodeAt(d, p).is = "element" /\ NodeAt(d, p).inner = <<>>}
MCSpelling(d) ==
    IF d \in BaseRequests \union Executions THEN {"plain", "spaced", "pieces", "closed"}
    ELSE {"plain"} \union IF Cardinality(Childless(d)) > 1 THEN {"closed"} ELSE {}
MCBreaksOff(d) == d \in BaseRequests
------------------------------------------------------------------------------
(* The cache, the answers, the reading of statements and that of requests     *)
(* share no state: a behaviour is one of them, and the others stay put. One   *)
(* statement is asked, or two that read rows under the same cache key.        *)
KeyOf(q, u) == IF UnknownMeasure(q) THEN <<>> ELSE CacheKey(q, u)
Keyed == {[key |-> KeyOf(q, u), user |-> u, statement |-> q] : q \in MCQuestion, u \in MCReader}
Reading == {x \in Keyed : x.key # <<>> /\ PlanFor(x.statement, x.user) # Empty}
Scripts == {<<x>> : x \in Keyed}
             \union {<<x[1], x[2]>> : x \in {y \in Reading \X Reading : y[1].key = y[2].key}}

Silence == [tree |-> <<>>, asks |-> <<>>, said |-> <<>>]

VARIABLES part, script
partVars == <<vars, answerVars, readingVars, requestVars, part, script>>

PartInit ==
    /\ Init /\ AnswersInit /\ heard = Unheard
    /\ \/ part = "cache" /\ script = <<>> /\ statement = Silence
       \/ part = "answers" /\ script \in Scripts /\ statement = Silence
       \/ part = "statements" /\ script = <<>> /\ statement \in SpokenQuestions \union SpokenConditions
       \/ part = "requests" /\ script = <<>> /\ statement = Silence
    /\ IF part = "requests" THEN RequestInit ELSE document = ScopedDiscovery /\ spelling = "plain" /\ BeforeReading
PartNext ==
    /\ UNCHANGED <<part, script>>
    /\ \/ part = "cache" /\ Next /\ UNCHANGED <<answerVars, readingVars, requestVars>>
       \/ part = "answers" /\ (Fetch \/ Inject \/ Render) /\ UNCHANGED <<vars, readingVars, requestVars>>
       \/ /\ part = "answers" /\ asked < Len(script)
          /\ Ask(script[asked + 1].user, script[asked + 1].statement)
          /\ UNCHANGED <<vars, readingVars, requestVars>>
       \/ part = "statements" /\ Hear /\ UNCHANGED <<vars, answerVars, requestVars>>
       \/ part = "requests" /\ RequestNext /\ UNCHANGED <<vars, answerVars, readingVars>>
PartSpec == PartInit /\ [][PartNext]_partVars

\* Statements alone whose slicer and subselect each name members of a dimension without levels.
Subselected ==
    {Speaking(<<Said("where", x[1]), Said("sub", x[2])>>) : x \in
       {c \in MCConditions : c.form = "members" /\ Depth[c.dim] = 0} \X {c \in MCConditions : c.form = "members" /\ Depth[c.dim] = 0}}
SubselectSpec == PartInit /\ part = "statements" /\ statement \in Subselected /\ [][PartNext]_partVars
=============================================================================
