------------------------------- MODULE Requests -------------------------------
(* How an XMLA request is read (xmla/parser.rs): the events of the XML reader  *)
(* one after the other, in one pass with flags for where it is, to one request *)
(* or a refusal; and the session its SOAP header names, in a second pass.      *)
(* Names, texts and namespaces are compared only; a text is a sequence of      *)
(* words, blank if it has none.                                               *)
EXTENDS Sequences, SequencesExt, FiniteSets, TLC

CONSTANTS
    NumberText,         \* the texts that are numbers
    Document,       \* the documents sent
    Spelling(_),    \* the ways a document is spelled
    BreaksOff(_)        \* whether its reading may break off

\* A document is a tree. An element has the namespace its name resolves to ("none"
\* without one), what its own xmlns attribute says of the default namespace, and a
\* flaw if its name or an attribute cannot be read.
Element(name, space, inner) ==
    [is |-> "element", name |-> name, space |-> space, own |-> "nothing", flaw |-> FALSE, text |-> <<>>, inner |-> inner]
Words(text) ==
    [is |-> "text", name |-> "", space |-> "", own |-> "", flaw |-> FALSE, text |-> text, inner |-> <<>>]
Lexical(is, flaw) == [Words(<<>>) EXCEPT !.is = is, !.flaw = flaw]

\* What the XML reader hands over, in the ways one tree can be spelled: with blanks and
\* comments between the elements, its texts in pieces, its empty elements self-closed.
RECURSIVE Events(_, _)
Events(node, how) ==
    LET tag(is) == [node EXCEPT !.is = is, !.inner = <<>>]
        piece(i) == [Words(<<node.text[i]>>) EXCEPT !.is = IF i % 2 = 0 THEN "cdata" ELSE "reference", !.flaw = node.flaw]
        inner == FlattenSeq([i \in DOMAIN node.inner |-> Events(node.inner[i], how)])
        between == IF how = "spaced" THEN <<Words(<<>>), Lexical("comment", FALSE)>> ELSE <<>>
    IN CASE node.is = "element" /\ node.inner = <<>> /\ how = "closed" -> <<tag("empty")>>
         [] node.is = "element" -> between \o <<tag("start")>> \o inner \o <<tag("end")>>
         [] node.is = "text" /\ how = "pieces" /\ node.text # <<>> -> [i \in DOMAIN node.text |-> piece(i)]
         [] OTHER -> <<node>>

------------------------------------------------------------------------------
\* The restrictions each rowset that is answered advertises (SCHEMA_ROWSET_DATA); of
\* the metadata's, one for each object's ID, two stand for all.
Scope == {"CATALOG_NAME", "SCHEMA_NAME", "CUBE_NAME"}
CubeRowsets ==
    [DBSCHEMA_CATALOGS |-> {"CATALOG_NAME"},
     DBSCHEMA_TABLES |-> {"TABLE_CATALOG", "TABLE_SCHEMA", "TABLE_NAME", "TABLE_TYPE", "TABLE_OLAP_TYPE"},
     MDSCHEMA_CUBES |-> Scope \union {"CUBE_SOURCE", "BASE_CUBE_NAME"},
     MDSCHEMA_DIMENSIONS |-> Scope \union {"DIMENSION_NAME", "DIMENSION_UNIQUE_NAME", "CUBE_SOURCE", "DIMENSION_VISIBILITY"},
     MDSCHEMA_HIERARCHIES |-> Scope \union {"DIMENSION_UNIQUE_NAME", "HIERARCHY_NAME", "HIERARCHY_UNIQUE_NAME", "HIERARCHY_ORIGIN",
                                            "CUBE_SOURCE", "HIERARCHY_VISIBILITY"},
     MDSCHEMA_LEVELS |-> Scope \union {"DIMENSION_UNIQUE_NAME", "HIERARCHY_UNIQUE_NAME", "LEVEL_NAME", "LEVEL_UNIQUE_NAME",
                                       "LEVEL_ORIGIN", "CUBE_SOURCE", "LEVEL_VISIBILITY"},
     MDSCHEMA_MEASURES |-> Scope \union {"MEASURE_NAME", "MEASURE_UNIQUE_NAME", "MEASUREGROUP_NAME", "CUBE_SOURCE", "MEASURE_VISIBILITY"},
     MDSCHEMA_PROPERTIES |-> Scope \union {"DIMENSION_UNIQUE_NAME", "HIERARCHY_UNIQUE_NAME", "LEVEL_UNIQUE_NAME", "MEMBER_UNIQUE_NAME",
                                           "PROPERTY_NAME", "PROPERTY_TYPE", "PROPERTY_CONTENT_TYPE", "PROPERTY_ORIGIN", "CUBE_SOURCE",
                                           "PROPERTY_VISIBILITY"},
     MDSCHEMA_MEMBERS |-> Scope \union {"DIMENSION_UNIQUE_NAME", "HIERARCHY_UNIQUE_NAME", "LEVEL_UNIQUE_NAME", "LEVEL_NUMBER",
                                        "MEMBER_NAME", "MEMBER_UNIQUE_NAME", "MEMBER_CAPTION", "MEMBER_TYPE", "TREE_OP", "CUBE_SOURCE", "SCOPE"},
     MDSCHEMA_FUNCTIONS |-> {"LIBRARY_NAME", "INTERFACE_NAME", "FUNCTION_NAME", "ORIGIN", "CATALOG_NAME"}]
GroupRowsets ==
    [MDSCHEMA_SETS |-> Scope \union {"SET_NAME", "SCOPE", "HIERARCHY_UNIQUE_NAME", "CUBE_SOURCE", "SET_EVALUATION_CONTEXT"},
     MDSCHEMA_KPIS |-> Scope \union {"KPI_NAME", "CUBE_SOURCE", "SCOPE"},
     MDSCHEMA_MEASUREGROUPS |-> Scope \union {"MEASUREGROUP_NAME"},
     MDSCHEMA_MEASUREGROUP_DIMENSIONS |-> Scope \union {"MEASUREGROUP_NAME", "DIMENSION_UNIQUE_NAME", "DIMENSION_VISIBILITY"}]
ServerRowsets ==
    [DISCOVER_DATASOURCES |-> {"DataSourceName", "URL", "ProviderName", "ProviderType", "AuthenticationMode"},
     DISCOVER_PROPERTIES |-> {"PropertyName"}, DISCOVER_SCHEMA_ROWSETS |-> {"SchemaName"}, DISCOVER_ENUMERATORS |-> {"EnumName"},
     DISCOVER_KEYWORDS |-> {"Keyword"}, DISCOVER_LITERALS |-> {"LiteralName"},
     DISCOVER_XML_METADATA |-> {"ObjectExpansion", "DatabaseID"}]
TabularRowsets ==
    [TMSCHEMA_MODEL |-> {"ID"}, TMSCHEMA_TABLES |-> {"ID", "Name"}, TMSCHEMA_COLUMNS |-> {"ID", "TableID"},
     TMSCHEMA_MEASURES |-> {"ID", "TableID"}, TMSCHEMA_HIERARCHIES |-> {"ID", "TableID"}, TMSCHEMA_LEVELS |-> {"ID", "HierarchyID"},
     TMSCHEMA_RELATIONSHIPS |-> {"ID"}, TMSCHEMA_PARTITIONS |-> {"ID", "TableID"}, DISCOVER_CALC_DEPENDENCY |-> {"DATABASE_NAME", "OBJECT_TYPE"}]
Advertised == CubeRowsets @@ GroupRowsets @@ ServerRowsets @@ TabularRowsets
advertises(schema, name) == schema \in DOMAIN Advertised /\ name \in Advertised[schema]

------------------------------------------------------------------------------
Protocol ==
    {"Discover", "Execute", "Command", "Statement", "RequestType", "Restrictions", "RestrictionList", "PropertyName", "Properties",
     "PropertyList", "BeginSession", "BeginGetSessionToken", "PROPERTY_TYPE", "MEMBER_UNIQUE_NAME", "TREE_OP"}
\* The elements whose text is kept, in the order they are asked for it.
Keeping == <<"RequestType", "PropertyName", "Statement", "PROPERTY_TYPE", "MEMBER_UNIQUE_NAME", "TREE_OP", "Catalog", "Format", "Content">>
OfProperties == {"Catalog", "Format", "Content"}
\* Those that restrict though they are not restriction names to apply_restriction.
OwnRestriction == {"PropertyName", "PROPERTY_TYPE", "MEMBER_UNIQUE_NAME", "TREE_OP"}

\* The restrictions, as they are held: by name, a number only if it is one.
ByText ==
    {"CATALOG_NAME", "CUBE_NAME", "DIMENSION_UNIQUE_NAME", "HIERARCHY_UNIQUE_NAME", "LEVEL_UNIQUE_NAME", "PROPERTY_NAME", "DIMENSION_NAME",
     "HIERARCHY_NAME", "LEVEL_NAME", "MEASURE_NAME", "MEASURE_UNIQUE_NAME", "MEASUREGROUP_NAME", "Name", "SchemaName"}
ByNumber ==
    {"ORIGIN", "MEMBER_TYPE", "DIMENSION_VISIBILITY", "HIERARCHY_VISIBILITY", "LEVEL_VISIBILITY", "MEASURE_VISIBILITY", "PROPERTY_VISIBILITY"}
apply_restriction(restrictions, name, text) ==
    LET others == {r \in restrictions : r[1] # name}
    IN IF name \in ByText \/ (name \in ByNumber /\ text \in NumberText) THEN others \union {<<name, text>>}
       ELSE IF name \in ByNumber THEN others ELSE restrictions

\* The reader: the elements open, the flags set by the names entered, what was met so
\* far, whether something is wrong, the text since the last end, the restriction it
\* is in, those named and applied, and the texts kept.
Unread ==
    [open |-> <<>>, inside |-> {}, met |-> {}, wrong |-> FALSE, pending |-> <<>>, restriction |-> {}, named |-> <<>>,
     applied |-> {}, kept |-> [k \in ToSet(Keeping) |-> <<>>]]

InList(r) == "RestrictionList" \in r.inside
\* Mutant: an element says for itself only that it has no default namespace.
UndeclaredHere(r, e) == e.own = "undeclared"
Undeclared(r, e) == IF e.own = "nothing" THEN r.open # <<>> /\ Last(r.open).undeclared ELSE e.own = "undeclared"
\* Bound to that namespace, or to none without having given one up.
BoundTo(space, r, e) == e.space = space \/ (e.space = "none" /\ ~Undeclared(r, e))
DirectlyIn(r, name, space) == r.open # <<>> /\ Last(r.open).name = name /\ Last(r.open)[space]

structural_error(r, e) ==
    LET xmla == BoundTo("xmla", r, e) soap == BoundTo("soap", r, e)
        restricting == "Restrictions" \in r.inside
    IN \/ e.name = "Envelope" /\ (r.open # <<>> \/ ~soap)
       \/ e.name \in {"Body", "Header"} /\ soap /\ (~DirectlyIn(r, "Envelope", "soap") \/ e.name \in r.met)
       \/ e.name \in {"BeginSession", "EndSession"} /\ DirectlyIn(r, "Body", "soap")
       \/ ~xmla /\ (e.name \in Protocol \/ restricting \/ InList(r) \/ DirectlyIn(r, "PropertyList", "xmla"))
       \/ e.name = "Restrictions" /\ (~DirectlyIn(r, "Discover", "xmla") \/ "Restrictions" \in r.met)
       \/ e.name = "RestrictionList" /\ (~restricting \/ InList(r) \/ "RestrictionList" \in r.met)
       \/ e.name # "RestrictionList" /\ restricting /\ ~InList(r)

\* Both kinds of start: what is wrong with it, and what it lets be seen.
Entered(r, e) ==
    LET meets == \/ e.name \in {"Execute", "Restrictions", "RestrictionList"}
                 \/ e.name = "Envelope" /\ BoundTo("soap", r, e)
                 \/ e.name \in {"Body", "Header"} /\ DirectlyIn(r, "Envelope", "soap")
    IN [r EXCEPT !.wrong = @ \/ e.flaw \/ structural_error(r, e), !.met = IF meets THEN @ \union {e.name} ELSE @]
ValueOfProperty(r, name) == name \in {"Value", "value"} /\ "PropertyName" \in r.inside

\* Start.
OnStart(r, e) ==
    LET flag == \/ e.name \in (ToSet(Keeping) \ OfProperties) \union {"Restrictions", "RestrictionList"}
                \/ e.name \in OfProperties /\ "Restrictions" \notin r.inside
        begins == e.name \in {"BeginSession", "BeginGetSessionToken"}
        names == InList(r) /\ ~flag /\ ~begins /\ e.name # "Execute" /\ ~ValueOfProperty(r, e.name)
        entered == Entered(r, e)
    IN [entered EXCEPT
          !.wrong = @ \/ ("PropertyName" \in r.inside /\ e.name \notin {"Value", "value"}),
          !.open = Append(@, [name |-> e.name, xmla |-> BoundTo("xmla", r, e), soap |-> BoundTo("soap", r, e), undeclared |-> Undeclared(r, e)]),
          !.inside = IF flag THEN @ \union {e.name} ELSE @,
          !.met = IF begins THEN @ \union {"BeginSession"} ELSE @,
          !.named = IF InList(r) /\ e.name \in OwnRestriction THEN Append(@, e.name) ELSE @,
          !.restriction = IF names THEN {e.name} ELSE @]

\* Empty: it names a restriction, and begins no session.
OnEmpty(r, e) ==
    LET names == InList(r) /\ ~ValueOfProperty(r, e.name) /\ e.name # "RestrictionList"
    IN [Entered(r, e) EXCEPT !.named = IF names THEN Append(@, e.name) ELSE @]

\* The text of the element that ends, and of those before it that had no end yet,
\* goes to the restriction, and to the first that keeps one.
WithRestriction(r) ==
    LET name == CHOOSE n \in r.restriction : TRUE
        applies == r.pending # <<>> \/ name \in {"CATALOG_NAME", "CUBE_NAME"}
    IN IF ~InList(r) \/ r.restriction = {} THEN r
       ELSE [r EXCEPT !.named = Append(@, name), !.applied = IF applies THEN apply_restriction(@, name, r.pending) ELSE @]
WithKeptText(r) ==
    LET takes(k) == k \in r.inside /\ (k = "TREE_OP" => r.pending \in NumberText)
        at == {i \in DOMAIN Keeping : takes(Keeping[i])}
        k == Keeping[CHOOSE i \in at : \A j \in at : i <= j]
    IN IF r.pending = <<>> \/ at = {} \/ (k = "PROPERTY_TYPE" /\ r.pending \notin NumberText) THEN r
       ELSE [r EXCEPT !.kept[k] = CASE k = "Statement" -> @ \o r.pending
                                    [] k = "PropertyName" -> Append(@, r.pending)
                                    [] OTHER -> r.pending]
\* End.
OnEnd(r, e) ==
    LET name == Last(r.open).name
        closes == name = "RestrictionList" \/ (InList(r) /\ name \notin ToSet(Keeping) \union {"Restrictions"})
    IN [WithKeptText(WithRestriction(r)) EXCEPT !.open = Front(@), !.pending = <<>>, !.inside = @ \ {name}, !.restriction = IF closes THEN {} ELSE @]

\* Text, CDATA, the five references; comments and the like; a document type; another
\* reference.
OnText(r, e) == [r EXCEPT !.pending = @ \o e.text, !.wrong = @ \/ e.flaw]
OnLexical(r, e) == [r EXCEPT !.wrong = @ \/ e.flaw \/ e.is \in {"doctype", "unknown reference"}]

------------------------------------------------------------------------------
\* The rowsets whose requests carry nothing, and those that carry restrictions.
CarryNothing ==
    {"DISCOVER_LITERALS", "MDSCHEMA_SETS", "MDSCHEMA_KPIS", "DISCOVER_XML_METADATA", "DISCOVER_CALC_DEPENDENCY", "DISCOVER_ENUMERATORS",
     "DISCOVER_KEYWORDS", "DISCOVER_DATASOURCES"}
Restricted ==
    (DOMAIN CubeRowsets \union DOMAIN TabularRowsets
       \union {"MDSCHEMA_MEASUREGROUPS", "MDSCHEMA_MEASUREGROUP_DIMENSIONS"}) \ {"DISCOVER_CALC_DEPENDENCY"}

\* What a request is, the catalog its properties name, and what it carries.
Request(is, type, catalog, carries) == [is |-> is, type |-> type, catalog |-> catalog, carries |-> carries]
MalformedRequest == Request("malformed", "", <<>>, {})
KeptAs(r, names) == {<<k, r.kept[k]>> : k \in {n \in names : r.kept[n] # <<>>}}
Discovered(r, type) ==
    CASE type \in CarryNothing -> Request("discover", type, <<>>, {})
      [] type = "DISCOVER_SCHEMA_ROWSETS" -> Request("discover", type, <<>>, {x \in r.applied : x[1] = "SchemaName"})
      [] type = "DISCOVER_PROPERTIES" ->
           Request("discover", type, r.kept["Catalog"], {<<"PropertyName", p>> : p \in ToSet(r.kept["PropertyName"])})
      [] type = "MDSCHEMA_PROPERTIES" ->
           Request("discover", type, r.kept["Catalog"], r.applied \union KeptAs(r, {"PROPERTY_TYPE"}))
      [] type = "MDSCHEMA_MEMBERS" ->
           Request("discover", type, r.kept["Catalog"], r.applied \union KeptAs(r, {"MEMBER_UNIQUE_NAME", "TREE_OP"}))
      [] OTHER -> Request("discover", type, r.kept["Catalog"], r.applied)
Executed(r) ==
    IF r.kept["Statement"] # <<>>
    THEN Request("execute", "", r.kept["Catalog"], KeptAs(r, {"Statement", "Format", "Content"}))
    ELSE IF "BeginSession" \in r.met THEN Request("begin", "", <<>>, {})
    ELSE Request("empty", "", <<>>, {})
TypeOf(r) == IF Len(r.kept["RequestType"]) = 1 THEN r.kept["RequestType"][1] ELSE "other"
parse_xmla(r) ==
    LET type == TypeOf(r)
        foreign == {i \in DOMAIN r.named : ~advertises(type, r.named[i])}
    IN IF r.wrong \/ ("Envelope" \in r.met /\ "Body" \notin r.met) THEN MalformedRequest
       ELSE IF r.kept["RequestType"] # <<>> /\ foreign # {}
       THEN Request("unsupported", r.named[CHOOSE i \in foreign : \A j \in foreign : i <= j], <<>>, {})
       ELSE IF type \in CarryNothing \union Restricted \union {"DISCOVER_SCHEMA_ROWSETS", "DISCOVER_PROPERTIES"} THEN Discovered(r, type)
       ELSE IF "Execute" \in r.met THEN Executed(r) ELSE Request("unknown", "", <<>>, {})

\* The session of the SOAP header: the first element of the three after a SOAP
\* Header has started and before one of that name, in any namespace, has ended.
SessionElement == {"BeginSession", "Session", "EndSession"}
session_header(events) ==
    LET step(s, e) ==
          CASE s.action # {} -> s
            [] e.is = "start" /\ e.name = "Header" /\ e.space = "soap" -> [s EXCEPT !.inside = TRUE]
            [] e.is \in {"start", "empty"} /\ s.inside /\ e.space = "xmla" /\ e.name \in SessionElement ->
                 [s EXCEPT !.action = {e.name}]
            [] e.is = "end" /\ e.name = "Header" -> [s EXCEPT !.inside = FALSE]
            [] OTHER -> s
    IN FoldLeft(step, [inside |-> FALSE, action |-> {}], events).action
------------------------------------------------------------------------------
VARIABLES document, spelling, coming, broken, reader, understood
requestVars == <<document, spelling, coming, broken, reader, understood>>

\* Before its first event, the locals of parse_xmla.
BeforeReading ==
    coming = Events(document, spelling) /\ broken = FALSE /\ reader = Unread /\ understood = {}
RequestInit == document \in Document /\ spelling \in Spelling(document) /\ BeforeReading

Reads(kinds, next(_, _)) ==
    /\ coming # <<>> /\ Head(coming).is \in kinds
    /\ reader' = next(reader, Head(coming)) /\ coming' = Tail(coming)
    /\ UNCHANGED <<document, spelling, broken, understood>>
ReadsStart == Reads({"start"}, OnStart)
ReadsEmpty == Reads({"empty"}, OnEmpty)
ReadsText == Reads({"text", "cdata", "reference"}, OnText)
ReadsEnd == Reads({"end"}, OnEnd)
ReadsLexical == Reads({"comment", "doctype", "unknown reference"}, OnLexical)
\* Err: the rest is not read.
ReaderFails ==
    /\ coming # <<>> /\ BreaksOff(document)
    /\ reader' = [reader EXCEPT !.wrong = TRUE] /\ coming' = <<>> /\ broken' = TRUE
    /\ UNCHANGED <<document, spelling, understood>>
\* Eof, and session_header's own pass.
Answers ==
    /\ coming = <<>> /\ understood = {}
    /\ understood' = {[request |-> parse_xmla(reader), session |-> session_header(Events(document, spelling))]}
    /\ UNCHANGED <<document, spelling, coming, broken, reader>>

RequestNext ==
    \/ ReadsStart \/ ReadsEmpty \/ ReadsText \/ ReadsEnd \/ ReadsLexical
    \/ ReaderFails \/ Answers
RequestSpec == RequestInit /\ [][RequestNext]_requestVars

------------------------------------------------------------------------------
\* What a document says, by the places of its elements in the tree.
RECURSIVE NodePlaces(_)
NodePlaces(node) == {<<>>} \union UNION {{<<i>> \o p : p \in NodePlaces(node.inner[i])} : i \in DOMAIN node.inner}
NodeAt(tree, p) == FoldLeft(LAMBDA node, i : node.inner[i], tree, p)
NodeOf(p) == NodeAt(document, p)
Outer(p) == {SubSeq(p, 1, n) : n \in 0..Len(p) - 1}
Before(p, q) == p \in Outer(q) \/ \E n \in DOMAIN p \intersect DOMAIN q : p[n] < q[n] /\ SubSeq(p, 1, n - 1) = SubSeq(q, 1, n - 1)

Elements == {p \in NodePlaces(document) : NodeOf(p).is = "element"}
ElementsNamed(name) == {p \in Elements : NodeOf(p).name = name}
\* The nearest word on the default namespace, and what a name is bound to.
GivenUp(p) ==
    LET said == {q \in Outer(p) \union {p} : NodeOf(q).own # "nothing"}
    IN \E q \in said : NodeOf(q).own = "undeclared" /\ \A r \in said : Len(r) <= Len(q)
Bound(p, space) == NodeOf(p).space = space \/ (NodeOf(p).space = "none" /\ ~GivenUp(p))
Beneath(p, name) == \E q \in Outer(p) : NodeOf(q).name = name
ChildOf(p, name, space) == p # <<>> /\ NodeOf(Front(p)).name = name /\ Bound(Front(p), space)
\* A childless element has no end of its own if it is self-closed.
HasEnd(p) == spelling # "closed" \/ NodeOf(p).inner # <<>>
\* The text of an element: its own, and that of a Value in it.
TextOf(p) ==
    LET own(node) == FlattenSeq([i \in DOMAIN node.inner |-> IF node.inner[i].is = "text" THEN node.inner[i].text ELSE <<>>])
        values == SelectSeq(NodeOf(p).inner, LAMBDA n : n.name \in {"Value", "value"})
    IN own(NodeOf(p)) \o FlattenSeq([i \in DOMAIN values |-> own(values[i])])

\* The skeleton, the namespaces and the places the protocol asks for.
Conforms ==
    /\ \A p \in NodePlaces(document) : ~NodeOf(p).flaw /\ NodeOf(p).is \notin {"doctype", "unknown reference"}
    /\ NodeOf(<<>>).name = "Envelope" => \E p \in ElementsNamed("Body") : Len(p) = 1
    /\ \A p \in Elements :
          LET name == NodeOf(p).name
          IN /\ name = "Envelope" => p = <<>> /\ Bound(p, "soap")
             /\ name \in {"Body", "Header"} /\ Bound(p, "soap") =>
                   ChildOf(p, "Envelope", "soap") /\ \A q \in ElementsNamed(name) : Front(q) = Front(p) => ~Before(q, p)
             /\ name \in {"BeginSession", "EndSession"} => ~ChildOf(p, "Body", "soap")
             /\ name \in Protocol \/ Beneath(p, "Restrictions") \/ ChildOf(p, "PropertyList", "xmla") => Bound(p, "xmla")
             /\ name = "Restrictions" => ChildOf(p, "Discover", "xmla") /\ ElementsNamed(name) = {p}
             /\ name = "RestrictionList" => ChildOf(p, "Restrictions", "xmla") /\ ElementsNamed(name) = {p}
             /\ ChildOf(p, "Restrictions", "xmla") => name = "RestrictionList"
             /\ Beneath(p, "PropertyName") /\ HasEnd(p) => name \in {"Value", "value"}

\* The last text of that name that is not blank, or none.
LastTexts(name) ==
    LET at == {p \in ElementsNamed(name) : TextOf(p) # <<>> /\ ~Beneath(p, "Restrictions")}
    IN {TextOf(p) : p \in {q \in at : \A r \in at : ~Before(q, r)}}
TextOrNone(name) == IF LastTexts(name) = {} THEN {<<>>} ELSE LastTexts(name)
FirstNames(at) == {NodeOf(p).name : p \in {q \in at : \A r \in at : ~Before(r, q)}}
Restricting ==
    {p \in Elements : Beneath(p, "RestrictionList") /\ ~Beneath(p, "PropertyName") /\ ~(NodeOf(p).name = "BeginSession" /\ HasEnd(p))}
\* Names that are advertised and never looked at, and texts that restrict nothing.
Ignored ==
    {"SCHEMA_NAME", "CUBE_SOURCE", "BASE_CUBE_NAME", "TABLE_CATALOG", "TABLE_SCHEMA", "TABLE_NAME", "TABLE_TYPE", "TABLE_OLAP_TYPE",
     "HIERARCHY_ORIGIN", "LEVEL_ORIGIN", "LEVEL_NUMBER", "MEMBER_NAME", "MEMBER_CAPTION", "SCOPE", "PROPERTY_ORIGIN",
     "PROPERTY_CONTENT_TYPE", "LIBRARY_NAME", "INTERFACE_NAME", "FUNCTION_NAME", "ID", "TableID", "HierarchyID"}
Restricts(p, type) ==
    LET name == NodeOf(p).name
    IN /\ name \notin Ignored /\ (name = "MEMBER_UNIQUE_NAME" => type = "MDSCHEMA_MEMBERS")
       /\ TextOf(p) = <<>> => HasEnd(p) /\ name \in {"CATALOG_NAME", "CUBE_NAME"}
       /\ name \in ByNumber \union {"TREE_OP", "PROPERTY_TYPE"} => TextOf(p) \in NumberText

\* A request is refused as malformed if and only if it could not be read to its end
\* or does not conform, however it is spelled.  Otherwise nothing it says is lost,
\* and nothing carried that it does not say: a Discover is of the type named and
\* carries every restriction that restricts, or the first its rowset does not
\* advertise is named in the refusal; an Execute has the whole statement, and the
\* catalog, format and content of its properties.  The session is that of the
\* first session element under the SOAP header.  Self-closed, an empty scope is
\* not carried and a BeginSession not noticed; a restriction of that name is none,
\* and a header with another Header in it is not promised its session.
RequestsAreReadWhole ==
    \A a \in understood :
       LET request == a.request
           types == LastTexts("RequestType")
           type == IF \E t \in types : Len(t) = 1 THEN (CHOOSE t \in types : TRUE)[1] ELSE "other"
           said == {<<NodeOf(p).name, TextOf(p)>> : p \in {q \in Restricting : Restricts(q, type)}}
           strange == {p \in Restricting : ~advertises(type, NodeOf(p).name)}
           begins == {p \in ElementsNamed("BeginSession") : HasEnd(p)}
           statement == FoldLeft(LAMBDA text, p : text \o TextOf(p), <<>>, SetToSortSeq(ElementsNamed("Statement"), Before))
           header == {p \in Elements : NodeOf(p).name \in SessionElement /\ NodeOf(p).space = "xmla"
                                         /\ \E q \in Outer(p) : NodeOf(q).name = "Header" /\ NodeOf(q).space = "soap"}
           kept(name) == {<<name, t>> : t \in LastTexts(name)}
       IN IF broken \/ ~Conforms THEN request = MalformedRequest
          ELSE /\ types # {} /\ strange # {} => request.is = "unsupported" /\ {request.type} = FirstNames(strange)
               /\ type \in DOMAIN Advertised /\ strange = {} =>
                     /\ request.is = "discover" /\ request.type = type /\ request.carries \subseteq said
                     /\ type \notin CarryNothing => {x[1] : x \in request.carries} = {x[1] : x \in said}
                     /\ type \notin CarryNothing \union {"DISCOVER_SCHEMA_ROWSETS"} => {request.catalog} = TextOrNone("Catalog")
               /\ types = {} /\ ElementsNamed("Execute") # {} =>
                     IF statement # <<>>
                     THEN /\ request.is = "execute" /\ {request.catalog} = TextOrNone("Catalog")
                          /\ request.carries = {<<"Statement", statement>>} \union kept("Format") \union kept("Content")
                     ELSE request.is = IF begins # {} THEN "begin" ELSE "empty"
               /\ (\A p \in ElementsNamed("Header") : ~Beneath(p, "Header")) => a.session = FirstNames(header)
=============================================================================
