------------------------------- MODULE Discover -------------------------------
(* A client asks for metadata: the member rowset, which is streamed in chunks  *)
(* (get_members_response_body, MemberRowset), or the others, all with the same *)
(* restrictions.                                                              *)
EXTENDS Rowsets

CONSTANTS
    Caller,         \* users, as resolve_user_context gives them
    MemberRequest,  \* [restrictions, member, treeOp, catalog, inScope]
    Restriction,    \* of the other rowsets
    ChunkRows,      \* STREAM_CHUNK_ROWS
    MaxMembers      \* the configured limit on members in a response

ASSUME ChunkAssumption == ChunkRows \in Nat \ {0}

VARIABLES
    phase,     \* of the request
    caller,
    request,
    stream,    \* the rows to send
    sent,      \* next_row: how many of them were sent
    received,  \* the chunks the client has
    heard      \* the other rowsets

discoverVars == <<phase, caller, request, stream, sent, received, heard>>

DiscoverInit ==
    /\ phase = "idle" /\ caller \in Caller /\ request = {}
    /\ stream = <<>> /\ sent = 0 /\ received = <<>> /\ heard = {}

MayRead(u) == effective_model_permission(u) # "none"

\* What is refused, or failed, before any row is chosen.
Denied(u, q) == ~MayRead(u) \/ q.catalog = "foreign"
Chosen(u, q) == SelectedRows(IF q.inScope THEN MemberRows(u, q.restrictions) ELSE <<>>, q)

\* The rowset is chosen as a whole before the first byte of it is sent.
AskMembers(q, failed) ==
    /\ phase = "idle"
    /\ LET rows == Chosen(caller, q)
           faulty == Denied(caller, q) \/ (failed /\ q.inScope) \/ Len(rows) > MaxMembers
       IN /\ phase' = IF faulty THEN "fault" ELSE "streaming"
          /\ stream' = IF faulty THEN <<>> ELSE rows
    /\ request' = q
    /\ UNCHANGED <<caller, sent, received, heard>>

\* poll_next: the envelope opens with the first row and closes after the last.
Poll ==
    LET end == IF sent + ChunkRows < Len(stream) THEN sent + ChunkRows ELSE Len(stream)
        last == end >= Len(stream)
    IN /\ phase = "streaming"
       /\ received' = Append(received, [open |-> sent = 0, rows |-> SubSeq(stream, sent + 1, end), close |-> last])
       /\ sent' = end
       /\ phase' = IF last THEN "received" ELSE "streaming"
       /\ UNCHANGED <<caller, request, stream, heard>>

\* The other rowsets are refused where the model is, and where a visibility is negative.
Browse(r) ==
    /\ phase = "idle"
    /\ request' = r
    /\ IF ~MayRead(caller) \/ OutOfRange(r) THEN phase' = "fault" /\ UNCHANGED heard
       ELSE /\ phase' = "told"
            /\ heard' = [dimensions |-> DimensionsRowset(caller, r), hierarchies |-> HierarchiesRowset(caller, r),
                         levels |-> LevelsRowset(caller, r), properties |-> PropertiesRowset(caller, r),
                         measures |-> MeasuresRowset(caller, r), groups |-> MeasureGroups(caller, r),
                         groupDimensions |-> MeasureGroupDimensions(caller, r),
                         tables |-> VisibleTables(caller), relationships |-> RelationshipsRowset(caller),
                         members |-> MemberRows(caller, r)]
    /\ UNCHANGED <<caller, stream, sent, received>>

DiscoverNext ==
    \/ \E q \in MemberRequest, failed \in BOOLEAN : AskMembers(q, failed)
    \/ Poll
    \/ \E r \in Restriction : Browse(r)

DiscoverSpec == DiscoverInit /\ [][DiscoverNext]_discoverVars

------------------------------------------------------------------------------
(* The tree a hierarchy is: a member is what its rows have at each level down  *)
(* to its own.                                                                *)

Depths(d, h) == 1..Cardinality(LevelsOf(d, h)) - 1
Node(h, path) == [hierarchy |-> h, path |-> path]
Trail(d, h, row, i) == IF h = UserHierarchy(d) THEN SubSeq(row, 1, i) ELSE <<Last(row)>>
Nodes(d, h) ==
    {Node(h, <<>>)} \union {Node(h, Trail(d, h, row, i)) : row \in RowsFor(caller, d), i \in Depths(d, h)}
NodeName(d, n) ==
    LET key == FlattenSeq(n.path)
    IN MemberName(n.hierarchy, IF n.path = <<>> THEN <<>>
                               ELSE IF n.hierarchy = UserHierarchy(d) THEN Named(d, key) ELSE <<Stamp[Last(key)]>>)
NodeLevel(d, n) ==
    CASE n.path = <<>> -> AllLevel(n.hierarchy)
      [] n.path # <<>> /\ d.levels = <<>> -> Append(n.hierarchy, d.leaf)
      [] OTHER -> Append(n.hierarchy, IF n.hierarchy = UserHierarchy(d) THEN d.levels[Len(n.path)] ELSE Last(d.levels))
IsParent(p, n) == n.path # <<>> /\ p.path = Front(n.path)
Kin(flag, a, n) ==
    CASE flag = "self" -> n = a
      [] flag = "parent" -> IsParent(n, a)
      [] flag = "siblings" -> n # a /\ a.path # <<>> /\ IsParent(Node(a.hierarchy, Front(a.path)), n)
      [] flag = "children" -> IsParent(a, n)
      [] flag = "descendants" -> IsStrictPrefix(a.path, n.path)
      [] flag = "ancestors" -> IsStrictPrefix(n.path, a.path)
Admits(r, d, n) ==
    /\ coordinates_match(r, d.name, {n.hierarchy}, {NodeLevel(d, n)})
    /\ r.type \subseteq {IF n.path = <<>> THEN 2 ELSE 1}
\* The members a request asks of a hierarchy; the one it starts from has to be asked for too.
Wanted(q, d, h) ==
    LET admitted == {n \in Nodes(d, h) : Admits(q.restrictions, d, n)}
        anchors == {n \in admitted : NodeName(d, n) \in q.member}
    IN CASE ~q.inScope \/ ~table_visible(caller, d.table) -> {}
         [] q.inScope /\ table_visible(caller, d.table) /\ q.member = {} -> admitted
         [] OTHER -> IF q.treeOp \in {{}, {{}}} THEN anchors
                     ELSE {n \in admitted : \E a \in anchors, flag \in UNION q.treeOp : Kin(flag, a, n)}

(* Departures: the links between members are names, so a key with a separator  *)
(* in it, a date above the leaf (named with a time of day, but not where it is *)
(* a parent), or a day under two months breaks them.                          *)
SplitKeys(d) == \E row \in DimRow[d.name] : \E i \in DOMAIN row : Len(row[i]) > 1
DateAbove(d) == d.date /\ \E row \in DimRow[d.name] : \E i \in 1..Len(row) - 1 : Last(row[i]) \in IsoDate
SharedDays(d) == \E a, b \in DimRow[d.name] : Last(a) = Last(b) /\ a # b
Tangled(d) == SplitKeys(d) \/ DateAbove(d) \/ SharedDays(d)
\* The days' (All) is only listed with the days.
AllOfDaysLost(q, d, h) == h # UserHierarchy(d) /\ q.restrictions.level # {}

\* The client gets one envelope, opened by the first chunk and closed by the last, and in it
\* exactly the members the request asks for, level by level in their order and none twice:
\* chunks, restrictions, name links and the bits of TREE_OP lose and repeat nothing. Days of
\* a second hierarchy are in the order of the first one's leaves, not in their own.
ClientReceivesTheTree ==
    phase = "received" =>
      LET rows == FlattenSeq([i \in DOMAIN received |-> received[i].rows])
          of(h) == SelectSeq(rows, LAMBDA row : row.hierarchy = h)
      IN /\ \A i \in DOMAIN received : /\ received[i].open <=> i = 1
                                       /\ received[i].close <=> i = Len(received)
         /\ \A d \in {e \in ToSet(Dims) : ~Tangled(e)} : \A h \in HierarchiesOf(d) :
               AllOfDaysLost(request, d, h)
               \/ /\ {row.name : row \in ToSet(of(h))} = {NodeName(d, n) : n \in Wanted(request, d, h)}
                  /\ \A i, j \in DOMAIN of(h) : i < j =>
                        \/ of(h)[i].number < of(h)[j].number
                        \/ /\ of(h)[i].number = of(h)[j].number
                           /\ \/ Before(of(h)[i].name.keys, of(h)[j].name.keys)
                              \/ h # UserHierarchy(d) /\ of(h)[i].name # of(h)[j].name

\* CHILDREN_CARDINALITY is the number of members the same user is listed below the member. The
\* days' (All) has the model's figure unless a role filters the table.
CountsAreChildren ==
    phase = "told" /\ request.level = {} /\ request.type = {} =>
      \A d \in {e \in ToSet(Dims) : ~Tangled(e)} : \A row \in ToSet(heard.members) :
         row.hierarchy \in HierarchiesOf(d) =>
           \/ row.children = Cardinality({i \in DOMAIN heard.members : heard.members[i].parent = {row.name}})
           \/ row.number = 0 /\ row.hierarchy # UserHierarchy(d) /\ row.children = d.keyHint

Unrestricted(r) == r.dim = {} /\ r.hier = {} /\ r.level = {}
\* The rowsets tell one story: the levels, properties and members of the hierarchies that are
\* listed, with the defaults among the members, and as many below each as it says; the groups
\* of the measures; relationships between tables that are listed; and of a table that is hidden, nothing anywhere. MEMBERS
\* does not look at visibility, and a measure's own group is not the one that is listed.
RowsetsAgree ==
    /\ CountsAreChildren
    /\ phase = "told" =>
         LET r == request
             hierarchies == {x.hierarchy : x \in heard.hierarchies}
             listed == {x.dim : x \in heard.dimensions}
             membersOf(h) == {row \in ToSet(heard.members) : row.hierarchy = h}
             hidden == {d.name : d \in {e \in ToSet(Dims) : ~table_visible(caller, e.table)}}
             spoken == listed \union {h[1] : h \in hierarchies} \union {x.hierarchy[1] : x \in heard.levels \union heard.properties}
                         \union {row.hierarchy[1] : row \in ToSet(heard.members)} \union {x[2] : x \in heard.groupDimensions}
         IN /\ {x.hierarchy : x \in heard.levels} \subseteq hierarchies \/ r.level # {}
            /\ r.level = {} => hierarchies = {x.hierarchy : x \in heard.levels}
            /\ {h[1] : h \in hierarchies} \subseteq listed
            /\ Unrestricted(r) => {h[1] : h \in hierarchies} = listed
            /\ r.property \in {{}, {5}} /\ (r.exact \/ Unrestricted(r)) => heard.properties = heard.levels
            /\ \A x \in heard.hierarchies : r.level = {} /\ r.type = {} =>
                  \/ x.default \in {row.name : row \in membersOf(x.hierarchy)}
                  \/ x.hierarchy = MeasuresHierarchy /\ ~table_visible(caller, Facts[Measures[1].fact].table)
            /\ \A row \in ToSet(heard.members) :
                  [hierarchy |-> row.hierarchy, level |-> row.level] \in heard.levels \/ r.visibility # {}
                  \/ \E d \in ToSet(Dims) : d.name = row.hierarchy[1] /\ ~d.visible
            /\ \A x \in heard.measures : x.group \in heard.groups
                  \/ \E m \in ToSet(Measures) : m.name = x.name /\ m.group # Facts[m.fact].group
            /\ {x[2] : x \in heard.groupDimensions} \ {"Measures"} = IF heard.groups = {} THEN {} ELSE listed \ {"Measures"}
            /\ \A x \in heard.relationships : {x.table, Facts[x.fact].table} \subseteq heard.tables
            /\ spoken \intersect hidden = {}
            /\ \A x \in heard.measures \union {[name |-> Last(row.name.keys)] : row \in membersOf(MeasuresHierarchy)} :
                  \A m \in ToSet(Measures) : m.name = x.name => table_visible(caller, Facts[m.fact].table)
=============================================================================
