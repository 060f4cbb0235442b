------------------------------- MODULE Rowsets -------------------------------
(* The metadata rowsets of xmla/discover: what a user is told of the model.   *)
(* A unique name is what it spells: <<dim, hierarchy>>, <<dim, hierarchy,      *)
(* level>>, or for a member its hierarchy and the parts of its key, none for   *)
(* (All). A key is a sequence of parts, because the code splits it at '|'; a   *)
(* part is a number that sorts as its text does. A restriction is the set of   *)
(* the one value it asks for, or {} where the request has none.                *)
EXTENDS Integers, FiniteSets, Sequences, SequencesExt, Roles

CONSTANTS
    Dims,            \* the dimensions in the model's order: [name, visible, hierarchy, levels,
                     \* leaf, date, table, keyHint]
    DimRow,          \* of a dimension's name: its table's rows, each a key per level
    Facts,           \* the fact tables in order: [table, group]
    Measures,        \* the measures in order: [name, fact, group, visible]
    Relationships,   \* [fact, table]: a fact table and the dimension table it joins
    IsoDate, Stamp   \* the parts that are dates, and what date_member_key makes of a part

\* coordinates_match; names are compared without regard to case.
coordinates_match(r, dim, hier, level) ==
    r.dim \subseteq {dim} /\ r.hier \subseteq hier /\ r.level \subseteq level

table_visible(u, table) == effective_table_filter(u, table).kind # "hidden"
measures_visible(u) == \E ft \in ToSet(Facts) : table_visible(u, ft.table)

\* visibility, visibility_selects: the bits for visible and for hidden objects.
OutOfRange(r) == \E v \in r.visibility : v < 0
Selects(r, visible) ==
    IF r.visibility = {} THEN visible
    ELSE \A v \in r.visibility : IF visible THEN v % 2 = 1 ELSE (v \div 2) % 2 = 1

\* Mutant: the rowsets that list a dimension ask for its visibility only.
ListedWhateverTheRole(u, r, d) == Selects(r, d.visible)

\* The dimensions a rowset goes on to list.
Listed(u, r, d) == Selects(r, d.visible) /\ table_visible(u, d.table)

------------------------------------------------------------------------------
(* Hierarchies and levels. A date dimension with levels has a second           *)
(* hierarchy, of its days alone (key_hierarchy_name).                          *)

UserHierarchy(d) == <<d.name, d.hierarchy>>
KeyHierarchy(d) ==
    IF d.date /\ d.levels # <<>> /\ d.hierarchy # Last(d.levels)
    THEN {<<d.name, Last(d.levels)>>} ELSE {}
HierarchiesOf(d) == {UserHierarchy(d)} \union KeyHierarchy(d)
AllLevel(h) == Append(h, "(All)")
LevelsOf(d, h) ==
    {AllLevel(h)} \union
    {Append(h, l) : l \in IF h # UserHierarchy(d) THEN {Last(d.levels)}
                          ELSE IF d.levels = <<>> THEN {d.leaf} ELSE ToSet(d.levels)}

MeasuresHierarchy == <<"Measures", "Measures">>
MeasuresLevel == <<"Measures", "Measures", "MeasuresLevel">>

MemberName(h, keys) == [hierarchy |-> h, keys |-> keys]

DimensionsRowset(u, r) ==
    {[dim |-> d.name, default |-> UserHierarchy(d)] : d \in {e \in ToSet(Dims) : Listed(u, r, e)}}
      \union {[dim |-> "Measures", default |-> MeasuresHierarchy] :
                 m \in {1} \intersect IF measures_visible(u) /\ Selects(r, TRUE) THEN {1} ELSE {}}

\* DEFAULT_MEMBER of a hierarchy is its (All), of [Measures] the model's first measure.
HierarchiesRowset(u, r) ==
    UNION {{[hierarchy |-> h, default |-> MemberName(h, <<>>)] :
               h \in {k \in HierarchiesOf(d) : coordinates_match(r, d.name, {k}, {})}} :
           d \in {e \in ToSet(Dims) : Listed(u, r, e)}}
      \union IF /\ measures_visible(u) /\ Selects(r, TRUE)
                /\ coordinates_match(r, "Measures", {MeasuresHierarchy}, {})
             THEN {[hierarchy |-> MeasuresHierarchy,
                    default |-> MemberName(MeasuresHierarchy, <<Measures[1].name>>)]}
             ELSE {}

LevelsRowset(u, r) ==
    UNION {UNION {{[hierarchy |-> h, level |-> l] :
                      l \in {k \in LevelsOf(d, h) : coordinates_match(r, d.name, {h}, {k})}} :
                  h \in HierarchiesOf(d)} :
           d \in {e \in ToSet(Dims) : Listed(u, r, e)}}
      \union IF /\ measures_visible(u) /\ Selects(r, TRUE)
                /\ coordinates_match(r, "Measures", {MeasuresHierarchy}, {MeasuresLevel})
             THEN {[hierarchy |-> MeasuresHierarchy, level |-> MeasuresLevel]} ELSE {}

\* matches_restrictions: this rowset compares names exactly.
matches_restrictions(r, dim, hier, level) ==
    /\ coordinates_match(r, dim, {hier}, {level})
    /\ r.exact \/ r.dim \union r.hier \union r.level = {}

\* member_value_targets, hierarchy_property_rows, member_value_rows: the levels a property
\* row is emitted for. Type 2 asks for cell properties, the other types have no rows.
PropertiesRowset(u, r) ==
    IF r.property \notin {{}, {5}} THEN {}
    ELSE UNION {UNION {{[hierarchy |-> h, level |-> l] :
                           l \in {k \in LevelsOf(d, h) : matches_restrictions(r, d.name, h, k)}} :
                       h \in HierarchiesOf(d)} :
                d \in {e \in ToSet(Dims) : Listed(u, r, e)}}
           \union IF /\ measures_visible(u) /\ Selects(r, TRUE)
                     /\ matches_restrictions(r, "Measures", MeasuresHierarchy, MeasuresLevel)
                  THEN {[hierarchy |-> MeasuresHierarchy, level |-> MeasuresLevel]} ELSE {}

------------------------------------------------------------------------------
(* Measures, groups and tables.                                               *)

MeasuresRowset(u, r) ==
    {[name |-> m.name, group |-> m.group] :
        m \in {n \in ToSet(Measures) :
                 /\ Selects(r, n.visible)
                 /\ r.group \subseteq {Facts[n.fact].group}
                 /\ table_visible(u, Facts[n.fact].table)}}

MeasureGroups(u, r) ==
    {ft.group : ft \in {f \in ToSet(Facts) : r.group \subseteq {f.group} /\ table_visible(u, f.table)}}

\* Every listed dimension for every group, whether the two are related or not.
MeasureGroupDimensions(u, r) ==
    {pair \in MeasureGroups(u, r) \X ({"Measures"} \union {d.name : d \in {e \in ToSet(Dims) : Listed(u, r, e)}}) :
        Selects(r, TRUE) \/ Selects(r, FALSE)}

\* visible_tables, and the tables of DBSCHEMA_TABLES.
VisibleTables(u) ==
    {t \in {ft.table : ft \in ToSet(Facts)} \union {d.table : d \in ToSet(Dims)} : table_visible(u, t)}
\* get_tmschema_relationships_response: only between tables that are listed.
RelationshipsRowset(u) ==
    {rel \in Relationships : Facts[rel.fact].table \in VisibleTables(u) /\ rel.table \in VisibleTables(u)}

------------------------------------------------------------------------------
(* MDSCHEMA_MEMBERS: rows in order.                                           *)

Before(s, t) ==
    \E i \in 1..Len(t) : /\ \A j \in 1..(i - 1) : j <= Len(s) /\ s[j] = t[j]
                         /\ i > Len(s) \/ s[i] < t[i]

\* The rows of a dimension's table a user may read.
RowsFor(u, d) ==
    LET access == effective_table_filter(u, d.table)
    IN IF access.kind = "filtered"
       THEN LET clause == CombinedClause(access.texts)
            IN {row \in DimRow[d.name] :
                  ClauseHolds(clause, {atom \in ClauseAtoms(clause) : row[atom.col] \in atom.vals})}
       ELSE DimRow[d.name]

\* query_level_paths, query_leaf_values: the distinct texts of a level, sorted, in their parts.
Paths(u, d, i) == SetToSortSeq({FlattenSeq(SubSeq(row, 1, i)) : row \in RowsFor(u, d)}, Before)

MemberRow(h, level, number, ordinal, keys, parent, type, children) ==
    [level |-> level, hierarchy |-> h, number |-> number, ordinal |-> ordinal,
     name |-> MemberName(h, keys), parent |-> parent, type |-> type, children |-> children]
AllRow(h, children) == MemberRow(h, AllLevel(h), 0, 0, <<>>, {}, 2, children)

build_all_member_rows(u, r, d) ==
    LET h == UserHierarchy(d)
    IN IF coordinates_match(r, d.name, {h}, {AllLevel(h)}) /\ table_visible(u, d.table)
       THEN << AllRow(h, Cardinality({row[1] : row \in RowsFor(u, d)})) >> ELSE <<>>

\* A date of a date role is named with a time of day.
Named(d, path) ==
    IF d.date /\ Last(path) \in IsoDate THEN [path EXCEPT ![Len(path)] = Stamp[@]] ELSE path

\* Mutant: the child count of a level is that of the level above.
ChildCountOneUp(u, d, i, path) ==
    IF i = Len(d.levels) THEN 0
    ELSE Cardinality({j \in DOMAIN Paths(u, d, i) : SubSeq(Paths(u, d, i)[j], 1, i) = path})

\* The distinct paths of the next level that begin with this one.
ChildCount(u, d, i, path) ==
    IF i = Len(d.levels) THEN 0
    ELSE LET below == Paths(u, d, i + 1)
         IN Cardinality({j \in DOMAIN below : SubSeq(below[j], 1, i) = path})

\* Ordinals count the rows that are emitted, over the levels the request asks for.
build_level_member_rows(u, r, d) ==
    LET h == UserHierarchy(d)
        asked == {i \in 1..Len(d.levels) : coordinates_match(r, d.name, {h}, {Append(h, d.levels[i])})}
        Count(S) == FoldSet(LAMBDA i, n : n + Len(Paths(u, d, i)), 0, S)
        RowsAt(i) ==
            LET paths == Paths(u, d, i)
            IN [j \in DOMAIN paths |->
                  MemberRow(h, Append(h, d.levels[i]), i, Count({k \in asked : k < i}) + j,
                            Named(d, paths[j]), {MemberName(h, SubSeq(paths[j], 1, i - 1))}, 1,
                            ChildCount(u, d, i, paths[j]))]
    IN IF ~table_visible(u, d.table) THEN <<>>
       ELSE FlattenSeq([i \in 1..Len(d.levels) |-> IF i \in asked THEN RowsAt(i) ELSE <<>>])

build_leaf_member_rows(u, r, d) ==
    LET h == UserHierarchy(d)
        values == Paths(u, d, 1)
    IN IF \/ d.levels # <<>> \/ ~table_visible(u, d.table)
          \/ ~coordinates_match(r, d.name, {h}, {Append(h, d.leaf)})
       THEN <<>>
       ELSE [j \in DOMAIN values |-> MemberRow(h, Append(h, d.leaf), 1, j, values[j], {MemberName(h, <<>>)}, 1, 0)]

\* (All) and the days; its child count is the model's figure unless a role filter counts.
build_key_member_rows(u, r, d) ==
    LET h == CHOOSE k \in KeyHierarchy(d) : TRUE
        level == Append(h, Last(d.levels))
        leaves == Paths(u, d, Len(d.levels))
        filtered == effective_table_filter(u, d.table).kind = "filtered"
    IN IF \/ KeyHierarchy(d) = {} \/ ~table_visible(u, d.table)
          \/ ~coordinates_match(r, d.name, {h}, {level})
       THEN <<>>
       ELSE << AllRow(h, IF filtered THEN Len(leaves) ELSE d.keyHint) >>
            \o [j \in DOMAIN leaves |->
                  MemberRow(h, level, 1, j, << Stamp[Last(leaves[j])] >>, {MemberName(h, <<>>)}, 1, 0)]

build_measure_member_rows(u, r) ==
    LET seen == SelectSeq(Measures, LAMBDA m : table_visible(u, Facts[m.fact].table))
    IN IF coordinates_match(r, "Measures", {MeasuresHierarchy}, {MeasuresLevel})
       THEN [j \in DOMAIN seen |-> MemberRow(MeasuresHierarchy, MeasuresLevel, 0, j, << seen[j].name >>, {}, 4, 0)]
       ELSE <<>>

\* all_rows_with_backend, narrowed by row_matches.
MemberRows(u, r) ==
    LET each(build(_, _, _)) == FlattenSeq([i \in DOMAIN Dims |-> build(u, r, Dims[i])])
        rows == each(build_all_member_rows) \o each(build_level_member_rows)
                  \o each(build_leaf_member_rows) \o each(build_key_member_rows)
                  \o build_measure_member_rows(u, r)
    IN SelectSeq(rows, LAMBDA row : /\ r.type \subseteq {row.type}
                                    /\ coordinates_match(r, row.hierarchy[1], {row.hierarchy}, {row.level}))

------------------------------------------------------------------------------
(* TREE_OP.                                                                   *)

\* find_member_index: the first row of that name, if there is one.
find_member_index(rows, name) ==
    LET named == {i \in DOMAIN rows : rows[i].name = name}
    IN {i \in named : \A j \in named : i <= j}
\* find_children_indices
find_children_indices(rows, parent) == {i \in DOMAIN rows : rows[i].parent = {parent}}
ParentIndex(rows, i) == UNION {find_member_index(rows, p) : p \in rows[i].parent}

RECURSIVE AncestorIndices(_, _)
AncestorIndices(rows, i) ==
    LET up == ParentIndex(rows, i) IN up \union UNION {AncestorIndices(rows, j) : j \in up}

\* Breadth first over the child links; what was reached is not walked again.
RECURSIVE Reached(_, _, _)
Reached(rows, frontier, visited) ==
    LET kids == (UNION {find_children_indices(rows, rows[i].name) : i \in frontier}) \ visited
    IN IF kids = {} THEN {} ELSE kids \union Reached(rows, kids, visited \union kids)

\* Mutant: the siblings of a member include the member.
RelativesAndSelf(rows, i, flag) ==
    CASE flag = "self" -> {i}
      [] flag = "parent" -> ParentIndex(rows, i)
      [] flag = "siblings" -> UNION {find_children_indices(rows, p) : p \in rows[i].parent}
      [] flag = "children" -> find_children_indices(rows, rows[i].name)
      [] flag = "descendants" -> Reached(rows, {i}, {i})
      [] flag = "ancestors" -> AncestorIndices(rows, i)

\* One bit of TREE_OP.
Relatives(rows, i, flag) ==
    CASE flag = "self" -> {i}
      [] flag = "parent" -> ParentIndex(rows, i)
      [] flag = "siblings" -> (UNION {find_children_indices(rows, p) : p \in rows[i].parent}) \ {i}
      [] flag = "children" -> find_children_indices(rows, rows[i].name)
      [] flag = "descendants" -> Reached(rows, {i}, {i})
      [] flag = "ancestors" -> AncestorIndices(rows, i)

\* The rows a member filter and a TREE_OP (the set of its bits, or none) leave, in order.
SelectedRows(rows, q) ==
    LET anchors == UNION {find_member_index(rows, name) : name \in q.member}
        kept == CASE q.member = {} -> DOMAIN rows
                  [] q.member # {} /\ q.treeOp \in {{}, {{}}} -> anchors
                  [] OTHER -> UNION {UNION {Relatives(rows, i, flag) : flag \in UNION q.treeOp} : i \in anchors}
    IN [j \in 1..Cardinality(kept) |-> rows[CHOOSE i \in kept : Cardinality({k \in kept : k < i}) = j - 1]]
=============================================================================
