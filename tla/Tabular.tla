-------------------------------- MODULE Tabular --------------------------------
(* A Tabular model as mallard convert-tabular reads it (tools/parse_bim.rs,     *)
(* parse_folder.rs, parse_tmdl.rs, tabular_model.rs).  An export is             *)
(* [format, tables, relationships, roles, sources]; a name is one of Alphabet,  *)
(* its spellings are given by Lower and Ident, a DAX expression is reduced to   *)
(* the form classify_dax and the lowering tell apart.                           *)
EXTENDS Naturals, Sequences, SequencesExt, FiniteSets, TLC

CONSTANTS
    Alphabet,    \* the names of the exports, sorted
    Lower,       \* name -> its lower case (to_lowercase)
    Bare,        \* name -> that without spaces
    Ident        \* name -> its SQL identifier (normalize_ident)

Rank(name) == CHOOSE i \in DOMAIN Alphabet : Alphabet[i] = name
\* sort_by and sort_by_key: stable.
SortedBy(Key(_), s) ==
    LET before(i, j) == Key(s[i]) < Key(s[j]) \/ (Key(s[i]) = Key(s[j]) /\ i < j)
        order == SetToSortSeq(DOMAIN s, before)
    IN [i \in DOMAIN s |-> s[order[i]]]
ByName(s) == SortedBy(LAMBDA x : Rank(x.name), s)

Either(first, second) == IF first # {} THEN first ELSE second
One(option) == CHOOSE x \in option : TRUE

\* The files of a directory come in any order, the entries of a file in theirs.
Listings(formats, export, s) ==
    IF export.format \in formats THEN {[i \in DOMAIN s |-> s[p[i]]] : p \in Permutations(DOMAIN s)} ELSE {s}

------------------------------------------------------------------------------
\* A level without a column is skipped, one without a name takes its column's,
\* one without an ordinal the place it is listed at.
parse_hierarchy_levels(listed) ==
    LET add(levels, l) ==
          IF l.column = "" THEN levels
          ELSE Append(levels, [name |-> IF l.name = "" THEN l.column ELSE l.name, column |-> l.column,
                               part |-> l.part,
                               ordinal |-> IF l.ordinal = {} THEN Len(levels) ELSE One(l.ordinal)])
    IN SortedBy(LAMBDA l : l.ordinal, FoldLeft(add, <<>>, listed))

\* Hierarchies stay as listed, but a folder's are sorted by their name.
parse_hierarchies(export, t) ==
    LET of(h) == [h EXCEPT !.levels = parse_hierarchy_levels(@)]
        all == [i \in DOMAIN t.hierarchies |-> of(t.hierarchies[i])]
    IN IF export.format = "folder" THEN ByName(all) ELSE all

\* The kind of measure a DAX expression makes, by its form.
classify_dax ==
    [constant |-> "simple", aggregate |-> "simple", compound |-> "simple", rows |-> "simple", filtered |-> "simple",
     divide |-> "simple", to_date |-> "time", prior_year |-> "time", running |-> "sql_fallback",
     iterated |-> "sql_fallback", median |-> "sql_fallback", difference |-> "sql_fallback",
     datatable |-> "calculated_table", lookup |-> "manual", other |-> "manual"]
parse_measures(t) ==
    ByName([i \in DOMAIN t.measures |->
              [name |-> t.measures[i].name, dax |-> t.measures[i].dax, class |-> classify_dax[t.measures[i].dax.form]]])

\* Only a BIM file and a folder say which data source a partition reads.
parse_partition(export, p) == IF export.format = "tmdl" THEN [p EXCEPT !.source = {}] ELSE p
parse_columns(t) ==
    ByName([i \in DOMAIN t.columns |->
              [t.columns[i] EXCEPT !.source = IF @ = "" THEN t.columns[i].name ELSE @]])
parse_tables(export) ==
    LET table(t, partitions) ==
          [t EXCEPT !.title = IF export.format = "folder" THEN @ ELSE t.name, !.columns = parse_columns(t), !.measures = parse_measures(t),
                    !.hierarchies = parse_hierarchies(export, t),
                    !.partitions = [i \in DOMAIN partitions |-> parse_partition(export, partitions[i])]]
        read == [i \in DOMAIN export.tables |-> {table(export.tables[i], l) : l \in Listings({"folder"}, export, export.tables[i].partitions)}]
    IN {ByName(s) : s \in {f \in [DOMAIN read -> UNION {read[i] : i \in DOMAIN read}] : \A i \in DOMAIN read : f[i] \in read[i]}}

\* Sorted by their tables only: two between the same tables stay as listed.
\* TMDL drops one that names no table.
parse_relationships(export) ==
    LET named == SelectSeq(export.relationships,
                           LAMBDA r : export.format # "tmdl" \/ (r.from_table # "" /\ r.to_table # ""))
        key(r) == Rank(r.from_table) * (Len(Alphabet) + 1) + Rank(r.to_table)
    IN {SortedBy(key, l) : l \in Listings({"folder"}, export, named)}

\* A DAX filter is kept beside an empty SQL filter.
parse_roles(export) ==
    {[i \in DOMAIN l |-> [name |-> l[i].name, table |-> l[i].table, filter |-> {}, dax_filter |-> l[i].filter]] :
       l \in Listings({"folder", "tmdl"}, export, export.roles)}
\* Only a folder has the data sources.
parse_data_sources(export) == IF export.format = "folder" THEN ByName(export.sources) ELSE <<>>

\* What the export may be read as.
parse_model(export) ==
    {[tables |-> t, relationships |-> r, roles |-> o, sources |-> parse_data_sources(export)] :
       t \in parse_tables(export), r \in parse_relationships(export), o \in parse_roles(export)}

------------------------------------------------------------------------------
\* The first element that satisfies a test, as an option.
FirstWhere(s, Test(_)) ==
    LET at == {i \in DOMAIN s : Test(s[i])} IN IF at = {} THEN {} ELSE {s[CHOOSE i \in at : \A j \in at : i <= j]}

\* A column by its name, else by its source column, else by either in lower case.
resolve_column(t, want) ==
    Either(FirstWhere(t.columns, LAMBDA c : c.name = want),
    Either(FirstWhere(t.columns, LAMBDA c : c.source = want),
            FirstWhere(t.columns, LAMBDA c : Lower[want] \in {Lower[c.name], Lower[c.source]})))
\* An aggregate is lowered from its text in capitals: only the last way finds one.
resolve_capitals(t, want) == FirstWhere(t.columns, LAMBDA c : Lower[want] \in {Lower[c.name], Lower[c.source]})
SqlName(found, want) == IF found = {} THEN Ident[want] ELSE Ident[One(found).source]
schema_column(t, want) == SqlName(resolve_column(t, want), want)

is_calculated(t) == \E i \in DOMAIN t.partitions : t.partitions[i].kind = "calculated"
is_calc_group(t) == \E i \in DOMAIN t.partitions : t.partitions[i].kind = "calculationGroup"
=============================================================================
