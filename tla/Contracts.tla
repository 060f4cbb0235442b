------------------------------ MODULE Contracts ------------------------------
(* The serving contract (tools/contract.rs): what a contract must declare to   *)
(* be accepted, and its projection to a configuration                          *)
(* (tools/contract_project.rs).  Findings are reduced to whether there is one. *)
(* Text is parsed elsewhere (YAML and its duplicate keys are not modelled): a  *)
(* contract is a record, an option a set of at most one value, "" blank.       *)
EXTENDS Configuration, SequencesExt

ValuesOf(s, field) == {x[field] : x \in ToSet(s)}
Distinct(s, field) == \A i, j \in DOMAIN s : s[i][field] = s[j][field] => i = j
NamedSome(option) == option \ {""}
The(option) == CHOOSE x \in option : TRUE
Among(s, id) == {x \in ToSet(s) : x.id = id}
OrElse(option, other) == IF option = {} THEN other ELSE The(option)
\* Iterator::find: the first such entry, if there is one.
Earliest(places) == {i \in places : \A j \in places : i <= j}
FirstWith(s, Is(_)) == {s[i] : i \in Earliest({k \in DOMAIN s : Is(s[k])})}

SupportedVersion == <<0, 1>>
check_version(v) == SubSeq(v, 1, 2) = SupportedVersion

------------------------------------------------------------------------------
(* consistency                                                                 *)

KeyDeclared(key) == key # <<>> /\ "" \notin ToSet(key)

GrainsConsistent(c) ==
    /\ c.grain # <<>> /\ Distinct(c.grain, "table")
    /\ \A g \in ToSet(c.grain) : KeyDeclared(g.key) /\ "" \notin g.id \union g.group

\* The dimensions on one table have one key; a calendar ends at its attribute.
DimensionsConsistent(c) ==
    /\ c.dimensions # <<>> /\ Distinct(c.dimensions, "id")
    /\ \A d \in ToSet(c.dimensions) :
          /\ "" \notin {d.id, d.table, d.attribute} /\ KeyDeclared(d.key)
          /\ \A e \in ToSet(c.dimensions) : e.table = d.table => e.key = d.key
          /\ Distinct(d.levels, "column")
          /\ \A l \in ToSet(d.levels) : l.name # "" /\ l.column # ""
          /\ d.date => d.levels # <<>> /\ Last(d.levels).column = d.attribute

RelationshipsConsistent(c) ==
    \A r \in ToSet(c.relationships) :
       /\ r.dimension \in ValuesOf(c.dimensions, "id") /\ r.fact \in ValuesOf(c.grain, "table")
       /\ Len(r.columns) = 2 /\ "" \notin ToSet(r.columns)
       /\ \A d \in Among(c.dimensions, r.dimension) : r.columns[2] \in ToSet(d.key)

FlagColumns(c) == UNION {{t.flags[w] : w \in DOMAIN t.flags} : t \in c.time}

\* A ratio needs an expression, everything but a count something to aggregate.
MeasureDeclared(m) ==
    /\ "" \notin m.expression \union m.column \union m.reference
    /\ m.aggregation = "ratio" => NamedSome(m.expression) # {}
    /\ m.aggregation \notin {"ratio", "count"} => NamedSome(m.expression \union m.column \union m.reference) # {}
    /\ m.aggregation = "time_window" => m.window # {}
\* A value per grain is an identity aggregate over a part of the fact's key.
GrainOfMeasure(c, m) ==
    \A columns \in m.validGrain :
       /\ columns # <<>> /\ m.aggregation \in {"min", "max"}
       /\ \A g \in ToSet(c.grain) : g.table = m.table => ToSet(columns) \subseteq ToSet(g.key)
\* A window is on the date dimension of the flag catalogue, by one of its flags.
WindowOfMeasure(c, m) ==
    \A w \in m.window :
       /\ \E t \in c.time : w.dimension = t.dimension
       /\ \E d \in Among(c.dimensions, w.dimension) : d.date
       /\ w.flag # "" /\ (FlagColumns(c) # {} => w.flag \in FlagColumns(c))

MeasuresConsistent(c) ==
    /\ c.measures # <<>> /\ Distinct(c.measures, "id")
    /\ \A m \in ToSet(c.measures) :
          /\ m.id # "" /\ m.table # "" /\ m.table \in ValuesOf(c.grain, "table")
          /\ MeasureDeclared(m) /\ GrainOfMeasure(c, m) /\ WindowOfMeasure(c, m)

TimeConsistent(c) ==
    \A t \in c.time :
       /\ \E d \in Among(c.dimensions, t.dimension) : d.date
       /\ DOMAIN t.flags # {} /\ "" \notin FlagColumns(c)

consistency(c) ==
    /\ c.name # "" /\ c.generator # "" /\ "" \notin ToSet(c.roles)
    /\ GrainsConsistent(c) /\ DimensionsConsistent(c) /\ RelationshipsConsistent(c)
    /\ MeasuresConsistent(c) /\ TimeConsistent(c)

Valid(c) == check_version(c.version) /\ consistency(c)

------------------------------------------------------------------------------
(* project                                                                     *)

fact_id(c, table) == OrElse(UNION {g.id : g \in FirstWith(c.grain, LAMBDA x : x.table = table)}, table)

Joins(c, d) == {r \in ToSet(c.relationships) : r.dimension = d.id /\ r.active}
DateOf(c) == UNION {Among(c.dimensions, t.dimension) : t \in c.time}

\* Mutant: two facts may join a dimension on different columns.
ExpressibleDisagreeing(c) ==
    /\ \A r \in ToSet(c.relationships) : r.active
    /\ \A d \in ToSet(c.dimensions) :
          /\ Joins(c, d) # {}
          /\ d.date => \A date \in DateOf(c) : d.table = date.table /\ d.attribute = date.attribute
    /\ \A date \in DateOf(c) : Len(date.key) = 1

\* What a configuration cannot express is refused: the engine joins a dimension
\* through its first relationship, and knows one date table and full-date column.
Expressible(c) ==
    /\ \A r \in ToSet(c.relationships) : r.active
    /\ \A d \in ToSet(c.dimensions) :
          /\ Joins(c, d) # {}
          /\ \A r, s \in Joins(c, d) : r.columns = s.columns
          /\ d.date => \A date \in DateOf(c) : d.table = date.table /\ d.attribute = date.attribute
    /\ \A date \in DateOf(c) : Len(date.key) = 1

Term(f, column) == [f |-> f, column |-> column]
\* The declared expression, or the aggregation of the declared column; {} is refused.
measure_sql(m) ==
    CASE NamedSome(m.expression) # {} -> {Term("verbatim", The(NamedSome(m.expression)))}
      [] NamedSome(m.expression) = {} /\ NamedSome(m.reference) # {} -> {}
      [] OTHER ->
           LET of(f) == {Term(f, column) : column \in NamedSome(m.column)}
           IN CASE m.aggregation \in {"sum", "time_window"} -> of("SUM")
                [] m.aggregation = "count" -> IF of("COUNT") = {} THEN {Term("COUNT", "*")} ELSE of("COUNT")
                [] m.aggregation = "distinct_count" -> of("COUNT DISTINCT")
                [] m.aggregation = "ratio" -> {}
                [] OTHER -> of(m.aggregation)

projects(c) == Expressible(c) /\ \A m \in ToSet(c.measures) : measure_sql(m) # {}

\* The calendar slots come from levels of that name; a missing one stays empty.
project_time_intelligence(c) ==
    LET column(d, name) == OrElse({l.column : l \in FirstWith(d.levels, LAMBDA l : l.name = name)}, "")
    IN {[dimension |-> d.id, key |-> d.key[1], fullDate |-> d.attribute, table |-> d.table,
         flags |-> [w \in {"year", "quarter", "month", "ytd", "qtd", "mtd", "prior_year_ytd", "current_year"} |->
                      IF w \in {"year", "quarter", "month"} THEN column(d, w)
                      ELSE LET t == The(c.time) IN IF w \in DOMAIN t.flags THEN t.flags[w] ELSE ""]]
         : d \in DateOf(c)}

project_fact(g) ==
    [id |-> OrElse(g.id, g.table), source |-> "", table |-> g.table, group |-> OrElse(g.group, "")]
project_dimension(d) ==
    [id |-> d.id, field |-> d.attribute, caption |-> Filled(d.caption, "", d.id),
     hierarchy |-> OrElse(d.hierarchy, ""), all |-> "", leaf |-> "", ordinal |-> OrElse(d.ordinal, 0),
     visible |-> d.visible, fact |-> {}, shared |-> FALSE, date |-> d.date,
     levels |-> [i \in DOMAIN d.levels |-> [name |-> d.levels[i].name, column |-> d.levels[i].column, number |-> i - 1]]]
project_measure(c, m) ==
    [id |-> m.id, expr |-> measure_sql(m), caption |-> Filled(m.caption, "", m.id), display |-> "",
     format |-> m.format, ordinal |-> OrElse(m.ordinal, 0), visible |-> m.visible,
     fact |-> {fact_id(c, m.table)}, group |-> "",
     window |-> {[flag |-> w.flag, role |-> {w.dimension}] : w \in m.window}]
project_relationship(c, r) ==
    LET d == The(Among(c.dimensions, r.dimension))
    IN [fact |-> fact_id(c, r.fact), column |-> r.columns[1], dimension |-> r.dimension,
        table |-> d.table, dimColumn |-> r.columns[2]]

project(c, cube) ==
    [cube |-> cube, source |-> "", table |-> "", time |-> project_time_intelligence(c), files |-> {},
     facts |-> Each(project_fact, c.grain), dimensions |-> Each(project_dimension, c.dimensions),
     measures |-> Each(LAMBDA m : project_measure(c, m), c.measures),
     relationships |-> Each(LAMBDA r : project_relationship(c, r), c.relationships),
     roles |-> Each(LAMBDA name : [name |-> name, permission |-> "read", members |-> {}], c.roles)]

\* The projection is written in the canonical form.
canonical_text(config) == serialize(deminimize(normalize(config)))
=============================================================================
