------------------------------- MODULE Binding -------------------------------
(* From a configuration to the semantic model (project/project.rs), and how    *)
(* the engine binds a dimension, a measure and a window to tables and columns  *)
(* when it writes SQL (engine/model.rs, engine/plan.rs, engine/sql.rs).  Every *)
(* lookup takes the first entry of that id.                                    *)
EXTENDS Contracts

FirstOf(s, id) == FirstWith(s, LAMBDA x : x.id = id)

\* A configuration without fact tables has one, the table of the configuration.
FactTables(c) ==
    IF c.facts # <<>> THEN c.facts
    ELSE << [id |-> "default", source |-> c.source, table |-> c.table,
             group |-> IF c.measures = <<>> THEN c.cube ELSE c.measures[1].group] >>

\* Building panics on a fact table nobody declared.
Builds(c) ==
    /\ \A d \in ToSet(c.dimensions) : d.fact \subseteq ValuesOf(FactTables(c), "id")
    /\ c.facts # <<>> => \A m \in ToSet(c.measures) : m.fact # {} /\ m.fact \subseteq ValuesOf(c.facts, "id")

\* A dimension's own table: its fact table, or for a date role the calendar's.
OwnTable(c, d) ==
    IF d.fact # {} THEN {f.table : f \in FirstOf(FactTables(c), The(d.fact))}
    ELSE IF d.date THEN {t.table : t \in c.time} ELSE {}

\* How a dimension is joined, whatever the fact table: its first relationship.
rel_for_dimension(c, id) == FirstWith(c.relationships, LAMBDA r : r.dimension = id)

\* What a date dimension is called when the configuration has none.
Conventional ==
    [dimension |-> "", key |-> "date_key", fullDate |-> "full_date", table |-> "date_dim",
     flags |-> [year |-> "year", quarter |-> "quarter", month |-> "month", ytd |-> "ytd_flag", qtd |-> "qtd_flag",
                mtd |-> "mtd_flag", prior_year_ytd |-> "prior_year_ytd_flag", current_year |-> "current_year_flag"]]
\* A date role has the table and key of its relationship, and everything else of
\* the catalogue; without either it has the conventional names.
DateRole(c, id) ==
    LET global == OrElse(c.time, Conventional)
        rel == rel_for_dimension(c, id)
    IN [global EXCEPT !.dimension = id, !.table = OrElse({r.table : r \in rel}, @),
                      !.key = OrElse({r.dimColumn : r \in rel}, @)]
\* An entry with one field more.
With(x, field, value) == [f \in DOMAIN x \union {field} |-> IF f = field THEN value ELSE x[f]]

build_semantic_model(c) ==
    [facts |-> FactTables(c),
     dimensions |-> [i \in DOMAIN c.dimensions |->
        With(c.dimensions[i], "own", OwnTable(c, c.dimensions[i]))],
     measures |-> [i \in DOMAIN c.measures |->
        With(c.measures[i], "index",
             OrElse(Earliest({k \in DOMAIN c.facts : c.facts[k].id \in c.measures[i].fact}), 1))],
     relationships |-> c.relationships,
     date |-> c.time,
     dates |-> [id \in {d.id : d \in {e \in ToSet(c.dimensions) : e.date}} |-> DateRole(c, id)]]

------------------------------------------------------------------------------
\* The fact table a measure is read from.
fact_table_for_measure(model, m) == model.facts[m.index]

\* A dimension kept on a fact table does not go with another fact's measures.
dim_is_compatible_with_measure(model, id, m) ==
    \A d \in FirstOf(model.dimensions, id) :
       d.shared \/ d.date \/ \A table \in d.own : fact_table_for_measure(model, m).table = table

\* A grouped or filtered dimension: joined through its first relationship,
\* whatever the fact, or else read from the fact table itself.
resolve_group_cols(model, id) ==
    [joined |-> {[table |-> r.table, on |-> <<r.column, r.dimColumn>>] : r \in rel_for_dimension(model, id)},
     column |-> The(FirstOf(model.dimensions, id)).field]

\* The tables the members of a dimension are listed from.
dim_table_for_discovery(model, id) ==
    OrElse(The(FirstOf(model.dimensions, id)).own,
           OrElse({r.table : r \in rel_for_dimension(model, id)}, model.facts[1].table))

date_dim_for_measure(model, m) ==
    LET named == (UNION {w.role : w \in m.window}) \intersect DOMAIN model.dates
    IN IF named # {} THEN {model.dates[The(named)]} ELSE model.date

\* filters_with_time_flag and the subquery it becomes: the fact's own
\* relationship gives the column of the fact, or else the first of the dimension.
Windowed(model, m) ==
    LET fact == fact_table_for_measure(model, m)
        factId == The({f.id : f \in FirstWith(model.facts, LAMBDA f : f.table = fact.table)})
        own(date) == FirstWith(model.relationships, LAMBDA r : r.dimension = date.dimension /\ r.fact = factId)
        column(date) ==
            OrElse({r.column : r \in own(date)},
                   OrElse({r.column : r \in rel_for_dimension(model, date.dimension)}, date.key))
        calendar(date) ==
            IF date.dimension \in DOMAIN model.dates THEN {model.dates[date.dimension]} ELSE model.date
    IN UNION {UNION {{[column |-> column(date), key |-> cal.key, table |-> cal.table, flag |-> w.flag]
                      : cal \in calendar(date)}
                     : date \in date_dim_for_measure(model, m)} : w \in m.window}
=============================================================================
