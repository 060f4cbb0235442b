------------------------------ MODULE Conversion ------------------------------
(* mallard convert-tabular (tools/convert_tabular.rs): a Tabular model is        *)
(* classified into a star around one fact table, and written as a project: the  *)
(* configuration, the tables, the SQL of the measures that are only a bridge,    *)
(* and a report of what was carried over.  JSON and SQL are what they say.       *)
EXTENDS Tabular

CONSTANT MeasuresOfAFact    \* a table with more measures than that is a fact (5)

------------------------------------------------------------------------------
\* Which table is what.
OnlyLookups(t) == t.measures # <<>> /\ \A i \in DOMAIN t.measures : t.measures[i].dax.form = "lookup"
KindOf(t) ==
    CASE is_calculated(t) -> "calculated"
      [] ~is_calculated(t) /\ (t.look = "fact" \/ Len(t.measures) > MeasuresOfAFact) /\ ~OnlyLookups(t) -> "fact"
      [] OTHER -> IF t.look \in {"calendar", "dimension"} THEN t.look ELSE "lookup"

UnknownTable ==
    [name |-> "unknown", title |-> "unknown", look |-> "plain", columns |-> <<>>, measures |-> <<>>, hierarchies |-> <<>>,
     partitions |-> <<>>]
IndexOf(tables, name) == CHOOSE i \in DOMAIN tables : tables[i].name = name
HasTable(tables, name) == \E i \in DOMAIN tables : tables[i].name = name
Outgoing(m, name) == Cardinality({i \in DOMAIN m.relationships : m.relationships[i].from_table = name})

\* With no table that looks like a fact, the one most relationships start at, at
\* least two of them: of several any, as a HashMap lists them.
Promotions(m, s) ==
    LET from == {m.relationships[i].from_table : i \in DOMAIN m.relationships}
        best == {n \in from : Outgoing(m, n) >= 2 /\ \A k \in from : Outgoing(m, k) <= Outgoing(m, n)}
        promoted(n) ==
          IF HasTable(s.lookups, n) THEN
             [s EXCEPT !.facts = <<s.lookups[IndexOf(s.lookups, n)]>>, !.lookups = RemoveAt(@, IndexOf(s.lookups, n))]
          ELSE IF HasTable(s.dimensions, n) THEN
             [s EXCEPT !.facts = <<s.dimensions[IndexOf(s.dimensions, n)]>>,
                       !.dimensions = RemoveAt(@, IndexOf(s.dimensions, n))]
          ELSE s
    IN IF s.facts # <<>> \/ best = {} THEN {s} ELSE {promoted(n) : n \in best}

\* Of several facts the first with the most measures is kept, the others are
\* dropped; without one the first dimension is taken.
ChosenFact(s) ==
    LET most == CHOOSE i \in DOMAIN s.facts :
                  \A j \in DOMAIN s.facts : LET a == Len(s.facts[i].measures) b == Len(s.facts[j].measures)
                                            IN a > b \/ (a = b /\ i <= j)
    IN IF s.facts # <<>> THEN [s EXCEPT !.facts = <<s.facts[most]>>]
       ELSE IF s.dimensions # <<>> THEN [s EXCEPT !.facts = <<Head(s.dimensions)>>, !.dimensions = Tail(@)]
       ELSE [s EXCEPT !.facts = <<UnknownTable>>]

\* A fact without outgoing relationships changes places with a lookup that has some.
SwappedFact(m, s) ==
    LET better == {i \in DOMAIN s.lookups : Outgoing(m, s.lookups[i].name) > 0}
        i == CHOOSE i \in better : \A j \in better : i <= j
    IN IF Outgoing(m, s.facts[1].name) > 0 \/ better = {} THEN s
       ELSE [s EXCEPT !.facts = <<s.lookups[i]>>, !.lookups = Append(RemoveAt(@, i), s.facts[1])]

\* The measures of the calculated tables end up on the fact.
classify_model(m) ==
    LET of(kind) == SelectSeq(m.tables, LAMBDA t : KindOf(t) = kind)
        sorted == [facts |-> of("fact"), dimensions |-> of("dimension"), lookups |-> of("lookup")]
        measures == FlattenSeq([i \in DOMAIN of("calculated") |-> of("calculated")[i].measures])
        model(s) ==
          [fact |-> [s.facts[1] EXCEPT !.measures = @ \o measures], dimensions |-> s.dimensions, lookups |-> s.lookups,
           date_roles |-> of("calendar"), calculated |-> of("calculated"), relationships |-> m.relationships,
           roles |-> m.roles, sources |-> m.sources]
    IN {model(SwappedFact(m, ChosenFact(s))) : s \in Promotions(m, sorted)}

DimensionTables(c) == c.dimensions \o c.date_roles \o c.lookups
AllTables(c) == <<c.fact>> \o DimensionTables(c)
Reaches(t, name) == name \in {t.name, t.title}

------------------------------------------------------------------------------
\* Measures.  Only a constant and an expression that starts with one aggregate
\* have SQL; what follows the aggregate is not looked at.
Aggregated(func, column) == [kind |-> "aggregate", func |-> func, column |-> column]
Constant == [kind |-> "constant", func |-> "", column |-> ""]
NoSql == [kind |-> "null", func |-> "", column |-> ""]
simple_aggregate_sql(fact, dax) ==
    IF dax.form \in {"aggregate", "compound"}
    THEN {Aggregated(dax.func, SqlName(resolve_capitals(fact, dax.column), dax.column))} ELSE {}
dax_to_sql_hint(fact, dax) == IF dax.form = "constant" THEN {Constant} ELSE simple_aggregate_sql(fact, dax)
\* TOTALYTD(x, dates) is x; a CALCULATE around SAMEPERIODLASTYEAR is not opened.
extract_ti_inner(dax) == IF dax.form = "to_date" THEN [dax EXCEPT !.form = "aggregate"] ELSE dax

------------------------------------------------------------------------------
\* Date roles: every column is one the table has, or none.
FlagName == [ytd |-> "ytd_flag", prior_year |-> "prior_year_ytd_flag", current_year |-> "current_year_flag",
             qtd |-> "qtd_flag", mtd |-> "mtd_flag"]
SourceNames(found) == {Ident[c.source] : c \in found}
\* The column of that very name, else one that numbers the part, else by either name.
date_part_column(t, word) ==
    SourceNames(Either(FirstWhere(t.columns, LAMBDA c : Ident[c.source] = word),
             Either(FirstWhere(t.columns, LAMBDA c : c.numbers = word), resolve_column(t, word))))
PrimaryHierarchy(t) == FirstWhere(t.hierarchies, LAMBDA h : h.levels # <<>>)
\* The levels of the first hierarchy that has some, as far as their columns are known.
ResolvedLevels(t) ==
    LET known(levels) == SelectSeq(levels, LAMBDA l : resolve_column(t, l.column) # {})
    IN IF PrimaryHierarchy(t) = {} THEN <<>> ELSE known(One(PrimaryHierarchy(t)).levels)
build_date_role(c, t) ==
    LET levels == ResolvedLevels(t)
        key == FirstWhere(c.relationships, LAMBDA r : Reaches(t, r.to_table))
        level(word) == FirstWhere(levels, LAMBDA l : l.part = word)
        part(word) == Either(date_part_column(t, word), {schema_column(t, l.column) : l \in level(word)})
        full == SourceNames(Either(resolve_column(t, "full_date"),
                         Either(resolve_column(t, "fulldate"), resolve_column(t, "date"))))
    IN [dimension |-> t.title, name |-> t.name, table |-> Ident[t.name],
        key |-> IF key = {} THEN {} ELSE SourceNames(resolve_column(t, One(key).to_column)),
        date |-> IF levels # <<>> THEN {schema_column(t, Last(levels).column)} ELSE full,
        parts |-> [w \in {"year", "quarter", "month"} |-> part(w)],
        flags |-> [f \in DOMAIN FlagName |-> SourceNames(resolve_column(t, FlagName[f]))]]
date_roles(c) == [i \in DOMAIN c.date_roles |-> build_date_role(c, c.date_roles[i])]

\* The role whose table the DAX names, else the first.
time_role_for_measure(roles, dax) ==
    Either(FirstWhere(roles, LAMBDA r : \E q \in dax.tables : Ident[q] = r.table \/ Lower[q] = Lower[r.dimension]),
           IF roles = <<>> THEN {} ELSE {Head(roles)})
FlagOf(roles, dax) ==
    UNION {{[dimension |-> r.dimension, column |-> f] : f \in r.flags[dax.period]} : r \in time_role_for_measure(roles, dax)}

------------------------------------------------------------------------------
\* What run makes of the measures before anything is written: a simple one that
\* has no SQL is a bridge, and so is one of the fact's over time without its flag.
Reclassified(c) ==
    LET bridge(meas) == IF meas.class = "simple" /\ dax_to_sql_hint(c.fact, meas.dax) = {}
                        THEN [meas EXCEPT !.class = "sql_fallback"] ELSE meas
        of(t) == [t EXCEPT !.measures = [i \in DOMAIN @ |-> bridge(@[i])]]
    IN [c EXCEPT !.fact = of(@), !.dimensions = [i \in DOMAIN @ |-> of(@[i])], !.date_roles = [i \in DOMAIN @ |-> of(@[i])]]
downgrade_time_intelligence_without_flags(c) ==
    LET roles == date_roles(c)
        downgraded(meas) == IF meas.class = "time" /\ FlagOf(roles, meas.dax) = {}
                            THEN [meas EXCEPT !.class = "sql_fallback"] ELSE meas
    IN [c EXCEPT !.fact.measures = [i \in DOMAIN @ |-> downgraded(@[i])]]

\* The SQL of a bridge: its shape, the columns it reads as <<table, column>>, and
\* the SQL of its operands.  A name is taken for that of any table's column, the
\* fact's first, and the column is spelled as its source spells it.
Stub == [form |-> "stub", reads |-> {}, operands |-> <<>>]
Reading(dax, reads) == [form |-> dax.form, reads |-> reads, operands |-> <<>>]
Fact(c) == Ident[c.fact.name]
resolve_source_column(c, want) ==
    LET tables == AllTables(c)
        found == FirstWhere(FlattenSeq([i \in DOMAIN tables |-> tables[i].columns]), LAMBDA k : Bare[k.name] = Bare[want])
    IN IF found = {} THEN Ident[want] ELSE Lower[One(found).source]
\* A running total counts orders, whatever measure it is of, and joins the calendar
\* by the name the first relationship to it starts at.
generate_cumulative_sql(c, dax) ==
    LET called(names, default) == IF names \subseteq {""} THEN default ELSE Ident[One(names)]
        calendar == called(dax.tables, "calendar")
        joins == FirstWhere(c.relationships, LAMBDA r : r.to_table \in dax.tables)
        join == IF joins = {} THEN "" ELSE Ident[One(joins).from_column]
    IN Reading(dax, {<<Fact(c), "order_id">>, <<Fact(c), join>>, <<calendar, join>>, 
                     <<calendar, called({dax.filter}, "year")>>, <<calendar, called({dax.other}, "period")>>})
\* SUMX(FILTER(fact, filter = value), column * RELATED(dimension[other])).
generate_sumx_filter_related(c, dax) ==
    LET dimension == Ident[One(dax.tables)]
        joins == FirstWhere(c.relationships, LAMBDA r : Ident[r.to_table] = dimension)
        join == IF joins = {} THEN "id" ELSE resolve_source_column(c, One(joins).from_column)
    IN IF dax.filter = "" \/ dax.column = "" \/ dax.tables = {} THEN Stub
       ELSE Reading(dax, {<<Fact(c), resolve_source_column(c, dax.column)>>, <<dimension, resolve_source_column(c, dax.other)>>,
                          <<Fact(c), join>>, <<dimension, join>>, <<Fact(c), resolve_source_column(c, dax.filter)>>})
\* CALCULATE(SUM(column), filter = value).
generate_calculate_sum(c, dax) ==
    IF dax.filter = "" THEN Stub
    ELSE Reading(dax, {<<Fact(c), resolve_source_column(c, dax.column)>>, <<Fact(c), resolve_source_column(c, dax.filter)>>})
\* Of the operands, each an option, the first two count; one without SQL fails all.
generate_measure_arithmetic(dax, operands) ==
    IF Len(operands) < 2 \/ {} \in ToSet(operands) THEN Stub
    ELSE [Reading(dax, {}) EXCEPT !.operands = <<One(operands[1]), One(operands[2])>>]
generate_divide_measure(dax, operands) ==
    IF Len(operands) < 2 \/ operands[1] = {} \/ operands[2] = {} THEN Stub
    ELSE [Reading(dax, {}) EXCEPT !.operands = <<One(operands[1]), One(operands[2])>>]
\* An operand is one of the fact's measures, and not one this is an operand of.
MeasureForSql(fact, name, visited) ==
    IF Lower[name] \in visited THEN {} ELSE FirstWhere(fact.measures, LAMBDA meas : Lower[meas.name] = Lower[name])
RECURSIVE FallbackSql(_, _, _)
FallbackSql(c, dax, visited) ==
    LET sql(name) == {FallbackSql(c, meas.dax, visited \union {Lower[name]}) : meas \in MeasureForSql(c.fact, name, visited)}
        operands == [i \in DOMAIN dax.operands |-> sql(dax.operands[i]) \ {Stub}]
    IN CASE dax.form = "median" -> IF dax.column = "" THEN Stub ELSE Reading(dax, {<<Fact(c), Ident[dax.column]>>})
         [] dax.form = "running" -> generate_cumulative_sql(c, dax)
         [] dax.form = "iterated" -> generate_sumx_filter_related(c, dax)
         [] dax.form = "filtered" -> generate_calculate_sum(c, dax)
         [] dax.form = "difference" -> generate_measure_arithmetic(dax, operands)
         [] dax.form = "divide" -> generate_divide_measure(dax, operands)
         [] OTHER -> Stub
generate_fallback_sql(c, meas) == [of |-> meas.name, sql |-> FallbackSql(c, meas.dax, {})]

\* The bridge files are written for the fact's measures only, by their identifier.
BridgeFiles(c) ==
    LET bridges == SelectSeq(c.fact.measures, LAMBDA meas : meas.class = "sql_fallback")
    IN [i \in DOMAIN bridges |-> [file |-> Ident[bridges[i].name], content |-> generate_fallback_sql(c, bridges[i])]]

------------------------------------------------------------------------------
\* The configuration.
AllMeasures(c) ==
    LET of(tables) == FlattenSeq([i \in DOMAIN tables |-> tables[i].measures])
    IN c.fact.measures \o of(c.dimensions) \o of(c.date_roles) \o of(c.lookups)
render_measure(c, roles, meas) ==
    LET hint == dax_to_sql_hint(c.fact, IF meas.class = "time" THEN extract_ti_inner(meas.dax) ELSE meas.dax)
        sql == IF meas.class \in {"simple", "time"} /\ hint # {} THEN One(hint) ELSE NoSql
        bridge == meas.class = "sql_fallback" \/ (meas.class = "simple" /\ hint = {})
    IN [id |-> meas.name, sql |-> sql, bridge |-> IF bridge THEN {Ident[meas.name]} ELSE {},
        flag |-> IF meas.class = "time" THEN FlagOf(roles, meas.dax) ELSE {}]
render_measure_configs(c) ==
    LET roles == date_roles(c) all == AllMeasures(c) IN [i \in DOMAIN all |-> render_measure(c, roles, all[i])]

\* Every relationship that leads to a dimension is one of the fact's, whatever
\* table it starts at.
Converted(c) == SelectSeq(c.relationships, LAMBDA r : \E i \in DOMAIN DimensionTables(c) : Reaches(DimensionTables(c)[i], r.to_table))
render_relationship(c, r) ==
    LET to == One(FirstWhere(DimensionTables(c), LAMBDA t : Reaches(t, r.to_table)))
        from == FirstWhere(AllTables(c), LAMBDA t : Reaches(t, r.from_table))
    IN [dimension |-> to.title, table |-> Ident[r.to_table], key |-> schema_column(to, r.to_column),
        column |-> IF from = {} THEN Ident[r.from_column] ELSE schema_column(One(from), r.from_column)]
render_relationships(c) == [i \in DOMAIN Converted(c) |-> render_relationship(c, Converted(c)[i])]
\* A comma follows every relationship written but the last one there is to write.
ListIsClosed(c) == Len(Converted(c)) \in {0, Len(c.relationships)}

\* A dimension shows a visible column, and drills down its first hierarchy.
Representative(t) ==
    Either(FirstWhere(t.columns, LAMBDA col : ~col.hidden /\ col.source = t.title),
    Either(FirstWhere(t.columns, LAMBDA col : ~col.hidden), FirstWhere(t.columns, LAMBDA col : TRUE)))
emit_hierarchy(t) == IF ResolvedLevels(t) = <<>> THEN {} ELSE PrimaryHierarchy(t)
render_dimension(c, t) ==
    [id |-> t.title, table |-> Ident[t.name], column |-> SqlName(Representative(t), t.title),
     date_role |-> HasTable(c.date_roles, t.name), shared |-> ~HasTable(c.date_roles \o c.dimensions, t.name),
     hierarchy |-> IF emit_hierarchy(t) = {} THEN t.title ELSE One(emit_hierarchy(t)).name,
     levels |-> [i \in DOMAIN ResolvedLevels(t) |->
                   [name |-> ResolvedLevels(t)[i].name, column |-> schema_column(t, ResolvedLevels(t)[i].column)]]]

\* The global date dimension: the first role that has a key.
render_time_intelligence_block(c) ==
    LET first == FirstWhere(date_roles(c), LAMBDA r : r.key # {})
        of(r) == [dimension |-> r.dimension, table |-> r.table,
                  columns |-> UNION {r.key, Either(r.date, r.key), UNION {r.parts[w] : w \in DOMAIN r.parts},
                                     UNION {r.flags[f] : f \in DOMAIN r.flags}}]
    IN {of(r) : r \in first}

render_fact_table_configs(c) == <<[source |-> Ident[c.fact.title], table |-> Fact(c)]>>
\* A role's SQL filter is written empty, its DAX beside it.
render_roles(c) == [i \in DOMAIN c.roles |-> [c.roles[i] EXCEPT !.filter = {}]]
render_proxy_config(c) ==
    [parses |-> ListIsClosed(c), facts |-> render_fact_table_configs(c), relationships |-> render_relationships(c),
     dimensions |-> [i \in DOMAIN DimensionTables(c) |-> render_dimension(c, DimensionTables(c)[i])],
     measures |-> render_measure_configs(c), time |-> render_time_intelligence_block(c), roles |-> render_roles(c)]

------------------------------------------------------------------------------
\* schema.sql: the calculated tables are left out.
render_create_table(t) ==
    [table |-> Ident[t.name], columns |-> [i \in DOMAIN t.columns |-> Ident[t.columns[i].source]]]
render_schema(c) == [i \in DOMAIN AllTables(c) |-> render_create_table(AllTables(c)[i])]

\* conversion-report.md: the fact's measures only, every hierarchy of a dimension.
ReportedAs(c, class) == {c.fact.measures[i].name : i \in {j \in DOMAIN c.fact.measures : c.fact.measures[j].class = class}}
hierarchy_report_rows(c) ==
    LET row(t, h) == [table |-> t.title, hierarchy |-> h.name,
                      emitted |-> IF h.levels # <<>> /\ \E e \in emit_hierarchy(t) : e.name = h.name
                                  THEN Cardinality({i \in DOMAIN h.levels : resolve_column(t, h.levels[i].column) # {}}) ELSE 0,
                      levels |-> Len(h.levels)]
    IN UNION {{row(t, t.hierarchies[i]) : i \in DOMAIN t.hierarchies} : t \in ToSet(DimensionTables(c))}
render_report(c) ==
    [simple |-> ReportedAs(c, "simple"), bridge |-> ReportedAs(c, "sql_fallback"), manual |-> ReportedAs(c, "manual"),
     time |-> ReportedAs(c, "time"), hierarchies |-> hierarchy_report_rows(c), load |-> {Ident[t.name] : t \in ToSet(AllTables(c))},
     joins |-> {r \in ToSet(c.relationships) : r.from_table = c.fact.name}, roles |-> c.roles]
=============================================================================
