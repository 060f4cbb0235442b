------------------------------- MODULE Migration -------------------------------
(* A Tabular model on its way into a project (docs/converting-models.md):       *)
(* mallard convert-tabular writes the files one after the other, and dies on a   *)
(* write that fails; the operator runs bootstrap.sql on a database, which reads  *)
(* the files that are there; the export may be revised and converted again into  *)
(* the same directory.  The loading scripts are data_loader.rs and m_query.rs.   *)
EXTENDS Conversion

CONSTANTS
    Export,           \* the exports to start from
    Revised(_),       \* what an export may become
    FactRows,         \* the rows of dummy data of the fact (10,000)
    DimRows,          \* and of every other table (a tenth, at least 100)
    YearDays,         \* the days dummy dates cycle through (365)
    KeyDays,          \* and dummy date keys (4018)
    MaxConversions, MaxLoads    \* bounds: conversions, and loads of one database

VARIABLES
    export,        \* the Tabular Editor export
    converted,     \* the model of the last conversion, once there is one
    unwritten,       \* the files it has still to write, in order
    whole,         \* the last conversion wrote all its files
    written,       \* file -> its content, if it is there
    bridges,       \* sql_fallback/: identifier -> content
    database,      \* table -> its columns, their values and how often it was filled
    filled,        \* the models a database was filled from, one for each load
    conversions

migrationVars == <<export, converted, unwritten, whole, written, bridges, database, filled, conversions>>

Files == <<"config", "schema", "load", "dummy", "report", "bootstrap">>

------------------------------------------------------------------------------
\* load_dummy_data.sql.  A foreign key is a column some relationship starts at;
\* of two relationships the last one counts.
loader_column(c, table, column) ==
    LET tables == SelectSeq(AllTables(c), LAMBDA t : Ident[t.name] = Ident[table])
        found == FirstWhere(FlattenSeq([i \in DOMAIN tables |-> tables[i].columns]), LAMBDA k : Ident[k.name] = Ident[column])
    IN IF found = {} THEN Ident[column] ELSE Ident[One(found).source]
ForeignKeys(c) ==
    LET add(map, r) == (<<Ident[r.from_table], loader_column(c, r.from_table, r.from_column)>> :> Ident[r.to_table]) @@ map
    IN FoldLeft(add, <<>>, c.relationships)
RowCount(c, table) == IF table = Ident[c.fact.name] THEN FactRows ELSE DimRows
IsDateRole(c, table) == \E i \in DOMAIN c.date_roles : Ident[c.date_roles[i].name] = table

\* Mutant: a foreign key runs through as many values as its own table has rows.
DummyValueOverOwnRows(c, table, column, i) ==
    LET keys == ForeignKeys(c) at == <<table, Ident[column.source]>>
    IN IF at \in DOMAIN keys
       THEN IF column.type = "dateTime" THEN <<"day", i % YearDays>>
            ELSE IF IsDateRole(c, keys[at]) THEN <<"date key", i % KeyDays>>
            ELSE <<IF column.type = "string" THEN "text" ELSE "number", (i % RowCount(c, table)) + 1>>
       ELSE CASE column.type = "int64" -> <<"number", i>>
              [] column.type = "double" -> <<"random", 0>>
              [] column.type = "dateTime" -> <<"day", i % YearDays>>
              [] column.type = "boolean" -> <<"flag", i % 2>>
              [] OTHER -> <<"item", i>>

\* The value of row i: what SQL takes for equal has the same kind and number.
DummyValue(c, table, column, i) ==
    LET keys == ForeignKeys(c) at == <<table, Ident[column.source]>>
    IN IF at \in DOMAIN keys
       THEN IF column.type = "dateTime" THEN <<"day", i % YearDays>>
            ELSE IF IsDateRole(c, keys[at]) THEN <<"date key", i % KeyDays>>
            ELSE <<IF column.type = "string" THEN "text" ELSE "number", (i % RowCount(c, keys[at])) + 1>>
       ELSE CASE column.type = "int64" -> <<"number", i>>
              [] column.type = "double" -> <<"random", 0>>
              [] column.type = "dateTime" -> <<"day", i % YearDays>>
              [] column.type = "boolean" -> <<"flag", i % 2>>
              [] OTHER -> <<"item", i>>

\* Date roles are left to seed_date_dim.sql, calculation groups to nobody.
render_dummy_data_script(c) ==
    LET filledTables == SelectSeq(AllTables(c), LAMBDA t : /\ ~IsDateRole(c, Ident[t.name]) /\ ~is_calculated(t)
                                                           /\ ~is_calc_group(t) /\ t.columns # <<>>)
        insert(t) ==
          LET table == Ident[t.name]
              column(name) == CHOOSE k \in ToSet(t.columns) : Ident[k.source] = name
              names == {Ident[k.source] : k \in ToSet(t.columns)}
          IN [table |-> table, columns |-> [i \in DOMAIN t.columns |-> Ident[t.columns[i].source]],
              values |-> [n \in names |-> {DummyValue(c, table, column(n), i) : i \in 1..RowCount(c, table)}]]
    IN [i \in DOMAIN filledTables |-> insert(filledTables[i])]

------------------------------------------------------------------------------
\* load_data.sql.  An M expression is [calls, server, database, item]: the functions
\* it names and the first source's table or file, if it says; an embedded query, other
\* sources and further steps are not looked at.
Recognised(m, call, kind) == IF call \in m.calls THEN {kind} ELSE {}
try_sql_server(m) == Recognised(m, "Sql.Database", "SqlServer")
try_csv(m) ==
    IF "Csv.Document" \notin m.calls THEN {}
    ELSE Either(Recognised(m, "Web.Contents", "Web"), Recognised(m, "File.Contents", "CSV"))
try_postgres(m) == Recognised(m, "PostgreSQL.Database", "Postgres")
try_mysql(m) == Recognised(m, "MySQL.Database", "MySQL")
try_named_source(m) == IF m.item = {} THEN {} ELSE Recognised(m, "#", "Unknown")
extract_source(m) ==
    Either(try_sql_server(m), Either(try_csv(m), Either(try_postgres(m), Either(try_mysql(m), try_named_source(m)))))
\* Of several partitions the first with an expression.
LoadedPartition(t) ==
    Either(FirstWhere(t.partitions, LAMBDA p : p.query # {}), FirstWhere(t.partitions, LAMBDA p : TRUE))
DataSource(c, p) == UNION {FirstWhere(c.sources, LAMBDA s : s.name = n) : n \in p.source}
Server(s) == <<s.server, s.database>>

\* What a table adds to the script: an attachment if its source has none yet, and
\* an insertion or a remark.  A source is told by its name, or by its server.
Attaching(script, key, source) ==
    IF key \in DOMAIN script.alias THEN script
    ELSE [alias |-> (key :> Cardinality(DOMAIN script.alias) + 1) @@ script.alias,
          lines |-> Append(script.lines, [do |-> "attach", table |-> "", alias |-> Cardinality(DOMAIN script.alias) + 1,
                                          from |-> source])]
Saying(script, do, table, alias, from) ==
    [script EXCEPT !.lines = Append(@, [do |-> do, table |-> table, alias |-> alias, from |-> from])]
render_query_partition(c, script, table, p) ==
    LET source == DataSource(c, p)
        attached == IF p.query = {} \/ source = {} THEN script
                    ELSE Attaching(script, p.source, Server(One(source)))
    IN Saying(attached, "remark", table, 0, {})

\* Only SQL Server and a file are loaded; the others get a remark.
\* Mutant: a data source is told by its server, whatever its database.
render_m_connection_by_server(c, script, table, p, kind) ==
    LET m == One(p.query)
        source == IF DataSource(c, p) # {} THEN Server(One(DataSource(c, p))) ELSE Server(m)
        attached == Attaching(script, {source[1]}, source)
    IN CASE kind = "SqlServer" -> Saying(attached, "insert", table, attached.alias[{source[1]}], Either(m.item, {"(unknown)"}))
         [] kind = "CSV" -> Saying(script, "insert", table, 0, m.item)
         [] OTHER -> Saying(script, "remark", table, 0, {})

render_m_connection(c, script, table, p, kind) ==
    LET m == One(p.query)
        source == IF DataSource(c, p) # {} THEN Server(One(DataSource(c, p))) ELSE Server(m)
        key == IF p.source # {} THEN p.source ELSE {Server(m)}
        attached == Attaching(script, key, source)
    IN CASE kind = "SqlServer" -> Saying(attached, "insert", table, attached.alias[key], Either(m.item, {"(unknown)"}))
         [] kind = "CSV" -> Saying(script, "insert", table, 0, m.item)
         [] OTHER -> Saying(script, "remark", table, 0, {})
render_m_partition(c, script, table, p) ==
    LET kind == UNION {extract_source(m) : m \in p.query}
    IN IF kind = {} THEN Saying(script, "remark", table, 0, {}) ELSE render_m_connection(c, script, table, p, One(kind))

render_load_script(c) ==
    LET add(script, t) ==
          LET table == Ident[t.name]
              remark == Saying(script, "remark", table, 0, {})
              p == One(LoadedPartition(t))
          IN IF IsDateRole(c, table) \/ is_calculated(t) \/ is_calc_group(t) \/ LoadedPartition(t) = {} THEN remark
             ELSE CASE p.kind = "query" -> render_query_partition(c, script, table, p)
                    [] p.kind = "m" -> render_m_partition(c, script, table, p)
                    [] OTHER -> remark
    IN FoldLeft(add, [alias |-> <<>>, lines |-> <<>>], AllTables(c)).lines

------------------------------------------------------------------------------
MigrationInit ==
    /\ export \in Export /\ converted = {} /\ unwritten = <<>> /\ whole = FALSE
    /\ written = [f \in ToSet(Files) |-> {}] /\ bridges = <<>>
    /\ database = <<>> /\ filled = <<>> /\ conversions = 0

\* Mutant: measures over time are not looked at again.
FinishedAsClassified(c) == Reclassified(c)
Finished(c) == downgrade_time_intelligence_without_flags(Reclassified(c))
\* The models an export is converted to.
Models(e) == {Finished(c) : c \in UNION {classify_model(m) : m \in parse_model(e)}}

StartConversion ==
    /\ unwritten = <<>> /\ conversions < MaxConversions
    /\ \E c \in Models(export) :
          /\ converted' = {c}
          /\ unwritten' = [i \in DOMAIN BridgeFiles(c) |-> "bridge"] \o Files
    /\ whole' = FALSE /\ conversions' = conversions + 1
    /\ UNCHANGED <<export, written, bridges, database, filled>>

Content(c, file) ==
    CASE file = "config" -> render_proxy_config(c)
      [] file = "schema" -> render_schema(c)
      [] file = "load" -> render_load_script(c)
      [] file = "dummy" -> render_dummy_data_script(c)
      [] file = "report" -> render_report(c)
      [] OTHER -> <<"schema", "dummy">>    \* bootstrap.sql reads these two
WriteFile ==
    LET c == One(converted) files == BridgeFiles(c)
        b == files[Len(files) + Len(Files) + 1 - Len(unwritten)] IN
    /\ unwritten # <<>>
    /\ IF Head(unwritten) = "bridge"
       THEN bridges' = (b.file :> b.content) @@ bridges /\ UNCHANGED written
       ELSE written' = [written EXCEPT ![Head(unwritten)] = {Content(c, Head(unwritten))}] /\ UNCHANGED bridges
    /\ unwritten' = Tail(unwritten) /\ whole' = (unwritten' = <<>>)
    /\ UNCHANGED <<export, converted, database, filled, conversions>>

\* expect: what was written stays.
WriteFails ==
    /\ unwritten # <<>> /\ unwritten' = <<>>
    /\ UNCHANGED <<export, converted, whole, written, bridges, database, filled, conversions>>

Revise ==
    /\ unwritten = <<>>
    /\ export' \in Revised(export)
    /\ UNCHANGED <<converted, unwritten, whole, written, bridges, database, filled, conversions>>

\* CREATE TABLE IF NOT EXISTS, then the insertions: one that names other columns
\* than the table has fails, and the shell goes on.
Bootstrap ==
    LET create(db, t) == IF t.table \in DOMAIN db THEN db
                         ELSE (t.table :> [columns |-> t.columns, values |-> [n \in ToSet(t.columns) |-> {}], times |-> 0]) @@ db
        insert(db, t) ==
          IF t.table \notin DOMAIN db \/ ~(ToSet(t.columns) \subseteq ToSet(db[t.table].columns)) THEN db
          ELSE [db EXCEPT ![t.table] = [@ EXCEPT !.times = @ + 1,
                  !.values = [n \in DOMAIN @ |-> @[n] \union IF n \in DOMAIN t.values THEN t.values[n] ELSE {}]]]
    IN /\ unwritten = <<>> /\ written.bootstrap # {} /\ Len(filled) < MaxLoads
       /\ \A f \in ToSet(One(written.bootstrap)) : written[f] # {}
       /\ database' = FoldLeft(insert, FoldLeft(create, database, One(written.schema)), One(written.dummy))
       /\ filled' = Append(filled, [model |-> One(converted), whole |-> whole])
       /\ UNCHANGED <<export, converted, unwritten, whole, written, bridges, conversions>>

MigrationNext == StartConversion \/ WriteFile \/ WriteFails \/ Revise \/ Bootstrap

------------------------------------------------------------------------------
HasColumn(t, name) == \E i \in DOMAIN t.columns : name \in {t.columns[i].name, t.columns[i].source}
CreatedColumns(schema, table) == UNION {ToSet(schema[i].columns) : i \in {j \in DOMAIN schema : schema[j].table = table}}
TableNamed(c, name) == One(FirstWhere(AllTables(c), LAMBDA t : t.name = name))

\* What the configuration names is there: for a relationship if it starts at the
\* fact, and both tables have the columns under the names it gives.
PlacesExist(c, config, schema) ==
    /\ \A i \in DOMAIN config.relationships :
          LET r == config.relationships[i] s == Converted(c)[i]
          IN (/\ s.from_table = c.fact.name /\ HasColumn(c.fact, s.from_column)
              /\ HasTable(DimensionTables(c), s.to_table) /\ HasColumn(TableNamed(c, s.to_table), s.to_column))
             => r.column \in CreatedColumns(schema, config.facts[1].table) /\ r.key \in CreatedColumns(schema, r.table)
    /\ \A d \in ToSet(config.dimensions) :
          CreatedColumns(schema, d.table) # {} =>
             {d.column} \union {d.levels[i].column : i \in DOMAIN d.levels} \subseteq CreatedColumns(schema, d.table)
    /\ \A t \in config.time : t.columns \subseteq CreatedColumns(schema, t.table)
    /\ \A i \in DOMAIN config.measures :
          LET m == config.measures[i] dax == AllMeasures(c)[i].dax
          IN /\ m.sql.kind = "aggregate" /\ HasColumn(c.fact, dax.column) => m.sql.column \in CreatedColumns(schema, config.facts[1].table)
             /\ \A f \in m.flag : \E d \in ToSet(config.dimensions) :
                   d.id = f.dimension /\ d.date_role /\ f.column \in CreatedColumns(schema, d.table)

\* A measure computes what its DAX says, or the report asks for it upstream and a
\* bridge holds its place.
ServesItsDax(c, m, dax) ==
    LET aggregate == /\ m.sql.kind = "aggregate" /\ m.sql.func = dax.func /\ m.bridge = {}
                     /\ \E k \in ToSet(c.fact.columns) : k.name = dax.column /\ m.sql.column = Ident[k.source]
        calendar == {t \in ToSet(c.date_roles) : t.name \in dax.tables}
    IN CASE dax.form = "constant" -> m.sql.kind = "constant" /\ m.flag = {}
         [] dax.form = "aggregate" -> aggregate /\ m.flag = {}
         [] dax.form = "to_date" -> /\ aggregate /\ calendar # {}
                                    /\ m.flag = {[dimension |-> t.title, column |-> FlagName[dax.period]] : t \in calendar}
         [] OTHER -> FALSE
IsToldAsBridge(m, report) ==
    /\ m.id \in report.bridge
    /\ \A b \in m.bridge : b \in DOMAIN bridges /\ bridges[b].of = m.id
    /\ m.bridge # {}
\* The measures that are neither: of another table than the fact's, over another
\* table's column, more than one aggregate (SUM(a)/SUM(b) is served as SUM(a), where
\* docs/converting-models.md:36-38 promises bridge code), a period of the year before,
\* of a calendar nobody named, a table's text, or one whose bridge another's overwrote.
NotCarriedOver(c, i) ==
    LET meas == AllMeasures(c)[i] dax == meas.dax
    IN \/ i > Len(c.fact.measures)
       \/ dax.form \in {"compound", "prior_year", "datatable"}
       \/ dax.form \in {"aggregate", "to_date"} /\ ~HasColumn(c.fact, dax.column)
       \/ dax.form = "to_date" /\ \A t \in ToSet(c.date_roles) : t.name \notin dax.tables
       \/ \E j \in DOMAIN c.fact.measures : j # i /\ Ident[c.fact.measures[j].name] = Ident[meas.name]
MeasuresAreAccountedFor(c, config, report) ==
    /\ Len(config.measures) = Len(AllMeasures(c))
    /\ \A i \in DOMAIN config.measures :
          LET m == config.measures[i]
          IN ServesItsDax(c, m, AllMeasures(c)[i].dax) \/ IsToldAsBridge(m, report) \/ m.id \in report.manual \/ NotCarriedOver(c, i)

\* A bridge that is not a stub reads the columns its DAX names and joins along the
\* one relationship to the table it names, when these are spelled as their identifiers
\* and alike in both tables, and no table before has one of the name; but one of a
\* running total counts orders whatever it is of.
SpelledAlike(c, table, name) ==
    \E t \in ToSet(AllTables(c)) : \E k \in ToSet(t.columns) :
       t.name = table /\ k.name = name /\ {Ident[name], resolve_source_column(c, name)} = {Ident[k.source]}
BridgesReadTheirColumns(c) ==
    \A meas \in ToSet(c.fact.measures) :
       LET sql == FallbackSql(c, meas.dax, {})
           own == {n \in {meas.dax.column, meas.dax.filter} : n # ""}
           joined == {<<t, r>> \in meas.dax.tables \X ToSet(c.relationships) : r.to_table = t}
           named == ({c.fact.name} \X own) \union (meas.dax.tables \X {meas.dax.other})
                    \union UNION {{<<c.fact.name, j[2].from_column>>, <<j[1], j[2].from_column>>} : j \in joined}
       IN sql.form \in {"median", "filtered", "iterated"} /\ (\A n \in named : SpelledAlike(c, n[1], n[2]))
          /\ Cardinality(joined) = Cardinality(meas.dax.tables)
          => sql.reads = {<<Ident[n[1]], Ident[n[2]]>> : n \in named}

\* The report says of every hierarchy whether the configuration has it.
HierarchiesAreTold(c, config, report) ==
    \A t \in ToSet(DimensionTables(c)) : \A h \in ToSet(t.hierarchies) :
       \E row \in report.hierarchies :
          /\ row.table = t.title /\ row.hierarchy = h.name
          /\ row.emitted = Cardinality({<<d, n>> \in ToSet(config.dimensions) \X (1..Len(h.levels)) :
                             d.id = t.title /\ d.hierarchy = h.name /\ n \in DOMAIN d.levels})

\* One export makes one project, unless two tables are as likely to be the fact,
\* or a folder has two relationships between the same tables.
Ambiguous(e) ==
    LET starts(n) == Cardinality({i \in DOMAIN e.relationships : e.relationships[i].from_table = n})
        names == {t.name : t \in ToSet(e.tables)}
    IN \/ e.format = "folder" /\ \E i, j \in DOMAIN e.relationships :
             /\ i # j /\ e.relationships[i].from_table = e.relationships[j].from_table
             /\ e.relationships[i].to_table = e.relationships[j].to_table
       \/ (\A t \in ToSet(e.tables) : t.look # "fact") /\ \E n, k \in names : n # k /\ starts(n) >= 2 /\ starts(n) = starts(k)
       \/ \E t \in ToSet(e.tables) : Len(t.partitions) > 1 /\ e.format = "folder"
Repeatable(e) ==
    Ambiguous(e) \/ Cardinality({[f \in ToSet(Files) |-> Content(c, f)] : c \in Models(e)}) = 1

\* What mallard convert-tabular leaves behind.  At any time, a run cut short and a
\* second one included: the configuration finds the bridge files of its fact's
\* measures, and bootstrap.sql the scripts it reads.  After a run to the end: the
\* configuration is well formed unless some relationships lead to no dimension; it
\* names only columns schema.sql creates; every measure and hierarchy is served as
\* declared or accounted for in the report, but for NotCarriedOver's measures, of
\* which some are served as another expression; and every role keeps its filter for
\* whoever writes its SQL.
ConvertedAsReported ==
    /\ \A config \in written.config : \A r \in written.report :
          unwritten = <<>> => \A m \in ToSet(config.measures) : m.id \in r.bridge => m.bridge \subseteq DOMAIN bridges
    /\ written.bootstrap # {} => \A f \in ToSet(Files) : written[f] # {}
    /\ whole =>
          LET c == One(converted) config == One(written.config) report == One(written.report)
          IN /\ config.parses \/ \E r \in ToSet(c.relationships) : ~HasTable(DimensionTables(c), r.to_table)
             /\ PlacesExist(c, config, One(written.schema))
             /\ MeasuresAreAccountedFor(c, config, report)
             /\ BridgesReadTheirColumns(c)
             /\ HierarchiesAreTold(c, config, report)
             /\ {<<r.name, r.table, r.dax_filter>> : r \in ToSet(config.roles)} = {<<r.name, r.table, r.dax_filter>> : r \in ToSet(c.roles)}
             /\ Repeatable(export)

\* The dummy data of a database filled once from a whole project can be joined: a
\* foreign key of the fact finds its row in a dimension keyed by whole numbers.
\* Not in a date role, which stays empty, and not along a column two relationships
\* start at.
RelatedRowsAreFound ==
    Len(filled) = 1 /\ filled[1].whole =>
       LET c == filled[1].model IN
       \A i \in DOMAIN c.relationships :
          LET r == c.relationships[i] t == TableNamed(c, r.to_table)
              key == FirstWhere(t.columns, LAMBDA k : k.name = r.to_column)
              own == FirstWhere(c.fact.columns, LAMBDA k : k.name = r.from_column)
              others == {j \in DOMAIN c.relationships : j # i /\ c.relationships[j].from_table = r.from_table
                                                         /\ c.relationships[j].from_column = r.from_column}
              column(of, name) == database[Ident[of]].values[Ident[name]]
          IN (/\ r.from_table = c.fact.name /\ HasTable(c.dimensions \o c.lookups, r.to_table) /\ others = {}
              /\ \E k \in key, o \in own : k.type = "int64" /\ o.type \in {"int64", "double"}
              /\ ~is_calc_group(t))
             => /\ column(r.from_table, One(own).source) \subseteq column(r.to_table, One(key).source)
                /\ column(r.from_table, One(own).source) # {}

\* Line i of load_data.sql loads a table: it reads the table its partition's M names,
\* on the server of the data source the partition names, or on the M's own server,
\* which one line before attaches.
Insertions(script, t) == {i \in DOMAIN script : script[i].do = "insert" /\ script[i].table = Ident[t.name]}
ReadsItsTable(script, i, t) ==
    LET p == One(LoadedPartition(t)) IN p.kind = "m" /\ script[i].from = One(p.query).item
ReadsItsServer(c, script, i, t) ==
    LET p == One(LoadedPartition(t)) m == One(p.query) found == DataSource(c, p)
        attached == {j \in DOMAIN script : script[j].do = "attach" /\ script[j].alias = script[i].alias}
    IN extract_source(m) = {"SqlServer"} =>
          \E j \in attached : /\ attached = {j} /\ j < i
                             /\ script[j].from = Server(IF found # {} THEN One(found) ELSE m)

\* load_data.sql loads no table from anywhere but its source (data_loader.rs: "Always
\* fails safe - never generates potentially wrong SQL").
LoadedFromItsSource ==
    \A script \in written.load : whole =>
       \A t \in ToSet(AllTables(One(converted))) : \A i \in Insertions(script, t) :
          ReadsItsTable(script, i, t) /\ ReadsItsServer(One(converted), script, i, t)

\* A partition names a data source the export does not describe: two of them share an
\* attachment, whatever their servers.
Undescribed(c, t) ==
    LET p == One(LoadedPartition(t)) IN p.source # {} /\ DataSource(c, p) = {}
\* The M names no table: the line asks the server for a table called (unknown).
Tableless(t) == One(One(LoadedPartition(t)).query).item = {}

\* load_data.sql says every table once, and loads it from its source, attached once and
\* before; with the exceptions of Undescribed and Tableless.  That a partition's whole
\* table is taken, and of several partitions one, is not looked at.
LoadedFromDescribedSource ==
    \A script \in written.load : whole =>
       LET c == One(converted) IN
       \A t \in ToSet(AllTables(c)) :
          /\ Cardinality({i \in DOMAIN script : script[i].table = Ident[t.name]})
               = Cardinality({u \in ToSet(AllTables(c)) : Ident[u.name] = Ident[t.name]})
          /\ \A i \in Insertions(script, t) :
                /\ Tableless(t) \/ ReadsItsTable(script, i, t)
                /\ Undescribed(c, t) \/ ReadsItsServer(c, script, i, t)
=============================================================================
