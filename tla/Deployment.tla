------------------------------ MODULE Deployment ------------------------------
(* A contract on its way into service: written by hand or generated from a     *)
(* SQLMesh project (mallard contract generate), projected to a configuration   *)
(* file (mallard contract project), rewritten by hand and by mallard fmt, which *)
(* writes its files one after the other, and loaded by a starting server.      *)
EXTENDS Binding, Generator

CONSTANTS
    Contract,    \* the contracts somebody may have written
    Upstream,    \* the SQLMesh projects with their overlays
    Splittable,  \* the sections that may get a file of their own
    MaxFailures  \* bound: failed writes

\* The lists of a contract are lists (Vec) and a window is one or none (Option),
\* whoever wrote or generated it.
IsList(s) == s \in Seq({s[i] : i \in DOMAIN s})
IsContract(c) ==
    /\ IsList(c.grain) /\ IsList(c.dimensions) /\ IsList(c.measures) /\ IsList(c.relationships) /\ IsList(c.roles)
    /\ \A r \in ToSet(c.relationships) : IsList(r.columns)
    /\ \A m \in ToSet(c.measures) : \A v, w \in m.window : v = w
ASSUME ContractAssumption ==
    \A c \in Contract \union UNION {generate(u.project, u.overlay) : u \in Upstream} : IsContract(c)
ASSUME SplittableAssumption == Splittable \subseteq Section

VARIABLES
    upstream,  \* the project and the overlay a contract is generated from, if it is
    contract,  \* the contract, once there is one
    disk,      \* the files: the main file and the section files
    pending,   \* the files mallard fmt has still to write
    meaning,   \* what the files meant when mallard fmt read them, while it or its result stands
    served,    \* the model of the running server
    failures   \* failed writes so far

deploymentVars == <<upstream, contract, disk, pending, meaning, served, failures>>

Cube == "Cube"
NoFiles == [f \in {} |-> {}]
Put(file, text) == [f \in DOMAIN disk \union {file} |-> IF f = file THEN text ELSE disk[f]]

DeploymentInit ==
    /\ \/ upstream = {} /\ contract \in {{c} : c \in Contract}
       \/ upstream \in {{u} : u \in Upstream} /\ contract = {}
    /\ disk = NoFiles /\ pending = {} /\ meaning = {} /\ served = {} /\ failures = 0

AtRest == pending = {}

\* mallard contract generate: refused, nothing is written.
GenerateContract ==
    /\ contract = {}
    /\ \E u \in upstream : contract' = generate(u.project, u.overlay)
    /\ contract' # {}
    /\ UNCHANGED <<upstream, disk, pending, meaning, served, failures>>

\* mallard contract project --out: refused, nothing is written.
ProjectContract ==
    /\ AtRest /\ "main" \notin DOMAIN disk
    /\ \E c \in contract :
          /\ Valid(c) /\ projects(c)
          /\ disk' = Put("main", canonical_text(project(c, Cube)))
    /\ meaning' = {}
    /\ UNCHANGED <<upstream, contract, pending, served, failures>>

\* By hand: a section gets a file of its own, empty at first.
DeclareFile(section) ==
    /\ AtRest /\ Loads(disk) /\ section \notin parse_str(disk["main"]).files
    /\ LET main == [parse_str(disk["main"]) EXCEPT !.files = @ \union {section}]
       IN disk' = [f \in DOMAIN disk \union {section} |->
                     IF f = "main" THEN serialize(main) ELSE IF f \in DOMAIN disk THEN disk[f] ELSE <<>>]
    /\ meaning' = {}
    /\ UNCHANGED <<upstream, contract, pending, served, failures>>

\* By hand: everything that was left out is written out.
SpellOut ==
    /\ AtRest /\ Loads(disk) /\ parse_str(disk["main"]).files = {}
    /\ disk' = [disk EXCEPT !["main"] = serialize(load(disk))]
    /\ meaning' = {}
    /\ UNCHANGED <<upstream, contract, pending, served, failures>>

\* mallard fmt reads everything before it writes the first file.
FormatReads ==
    /\ AtRest /\ Loads(disk) /\ meaning = {}
    /\ LET c == load(disk) IN meaning' = {c} /\ pending' = FilesOf(c)
    /\ UNCHANGED <<upstream, contract, disk, served, failures>>

\* What it writes is what it read, whatever is in the files by now.
FormatWrites ==
    /\ ~AtRest
    /\ disk' = Put(NextFile(pending), canonical_texts(The(meaning))[NextFile(pending)])
    /\ pending' = pending \ {NextFile(pending)}
    /\ UNCHANGED <<upstream, contract, meaning, served, failures>>

\* A write fails: the files before it are new, those after it are old, and its
\* own is the old one or cut short, which nothing loads.
FormatFails(cutShort) ==
    /\ ~AtRest /\ pending' = {} /\ meaning' = {}
    /\ failures < MaxFailures /\ failures' = failures + 1
    /\ disk' = [f \in DOMAIN disk \ (IF cutShort THEN {NextFile(pending)} ELSE {}) |-> disk[f]]
    /\ UNCHANGED <<upstream, contract, served>>

\* A server starts, also between two writes of mallard fmt.
Serve ==
    /\ Loads(disk)
    /\ LET c == load(disk) IN Builds(c) /\ served' = {build_semantic_model(c)}
    /\ UNCHANGED <<upstream, contract, disk, pending, meaning, failures>>

DeploymentNext ==
    \/ GenerateContract \/ ProjectContract \/ SpellOut \/ FormatReads \/ FormatWrites \/ Serve
    \/ \E cutShort \in BOOLEAN : FormatFails(cutShort)
    \/ \E section \in Splittable : DeclareFile(section)

DeploymentSpec == DeploymentInit /\ [][DeploymentNext]_deploymentVars

------------------------------------------------------------------------------
\* mallard fmt changes the text and not what it means: a formatted configuration
\* loads as what it was before, whatever was inline, in a file or left out, and
\* formatting it again would change nothing (fmt --check passes).
FormattingKeepsMeaning ==
    (AtRest /\ meaning # {}) => {load(disk)} = meaning /\ non_canonical(load(disk), disk) = {}

\* Two grains that are served under one id are one fact table to the engine,
\* which the contract's checks do not see.
ServedApart(c) ==
    \A i, j \in DOMAIN c.grain : fact_id(c, c.grain[i].table) = fact_id(c, c.grain[j].table) => i = j

\* The engine reads what the contract declares: each measure from its grain's
\* table, by its expression, in its measure group; a dimension of that grain by
\* its attribute, joined on the declared columns; a window by the declared flag
\* of the calendar, joined on the columns of the measure's own grain.  So also
\* when the server started between two writes of mallard fmt, or after one failed.
MeasureAsDeclared(c, model, m) ==
    \A served_m \in FirstOf(model.measures, m.id), g \in {x \in ToSet(c.grain) : x.table = m.table} :
       /\ fact_table_for_measure(model, served_m).table = g.table
       /\ served_m.expr = measure_sql(m)
       /\ served_m.group = OrElse(g.group, OrElse(g.id, g.table))
       /\ served_m.format = Filled(m.format, "", default_format_string)
JoinAsDeclared(c, model, m, r) ==
    LET d == The(Among(c.dimensions, r.dimension))
    IN /\ \A served_m \in FirstOf(model.measures, m.id) : dim_is_compatible_with_measure(model, d.id, served_m)
       /\ resolve_group_cols(model, d.id) = [joined |-> {[table |-> d.table, on |-> r.columns]}, column |-> d.attribute]
       /\ dim_table_for_discovery(model, d.id) = d.table
WindowAsDeclared(c, model, m, r) ==
    LET d == The(Among(c.dimensions, r.dimension))
    IN \A w \in m.window : w.dimension = d.id =>
          \A served_m \in FirstOf(model.measures, m.id) :
             Windowed(model, served_m)
               = {[column |-> r.columns[1], key |-> r.columns[2], table |-> d.table, flag |-> w.flag]}
ServedAsDeclared ==
    \A c \in contract, model \in served :
      ServedApart(c) =>
        \A m \in ToSet(c.measures) :
          /\ FirstOf(model.measures, m.id) # {} /\ MeasureAsDeclared(c, model, m)
          /\ \A r \in {x \in ToSet(c.relationships) : x.fact = m.table} :
                JoinAsDeclared(c, model, m, r) /\ WindowAsDeclared(c, model, m, r)

\* Nothing is lost or made up on the way from the upstream project: the facts of a
\* generated contract are the models nobody refers to, its relationships the audits
\* of those models, once per dimension on the model referred to, its measures the
\* metrics, each over the table of its own model and by its own function, and the
\* projection never has to choose between two joins.  Only a model's table part
\* reaches the contract: of two schemas with one table, whichever is served is read.
TablesApart(p) == \A a, b \in ModelNames(p) : TableOf(a) = TableOf(b) => a = b
FactsAreCarried(u, c) ==
    LET p == u.project
        facts == {m \in ToSet(p.models) : m.name \notin u.overlay.exclude
                     /\ \A n \in ToSet(p.models) : n.name \notin u.overlay.exclude => m.name \notin ValuesOf(n.audits, "model")}
    IN /\ Len(c.grain) = Cardinality(facts)
       /\ \A m \in facts : \E g \in ToSet(c.grain) : g.table = TableOf(m.name) /\ g.key \in {m.grain, m.unique} \union UNION {e.key : e \in ToSet(u.overlay.grain)}
       /\ ToSet(c.relationships)
            = UNION {{[fact |-> TableOf(m.name), dimension |-> d.id, active |-> TRUE, columns |-> <<a.column, a.reference>>] :
                        a \in {x \in ToSet(m.audits) : x.model = d.model}} : m \in facts, d \in ToSet(u.overlay.dimensions)}
MetricIsCarried(metric, e, m) ==
    CASE e # {} /\ The(e).source # {} -> m.aggregation = The(The(e).aggregation) /\ m.table = Last(The(The(e).source).table)
      [] metric.expression.shape = "ratio" -> m.aggregation = "ratio" /\ m.table \in {TableOf(n) : n \in metric.expression.models}
      [] OTHER -> /\ m.aggregation = metric.expression.f /\ m.column = {metric.expression.column}
                  /\ m.table = TableOf(metric.expression.model)
GeneratedCarriesAll ==
    \A u \in upstream, c \in contract :
      TablesApart(u.project) =>
        /\ FactsAreCarried(u, c)
        /\ Len(c.measures) = Len(u.project.metrics)
        /\ \A i \in DOMAIN c.measures : MetricIsCarried(u.project.metrics[i], EntryOf(u.overlay, u.project.metrics[i]), c.measures[i])
        /\ \A d \in ToSet(c.dimensions), r, s \in ToSet(c.relationships) :
              r.dimension = d.id /\ s.dimension = d.id => r.columns = s.columns
=============================================================================
