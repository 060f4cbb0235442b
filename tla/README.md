# MallardCube verification

MallardCube answers XMLA requests (MDX queries and metadata rowsets from Excel
and Power BI) from a DuckDB file.  This directory holds TLA+ models of the parts
of it that are hard to test: what concurrent requests, timeouts, engine errors,
data reloads and bounded caches do to each other, who is let in as whom, whether an
answer says what its rows say, and whether the metadata tells one story, and what the tools that prepare
a project make of its contract, its rows or its Tabular model.  Every
definition is translated from the source; `PROJECT.json` ("map") names the lines.

Paths below are relative to `src/src/` of the repository unless they start with
`src/`.

## 1. Inventory

| Part | State | Operations | Talks to |
|---|---|---|---|
| Request serving, `main.rs` `handle_xmla` | query slots (a semaphore), the request's checkout, worker and timeout | acquire, check out, spawn the worker, time out, interrupt, return | pool, execute path, sessions |
| Backend pool, `backend/mod.rs` | connections on one file version, attached sidecar, round-robin cursor; per connection a mutex, a failure latch, an interrupt handle | open, checkout, query, record and take a failure, interrupt | DuckDB |
| Execute path, `execute/runtime.rs`, `execute/dispatch.rs` | none of its own; the order in which it uses the latch and the caches | filter subselect, role dictionaries, clean start, lookup, query, check, store, render, last check | pool, both caches, planner |
| Result cache, `execute/cache.rs` | entries, byte counter, hit counters, the process-wide data epoch | get, insert with eviction, clear, bump the epoch | execute path, reload |
| Dictionary cache, `engine/dim_cache.rs` | dictionaries by dimension, role predicate and epoch | get or build, clear | execute path, members, reload |
| Reload, `main.rs` `reload_data`, `reload.rs`, `status.rs` | the current pool, the status record; the watcher's last stamp | SIGHUP, poll, disable stale rollups, open, stamp, swap, bump, publish, clear | everything above |
| XMLA sessions, `xmla/session.rs`, `xmla/response.rs` | a bounded, expiring queue of ids; the response id of each pool thread | begin, use, end, respond | request serving |
| Aggregation sidecar, `engine/aggregate.rs`, `engine/sql.rs` | rollup tables and their stamp in a second file; the rollups in use | build at startup, check, disable, route a plan | pool, reload, roles |
| Authentication, `auth/mod.rs`, `main.rs` `build_user_context` | JWKS keys by kid, a refresh mutex, the discovered key-set URI | the bind decision, user from a proxy's header or from a token, key lookup with a double-checked fetch | identity provider, request serving, roles |
| Roles, `engine/model.rs`, `project/config.rs` | none (pure) | effective filters and permissions over a user's roles | planner, routing, rowsets |
| Planner, `engine/plan.rs`, `engine/normalize.rs` | none (pure) | a query to a plan, the role gates, the text of the plan in the cache key | SQL, result cache |
| Settings and budgets, `engine/settings.rs` | read once | precedence of sources, division of memory and threads | pool, slots |
| MDX, `mdx/` | none (pure) | lex, parse, resolve to a semantic query | planner |
| Rendering, `execute/render.rs`, `execute/axis_members.rs`, `xmla/cellset.rs` | none, but queries while it renders | axes, cells, totals | dictionaries, pool |
| Member rowset, `xmla/discover/members.rs` | a cursor while streaming | TREE_OP selection, chunked stream | dictionaries |
| Other rowsets, `xmla/discover/` | none (pure) | projections of the model | roles |
| Request parser, `xmla/parser.rs` | the locals of one pass: open elements, flags, pending text | the events of the XML reader to a request or a refusal, the session header | request serving, sessions |
| Configuration, `project/` | the main file and the section files | load, defaults, canonical form, `mallard fmt`, the semantic model | the contract tools, every server that starts |
| Contract tools, `tools/contract*.rs` | none | generate from upstream models, validate, project | the configuration |
| Parent-child dimensions, `project/project.rs`, `backend/mod.rs`, `tools/qualify.rs` | columns added to the dimension's own table | materialise at a start, read back, qualify | the data file |
| Converter, `tools/convert_tabular.rs`, `tools/parse_*.rs`, `tools/tabular_model.rs` | none; the files it writes | parse an export, classify, lower measures, write, report | the configuration, the loading scripts |
| Loading scripts, `tools/data_loader.rs`, `tools/m_query.rs` | the database they fill | load from the sources, load dummy rows, bootstrap | the data file |
| Replay, load and trace tools, audit and trace logs | files | offline, or output only | |

### What is hard, and what must hold

* **Requests on shared connections.** A checkout never waits, so one connection
  serves several workers at once when there are more slots than connections or
  when the cursor wraps.  The latch has no owner.  Must hold: a failed query is
  never answered as a number or cached; a fault is the request's own.
* **Timeouts.** The client is answered while the worker runs on.  Must hold: the
  permit stays with the worker, comes back in the end, and every request is told
  something.
* **Reloads.** A lease taken before a swap is used after it; the epoch in a cache
  key is read later than the lease; two triggers run the same unserialised
  function.  Must hold: no old data under a new key, no rollup query without a
  sidecar, no step back to older data, `/status` and cache keys agree, every
  change gets served.
* **The result cache.** Two budgets, one loop, a byte counter beside the map.
  Must hold: both bounds, an exact counter, and the plain contract of a cache.
* **Sessions.** Expiry looks at the front of the queue only; the response id
  lives in a thread-local of a reused thread.  Must hold: only live ids are
  accepted, live ids are refused only under pressure, nobody receives another
  client's id.
* **The sidecar.** It is built statement by statement in a file that survives a
  crash, and reused on the strength of a stamp.  Must hold: a sidecar that looks
  current is whole; a routed plan reads rollups of the version the pool reads.
* **Rollup routing.** One plan has two queries, and the text of role filters is
  moved from one to the other.  Must hold: both give one answer.
* **Authentication.**  Several requests miss a key at once while the provider rotates
  its keys; who an unidentified caller is, is decided in three places.  Must hold: a
  rotation costs one refresh, no token is refused for a key that was published
  throughout, the door answers everyone, and an anonymous caller is what `/status` says.
* **Answers.**  A cell carries an ordinal and nothing else; labels are plain or whole
  paths depending on the filters; totals are asked for apart from the members; two
  plans may share rows.  Must hold: the value under a tuple is the measure over the
  rows the tuple, the slicer and the roles leave, no such cell is missing, and nothing
  denied is shown.
* **Metadata.**  A tree is a flat list whose links are names; a rowset is cut into
  chunks; ten rowsets each apply roles, visibility and restrictions by themselves.
  Must hold: the client gets the tree it asked for, counts are what is listed, the
  rowsets agree and say nothing of a hidden table.
* **Statements.**  The parts of a statement are found by separate walks over its tree,
  and its conditions are spread over slicer, subselects, axes and named sets.  Must
  hold: the text of a question is read as that question whatever its spelling, and the
  conditions keep the rows they denote.
* **Requests.**  A document is read in one pass with two dozen flags that a start sets
  and an end clears.  Must hold: a request is refused exactly if it does not conform, and
  otherwise carries everything it says, however it is spelled.
* **Projects and contracts.**  Files are rewritten one by one in place, what may be left
  out is derived again when they are read, and what is matched by name is matched in
  several places.  Must hold: formatting keeps the meaning, the engine serves what the
  contract declares, a generated contract carries its sources.
* **Parent-child trees.**  Levels are columns written statement by statement, without a
  transaction, and used by whoever starts later.  Must hold: rows that qualify are served
  as the tree they are.
* **Conversions.**  A measure is classified, lowered and downgraded; configuration,
  tables, bridges, scripts and report are written from there apart.  Must hold: they
  agree, everything is carried over or reported, rows can be joined and are loaded from
  their sources.
* **Settings** (`engine/settings.rs`): see the plan.

The full list, at its lines, is "hazards" in `PROJECT.json`.

## 2. Modules

    Backend ── Serving ── MCServing                (TLC)
                  └────── ServingProofs          (TLAPS)
    CacheContract ── ResultCache ── ResultCacheProofs
    SessionRegistry ──┬─ AdmissionProofs
    FrontDoor ────────┘
    Sidecar ──┬── RollupService ──┬─ MCRollupService
    Rollups ──┘                   └─ RollupProofs
       └ Roles
    Cube ── Planner ──┬─ Cellset ── Answers ── AnswerProperties
              │                               └── AnswerProofs
              Syntax ─┴─ Statements ── StatementProperties
    Requests
    Roles ── Rowsets ── Discover ── MCDiscover
    Configuration ── Contracts ──┬─ Binding ──┬─ Deployment ─┬─ MCDeployment
                                 └─ Generator ┘              └─ DeploymentProofs
    ParentChild ── ParentChildProofs
    Tabular ── Conversion ── Migration
    Once (a value computed once)           ── Cellset, Syntax, Configuration
    Counting (lemmas on sums)              ── ResultCacheProofs, RollupProofs,
                                              ParentChildProofs, DeploymentProofs

    MCRollupService, FrontDoor             ── MCFrontDoor   (run rollups)
    ResultCache, AnswerProperties,
      StatementProperties, Requests        ── MCAnswers     (run result_cache)
    SessionRegistry, MCDiscover,
      MCDeployment, ParentChild, Migration ── MCWorkbench   (run sessions)

The last three MC modules hold components that share no state.  A variable `part`
is chosen at the start and says which of them moves; the states of the run are the sum
of theirs, not their product.  `result_cache` has the parts cache, answers, statements
and requests; `sessions` has sessions, rowsets, deployment, tree and migration.

### Backend

The pools and their connections.  A slot `<<pool, i>>` is one connection: `data`
is the version of the file it has open, `sidecar` whether the rollup file is
attached, `failure` the latch (`Backend.last_failure`), `running` who holds the
mutex, `interrupted` who called `interrupt()` during the running query.  The
module has no `Next`: its operators are the bodies of the Rust methods, and
`Serving` conjoins them with the callers.

### Serving

One action per step of `handle_xmla`, of the worker, and of `reload_data` between
which another task can run.  `pc[r]` follows a request through the code:

| `pc` | code |
|---|---|
| new, queued | `handle_xmla` before and at `acquire_owned` |
| filter, checkfilter | the Top-N subselect, `filter_members_for_subselect` |
| dictkey, dictget, store | `DimCache::get_with_filter`: key, lookup, insert |
| wait, run | a `query_*` call: `lock_conn`, then the engine |
| rolecheck | the latch check after the role dictionaries |
| clean | "Start clean", `runtime.rs` 357-360 |
| key, get, checkrows | the result-cache key, the lookup, the check before the insert |
| render, axes, final | extra value and dictionary queries, the last check |

`goal[r]` says what the query under way is for; what came of it is in `got[r]`.
A query's result is reduced to the file version it read and whether it succeeded.
Requests are of four kinds: `execute`, `restricted` (an execute of a user with row
filters), `drillthrough` (no result cache) and `members` (a dictionary only).
`client[r]` is what the client was told, `blame[r]` whose failure a fault reports:
a history variable, nothing reads it.

A reload runs once per trigger (`rpc[k]`): stale, open (once per connection),
stamp, swap, bump, publish, clear, cleardicts, in the order of `reload_data`.
Pool identities are taken again only when no lease, handler or reload holds them,
as with the `Arc` in the code.

Undefined or outside: `ReplaceFile` is the external loader (rename over the data
file; open connections keep the old inode); an engine error is a nondeterministic
choice, bounded by `MaxFaults`; a panic, refusal or tabular error is `Unwind`,
bounded by `MaxUnwinds`.

Two simplifications a reader should know.  All queries have one text, so the
caches are keyed by epoch and row scope only: different texts never meet in the
code's keys.  And every version of the file has a stamp of its own, while the code
compares size and seconds (see the hazards).

### ResultCache and CacheContract

`ResultCache` is `execute/cache.rs` alone: map, byte counter, counters, clock.
Each operation runs under the map's mutex and is one step.  The eviction loop is
one operator, `Survivors`: all other entries if there is room, else the fresh
ones, else the youngest that leave room, any order among equally old ones.
`CacheContract` is what callers rely on: a lookup answers the value last stored,
less than a TTL ago and not cleared since, or nothing.  `ResultCache` implements
it under `store <- entries`.

### SessionRegistry

`xmla/session.rs`, the session part of `route_request` and the thread-local of
`xmla/response.rs` together, because the property that matters spans them.  Ids
are numbered in the order of issue, so the queue is a set and its front the
smallest id.  Requests run on a fixed set of reused threads; a refusal is a fault
that never sets the thread-local, exactly as `session_fault` returns early.

### Sidecar

`ensure_aggregations` statement by statement, the pool opened after it, the check
in `reload_data`, and `Crash` between any two steps.  On disk are the tables (the
file version each was built from, 0 when missing) and `meta`, the stamp.  `stamp` and
`from` are locals of the build: the stamp is taken first, the file attached later,
and the loader may replace the file in between.  `BuildFails` is any error of a
statement; the process then serves from the fact table.  `moved` is a history
variable: the file changed between a stamp and the pool opened next, a window the
code leaves open and the hazards name.

`write_stamp` deletes and inserts in two steps, the finer reading of the batch.
`disable_stale_aggregations` may always disable: a sidecar that cannot be opened
counts as stale.  Versions only grow; a file put back to an older size and second is a
hazard without a property.

### Roles, Rollups and RollupService

`Roles` and `Rollups` are pure.  A role filter is text in the code; here it is the
sequence of its disjuncts, each a set of column tests, because the one thing about
the text that matters is where the parentheses are: `AndHolds` reads clauses joined as
the code joins them, and SQL's precedence makes one conjunction of the disjuncts that
meet (`MeetsLater`).

`Rollups` holds both sides of every plan: `route_plan` and `RollupAnswer` over the rows
`build_sql` made, `FactAnswer` over the fact rows.  A filter lists member keys (paths
of values), or selects a scope (label, range, date window), or is a time flag.  The
answer is a set of pairs of group labels and sum.  `RollupService` asks plans while
`Sidecar` lives and compares.  A question changes nothing, so one between two steps
of the sidecar is enough.

`TranslatedAnswersAsFact` names what the rollup query silently relies on, as four
conditions: filters list single keys (`ListsSingleKeys`), the rolled-up dimension is
grouped first and one level below its single parent (`GroupsOneDown`), no role filter
has an OR beside another condition (`JoinsByAnd`), no other dimension has a level of
the same name (`HoldsOwnTable`).  `RollupAnswersAsFact` is the promise without them.
`validate_rollups` compares sums, here exactly (the code allows a relative difference of
1e-6).  Facts without a row of the dimension go unnoticed if they add up to nothing;
`LossesShow` says that they do not, which positive amounts or a foreign key ensure.

### FrontDoor

The bind decision at startup, `build_user_context` and the JWKS cache.  `stage[r]`
follows a request: it arrives with a credential, and is answered at once (a trusted
proxy's header, no mechanism, no token), or looks its key up, waits for the refresh
mutex, looks again, asks the provider for the discovery document and the key set, and
stores what came.  A request that waits blocks a worker of the runtime, because the
code calls a blocking client inside the async handler: `Admit` needs a free one.
`published` is the provider's key set and may change; `kept[r]` and `stores` are
history.  The mutex is held across the fetch and given back on every way out, the
failed ones included.

`ureq` is used without a time limit, so a provider that never answers would block a
worker, and every request behind the mutex, for good: that the provider answers or
fails is an assumption (see fairness).  The header comment of `auth/mod.rs` (lines
10-12) promises one refresh per rotation.  That holds for the stores; a kid the
provider does not know fetches again for every request that carries it.

### Cube, Planner, Cellset, Answers

The way of a statement from its meaning to a cellset.  `Cube` is data: dimensions with
levels, members with a key, a path label and a plain name per level, measures over two
fact tables, rows, and what each reader may see.  `Planner` is `mdx/semantic.rs` from
the parsed statement on (its kind, the level each dimension is listed at, the filters a
drill adds), `engine/plan.rs` (measure, form and gates of the plan),
`engine/normalize.rs` (`PlanKey`, the text of the plan) and `engine/sql.rs` (what each
form of plan fetches; set functions and tuple sets are evaluated as the SQL does).
`Cellset` is `execute/render.rs`, one operator per builder: an answer is a sequence of
axes, each a sequence of tuples, and a set of cells with an ordinal.  A drilled axis is
built in pre-order as the code builds it, with the totals the code passes down.
`Answers` serves one statement after another: refuse, plan, take rows from the cache or
the engine, have (All) evaluated, render.

Labels are numbers that sort as the strings do, 0 the empty string; level 0 is the
physical key.  `Lists` says which label is, as text, a list of others, because
`filter_suffix` joins with commas.

`AnswerProperties` compares the answer with the rows.  It knows 24 situations in which
the renderer answers otherwise; each is an operator with a name, or a disjunct, and
the properties except exactly these:

* layout: the ordinals of several measures on the second edge (`MeasuresOnRows`), several
  measures on an edge after the dimensions (`MeasuresLast`), two dimensions on one edge of
  `MeasureByCategory` (`unreachable!()`), a full slicer that repeats a measure of an axis;
* levels: both edges of a grid take the first dimension's level and a larger pivot none
  (`Mislabelled`), a level dragged or a drill without NON EMPTY below a single parent
  (`DragUnderOne`, `LooseDrill`);
* totals: larger pivots and nested drills sum what does not add up (`SummedTotal`), values
  at the grain of the key are matched with members above it, a slicer equal to the drill's
  filter is dropped (`SlicedAsDrilled`), members between a deep drill's target and the top
  take the total, and the top is read without the reader's roles (`AboveDrill`), a target
  below the top or outside the roots lists its ancestors twice (`Repeats`);
* text: a blank label at the head of a coordinate is lost (`Blank`), member names with a
  comma share a plan key with a list (`MistakenRows`);
* defaults: a statement without a measure is planned for the default of one table and
  rendered with that of the model (`OtherDefault`), and the injected (All) of that measure
  is read even where its table is hidden from the reader (`DefaultUnasked`, the one
  exception of `NothingDeniedIsShown`); the set function ranks the first
  dimension only and a pivot of more drops it;  a value missing from a plan of several
  measures is rendered as 0.0, which `execute/render.rs` documents.

### Syntax, Statements and StatementProperties

`Syntax` is the grammar of `mdx/parser.rs` over tokens of `mdx/lexer.rs`: the lexer's
work on characters is left out, a token is a word, a name, a key, a number, a text or a
mark.  `Statements` is `mdx/frontend.rs` and the part of `mdx/semantic.rs` that asks it:
named sets put in place, the walks that collect dimensions, slots, filters, drills,
levels, tuples, set functions and exclusions, the refusal of filters that cannot be
lowered, and the conditions in force.  `StatementProperties` writes statements: the
questions of `AnswerProperties` in eight spellings, and conditions of every form in
every place.  It is a reference that goes from meaning to text, where the code goes from
text to meaning.

`FiltersKeepTheirRows` excepts these statements, each an operator with a name
(`SubselectsRestrict` excepts none, and the run `subselects` refutes it):

* conditions on one dimension in several places are united, where `mdx/ast.rs` (line 13)
  says a subselect restricts (`United`); members of several levels are all read at the
  level of the first (`DeepestFirst`);
* a range is compared under the ancestors of its first end, and on a dimension without
  levels keeps everything (`OutOfRange`);
* ranges of subselects and named sets, filters of the slicer and of inner subselects,
  and windows off the axes are not looked for (`Overlooked`);
* a date filter over a set without `.Levels` is not applied, and refused only where its
  test is bare, on an axis or in the slicer (`Unseen`); the refusal compares two counts,
  so an applied date filter makes up for one that is not (`MadeUpFor`).

Met on the way and not written as statements: `-{...}` in the slicer is read as an
inclusion; `BottomPercent` as `TopPercent`; only the first set function counts;
`IsEmpty` counts as lowered; tokens after the statement are ignored; the raw token of a
level in `LastPeriods` and `ParallelPeriod` is compared with names; a set named in its
own body recurses without end.  Left out: `DateAdd` and the relative windows, quoted
bodies in WITH, and the probes with `AddCalculatedMembers`.

### Rowsets and Discover

`Rowsets` is `xmla/discover/`: what each rowset lists for a user under a restriction,
and the member rowset in order with TREE_OP.  A unique name is the sequence of what it
spells, a member's the hierarchy and the parts of its key: the code builds the name of a
member, the parent name of its children and the keys that are counted apart from one
another, and splits at `|`, so the model keeps the parts.  `Discover` is a client: it asks
for members, which are chosen as a whole, limited, and streamed in chunks by `poll_next`,
or for the other rowsets.

`ClientReceivesTheTree` compares the chunks with a tree that is defined on the rows of
the dimension table and knows no names.  Departures: a date above the leaf (named with a
time of day, but not where it is a parent), a separator inside a key and a day under two
months break the links (`Tangled`); the days' (All) goes with a restriction to a level
(`AllOfDaysLost`), has the model's figure for a child count, and the days are ordered by
the path above them, not by date.  Further: an anchor outside the restriction finds
nothing (a test wants that, `members.rs` 1742); MEMBERS does not look at visibility;
DEFAULT_MEMBER of `[Measures]` may be a measure the user cannot see; PROPERTIES compares
names exactly where the others ignore case; a measure's own group need not be a listed
group.  The walk of ANCESTORS has no visited set and needs none: a parent's name is
always shorter.

### Requests

`parse_xmla` event by event.  A document is a tree of elements, each with the namespace
its name resolves to, and texts; `Events` turns it into what the XML reader hands over,
in four spellings: plain, with blanks and comments between the elements, with texts in
CDATA and references, with empty elements self-closed.  `reader` holds the locals of the
loop: `open` is the stack of names with what they are bound to, `inside` the `in_...`
flags, `met` the `saw_...` flags, `pending` the text since the last end, `restriction`
the restriction it is in, `named` those met, in order, `applied` and `kept` what was
taken.  An action is a branch of the match on the event; `ReaderFails` is its error,
`Answers` the end of the file with `session_header`'s own pass.

`RequestsAreReadWhole` reads the same document as a tree, by places and not by events.
What it says of the code, by name or in the comment: a self-closed `<CUBE_NAME/>` is not
applied while `<CUBE_NAME></CUBE_NAME>` is, a self-closed `<BeginSession/>` begins no
session in `parse_xmla`, a self-closed child of `PropertyName` is not looked at
(`HasEnd`); a restriction called `BeginSession` is not refused; advertised restrictions
that nothing looks at (`Ignored`) and numbers that are none restrict nothing; the rowsets
in `CarryNothing` take neither restrictions nor a catalog; of a repeated restriction the
last counts; any `</Header>` ends the SOAP header for `session_header`.  Also seen and not
written as documents: stray text before a leaf is taken for the leaf's, and a Body of a
foreign namespace under the Envelope counts as the Body.

Left out: the characters of names and attributes (one flaw stands for what XML forbids),
documents that stop before their end, rowsets that are advertised and never answered, and
all but two of the IDs of `DISCOVER_XML_METADATA`.

### Configuration, Contracts, Binding, Generator, Deployment

`Configuration` is `project/config.rs` and `project/config_io.rs`: what a field has when it
is left out (`Written`, `Read`: serde), what is derived from other fields when a
configuration is loaded and left out again when it is written (`Derived`, used both
ways), and which texts the canonical form has.  `Contracts` is `tools/contract.rs` (`Valid`)
and `tools/contract_project.rs` (`projects`, `project`); `Generator` is
`tools/contract_generate.rs`, from the parsed files of a SQLMesh project and its overlay
(`builds`, `build`); `Binding` is `project/project.rs` and the lookups the engine makes in
the model when it writes SQL.

`Deployment` is the way into service.  `disk` has the files; `pending` the files `mallard
fmt` has still to write, so a server may start, or a write fail, between two of them
(`fs::write` cut short leaves a file that nothing loads).  `DeclareFile` and `SpellOut` are
edits by hand.  `meaning` remembers what the files meant when they were read.

Exceptions of the properties: two grains served under one id are one table to the engine,
which no check of the contract sees (`ServedApart`); two schemas with a table of the same
name cannot be told apart (`TablesApart`).  Met and left: a dimension of a composite key is
joined on one column of it and fans out; a date role without a catalogue gets conventional
column names.  Left out: the syntax of JSON and YAML with its duplicate keys, the
parsing and normalising of SQL text, the YAML 1.1 check.

### ParentChild

A server that starts computes the paths from the roots by recursion up to a depth and
writes them into columns `__pc_l1`, `__pc_l2`, ... of the dimension's own table, one
statement after another: `todo` is what it has still to run, `Crash` leaves what was
written.  A later server uses the columns that are there (`OpenProject`), unless there are
none and it may write, or the configuration asks for a refresh; tools that only read open
a project the same way.  `mallard qualify` judges the rows (`Qualifies`).
`QualifiedTreesAreServed` compares the two: they decide apart what a root is and how deep a
tree may be.  A row that is its own parent is a root and joins to itself: it loops to the
limit, and qualify blocks it as too deep.  Levels computed from other rows than those now
in the table are what a change without a refresh leaves, so the property asks that
they were computed to the end from these rows (`built`).

### Tabular, Conversion, Migration

`Tabular` is what the three parsers make of an export.  `parse_model` is a set, because the
files of a folder are listed in any order.  `Conversion` classifies it into a star, lowers
the measures and says what each file contains; a DAX expression is reduced to the form
that the code tells apart.  `Migration` has the steps: a conversion writes its files in
order and may die on a write, the export may be revised and converted again into the
same directory, `bootstrap.sql` runs on a database, again if somebody runs it again.

Exceptions of `ConvertedAsReported` and its neighbours, each at its place in the module:

* the configuration is not valid JSON when the last relationship leads to no dimension
  (a comma is left over, `convert_tabular.rs` 464-514: `ListIsClosed`);
* relationships that start at another table are written as the fact's; an aggregate
  followed by more (`SUM(a) / SUM(b)`) is lowered to its first part, where
  `docs/converting-models.md` (36-38) promises bridge code for composite DAX; a measure over the
  year before that keeps its flag has no SQL; measures of other tables have neither
  bridge file nor report line, and two of one identifier share a bridge
  (`NotCarriedOver`);
* of several tables most relationships start at, any is the fact, and of several
  relationships or partitions in a folder any comes first (`Ambiguous`);
* a bridge of a running total counts `order_id` whatever it is of, a bridge takes names
  from any table and joins by the name the fact's key has, a difference keeps two
  operands, and a quotient of plain sums is a stub (`BridgesReadTheirColumns`);
* date tables are left to `seed_date_dim.sql`, which `bootstrap.sql` does not read although
  the report says so; hidden columns are loaded although the header of `data_loader.rs`
  says they are not; running bootstrap twice doubles the rows;
* a query behind an M source is ignored, only one partition is loaded and columns go by
  position, which is not looked at; an M that names no table loads "(unknown)"
  (`Tableless`), and two servers behind a data source the export does not describe share
  one attachment (`Undescribed`).  `LoadedFromDescribedSource` excepts these two, and the
  run `load_sources` checks `LoadedFromItsSource`, which does not, and fails.

Calculated tables are not named in the report, where `docs/converting-models.md` expects
them.  Left out: unreadable files of a folder (skipped without a word) and everything
about the wording of the scripts.

## 3. What is checked

| Run | Instance | Shows |
|---|---|---|
| `exclusive` | 2 requests, 1 slot, 1 connection, timeouts, fairness; none restricted, 2 engine errors and 1 unwind, or both restricted without them | PermitsConserved, NoWrongNumber, CacheHoldsGoodRows, FaultIsOwn, EveryRequestAnswered, PermitsReturn |
| `reload` | 2 connections per pool, 3 pools, sidecar, 1 failed open or query, fairness of the watcher; a request that computes, 2 versions and 2 SIGHUPs, or a metadata request, 3 versions and the watcher | RollupIsAttached, StatusTellsEpoch, NewerPoolOnly, WatcherConverges |
| `result_cache` | 3 keys, sizes 1, 2 and 4, cap 2, budget 3, TTL 2, 3 ticks, 2 of each counter | BytesAreCounted, EntriesBounded, ImplementsContract |
| | or a cube of 4 dimensions, 5 measures and 10 rows, 5 readers, about 130 questions, one after another where two share a cache key | CellsAnswerTheirRows, LaidOutAsAsked, RankingKeepsTheTop, NothingDeniedIsShown, KeptRowsAreTheQuestions |
| | or some 3,500 statements: each question in 8 spellings, one or two of some 40 conditions in 5 places | StatementReadsBack, FiltersKeepTheirRows |
| | or some 1,400 request documents: every answered rowset with each restriction it advertises, one it does not, and none; two requests with one change at any place; 4 spellings; a failure of the reader at any event | RequestsAreReadWhole |
| `sessions` | 4 requests on 2 threads, 3 ids, room for 2, TTL 1, 2 ticks | ReplyIsOwn, AcceptsOnlyLive, RefusesOnlyDead |
| | or 4 dimensions, 2 fact tables, 3 measures, 6 users, about 140 member requests and 20 restrictions, chunks of 3 rows, a limit of 33 | ClientReceivesTheTree, RowsetsAgree |
| | or about 45 contracts and 25 SQLMesh projects, 2 sections that may be split off, 1 failed write | FormattingKeepsMeaning, ServedAsDeclared, GeneratedCarriesAll |
| | or 4 rows of a parent-child dimension, depth limit 3, 2 changes, 1 crash | QualifiedTreesAreServed |
| | or about 300 exports in 3 formats, 2 conversions, 2 loads, 6 fact rows and 4 of each other table | ConvertedAsReported, RelatedRowsAreFound, LoadedFromDescribedSource |
| `rollups` | 3 versions (the last fails validation), 3 dimensions, 4 rollups, 103 plans, 15 users | CurrentSidecarIsWhole, RollupIsCurrent, TranslatedAnswersAsFact |
| | or 2 callers, 2 kids, 2 rotations, 2 workers, fairness | SingleRefresh, UnknownWasUnpublished, AnonymousAsReported, DoorAnswers |
| `rollup_filters` | one date window, label and key path, unrestricted user | violated: see findings |
| `rollup_roles` | a user of two roles, totals | violated: see findings |
| `stale_dictionary` | 2 members requests, 1 SIGHUP | violated: see findings |
| `failed_dictionary` | 2 members requests, timeouts | violated: see findings |
| `shared_latch` | 2 slots on 1 connection, 1 engine error | violated: see findings |
| `subselects` | 16 statements with a slicer and a subselect over members | violated: see findings |
| `load_sources` | 24 exports whose partitions name data sources, 1 conversion | violated: see findings |

Bounds.  Every property about interference needs two actors: the one that leaves
something behind (a failure, a lease, a thread-local) and the one that finds it;
a third repeats one of them.  Three pool identities are the old pool, the one
being opened and one a late lease still holds.  Two connections per pool let a
file change between two opens.  In the cache, sizes 1, 2 and 4 against a budget of
3 give a value that fits twice, once and never, and three ticks against a TTL of 2
pass both sides of the boundary.  Three versions of the data file let a build be
overtaken twice: a rollup of the first, a stamp of the second, a pool of the third.
The amounts are powers of two, so different sets of rows have different sums, and
positive (compensating amounts would pass validation, see the code's tolerance); the
date dimension has a level more than its rollups need, so that filters and role
filters lie above, at and below the rollup.  Three ids against a capacity of 2 push one out
while another ends or expires.  `CHECK_DEADLOCK FALSE` in the runs of `Serving`,
`MCAnswers` and `MCWorkbench`: requests, faults, replacements, writes and clocks are
bounded, so the bounded system stops.  The rollup runs check deadlock.

At the front door two callers on two workers are one that fetches and one that waits for
the mutex; two rotations let an answer be overtaken twice.
The amounts of the cube are powers of two, so a sum names its rows.  It has one
dimension of three levels whose plain names repeat under different parents, a blank
label, a label that lists others, a dimension of another fact table and a measure that
does not add up; a behaviour asks one statement, or two readings of one cache key.  In
the metadata a stream of 0, 1, 2 and more chunks, one ending on a boundary, and one
member too many all occur; one dimension is tangled in each way and one is clean.

A request document differs from one that clients send at one place at most, and the base
requests have every place the rules speak of; two flaws would both be refused.  The
contracts vary one declaration each: accepted and projected otherwise, accepted and
refused by the projection, or not accepted.  Two split sections give a formatting that is
cut off before, between and after its files.  Four rows hold every shape of tree up to
one level more than the limit of 3, a cycle, an orphan, a double key and a row without
one; two changes let a tree grow deeper and shallower again, and a crash comes between
any two statements.  The exports vary one thing each (a measure, a relationship, a
column, a hierarchy, a source, the format).  Six fact rows over four dimension rows wrap
around, and three days and four date keys do too.

### Fairness

`Fairness` of `Serving` (the run `exclusive` takes its part for requests, `reload` the
watcher's) assumes weak fairness of `Acquire`, of a worker's steps together, of
`InterruptWorker`, of each reload's steps together and of the trigger loops.  The
code justifies it: tokio's semaphore is FIFO and its tasks are polled, a worker is
a thread, the connection mutex is released after every query, an engine query
ends.  Nothing is assumed of clients, of timeouts, of the operator or the loader.
Weak fairness of `Acquire` suffices in `exclusive` because two requests share one
slot; with more waiters the FIFO order of the semaphore is what the model leaves
out.  Its liveness is checked over panics, refusals and engine errors where no reader is
restricted, and over timeouts and lost interrupts for both kinds (`ExclusiveSpec`); two
panics, or failures of restricted requests, would only make the instance larger.  In
`reload` one trigger runs at a time (`OneTrigger`): with both, `NewerPoolOnly` and
`StatusTellsEpoch` fail in the code as in the model, and no run shows it.  `OpenFails` is bounded, which stands for "not every open fails forever".

`DoorAnswers` assumes weak fairness of admitting a caller and of a request's own steps.
The runtime polls its tasks and a thread runs on; that the mutex goes to each waiter in
the end and that the provider answers or fails are assumptions (the code sets no time
limit).

### Findings

Seven runs end in a counterexample against a sentence of the repository:

* `shared_latch`: `execute/runtime.rs` 360 and 373.  Two workers on one
  connection; the second one's clean start takes the first one's failure, whose
  zero is then cached and answered (README line 52: "it never returns a plausible
  wrong number").
* `stale_dictionary`: `engine/dim_cache.rs` 121.  The lease is older than the
  epoch in the key, so an old dictionary is filed under the new epoch (line 76
  promises the opposite).
* `failed_dictionary`: `backend/mod.rs` 865.  `query_strings` records a failed
  prepare and a failed row, not a failed execution; after an interrupt the empty
  dictionary is kept (`dim_cache.rs` 131 explains why it must not be).

* `rollup_roles`: `engine/sql.rs` 616.  A user of the roles "north" and "south" who
  slices by North is told the total of both: the rollup query reads
  `region IN ('North') AND (north) OR (south)` (line 406: "a rollup must never bypass
  row-level security").
* `rollup_filters`: `engine/sql.rs` 593.  A plan with a date window, a label filter or a
  compound key is routed to a rollup whose query has no such condition, or compares
  the whole path with one column; a year-to-date total is the total of all years
  (`plans/043`: "the rollup is filtered exactly like the fact path").
* `subselects`: `mdx/semantic.rs` 434-474.  A slicer and a subselect that name members of
  one dimension are merged into one filter of both, so that the statement reads rows its
  subselect excludes (`mdx/ast.rs` 13: "a subselect restricts the outer query").
* `load_sources`: `tools/data_loader.rs` 566.  Two partitions name a data source the
  export does not describe and read different databases; the second is loaded through the
  attachment of the first (line 244: "never generates potentially wrong SQL").

Other disagreements met on the way have no run of their own: the (All) of a default
measure whose table is hidden (`runtime.rs` 688, against 403: "a hidden fact table yields
no values at all"; `NothingDeniedIsShown` names it `DefaultUnasked`), the quotient of sums
that a conversion serves as its first sum (`docs/converting-models.md` 36 promises bridge
code; `NotCarriedOver`), a fetch for every token with an unknown key (`auth/mod.rs` 11:
the request path "never blocks on the network after the first token"), rows cached under the new
epoch (`runtime.rs` 362, heals with the TTL), the inherited fault of restricted requests
(`runtime.rs` 208), the stray interrupt (`main.rs` 1040), the sidecar check before the
open (`main.rs` 101), concurrent reloads (`main.rs` 106 and 112), the stamp after the
open (`main.rs` 104), the watcher's first stamp (`main.rs` 690), and what section 2 lists
with the modules.  The hazards in `PROJECT.json` name those a run of requests can meet.

## 4. What is proved

TLAPS checks these for every value of the constants that satisfies the named
assumptions of the modules (`Slots`, `PoolSize` positive, and so on).

| Theorem | Statement | Assumes besides |
|---|---|---|
| `TypeCorrect` (`ServingProofs`) | `Spec => []TypeOK` | `Req` finite |
| `PermitsAreConserved` | `Spec => []PermitsConserved` | `Req` finite |
| `RollupsAreAttached` | `Spec => []RollupIsAttached` | |
| `FailuresAreNotServed` | `Spec => []NoWrongNumber` | `Slots = 1` |
| `FailuresAreNotCached` | `Spec => []CacheHoldsGoodRows` | `Slots = 1` |
| `FaultsAreOwn` | `Spec => []FaultIsOwn` | `Slots = 1`, no restricted kind |
| `ServedDataMovesForward` | `Spec => NewerPoolOnly` | one trigger |
| `StatusTellsTheEpoch` | `Spec => []StatusTellsEpoch` | one trigger |
| `EntryCap` | `Spec => []EntriesBounded` | `Key` finite |
| `CacheKeepsContract` | `Spec => ImplementsContract` | `Key` finite |
| `BytesWithinBudget` | `Spec => []BytesAreCounted` | `Key` finite |
| `TypesKept` (`ResultCacheProofs`) | `Spec => []TypeOK` | `Key` finite |
| `KeptRowsServeTheQuestion` | `AnswersSpec => []KeptRowsAreTheQuestions` | filters of the known forms |
| `DeniedReadersGetNoValue` | `AnswersSpec => []DeniedGetNoValue` | filters of the known forms |
| `RepliesAreOwn` | `Spec => []ReplyIsOwn` | |
| `OnlyLiveAccepted` | `Spec => AcceptsOnlyLive` | |
| `OnlyDeadRefused` | `Spec => RefusesOnlyDead` | |
| `TypeCorrect` (`RollupProofs`) | `Spec => []TypeOK` | |
| `CurrentSidecarsAreWhole` | `Spec => []CurrentSidecarIsWhole` | |
| `RollupsAreCurrent` | `Spec => []RollupIsCurrent` | |
| `TranslatedAnswers` | `ServiceSpec => []TranslatedAnswersAsFact` | `LossesShow` |
| `RefreshedOnce` | `DoorSpec => []SingleRefresh` | |
| `TurnedAwayRightly` | `DoorSpec => []UnknownWasUnpublished` | |
| `AnonymousTold` | `DoorSpec => []AnonymousAsReported` | |
| `QualifiedRowsAreATree` | `TreeSpec => []QualifiedTreesAreServed` | `RowId` finite |
| `FormattingIsFaithful` | `DeploymentSpec => []FormattingKeepsMeaning` | contracts have lists |
| `ServedIsDeclared` | `DeploymentSpec => []ServedAsDeclared` | contracts have lists |

What the last column names is in the code, or says for which deployment the result
holds.  `Slots = 1` is what `engine/settings.rs` (285) gives a machine of up to seven cores that
configures nothing else; one trigger is a server whose operator sends SIGHUP or lets the
watcher poll, not both.  With two slots `shared_latch` refutes the property, and two
triggers do overlap.  A filter has a form and members because that is all a
`TypedDimensionFilter` can hold (`QuestionAssumption`); a label that lists others lists at
least one (`ListsAssumption`: text with a comma has something on either side of it); the
lists of a contract are `Vec`s and a measure's window an `Option`, whoever wrote or
generated them (`ContractAssumption`).
`PlanAssumption` says the same of the plan's filters for the rollup service, and
`DimAssumption` that the dimensions of a model have names of their own, none of them that of
the fact.  `UserAssumption` is about
a deployment: a role's filter on a related table names a column of that table.  TLC
evaluates all of them in the runs.

The arguments:

* **Types and permits** (`ServingProofs`).  `TypeOK` alone is inductive except for
  `slots`: that a permit returned does not exceed `Slots` needs the count of busy
  workers, so both are proved together.  The type invariant is split into one
  conjunct per group of variables, and each action is shown to keep each group.
* **Failures** (`ServingProofs`).  With one permit at most one worker is busy.  The
  strengthening says that a failed goal of the busy worker is still in the latch
  of its connection whenever it can still reach an answer, that results in the
  cache are good, and for `FaultsAreOwn` that after the clean start the latch
  holds the worker's own failure or nothing.  `shared_latch` shows why one permit
  is needed; restricted requests check the latch before the clean start.
* **Rollups** (`ServingProofs`).  A rollup query sees the sidecar because routing is
  read while `agg` holds.  The strengthening says: while `agg` holds, every
  connection of the current pool, of every pool being opened (up to the
  connection reached) and of every leased pool has the sidecar, and `agg` never
  comes back.  Both triggers may run.
* **One trigger** (`ServingProofs`).  `OpenedAfter` says that a connection a reload has
  opened is no older than any of the pool being served, and nothing is newer than the
  file; it needs `PoolsApart`, that a pool being opened is not the one being served.
  `StatusFollows` says where the epoch is while the status is behind it.
* **Cache** (`ResultCacheProofs`).  The cap needs that every member of `Survivors`
  leaves room or is empty.  For the contract each operation maps to one of the
  abstract operations or a stutter.  The byte counter is compared with a sum over a set:
  in `Counting` a sum of integers is the number of units due less that of units owed
  (`Units`), each a disjoint union, so that removing entries, adding one and replacing one
  are facts about cardinalities.
* **Answers** (`AnswerProofs`).  A key names the shape of its plan and, of its filters, the
  members joined with commas.  Members without a comma are the text of no other filter,
  so plans with one key are equal in everything the rows depend on; tuple sets are equal
  cell by cell.  The invariant `KeptWithKey` says that every entry was fetched for some
  question with that key.  The empty plan shares its key with no other, which is why a
  denied reader finds nothing another reader left.
* **Sessions** (`AdmissionProofs`).  `Sorted` (ids are issued in the order of time) makes
  popping the front the same as dropping all expired ids.  `Kept` says what may
  have been forgotten; the case of `Begin` counts the ids above the one that fell
  out.  `OwnThread` says that a running request has its thread to itself and that
  the thread-local holds nothing or the id that request began.
* **Front door** (`AdmissionProofs`).  `DoorInv` adds to the properties where the mutex is
  (`Held`: only its holder fetches, for a kid that is still not cached), what a request has
  left behind in each stage (`Progressed`) and a count (`Counted`): a store needs an answer
  that differs from the cached keys, so it comes after another publication.
* **Sidecar** (`RollupProofs`).  The property says nothing while the stamp is old, so
  the strengthening follows the build: nothing on disk is newer than the file
  (`NoneIsNewer`), the stamp is no newer than the version attached (`StampIsFresh`),
  while a build runs the stamp on disk is older than the file (`BuildIsNotCurrent`), the
  tables before `next` are those of `from` (`BuildProgress`), and while routing is on the
  stamp on disk is no newer than the pool (`RoutingIsStamped`).  The first of them uses
  that versions only grow.
* **Rollup answers** (`RollupProofs`).  What is read: `StampIsValidated` carries the sums
  that agreed through builds, crashes and reloads to the version the pool reads, so the
  content of the table is what `build_sql` makes of those rows, and by `LossesShow` every
  row joined.  What is computed: a rollup that covers a plan has every column of its
  filters, labels and role filters, and reads from a group what the fact query reads from
  its rows (`ColumnIsRead`); `SinglesHoldTogether` and `OneHoldsAlone` say when clauses
  joined by AND without parentheses mean their conjunction.  So a group is kept exactly
  when its rows are (`KeepsAgree`) and bears their labels (`LabelsAgree`), and the total of
  totals is the total of the rows (`RegroupedTotal`).
* **Trees** (`ParentChildProofs`).  First the mathematics: in rows that qualify every row is
  reached by exactly one path from a root, and its parent by that path without its last
  step, so the walk ends within the limit and each level has a row.  Then the program:
  which columns hold which level after how many statements, what a crash leaves, and
  that a server which finds a current set of columns may use it as it is.
* **Formatting** (`DeploymentProofs`).  What serde leaves out it puts back, and what
  `deminimize` leaves out `normalize` derives again.  The second is not obvious: a
  measure's group is derived from a fact table that may itself have been left out, and a
  table's group from its id, so the configuration read, the one filled in and the one
  written must agree on the default table and on every group (`SameFacts`).  From there
  the files of the canonical form load as the configuration.  The invariant says that
  everything on disk can be read (`DiskReadable`) and that the files not pending are
  those of the canonical form (`FormatProgress`); edits by hand, failed writes and
  servers started half-way keep it.
* **Contracts** (`DeploymentProofs`).  It would be simple if the files always loaded as the
  contract's projection, but they do not: a section file left over from an earlier project
  is picked up by a main file that lists it, and appends its entries.  What does hold is that
  the projection stays the beginning of every list (`Begins`), with the fact tables, the cube
  and the time dimension as they were (`Declares`).  The invariant (`DeclaredSoFar`) says so
  of the files while they have a main file (`Tells`), of what `mallard fmt` has read, and of
  the configuration every server was started with; it is kept half-way through a formatting
  because the main file is written last (`NextIsPending`) and because `normalize` changes
  nothing in what it filled in before (`FilledTwice`), so that formatted and unformatted
  lists can be mixed.  The beginning is enough, because the engine takes the
  first entry it finds (`FoundById`, `ServedJoin`): a measure is found by its id, its group
  and its table by its grain, and of the joins of a dimension the first is a declared one,
  on whose columns `Expressible` makes all of them agree (`JoinsAgree`).  That check of
  `project_contract` is what the theorem turns on.

Only model-checked, and why:

* Liveness (`EveryRequestAnswered`, `PermitsReturn`, `WatcherConverges`, `DoorAnswers`): the
  prover has no rule for ENABLED.
* Definitions the provers cannot expand.  tlapm 1.4.5 has none of `SelectSeq`, the
  flattening of sequences, `@@` and `:>`, and refuses RECURSIVE operators.
  `GeneratedCarriesAll` compares with what the first two build; the cells
  and axes of `CellsAnswerTheirRows`, `LaidOutAsAsked`, `RankingKeepsTheTop` and the other
  parts of `NothingDeniedIsShown` are flattened and sorted lists; `Statements`, `Requests`,
  `Rowsets`, `Discover`, `Conversion` and `Migration` read trees and streams by recursion.
  There the interest is in the cases, which the runs enumerate.
* Induction over data by the library's theorems is out of reach, because they take an
  operator as a parameter.  Where it was needed the proofs take a least or greatest
  element of a set of numbers or of finite sets instead (`Counting`: `LeastOf`,
  `UnitsFinite`, `AddsIsSum`).

The type invariants of `Serving`, `Sidecar` and `ResultCache` are proved and not checked
beside.

## 5. Plan

Done: serving and its backend, the result cache, the sessions, the sidecar and the front
door with their theorems; roles, rollup routing, requests, the way from the text of a
statement to its cellset, the metadata, configurations and contracts, parent-child
dimensions and the conversion of Tabular models, checked, with theorems for the result
cache's keys, the role gates, the rollup service, the formatting and serving of contracts
and the trees.

What would come next, in this order:

1. Drillthrough: rows under the roles' predicate, and its refusals.
2. `Settings`: precedence and division of budgets with 64-bit arithmetic.
3. The comparison of query results by `mallard qualify`.
4. Theorems: `FaultsAreOwn` for the restricted kind with a latch that is clean; the cells
   of the plain forms of `CellsAnswerTheirRows`.

## 6. Not modelled, and why

Text: characters, XML layout, SQL wording, captions, formats, logs and audit records say
nothing the properties tell apart.  The replay, load and trace tools are offline programs
that only watch a server.  `mallard qualify` and `contract-qualify` compare query results
of two databases, which are data; what they say of parent-child rows is modelled.
Signature and TLS code is in libraries.

In the pipeline: the probes for counts and for
measure metadata, the view of a key hierarchy, two expanded slots on one edge, more than
two dimensions on an edge, label and date-window filters (rollup routing has them), a
drill into members none of which has rows, child counts in tuples, and the tabular
format.  In the metadata: restrictions by plain name, and the rowsets that are fixed lists.
