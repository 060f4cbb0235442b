------------------------------- MODULE Serving -------------------------------
(* How MallardCube serves XMLA requests while the data file is replaced.     *)
(*                                                                           *)
(*   handle_xmla (main.rs)        slots, checkout, timeout and interrupt     *)
(*   get_execute_response_... (execute/runtime.rs), drillthrough             *)
(*   (execute/dispatch.rs), MDSCHEMA_MEMBERS (xmla/discover/members.rs)      *)
(*                                the worker's use of the leased connection, *)
(*                                its failure latch and the two caches       *)
(*   reload_data, the SIGHUP task and the stamp watcher (main.rs, reload.rs) *)
(*                                opening a new pool and swapping it in      *)
(*                                                                           *)
(* A query's result is abstracted to the version of the data file it was     *)
(* read from and to whether the query succeeded; one query text and one      *)
(* dimension stand for all, as the caches keep different ones apart.         *)
EXTENDS Backend, FiniteSets

CONSTANTS
    Slots,       \* query slots (MALLARDCUBE_QUERY_SLOTS)
    Kinds,       \* the request kinds that arrive
    Timeouts,    \* is a query timeout configured?
    Reloaders,   \* the reload triggers that run: "sighup", "watcher"
    AggCache,    \* is an aggregation sidecar configured?
    MaxFaults,   \* bound: engine errors, failed opens included
    MaxUnwinds,  \* bound: panics and refusals that leave a worker early
    MaxHangups   \* bound: SIGHUPs sent

ASSUME SlotsAssumption == Slots \in Nat \ {0}
ASSUME BoundsAssumption ==
    MaxFaults \in Nat /\ MaxUnwinds \in Nat /\ MaxHangups \in Nat
ASSUME FlagsAssumption == Timeouts \in BOOLEAN /\ AggCache \in BOOLEAN
ASSUME KindsAssumption ==
    Kinds \subseteq {"execute", "restricted", "drillthrough", "members"}
ASSUME ReloadersAssumption == Reloaders \subseteq {"sighup", "watcher"}

VARIABLES
    \* requests
    slots,    \* free permits of the semaphore
    pc,       \* where the request's handler and worker are
    kind,     \* what was asked
    lease,    \* the connection the worker was given
    goal,     \* what the query or dictionary lookup under way is for
    key,      \* the data epoch in the result-cache key
    dkey,     \* the data epoch in the dictionary key
    rollup,   \* is the query routed to the sidecar?
    got,      \* what the request read, by goal
    client,   \* what the client was told
    blame,    \* whose failure a fault reports
    \* process-wide state
    results,  \* RESULT_CACHE
    dicts,    \* the model's dim_cache
    epoch,    \* DATA_EPOCH
    agg,      \* are aggregations enabled?
    source,   \* AppState.backend_source
    status,   \* AppState.status: the data stamp and the epoch reported
    \* reload triggers
    rpc, rpool, rnext, rstamp, repoch,
    hangup,   \* a SIGHUP is pending
    wlast,    \* the watcher's last stamp (0 until its task starts)
    wcur,     \* the stamp that made the watcher reload
    \* environment
    file,     \* the version of the data file on disk
    faults, unwinds, hangups

requestVars == <<slots, pc, kind, lease, goal, key, dkey, rollup, got, client, blame>>
cacheVars == <<results, dicts>>
sharedVars == <<epoch, agg, source, status>>
reloadVars == <<rpc, rpool, rnext, rstamp, repoch, hangup, wlast, wcur>>
envVars == <<file, faults, unwinds, hangups>>
vars == <<backendVars, requestVars, cacheVars, sharedVars, reloadVars, envVars>>

Goal == {"filter", "roledict", "rows", "values", "dict"}
DictGoal == {"roledict", "dict"}
Result == [v : Version \union {0}, ok : BOOLEAN]
Nothing == [v |-> 0, ok |-> TRUE]
Scope == {"all", "role"}
SidecarVersion == 1      \* the sidecar was built from the first version
FirstEpoch == 2          \* DATA_EPOCH starts at 1 and is bumped at startup

\* The row filter is part of both cache keys.
ScopeOf(r) == IF kind[r] = "restricted" THEN "role" ELSE "all"

Cached(cache, e, sc) == {c \in cache : c.epoch = e /\ c.scope = sc}
Put(cache, e, sc, res) ==
    (cache \ Cached(cache, e, sc)) \union {[epoch |-> e, scope |-> sc, res |-> res]}

Waiting == {"new", "queued"}
Busy(r) == pc[r] \notin Waiting \union {"done"}
\* The Arc on a pool: held by workers and by handlers about to interrupt.
Holds(r, p) == (Busy(r) \/ client[r] = "elapsed") /\ lease[r][1] = p
InUse(p) ==
    \/ p = source
    \/ \E r \in Req : Holds(r, p)
    \/ \E k \in Reloaders : rpc[k] \in {"open", "stamp", "swap"} /\ rpool[k] = p
-----------------------------------------------------------------------------
Init ==
    /\ \E first \in Pool :
         /\ source = first
         /\ BackendInit(first, 1, AggCache)
         /\ lease = [r \in Req |-> <<first, 0>>]
         /\ rpool = [k \in Reloaders |-> first]
    /\ slots = Slots
    /\ pc = [r \in Req |-> "new"]
    /\ kind \in [Req -> Kinds]
    /\ goal = [r \in Req |-> "rows"]
    /\ key = [r \in Req |-> 0]
    /\ dkey = [r \in Req |-> 0]
    /\ rollup = [r \in Req |-> FALSE]
    /\ got = [r \in Req |-> [g \in Goal |-> Nothing]]
    /\ client = [r \in Req |-> "pending"]
    /\ blame = [r \in Req |-> None]
    /\ results = {}
    /\ dicts = {}
    /\ epoch = FirstEpoch
    /\ agg = AggCache
    /\ status = [data |-> 1, epoch |-> FirstEpoch]
    /\ rpc = [k \in Reloaders |-> "idle"]
    /\ rnext = [k \in Reloaders |-> 0]
    /\ rstamp = [k \in Reloaders |-> 1]
    /\ repoch = [k \in Reloaders |-> FirstEpoch]
    /\ hangup = FALSE
    /\ wlast = 0
    /\ wcur = 1
    /\ file = 1
    /\ faults = 0
    /\ unwinds = 0
    /\ hangups = 0
-----------------------------------------------------------------------------
(* The request handler.                                                      *)

Goto(r, l) == pc' = [pc EXCEPT ![r] = l]
Aim(r, g, l) == Goto(r, l) /\ goal' = [goal EXCEPT ![r] = g]

Arrive(r) ==
    /\ pc[r] = "new"
    /\ Goto(r, "queued")
    /\ UNCHANGED <<backendVars, slots, kind, lease, goal, key, dkey, rollup, got,
                   client, blame, cacheVars, sharedVars, reloadVars, envVars>>

\* handle_xmla waits for a permit before the clock starts; the one checkout of
\* the request follows, on whatever source is current then.
Acquire(r) ==
    /\ pc[r] = "queued"
    /\ slots > 0
    /\ slots' = slots - 1
    /\ lease' = [lease EXCEPT ![r] = <<source, next[source]>>]
    /\ Checkout(source)
    /\ Goto(r, IF kind[r] \in {"execute", "restricted"} THEN "filter" ELSE "clean")
    /\ UNCHANGED <<kind, goal, key, dkey, rollup, got, client, blame,
                   cacheVars, sharedVars, reloadVars, envVars>>

\* Mutant: the permit is forgotten.
ReturnKeepingPermit(r, outcome, who) ==
    /\ Goto(r, "done")
    /\ slots' = slots
    /\ client' = [client EXCEPT ![r] = IF @ = "pending" THEN outcome ELSE @]
    /\ blame' = [blame EXCEPT ![r] = who]

\* The worker returns: its permit is released, and its response is dropped when
\* the client was already told about the timeout.
Return(r, outcome, who) ==
    /\ Goto(r, "done")
    /\ slots' = slots + 1
    /\ client' = [client EXCEPT ![r] = IF @ = "pending" THEN outcome ELSE @]
    /\ blame' = [blame EXCEPT ![r] = who]

\* tokio's timeout fires while the worker is still running ...
Elapse(r) ==
    /\ Timeouts
    /\ Busy(r)
    /\ client[r] = "pending"
    /\ client' = [client EXCEPT ![r] = "elapsed"]
    /\ UNCHANGED <<backendVars, slots, pc, kind, lease, goal, key, dkey, rollup, got,
                   blame, cacheVars, sharedVars, reloadVars, envVars>>

\* Mutant: the handler also gives the permit back.
InterruptAndRelease(r) ==
    /\ client[r] = "elapsed"
    /\ Interrupt(lease[r], r)
    /\ client' = [client EXCEPT ![r] = "timeout"]
    /\ slots' = slots + 1
    /\ UNCHANGED <<pc, kind, lease, goal, key, dkey, rollup, got, blame,
                   cacheVars, sharedVars, reloadVars, envVars>>

\* ... and the handler interrupts the connection, once, and answers the fault.
\* The worker keeps its permit until it returns.
InterruptWorker(r) ==
    /\ client[r] = "elapsed"
    /\ Interrupt(lease[r], r)
    /\ client' = [client EXCEPT ![r] = "timeout"]
    /\ UNCHANGED <<slots, pc, kind, lease, goal, key, dkey, rollup, got, blame,
                   cacheVars, sharedVars, reloadVars, envVars>>

\* A panic (caught by catch_unwind), a refusal, or a tabular rendering error:
\* the worker leaves with a fault and takes no latch on the way.
Unwind(r) ==
    /\ Busy(r) /\ pc[r] # "run"
    /\ unwinds < MaxUnwinds
    /\ unwinds' = unwinds + 1
    /\ Return(r, "fault", r)
    /\ UNCHANGED <<backendVars, kind, lease, goal, key, dkey, rollup, got,
                   cacheVars, sharedVars, reloadVars, file, faults, hangups>>
-----------------------------------------------------------------------------
(* The worker's queries.                                                     *)

Begin(r) ==
    /\ pc[r] = "wait"
    /\ BeginQuery(lease[r], r)
    /\ Goto(r, "run")
    /\ UNCHANGED <<slots, kind, lease, goal, key, dkey, rollup, got, client, blame,
                   cacheVars, sharedVars, reloadVars, envVars>>

\* What follows a query: the latch check, or more work.
AfterQuery(r) ==
    CASE goal[r] = "filter" -> "checkfilter"
      [] goal[r] = "rows" -> "checkrows"
      [] goal[r] = "values" -> IF kind[r] = "drillthrough" THEN "final" ELSE "axes"
      [] goal[r] \in DictGoal -> "store"

Deliver(r, res) == got' = [got EXCEPT ![r][goal[r]] = res]
ReadVersion(r) == IF rollup[r] THEN SidecarVersion ELSE data[lease[r]]

QueryOk(r) ==
    /\ pc[r] = "run"
    /\ rollup[r] => sidecar[lease[r]]
    /\ EndQuery(lease[r], r, FALSE)
    /\ Deliver(r, [v |-> ReadVersion(r), ok |-> TRUE])
    /\ Goto(r, AfterQuery(r))
    /\ UNCHANGED <<slots, kind, lease, goal, key, dkey, rollup, client, blame,
                   cacheVars, sharedVars, reloadVars, envVars>>

\* A failed query answers 0, or no rows.  Every query_* function records the
\* failure, except query_strings (which reads the dictionaries) when executing
\* the statement fails rather than preparing it or reading a row.
QueryFails(r) ==
    /\ pc[r] = "run"
    /\ \/ interrupted[lease[r]] # None /\ UNCHANGED faults
       \/ rollup[r] /\ ~sidecar[lease[r]] /\ UNCHANGED faults
       \/ faults < MaxFaults /\ faults' = faults + 1
    /\ \E recorded \in IF goal[r] \in DictGoal THEN BOOLEAN ELSE {TRUE} :
          EndQuery(lease[r], r, recorded)
    /\ Deliver(r, [v |-> data[lease[r]], ok |-> FALSE])
    /\ Goto(r, AfterQuery(r))
    /\ UNCHANGED <<slots, kind, lease, goal, key, dkey, rollup, client, blame,
                   cacheVars, sharedVars, reloadVars, file, unwinds, hangups>>

\* The caller has taken the latch: what was in it becomes the request's fault.
FaultIfLatched(r) ==
    /\ failure[lease[r]] # None
    /\ Return(r, "fault", failure[lease[r]])

-----------------------------------------------------------------------------
(* get_execute_response_with_format_and_cache, drillthrough, members.        *)

\* Excel's Top-N subselect is resolved first when the statement has one.
Filter(r) ==
    /\ pc[r] = "filter"
    /\ \/ /\ TakeFailure(lease[r])
          /\ rollup' = [rollup EXCEPT ![r] = agg]
          /\ Aim(r, "filter", "wait")
       \/ /\ UNCHANGED <<backendVars, rollup>>
          /\ IF kind[r] = "restricted" THEN Aim(r, "roledict", "dictkey")
                                       ELSE Aim(r, "rows", "clean")
    /\ UNCHANGED <<slots, kind, lease, key, dkey, got, client, blame,
                   cacheVars, sharedVars, reloadVars, envVars>>

CheckFilter(r) ==
    /\ pc[r] = "checkfilter"
    /\ TakeFailure(lease[r])
    /\ \/ FaultIfLatched(r) /\ UNCHANGED goal
       \/ /\ failure[lease[r]] = None
          /\ IF kind[r] = "restricted" THEN Aim(r, "roledict", "dictkey")
                                       ELSE Aim(r, "rows", "clean")
          /\ UNCHANGED <<slots, client, blame>>
    /\ UNCHANGED <<kind, lease, key, dkey, rollup, got,
                   cacheVars, sharedVars, reloadVars, envVars>>

\* DimCache::get_with_filter: the key carries the epoch read now.
DictKey(r) ==
    /\ pc[r] = "dictkey"
    /\ dkey' = [dkey EXCEPT ![r] = epoch]
    /\ Goto(r, "dictget")
    /\ UNCHANGED <<backendVars, slots, kind, lease, goal, key, rollup, got, client,
                   blame, cacheVars, sharedVars, reloadVars, envVars>>

AfterDict(r) == IF goal[r] = "roledict" THEN "rolecheck" ELSE "final"

DictGet(r) ==
    LET hit == Cached(dicts, dkey[r], ScopeOf(r)) IN
    /\ pc[r] = "dictget"
    /\ \/ \E c \in hit : Deliver(r, c.res) /\ Goto(r, AfterDict(r)) /\ UNCHANGED rollup
       \/ /\ hit = {}
          /\ Goto(r, "wait")
          /\ rollup' = [rollup EXCEPT ![r] = FALSE]
          /\ UNCHANGED got
    /\ UNCHANGED <<backendVars, slots, kind, lease, goal, key, dkey, client, blame,
                   cacheVars, sharedVars, reloadVars, envVars>>

\* A dictionary is not kept when a failure is recorded on the connection.
Store(r) ==
    /\ pc[r] = "store"
    /\ dicts' = IF failure[lease[r]] # None
                THEN dicts
                ELSE Put(dicts, dkey[r], ScopeOf(r), got[r][goal[r]])
    /\ Goto(r, AfterDict(r))
    /\ UNCHANGED <<backendVars, slots, kind, lease, goal, key, dkey, rollup, got,
                   client, blame, results, sharedVars, reloadVars, envVars>>

\* runtime.rs checks the latch after the role dictionaries, before "start clean".
RoleCheck(r) ==
    /\ pc[r] = "rolecheck"
    /\ TakeFailure(lease[r])
    /\ \/ FaultIfLatched(r)
       \/ /\ failure[lease[r]] = None
          /\ Goto(r, "clean")
          /\ UNCHANGED <<slots, client, blame>>
    /\ UNCHANGED <<kind, lease, goal, key, dkey, rollup, got,
                   cacheVars, sharedVars, reloadVars, envVars>>

\* Mutant: no clean start.
CleanNothing(r) ==
    /\ pc[r] = "clean"
    /\ CASE kind[r] = "drillthrough" -> Aim(r, "values", "wait")
         [] kind[r] = "members" -> Aim(r, "dict", "dictkey")
         [] OTHER -> Aim(r, "rows", "key")
    /\ rollup' = [rollup EXCEPT ![r] = FALSE]
    /\ UNCHANGED <<backendVars, slots, kind, lease, key, dkey, got, client, blame,
                   cacheVars, sharedVars, reloadVars, envVars>>

\* "Start clean": drop what an earlier request latched on this connection.
Clean(r) ==
    /\ pc[r] = "clean"
    /\ TakeFailure(lease[r])
    /\ CASE kind[r] = "drillthrough" -> Aim(r, "values", "wait")
         [] kind[r] = "members" -> Aim(r, "dict", "dictkey")
         [] OTHER -> Aim(r, "rows", "key")
    /\ rollup' = [rollup EXCEPT ![r] = FALSE]
    /\ UNCHANGED <<slots, kind, lease, key, dkey, got, client, blame,
                   cacheVars, sharedVars, reloadVars, envVars>>

ResultKey(r) ==
    /\ pc[r] = "key"
    /\ key' = [key EXCEPT ![r] = epoch]
    /\ Goto(r, "get")
    /\ UNCHANGED <<backendVars, slots, kind, lease, goal, dkey, rollup, got, client,
                   blame, cacheVars, sharedVars, reloadVars, envVars>>

\* A miss plans the query; the emitted SQL is routed to a rollup while
\* aggregations are enabled and one covers the plan.
ResultGet(r) ==
    LET hit == Cached(results, key[r], ScopeOf(r)) IN
    /\ pc[r] = "get"
    /\ \/ \E c \in hit : Deliver(r, c.res) /\ Goto(r, "render") /\ UNCHANGED rollup
       \/ /\ hit = {}
          /\ Goto(r, "wait")
          /\ rollup' = [rollup EXCEPT ![r] = agg]
          /\ UNCHANGED got
    /\ UNCHANGED <<backendVars, slots, kind, lease, goal, key, dkey, client, blame,
                   cacheVars, sharedVars, reloadVars, envVars>>

\* Mutant: the rows are cached before the latch is checked.
CacheThenCheck(r) ==
    /\ pc[r] = "checkrows"
    /\ TakeFailure(lease[r])
    /\ results' = Put(results, key[r], ScopeOf(r), got[r]["rows"])
    /\ \/ FaultIfLatched(r)
       \/ /\ failure[lease[r]] = None
          /\ Goto(r, "render")
          /\ UNCHANGED <<slots, client, blame>>
    /\ UNCHANGED <<kind, lease, goal, key, dkey, rollup, got,
                   dicts, sharedVars, reloadVars, envVars>>

\* A failed query is not cached; a good one is, under the key computed before.
CheckRows(r) ==
    /\ pc[r] = "checkrows"
    /\ TakeFailure(lease[r])
    /\ \/ FaultIfLatched(r) /\ UNCHANGED results
       \/ /\ failure[lease[r]] = None
          /\ results' = Put(results, key[r], ScopeOf(r), got[r]["rows"])
          /\ Goto(r, "render")
          /\ UNCHANGED <<slots, client, blame>>
    /\ UNCHANGED <<kind, lease, goal, key, dkey, rollup, got,
                   dicts, sharedVars, reloadVars, envVars>>

\* Some shapes need the engine's (All) values before they can be rendered ...
Render(r) ==
    /\ pc[r] = "render"
    /\ \/ Aim(r, "values", "wait") /\ rollup' = [rollup EXCEPT ![r] = agg]
       \/ Goto(r, "axes") /\ UNCHANGED <<goal, rollup>>
    /\ UNCHANGED <<backendVars, slots, kind, lease, key, dkey, got, client, blame,
                   cacheVars, sharedVars, reloadVars, envVars>>

\* ... and some read a member dictionary while they are.
Axes(r) ==
    /\ pc[r] = "axes"
    /\ \/ Aim(r, "dict", "dictkey")
       \/ Goto(r, "final") /\ UNCHANGED goal
    /\ UNCHANGED <<backendVars, slots, kind, lease, key, dkey, rollup, got, client,
                   blame, cacheVars, sharedVars, reloadVars, envVars>>

\* The last check: a failure replaces whatever was rendered.
Final(r) ==
    /\ pc[r] = "final"
    /\ TakeFailure(lease[r])
    /\ \/ FaultIfLatched(r)
       \/ failure[lease[r]] = None /\ Return(r, "answer", None)
    /\ UNCHANGED <<kind, lease, goal, key, dkey, rollup, got,
                   cacheVars, sharedVars, reloadVars, envVars>>
-----------------------------------------------------------------------------
(* reload_data and its two triggers.                                         *)

Step(k, l) == rpc' = [rpc EXCEPT ![k] = l]

\* An external loader renames a new file over the data file; open connections
\* keep the old one.
ReplaceFile ==
    /\ file < MaxVersion
    /\ file' = file + 1
    /\ UNCHANGED <<backendVars, requestVars, cacheVars, sharedVars, reloadVars,
                   faults, unwinds, hangups>>

SendHangup ==
    /\ "sighup" \in Reloaders
    /\ hangups < MaxHangups
    /\ hangups' = hangups + 1
    /\ hangup' = TRUE
    /\ UNCHANGED <<backendVars, requestVars, cacheVars, sharedVars, rpc, rpool, rnext,
                   rstamp, repoch, wlast, wcur, file, faults, unwinds>>

TakeHangup ==
    /\ hangup
    /\ rpc["sighup"] = "idle"
    /\ hangup' = FALSE
    /\ Step("sighup", "stale")
    /\ UNCHANGED <<backendVars, requestVars, cacheVars, sharedVars, rpool, rnext,
                   rstamp, repoch, wlast, wcur, envVars>>

\* The watcher task stamps the file when it starts, not when the pool opened.
SpawnWatcher ==
    /\ "watcher" \in Reloaders
    /\ wlast = 0
    /\ wlast' = file
    /\ UNCHANGED <<backendVars, requestVars, cacheVars, sharedVars, rpc, rpool, rnext,
                   rstamp, repoch, hangup, wcur, envVars>>

Poll ==
    /\ "watcher" \in Reloaders
    /\ wlast # 0
    /\ rpc["watcher"] = "idle"
    /\ file # wlast
    /\ wcur' = file
    /\ Step("watcher", "stale")
    /\ UNCHANGED <<backendVars, requestVars, cacheVars, sharedVars, rpool, rnext,
                   rstamp, repoch, hangup, wlast, envVars>>

\* disable_stale_aggregations comes first; then a pool is started.
DisableStale(k) ==
    /\ rpc[k] = "stale"
    /\ agg' = (agg /\ file = SidecarVersion)
    /\ \E p \in Pool :
         /\ ~InUse(p)
         /\ ResetPool(p)
         /\ rpool' = [rpool EXCEPT ![k] = p]
    /\ rnext' = [rnext EXCEPT ![k] = 0]
    /\ Step(k, "open")
    /\ UNCHANGED <<requestVars, cacheVars, epoch, source, status, rstamp, repoch,
                   hangup, wlast, wcur, envVars>>

\* Every connection opens the file that is there at its turn, and attaches the
\* sidecar when aggregations are enabled at its turn.
OpenNext(k) ==
    /\ rpc[k] = "open"
    /\ OpenConnection(rpool[k], rnext[k], file, agg)
    /\ IF rnext[k] = PoolSize - 1
       THEN Step(k, "stamp") /\ UNCHANGED rnext
       ELSE rnext' = [rnext EXCEPT ![k] = @ + 1] /\ UNCHANGED rpc
    /\ UNCHANGED <<requestVars, cacheVars, sharedVars, rpool, rstamp, repoch,
                   hangup, wlast, wcur, envVars>>

\* A failed open ends the reload: the old pool keeps serving, aggregations stay
\* as they are, and the watcher, whose stamp is unchanged, tries again.
OpenFails(k) ==
    /\ rpc[k] = "open"
    /\ faults < MaxFaults
    /\ faults' = faults + 1
    /\ Step(k, "idle")
    /\ UNCHANGED <<backendVars, requestVars, cacheVars, sharedVars, rpool, rnext, rstamp,
                   repoch, hangup, wlast, wcur, file, unwinds, hangups>>

\* The stamp to report is captured after the open.
CaptureStamp(k) ==
    /\ rpc[k] = "stamp"
    /\ rstamp' = [rstamp EXCEPT ![k] = file]
    /\ Step(k, "swap")
    /\ UNCHANGED <<backendVars, requestVars, cacheVars, sharedVars, rpool, rnext,
                   repoch, hangup, wlast, wcur, envVars>>

Swap(k) ==
    /\ rpc[k] = "swap"
    /\ source' = rpool[k]
    /\ Step(k, "bump")
    /\ UNCHANGED <<backendVars, requestVars, cacheVars, epoch, agg, status, rpool, rnext,
                   rstamp, repoch, hangup, wlast, wcur, envVars>>

\* Mutant: fetch_add's old value is published.
BumpEpochOld(k) ==
    /\ rpc[k] = "bump"
    /\ epoch' = epoch + 1
    /\ repoch' = [repoch EXCEPT ![k] = epoch]
    /\ Step(k, "publish")
    /\ UNCHANGED <<backendVars, requestVars, cacheVars, agg, source, status, rpool, rnext,
                   rstamp, hangup, wlast, wcur, envVars>>

BumpEpoch(k) ==
    /\ rpc[k] = "bump"
    /\ epoch' = epoch + 1
    /\ repoch' = [repoch EXCEPT ![k] = epoch + 1]
    /\ Step(k, "publish")
    /\ UNCHANGED <<backendVars, requestVars, cacheVars, agg, source, status, rpool, rnext,
                   rstamp, hangup, wlast, wcur, envVars>>

PublishStatus(k) ==
    /\ rpc[k] = "publish"
    /\ status' = [data |-> rstamp[k], epoch |-> repoch[k]]
    /\ Step(k, "clear")
    /\ UNCHANGED <<backendVars, requestVars, cacheVars, epoch, agg, source, rpool, rnext,
                   rstamp, repoch, hangup, wlast, wcur, envVars>>

ClearResults(k) ==
    /\ rpc[k] = "clear"
    /\ results' = {}
    /\ Step(k, "cleardicts")
    /\ UNCHANGED <<backendVars, requestVars, dicts, sharedVars, rpool, rnext,
                   rstamp, repoch, hangup, wlast, wcur, envVars>>

\* Mutant: the watcher stamps the file again after its reload.
ClearDictsRestamp(k) ==
    /\ rpc[k] = "cleardicts"
    /\ dicts' = {}
    /\ Step(k, "idle")
    /\ wlast' = IF k = "watcher" THEN file ELSE wlast
    /\ UNCHANGED <<backendVars, requestVars, results, sharedVars, rpool, rnext,
                   rstamp, repoch, hangup, wcur, envVars>>

\* The last step; a successful reload moves the watcher's stamp.
ClearDicts(k) ==
    /\ rpc[k] = "cleardicts"
    /\ dicts' = {}
    /\ Step(k, "idle")
    /\ wlast' = IF k = "watcher" THEN wcur ELSE wlast
    /\ UNCHANGED <<backendVars, requestVars, results, sharedVars, rpool, rnext,
                   rstamp, repoch, hangup, wcur, envVars>>

\* The result cache drops an entry when its TTL or its budget runs out
\* (ResultCache.tla); dictionaries are only ever dropped by a reload.
Forget ==
    /\ \E c \in results : results' = results \ {c}
    /\ UNCHANGED <<backendVars, requestVars, dicts, sharedVars, reloadVars, envVars>>
-----------------------------------------------------------------------------
Query(r) == Begin(r) \/ QueryOk(r) \/ QueryFails(r)

Work(r) ==
    \/ Query(r)
    \/ Filter(r) \/ CheckFilter(r)
    \/ DictKey(r) \/ DictGet(r) \/ Store(r)
    \/ RoleCheck(r) \/ Clean(r)
    \/ ResultKey(r) \/ ResultGet(r) \/ CheckRows(r)
    \/ Render(r) \/ Axes(r) \/ Final(r)

Handle(r) == Arrive(r) \/ Acquire(r) \/ Elapse(r) \/ InterruptWorker(r) \/ Unwind(r)

Reload(k) ==
    \/ DisableStale(k) \/ OpenNext(k) \/ OpenFails(k) \/ CaptureStamp(k) \/ Swap(k)
    \/ BumpEpoch(k) \/ PublishStatus(k) \/ ClearResults(k) \/ ClearDicts(k)

Trigger == SendHangup \/ TakeHangup \/ SpawnWatcher \/ Poll

Next ==
    \/ \E r \in Req : Work(r) \/ Handle(r)
    \/ \E k \in Reloaders : Reload(k)
    \/ Trigger \/ ReplaceFile \/ Forget

Spec == Init /\ [][Next]_vars

(* Fairness: tokio runs every task and admits the waiters of a semaphore in  *)
(* order, an engine query ends, and a loop of a trigger task comes round.    *)
(* Nothing is assumed of clients, loaders, operators, timeouts or evictions. *)
RequestFairness ==
    \A r \in Req : WF_vars(Acquire(r)) /\ WF_vars(Work(r)) /\ WF_vars(InterruptWorker(r))
ReloadFairness ==
    /\ \A k \in Reloaders : WF_vars(Reload(k))
    /\ WF_vars(TakeHangup) /\ WF_vars(SpawnWatcher) /\ WF_vars(Poll)
Fairness == RequestFairness /\ ReloadFairness

FairSpec == Spec /\ Fairness
-----------------------------------------------------------------------------
(* Invariants.                                                               *)

PcValue == {"new", "queued", "filter", "checkfilter", "dictkey", "dictget", "wait",
            "run", "store", "rolecheck", "clean", "key", "get", "checkrows",
            "render", "axes", "final", "done"}
RpcValue == {"idle", "stale", "open", "stamp", "swap", "bump", "publish", "clear",
             "cleardicts"}
CacheEntry == [epoch : Nat, scope : Scope, res : Result]

RequestTypeOK ==
    /\ slots \in 0 .. Slots
    /\ pc \in [Req -> PcValue]
    /\ kind \in [Req -> Kinds]
    /\ lease \in [Req -> Slot]
    /\ goal \in [Req -> Goal]
    /\ key \in [Req -> Nat]
    /\ dkey \in [Req -> Nat]
    /\ rollup \in [Req -> BOOLEAN]
    /\ got \in [Req -> [Goal -> Result]]
    /\ client \in [Req -> {"pending", "elapsed", "timeout", "answer", "fault"}]
    /\ blame \in [Req -> Req \union {None}]

CacheTypeOK == results \subseteq CacheEntry /\ dicts \subseteq CacheEntry

SharedTypeOK ==
    /\ epoch \in Nat
    /\ agg \in BOOLEAN
    /\ source \in Pool
    /\ status \in [data : Version, epoch : Nat]

ReloadTypeOK ==
    /\ rpc \in [Reloaders -> RpcValue]
    /\ rpool \in [Reloaders -> Pool]
    /\ rnext \in [Reloaders -> Conn]
    /\ rstamp \in [Reloaders -> Version]
    /\ repoch \in [Reloaders -> Nat]
    /\ hangup \in BOOLEAN
    /\ wlast \in Version \union {0}
    /\ wcur \in Version

EnvTypeOK ==
    /\ file \in Version
    /\ faults \in 0 .. MaxFaults
    /\ unwinds \in 0 .. MaxUnwinds
    /\ hangups \in 0 .. MaxHangups

\* Every variable keeps its type, whatever the requests, the reloads and the
\* engine do: every cursor (BackendPool::checkout) stays within its pool.
TypeOK ==
    /\ BackendTypeOK
    /\ RequestTypeOK
    /\ CacheTypeOK
    /\ SharedTypeOK
    /\ ReloadTypeOK
    /\ EnvTypeOK

Quiet == \A k \in Reloaders : rpc[k] = "idle"
Answered(r) == client[r] = "answer"

\* A permit is held by every running worker, a timed-out one included: at most
\* Slots workers ever use the engine (main.rs: "every XMLA request holds one
\* permit for its duration").
PermitsConserved == slots + Cardinality({r \in Req : Busy(r)}) = Slots

\* No answer is built on a failed measure query: the failed query's zero or
\* empty rows never reach a client as an answer (README: "it never returns a
\* plausible wrong number").
NoWrongNumber ==
    \A r \in Req : Answered(r) => \A g \in Goal \ DictGoal : got[r][g].ok

\* The result cache never holds the rows of a failed query (runtime.rs: "A
\* failed query must not be cached").
CacheHoldsGoodRows == \A c \in results : c.res.ok

\* A worker that ends in a fault reports a failure of its own (runtime.rs: "a
\* failure latched by an earlier request ... must not fault this one").  A
\* restricted user is excepted: the check after the role dictionaries comes
\* before the clean start and may find an earlier request's failure.
FaultIsOwn ==
    \A r \in Req : client[r] = "fault" /\ kind[r] # "restricted" => blame[r] = r

\* An empty dictionary produced by a failed query is never kept (dim_cache.rs:
\* "Caching it would serve an empty hierarchy for the process lifetime").
NoFailedDictionary == \A c \in dicts : c.res.ok

\* A query is routed to a rollup only on a connection that has the sidecar,
\* whatever reload disabled aggregations meanwhile.
RollupIsAttached ==
    \A r \in Req : pc[r] \in {"wait", "run"} /\ rollup[r] => sidecar[lease[r]]

\* No dictionary read before a reload can be served after it: what is kept
\* under the current epoch is at least as new as what the current pool reads
\* (dim_cache.rs: "a dictionary built before a reload must not be served after
\* it, even if a late in-flight request inserts one").
NoStaleDictionaries ==
    Quiet => \A e \in dicts, c \in Conn :
                 e.epoch = epoch => e.res.v >= data[<<source, c>>]

\* /status reports the epoch of the cache keys (cache.rs: "/status reports it so
\* a log line and a cache key correlate").
StatusTellsEpoch == Quiet => status.epoch = epoch
-----------------------------------------------------------------------------
(* Action properties.                                                        *)

\* A reload never swaps in a pool that reads older data than the pool it
\* replaces (reload_data: "new requests use the new one").
NewerPoolOnly ==
    [][source' # source =>
          \A c, d \in Conn : data[<<source', c>>] >= data[<<source, d>>]]_vars
-----------------------------------------------------------------------------
(* Liveness.                                                                 *)

\* Every request that reached the server is told something.
EveryRequestAnswered ==
    \A r \in Req : pc[r] = "queued" ~> client[r] \in {"answer", "fault", "timeout"}

\* Every permit comes back, also from a request whose client timed out.
PermitsReturn == \A r \in Req : Busy(r) ~> pc[r] = "done"

ServesFile == \A c \in Conn : data[<<source, c>>] = file

\* Once its task has started, the watcher brings every change of the file into
\* service, whatever open fails on the way.
WatcherConverges == (wlast # 0 /\ file # wlast) ~> ServesFile
=============================================================================
