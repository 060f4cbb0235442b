---------------------------- MODULE ServingProofs ----------------------------
(* What holds of Serving.tla for every number of requests, pools,            *)
(* connections, slots, data versions and reload triggers: types and permits, *)
(* what becomes of a failure, and which sidecar and which data are served.   *)
EXTENDS Serving, FiniteSetTheorems, TLAPS

Labels == PcValue \ {"new", "queued", "done"}
Workers == {r \in Req : pc[r] \in Labels}

\* The permits that are out are those of the workers.
PermitsOut ==
    /\ IsFiniteSet(Workers)
    /\ slots + Cardinality(Workers) = Slots

\* What a step does to a worker and to the permits.
Stays(r) ==
    /\ \E l \in PcValue : pc' = [pc EXCEPT ![r] = l] /\ (l \in Labels <=> pc[r] \in Labels)
    /\ slots' = slots
Enters(r) ==
    /\ pc[r] \notin Labels /\ slots > 0
    /\ \E l \in Labels : pc' = [pc EXCEPT ![r] = l]
    /\ slots' = slots - 1
Leaves(r) ==
    /\ pc[r] \in Labels
    /\ pc' = [pc EXCEPT ![r] = "done"]
    /\ slots' = slots + 1
Elsewhere == pc' = pc /\ slots' = slots

LEMMA BusyLabels == TypeOK => \A r \in Req : Busy(r) <=> pc[r] \in Labels
  BY DEF TypeOK, RequestTypeOK, Busy, Waiting, Labels, PcValue

\* Only a checkout takes a permit and only the end of a worker gives one back.
LEMMA PermitMoves ==
  ASSUME TypeOK, [Next]_vars
  PROVE  Elsewhere \/ \E r \in Req : Stays(r) \/ Enters(r) \/ Leaves(r)
<1> USE DEF TypeOK, RequestTypeOK, Elsewhere, Stays, Enters, Leaves, Labels, PcValue, Goto, Aim,
            reloadVars, requestVars
<1>1. CASE UNCHANGED vars
  BY <1>1 DEF vars
<1>2. CASE Trigger \/ ReplaceFile \/ Forget
  BY <1>2 DEF Trigger, ReplaceFile, Forget, SendHangup, TakeHangup, SpawnWatcher, Poll
<1>3. ASSUME NEW k \in Reloaders, Reload(k) PROVE Elsewhere
  BY <1>3 DEF Reload, DisableStale, OpenNext, OpenFails, CaptureStamp, Swap,
     BumpEpoch, PublishStatus, ClearResults, ClearDicts
<1>4. ASSUME NEW r \in Req, Handle(r)
      PROVE  Elsewhere \/ Stays(r) \/ Enters(r) \/ Leaves(r)
  <2>1. CASE Arrive(r)
    BY <2>1 DEF Arrive
  <2>2. CASE Acquire(r)
    <3> DEFINE l == IF kind[r] \in {"execute", "restricted"} THEN "filter" ELSE "clean"
    <3>1. l \in Labels /\ pc' = [pc EXCEPT ![r] = l]
      BY <2>2 DEF Acquire
    <3> QED
      BY <2>2, <3>1 DEF Acquire
  <2>3. CASE Elapse(r) \/ InterruptWorker(r)
    BY <2>3 DEF Elapse, InterruptWorker
  <2>4. CASE Unwind(r)
    BY <2>4 DEF Unwind, Return, Busy, Waiting
  <2> QED
    BY <1>4, <2>1, <2>2, <2>3, <2>4 DEF Handle
<1>5. ASSUME NEW r \in Req, Work(r) PROVE Elsewhere \/ Stays(r) \/ Leaves(r)
  <2>1. CASE Query(r)
    <3>1. goal[r] \in Goal => AfterQuery(r) \in Labels
      BY DEF AfterQuery, Goal, DictGoal
    <3>2. pc[r] \in Labels
      BY <2>1 DEF Query, Begin, QueryOk, QueryFails
    <3>3. \E l \in Labels : pc' = [pc EXCEPT ![r] = l]
      BY <2>1, <3>1 DEF Query, Begin, QueryOk, QueryFails
    <3> QED
      BY <2>1, <3>2, <3>3 DEF Query, Begin, QueryOk, QueryFails
  <2>2. CASE Filter(r) \/ CheckFilter(r)
    BY <2>2 DEF Filter, CheckFilter, FaultIfLatched, Return
  <2>3. CASE DictKey(r) \/ DictGet(r) \/ Store(r)
    BY <2>3 DEF DictKey, DictGet, Store, AfterDict
  <2>4. CASE RoleCheck(r)
    BY <2>4 DEF RoleCheck, FaultIfLatched, Return
  <2>5. CASE Clean(r)
    BY <2>5 DEF Clean
  <2>6. CASE ResultKey(r) \/ ResultGet(r)
    BY <2>6 DEF ResultKey, ResultGet
  <2>7. CASE CheckRows(r) \/ Final(r)
    BY <2>7 DEF CheckRows, Final, FaultIfLatched, Return
  <2>8. CASE Render(r) \/ Axes(r)
    BY <2>8 DEF Render, Axes
  <2> QED
    BY <1>5, <2>1, <2>2, <2>3, <2>4, <2>5, <2>6, <2>7, <2>8 DEF Work
<1> QED
  BY <1>1, <1>2, <1>3, <1>4, <1>5 DEF Next

LEMMA PermitsStep ==
  ASSUME TypeOK, PermitsOut, [Next]_vars
  PROVE  PermitsOut' /\ slots' \in 0 .. Slots
<1> USE SlotsAssumption
<1>1. slots \in Int /\ Cardinality(Workers) \in Nat
  BY FS_CardinalityType DEF TypeOK, RequestTypeOK, PermitsOut
<1>2. CASE Elsewhere
  <2>1. Workers' = Workers
    BY <1>2 DEF Elsewhere, Workers
  <2> QED
    BY <1>1, <1>2, <2>1 DEF Elsewhere, PermitsOut, TypeOK, RequestTypeOK
<1>3. ASSUME NEW r \in Req, Stays(r) PROVE PermitsOut' /\ slots' \in 0 .. Slots
  <2>1. Workers' = Workers
    BY <1>3 DEF Stays, Workers, TypeOK, RequestTypeOK
  <2> QED
    BY <1>1, <1>3, <2>1 DEF Stays, PermitsOut, TypeOK, RequestTypeOK
<1>4. ASSUME NEW r \in Req, Enters(r) PROVE PermitsOut' /\ slots' \in 0 .. Slots
  <2>1. Workers' = Workers \union {r} /\ r \notin Workers
    BY <1>4 DEF Enters, Workers, TypeOK, RequestTypeOK
  <2>2. IsFiniteSet(Workers') /\ Cardinality(Workers') = Cardinality(Workers) + 1
    BY <2>1, FS_AddElement DEF PermitsOut
  <2> QED
    BY <1>1, <1>4, <2>2 DEF Enters, PermitsOut, TypeOK, RequestTypeOK
<1>5. ASSUME NEW r \in Req, Leaves(r) PROVE PermitsOut' /\ slots' \in 0 .. Slots
  <2>1. Workers' = Workers \ {r} /\ r \in Workers
    BY <1>5 DEF Leaves, Workers, TypeOK, RequestTypeOK, Labels
  <2>2. IsFiniteSet(Workers') /\ Cardinality(Workers') = Cardinality(Workers) - 1
    BY <2>1, FS_RemoveElement DEF PermitsOut
  <2>3. Cardinality(Workers') \in Nat
    BY <2>2, FS_CardinalityType
  <2> QED
    BY <1>1, <1>5, <2>2, <2>3 DEF Leaves, PermitsOut, TypeOK, RequestTypeOK
<1> QED
  BY <1>2, <1>3, <1>4, <1>5, PermitMoves
-----------------------------------------------------------------------------
(* Type correctness.                                                         *)

LEMMA CacheTypes ==
  ASSUME NEW cache \in SUBSET CacheEntry, NEW e \in Nat, NEW sc \in Scope, NEW res \in Result
  PROVE  Put(cache, e, sc, res) \in SUBSET CacheEntry
BY DEF Put, Cached, CacheEntry

LEMMA NextConn == ASSUME NEW i \in Conn, i # PoolSize - 1 PROVE i + 1 \in Conn
BY PoolSizeAssumption DEF Conn

LEMMA Wraps == ASSUME NEW i \in Conn PROVE (i + 1) % PoolSize \in Conn
BY PoolSizeAssumption DEF Conn

LEMMA TypeInit == Init => TypeOK
<1> SUFFICES ASSUME Init PROVE TypeOK
  OBVIOUS
<1>0. 0 \in Conn /\ 1 \in Version
  BY PoolSizeAssumption, MaxVersionAssumption DEF Conn, Version
<1>1. BackendTypeOK
  BY <1>0 DEF Init, BackendInit, BackendTypeOK, Slot
<1>2. RequestTypeOK
  <2>1. lease \in [Req -> Slot]
    BY <1>0 DEF Init, Slot
  <2>2. got \in [Req -> [Goal -> Result]]
    BY DEF Init, Goal, Nothing, Result
  <2>3. slots \in 0 .. Slots
    BY SlotsAssumption DEF Init
  <2> QED
    BY <2>1, <2>2, <2>3 DEF Init, RequestTypeOK, PcValue, Goal
<1>3. CacheTypeOK
  BY DEF Init, CacheTypeOK
<1>4. SharedTypeOK
  BY <1>0, FlagsAssumption DEF Init, SharedTypeOK, FirstEpoch
<1>5. ReloadTypeOK
  BY <1>0 DEF Init, ReloadTypeOK, RpcValue, FirstEpoch
<1>6. EnvTypeOK
  BY <1>0, BoundsAssumption DEF Init, EnvTypeOK
<1> QED
  BY <1>1, <1>2, <1>3, <1>4, <1>5, <1>6 DEF TypeOK

\* A reload trigger, the loader or an eviction.
LEMMA ReloadTypeStep ==
  ASSUME TypeOK,
         Trigger \/ ReplaceFile \/ Forget \/ \E k \in Reloaders : Reload(k)
  PROVE  BackendTypeOK' /\ SharedTypeOK' /\ ReloadTypeOK'
<1> USE DEF TypeOK, Step, RpcValue
<1>1. CASE Trigger \/ ReplaceFile \/ Forget
  <2> USE DEF Trigger, ReplaceFile, Forget, SendHangup, TakeHangup, SpawnWatcher, Poll
  <2>1. BackendTypeOK'
    BY <1>1 DEF backendVars, BackendTypeOK
  <2>2. SharedTypeOK'
    BY <1>1 DEF sharedVars, SharedTypeOK
  <2>3. ReloadTypeOK'
    BY <1>1 DEF reloadVars, ReloadTypeOK, EnvTypeOK
  <2> QED
    BY <2>1, <2>2, <2>3
<1>2. ASSUME NEW k \in Reloaders, Reload(k)
      PROVE  BackendTypeOK' /\ SharedTypeOK' /\ ReloadTypeOK'
  <2>0. rnext[k] \in Conn /\ rpool[k] \in Pool /\ repoch \in [Reloaders -> Nat] /\ file \in Version
    BY DEF ReloadTypeOK, EnvTypeOK
  <2>1. CASE DisableStale(k)
    <3>1. BackendTypeOK'
      <4>1. 0 \in Conn
        BY PoolSizeAssumption DEF Conn
      <4> QED
        BY <2>1, <4>1 DEF DisableStale, ResetPool, BackendTypeOK
    <3>2. SharedTypeOK'
      BY <2>1 DEF DisableStale, SharedTypeOK, SidecarVersion
    <3>3. ReloadTypeOK'
      <4>1. 0 \in Conn
        BY PoolSizeAssumption DEF Conn
      <4> QED
        BY <2>1, <4>1 DEF DisableStale, ReloadTypeOK
    <3> QED
      BY <3>1, <3>2, <3>3
  <2>2. CASE OpenNext(k)
    <3>1. BackendTypeOK'
      BY <2>0, <2>2 DEF OpenNext, OpenConnection, BackendTypeOK, SharedTypeOK, Slot
    <3>2. SharedTypeOK'
      BY <2>2 DEF OpenNext, SharedTypeOK, sharedVars
    <3>3. ReloadTypeOK'
      BY <2>0, <2>2, NextConn DEF OpenNext, ReloadTypeOK
    <3> QED
      BY <3>1, <3>2, <3>3
  <2>3. CASE \/ OpenFails(k) \/ CaptureStamp(k) \/ Swap(k) \/ BumpEpoch(k)
             \/ PublishStatus(k) \/ ClearResults(k) \/ ClearDicts(k)
    <3> USE DEF OpenFails, CaptureStamp, Swap, BumpEpoch, PublishStatus, ClearResults,
                ClearDicts
    <3>1. BackendTypeOK'
      BY <2>3 DEF backendVars, BackendTypeOK
    <3>2. SharedTypeOK'
      BY <2>3 DEF sharedVars, SharedTypeOK, ReloadTypeOK
    <3>3. ReloadTypeOK'
      BY <2>0, <2>3 DEF ReloadTypeOK, SharedTypeOK
    <3> QED
      BY <3>1, <3>2, <3>3
  <2> QED
    BY <1>2, <2>1, <2>2, <2>3 DEF Reload
<1> QED
  BY <1>1, <1>2

LEMMA DeliverType ==
  ASSUME RequestTypeOK, NEW r \in Req, NEW res \in Result, Deliver(r, res)
  PROVE  got' \in [Req -> [Goal -> Result]]
<1>1. goal[r] \in Goal /\ got \in [Req -> [Goal -> Result]]
  BY DEF RequestTypeOK
<1>2. [got[r] EXCEPT ![goal[r]] = res] \in [Goal -> Result]
  BY <1>1
<1>3. got' = [got EXCEPT ![r] = [got[r] EXCEPT ![goal[r]] = res]]
  BY <1>1 DEF Deliver
<1> QED
  BY <1>1, <1>2, <1>3

LEMMA ReturnType ==
  ASSUME RequestTypeOK, NEW r \in Req, NEW outcome \in {"answer", "fault"},
         NEW who \in Req \union {None}, Return(r, outcome, who)
  PROVE  /\ pc' \in [Req -> PcValue]
         /\ client' \in [Req -> {"pending", "elapsed", "timeout", "answer", "fault"}]
         /\ blame' \in [Req -> Req \union {None}]
BY DEF Return, RequestTypeOK, Goto, PcValue

\* A request.
LEMMA RequestTypeStep ==
  ASSUME TypeOK, NEW r \in Req, Work(r) \/ Handle(r), slots' \in 0 .. Slots
  PROVE  BackendTypeOK' /\ RequestTypeOK'
<1> USE DEF TypeOK, Goto, Aim, PcValue
<1>0. /\ lease[r] \in Slot /\ failure[lease[r]] \in Req \union {None}
      /\ ScopeOf(r) \in Scope
      /\ epoch \in Nat /\ agg \in BOOLEAN /\ source \in Pool
  BY DEF BackendTypeOK, RequestTypeOK, SharedTypeOK, ScopeOf, Scope
<1>1. CASE Arrive(r) \/ Elapse(r) \/ Unwind(r)
  <2>1. BackendTypeOK'
    BY <1>1 DEF Arrive, Elapse, Unwind, backendVars, BackendTypeOK
  <2>2. RequestTypeOK'
    <3>1. CASE Arrive(r) \/ Elapse(r)
      BY <3>1 DEF Arrive, Elapse, RequestTypeOK
    <3>2. CASE Unwind(r)
      BY <3>2, ReturnType DEF Unwind, RequestTypeOK
    <3> QED
      BY <1>1, <3>1, <3>2
  <2> QED
    BY <2>1, <2>2
<1>2. CASE Acquire(r)
  <2>1. next[source] \in Conn
    BY <1>0 DEF BackendTypeOK
  <2>2. BackendTypeOK'
    BY <1>2, <2>1, Wraps DEF Acquire, Checkout, BackendTypeOK
  <2>3. RequestTypeOK'
    BY <1>0, <1>2, <2>1 DEF Acquire, RequestTypeOK, Slot
  <2> QED
    BY <2>2, <2>3
<1>3. CASE InterruptWorker(r)
  <2>1. BackendTypeOK'
    BY <1>3 DEF InterruptWorker, Interrupt, BackendTypeOK
  <2>2. RequestTypeOK'
    BY <1>3 DEF InterruptWorker, RequestTypeOK
  <2> QED
    BY <2>1, <2>2
<1>4. CASE Begin(r)
  <2>1. BackendTypeOK'
    BY <1>0, <1>4 DEF Begin, BeginQuery, BackendTypeOK
  <2>2. RequestTypeOK'
    BY <1>4 DEF Begin, RequestTypeOK
  <2> QED
    BY <2>1, <2>2
<1>5. CASE QueryOk(r) \/ QueryFails(r)
  <2>1. BackendTypeOK'
    <3>1. CASE QueryOk(r)
      BY <1>0, <3>1 DEF QueryOk, EndQuery, BackendTypeOK
    <3>2. CASE QueryFails(r)
      BY <1>0, <3>2 DEF QueryFails, EndQuery, Latched, BackendTypeOK
    <3> QED
      BY <1>5, <3>1, <3>2
  <2>2. \A ok \in BOOLEAN : /\ [v |-> data[lease[r]], ok |-> ok] \in Result
                            /\ [v |-> ReadVersion(r), ok |-> ok] \in Result
    <3>1. data[lease[r]] \in Version \union {0}
      BY <1>0 DEF BackendTypeOK, Closed
    <3>2. ReadVersion(r) \in Version \union {0}
      BY <3>1, MaxVersionAssumption DEF ReadVersion, SidecarVersion, Version
    <3> QED
      BY <3>1, <3>2 DEF Result
  <2>3. got' \in [Req -> [Goal -> Result]]
    BY <1>0, <1>5, <2>2, DeliverType DEF QueryOk, QueryFails
  <2>4. goal[r] \in Goal => AfterQuery(r) \in PcValue
    BY DEF AfterQuery, DictGoal, Goal
  <2>5. RequestTypeOK'
    BY <1>5, <2>3, <2>4 DEF QueryOk, QueryFails, RequestTypeOK
  <2> QED
    BY <2>1, <2>5
<1>6. CASE Filter(r) \/ CheckFilter(r) \/ RoleCheck(r) \/ Clean(r) \/ Final(r) \/ CheckRows(r)
  <2> USE DEF Filter, CheckFilter, RoleCheck, Clean, Final, CheckRows
  <2>1. BackendTypeOK'
    BY <1>0, <1>6 DEF TakeFailure, backendVars, BackendTypeOK
  <2>2. FaultIfLatched(r) =>
           /\ pc' \in [Req -> PcValue]
           /\ client' \in [Req -> {"pending", "elapsed", "timeout", "answer", "fault"}]
           /\ blame' \in [Req -> Req \union {None}]
    BY <1>0, ReturnType DEF FaultIfLatched
  <2>3. RequestTypeOK'
    <3>1. CASE Filter(r) \/ Clean(r)
      <4>1. \E l \in PcValue : pc' = [pc EXCEPT ![r] = l]
        BY <3>1 DEF RequestTypeOK
      <4>2. goal' = goal \/ \E g \in Goal : goal' = [goal EXCEPT ![r] = g]
        BY <3>1 DEF Goal
      <4>3. rollup' \in [Req -> BOOLEAN]
        BY <1>0, <3>1 DEF RequestTypeOK
      <4> HIDE DEF PcValue
      <4>4. pc' \in [Req -> PcValue] /\ goal' \in [Req -> Goal]
        BY <4>1, <4>2 DEF RequestTypeOK
      <4> QED
        BY <3>1, <4>3, <4>4 DEF RequestTypeOK
    <3>2. CASE CheckFilter(r)
      BY <2>2, <3>2 DEF RequestTypeOK, Goal
    <3>3. CASE RoleCheck(r) \/ CheckRows(r)
      BY <2>2, <3>3 DEF RequestTypeOK
    <3>4. CASE Final(r)
      BY <2>2, <3>4, ReturnType DEF RequestTypeOK
    <3> QED
      BY <1>6, <3>1, <3>2, <3>3, <3>4
  <2> QED
    BY <2>1, <2>3
<1>7. CASE \/ DictKey(r) \/ ResultKey(r) \/ Render(r) \/ Axes(r) \/ Store(r)
           \/ DictGet(r) \/ ResultGet(r)
  <2> USE DEF DictKey, ResultKey, Render, Axes, Store, DictGet, ResultGet
  <2>1. BackendTypeOK'
    BY <1>7 DEF backendVars, BackendTypeOK
  <2>2. got' \in [Req -> [Goal -> Result]]
    <3>1. CASE DictGet(r) \/ ResultGet(r)
      <4>1. \A c \in results \union dicts : c.res \in Result
        BY DEF CacheTypeOK, CacheEntry
      <4>2. got' = got \/ \E c \in results \union dicts : Deliver(r, c.res)
        BY <3>1 DEF Cached
      <4> QED
        BY <4>1, <4>2, DeliverType DEF RequestTypeOK
    <3>2. CASE ~DictGet(r) /\ ~ResultGet(r)
      BY <1>7, <3>2 DEF RequestTypeOK
    <3> QED
      BY <3>1, <3>2
  <2>3. RequestTypeOK'
    <3>1. CASE DictKey(r) \/ ResultKey(r) \/ Store(r)
      <4>1. \E l \in PcValue : pc' = [pc EXCEPT ![r] = l]
        BY <3>1 DEF AfterDict
      <4> HIDE DEF PcValue
      <4>2. pc' \in [Req -> PcValue]
        BY <4>1 DEF RequestTypeOK
      <4>3. /\ key' = key \/ key' = [key EXCEPT ![r] = epoch]
            /\ dkey' = dkey \/ dkey' = [dkey EXCEPT ![r] = epoch]
        BY <3>1
      <4>4. key' \in [Req -> Nat] /\ dkey' \in [Req -> Nat]
        BY <1>0, <4>3 DEF RequestTypeOK
      <4> QED
        BY <3>1, <4>2, <4>4 DEF RequestTypeOK
    <3>2. CASE Render(r) \/ Axes(r)
      <4>1. \E l \in PcValue : pc' = [pc EXCEPT ![r] = l]
        BY <3>2 DEF RequestTypeOK
      <4>2. goal' = goal \/ \E g \in Goal : goal' = [goal EXCEPT ![r] = g]
        BY <3>2 DEF Goal
      <4>3. rollup' \in [Req -> BOOLEAN]
        BY <1>0, <3>2 DEF RequestTypeOK
      <4> HIDE DEF PcValue
      <4>4. pc' \in [Req -> PcValue] /\ goal' \in [Req -> Goal]
        BY <4>1, <4>2 DEF RequestTypeOK
      <4> QED
        BY <3>2, <4>3, <4>4 DEF RequestTypeOK
    <3>3. CASE DictGet(r) \/ ResultGet(r)
      <4>1. pc' \in [Req -> PcValue] /\ rollup' \in [Req -> BOOLEAN]
        <5>1. CASE DictGet(r)
          BY <5>1 DEF RequestTypeOK, AfterDict
        <5>2. CASE ResultGet(r)
          BY <1>0, <5>2 DEF RequestTypeOK
        <5> QED
          BY <3>3, <5>1, <5>2
      <4>2. UNCHANGED <<slots, kind, lease, goal, key, dkey, client, blame>>
        BY <3>3
      <4> QED
        BY <2>2, <4>1, <4>2 DEF RequestTypeOK
    <3> QED
      BY <1>7, <3>1, <3>2, <3>3
  <2> QED
    BY <2>1, <2>3
<1> QED
  BY <1>1, <1>2, <1>3, <1>4, <1>5, <1>6, <1>7 DEF Work, Handle, Query

LEMMA TypeStep ==
  ASSUME TypeOK, slots' \in 0 .. Slots, [Next]_vars
  PROVE  TypeOK'
<1> USE DEF TypeOK
<1>1. CASE UNCHANGED vars
  BY <1>1 DEF vars, backendVars, requestVars, cacheVars, sharedVars, reloadVars, envVars,
     BackendTypeOK, RequestTypeOK, CacheTypeOK, SharedTypeOK, ReloadTypeOK, EnvTypeOK
<1>2. ASSUME NEW r \in Req, Work(r) \/ Handle(r) PROVE TypeOK'
  <2>1. BackendTypeOK' /\ RequestTypeOK'
    BY <1>2, RequestTypeStep
  <2>2. CASE Handle(r)
    <3> USE DEF Handle, Arrive, Acquire, Elapse, InterruptWorker, Unwind
    <3>1. CacheTypeOK' /\ SharedTypeOK' /\ ReloadTypeOK'
      BY <2>2 DEF cacheVars, sharedVars, reloadVars, CacheTypeOK, SharedTypeOK, ReloadTypeOK
    <3>2. EnvTypeOK'
      BY <2>2, BoundsAssumption DEF envVars, EnvTypeOK
    <3> QED
      BY <2>1, <3>1, <3>2
  <2>3. CASE Work(r)
    <3> USE DEF Work, Query, Begin, QueryOk, QueryFails, Filter, CheckFilter, DictKey, DictGet,
                Store, RoleCheck, Clean, ResultKey, ResultGet, CheckRows, Render, Axes, Final
    <3>1. SharedTypeOK' /\ ReloadTypeOK'
      BY <2>3 DEF sharedVars, reloadVars, SharedTypeOK, ReloadTypeOK
    <3>2. EnvTypeOK'
      <4>1. CASE QueryFails(r)
        BY <4>1, BoundsAssumption DEF EnvTypeOK
      <4>2. CASE ~QueryFails(r)
        BY <2>3, <4>2 DEF envVars, EnvTypeOK
      <4> QED
        BY <4>1, <4>2
    <3>3. ScopeOf(r) \in Scope /\ key[r] \in Nat /\ dkey[r] \in Nat /\ got[r] \in [Goal -> Result]
      BY DEF RequestTypeOK, ScopeOf, Scope
    <3>4. CacheTypeOK'
      <4>1. CASE Store(r)
        <5>1. got[r][goal[r]] \in Result
          BY <3>3 DEF RequestTypeOK
        <5> QED
          BY <3>3, <4>1, <5>1, CacheTypes DEF CacheTypeOK
      <4>2. CASE CheckRows(r)
        <5>1. got[r]["rows"] \in Result
          BY <3>3 DEF Goal
        <5> QED
          BY <3>3, <4>2, <5>1, CacheTypes DEF CacheTypeOK
      <4>3. CASE ~Store(r) /\ ~CheckRows(r)
        BY <2>3, <4>3 DEF cacheVars, CacheTypeOK
      <4> QED
        BY <4>1, <4>2, <4>3
    <3> QED
      BY <2>1, <3>1, <3>2, <3>4
  <2> QED
    BY <1>2, <2>2, <2>3
<1>3. CASE Trigger \/ ReplaceFile \/ Forget \/ \E k \in Reloaders : Reload(k)
  <2> USE DEF Trigger, ReplaceFile, Forget, SendHangup, TakeHangup, SpawnWatcher, Poll, Reload,
              DisableStale, OpenNext, OpenFails, CaptureStamp, Swap, BumpEpoch, PublishStatus,
              ClearResults, ClearDicts
  <2>1. BackendTypeOK' /\ SharedTypeOK' /\ ReloadTypeOK'
    BY <1>3, ReloadTypeStep
  <2>2. RequestTypeOK' /\ CacheTypeOK'
    BY <1>3 DEF requestVars, cacheVars, RequestTypeOK, CacheTypeOK
  <2>3. EnvTypeOK'
    BY <1>3, BoundsAssumption, MaxVersionAssumption DEF envVars, EnvTypeOK, Version
  <2> QED
    BY <2>1, <2>2, <2>3
<1> QED
  BY <1>1, <1>2, <1>3 DEF Next
-----------------------------------------------------------------------------
(* The first two theorems are proved together: a permit given back must fit  *)
(* under Slots, so the type of slots needs the count of the permits out.     *)

LEMMA PermitsInit == Init => PermitsOut
<1> SUFFICES ASSUME Init PROVE PermitsOut
  OBVIOUS
<1>1. Workers = {}
  BY DEF Init, Workers, Labels, PcValue
<1>2. IsFiniteSet(Workers) /\ Cardinality(Workers) = 0
  BY <1>1, FS_EmptySet
<1> QED
  BY <1>2, SlotsAssumption DEF Init, PermitsOut

\* Every variable keeps its type, and every permit is at home or with one
\* worker.
THEOREM TypesAndPermits == Spec => [](TypeOK /\ PermitsOut)
<1>1. Init => TypeOK /\ PermitsOut
  BY TypeInit, PermitsInit
<1>2. TypeOK /\ PermitsOut /\ [Next]_vars => (TypeOK /\ PermitsOut)'
  BY PermitsStep, TypeStep
<1> QED
  BY <1>1, <1>2, PTL DEF Spec

\* Every variable keeps its type: no cursor leaves its pool and no permit is
\* counted twice, however many requests, reloads, pools and slots there are.
THEOREM TypeCorrect == Spec => []TypeOK
BY TypesAndPermits, PTL

\* At most Slots workers use the engine, timed-out workers included.
THEOREM PermitsAreConserved == Spec => []PermitsConserved
<1>1. TypeOK /\ PermitsOut => PermitsConserved
  <2> SUFFICES ASSUME TypeOK, PermitsOut PROVE PermitsConserved
    OBVIOUS
  <2>1. Workers = {r \in Req : Busy(r)}
    BY BusyLabels DEF Workers
  <2> QED
    BY <2>1 DEF PermitsOut, PermitsConserved
<1> QED
  BY <1>1, TypesAndPermits, PTL
------------------------------------------------------------------------------
(* With one query slot the latch is enough: a failed measure query never      *)
(* becomes an answer or a cached result, and no request is faulted for the    *)
(* failure of another one.  (With two slots neither holds: see the run        *)
(* shared_latch.)  Reloads, timeouts, panics and any number of requests,      *)
(* connections and pools are allowed.                                         *)
(*                                                                            *)
(* The argument: one permit means one worker, so nobody else takes the latch  *)
(* between a failed query and the check that follows it.                      *)


Measures == Goal \ DictGoal
Latching == {"checkfilter", "dictkey", "dictget", "wait", "run", "store", "rolecheck",
             "checkrows", "axes", "final"}

OneWorker == \A q, r \in Req : Busy(q) /\ Busy(r) => q = r

\* The three dictionary steps work for a dictionary goal.
AimsAtDict == \A r \in Req : pc[r] \in {"dictkey", "dictget", "store"} => goal[r] \in DictGoal

AnswersAreDone == \A r \in Req : client[r] \in {"answer", "fault"} => pc[r] = "done"

\* A failed measure query is still latched, or its request did not answer.
Settled(r, g) == got[r][g].ok \/ (pc[r] = "done" /\ client[r] # "answer")
GoodOrLatched ==
    \A r \in Req, g \in Measures :
        Settled(r, g) \/ (pc[r] \in Latching /\ failure[lease[r]] # None)

ExclusiveInv == AimsAtDict /\ AnswersAreDone /\ GoodOrLatched /\ CacheHoldsGoodRows

LEMMA OneSlotOneWorker ==
  ASSUME TypeOK, PermitsOut, Slots = 1
  PROVE  OneWorker
<1> SUFFICES ASSUME NEW q \in Req, NEW r \in Req, Busy(q), Busy(r), q # r PROVE FALSE
  BY DEF OneWorker
<1>1. q \in Workers /\ r \in Workers \ {q} /\ IsFiniteSet(Workers)
  BY BusyLabels DEF Workers, PermitsOut
<1>2. /\ IsFiniteSet(Workers \ {q})
      /\ Cardinality(Workers \ {q}) = Cardinality(Workers) - 1
  BY <1>1, FS_RemoveElement
<1>3. /\ IsFiniteSet((Workers \ {q}) \ {r})
      /\ Cardinality((Workers \ {q}) \ {r}) = Cardinality(Workers \ {q}) - 1
  BY <1>1, <1>2, FS_RemoveElement
<1>4. Cardinality(Workers) \in Nat /\ Cardinality((Workers \ {q}) \ {r}) \in Nat
  BY <1>1, <1>3, FS_CardinalityType
<1>5. Cardinality(Workers) <= 1
  BY <1>4 DEF PermitsOut, TypeOK, RequestTypeOK
<1> QED
  BY <1>2, <1>3, <1>4, <1>5

LEMMA ExclusiveInit == Init => ExclusiveInv
BY DEF Init, ExclusiveInv, AimsAtDict, AnswersAreDone, GoodOrLatched, CacheHoldsGoodRows,
   Settled, Nothing, Measures

\* Nobody but the worker has anything unsettled.
LEMMA OthersSettled ==
  ASSUME OneWorker, GoodOrLatched, NEW r \in Req, Busy(r)
  PROVE  \A q \in Req \ {r}, g \in Measures : Settled(q, g)
BY DEF OneWorker, GoodOrLatched, Latching, Busy, Waiting

\* What is left to prove of a step of one request: its own part.
LEMMA OwnPart ==
  ASSUME TypeOK, OneWorker, ExclusiveInv, NEW r \in Req, Busy(r), Work(r) \/ Unwind(r),
         pc'[r] \in {"dictkey", "dictget", "store"} => goal'[r] \in DictGoal,
         client'[r] \in {"answer", "fault"} => pc'[r] = "done",
         \A g \in Measures : Settled(r, g)' \/ (pc'[r] \in Latching /\ failure'[lease'[r]] # None),
         CacheHoldsGoodRows'
  PROVE  ExclusiveInv'
<1>1. \A q \in Req \ {r} : /\ pc'[q] = pc[q] /\ goal'[q] = goal[q]
                           /\ client'[q] = client[q] /\ got'[q] = got[q]
  BY DEF TypeOK, RequestTypeOK, Work, Query, Begin, QueryOk, QueryFails, Filter, CheckFilter,
     DictKey, DictGet, Store, RoleCheck, Clean, ResultKey, ResultGet, CheckRows, Render, Axes,
     Final, Unwind, Return, FaultIfLatched, Deliver, Goto, Aim
<1>2. \A q \in Req \ {r}, g \in Measures : Settled(q, g)'
  BY <1>1, OthersSettled DEF ExclusiveInv, Settled
<1>3. GoodOrLatched'
  BY <1>2 DEF GoodOrLatched
<1>4. AimsAtDict' /\ AnswersAreDone'
  BY <1>1 DEF ExclusiveInv, AimsAtDict, AnswersAreDone
<1> QED
  BY <1>3, <1>4 DEF ExclusiveInv

\* A latched failure ends the request in a fault.
LEMMA LatchFaults ==
  ASSUME TypeOK, AnswersAreDone, NEW r \in Req, Busy(r), FaultIfLatched(r)
  PROVE  /\ pc'[r] = "done" /\ client'[r] # "answer"
         /\ \A g \in Measures : Settled(r, g)'
BY DEF TypeOK, RequestTypeOK, AnswersAreDone, FaultIfLatched, Return, Goto, Settled, Busy, Waiting

\* Nothing failed unless the latch says so.
LEMMA CleanLatch ==
  ASSUME GoodOrLatched, NEW r \in Req, Busy(r), failure[lease[r]] = None
  PROVE  \A g \in Measures : got[r][g].ok
BY DEF GoodOrLatched, Settled, Busy, Waiting

LEMMA QueryKeepsExclusiveInv ==
  ASSUME TypeOK, OneWorker, ExclusiveInv, NEW r \in Req, Query(r)
  PROVE  ExclusiveInv'
<1>0. /\ Busy(r) /\ goal[r] \in Goal /\ pc \in [Req -> PcValue] /\ lease[r] \in Slot
      /\ goal \in [Req -> Goal]
      /\ got \in [Req -> [Goal -> Result]] /\ failure \in [Slot -> Req \union {None}]
      /\ UNCHANGED <<lease, goal, client, results>>
      /\ client[r] \notin {"answer", "fault"}
  BY DEF Query, Begin, QueryOk, QueryFails, Busy, Waiting, TypeOK, RequestTypeOK, BackendTypeOK,
     cacheVars, ExclusiveInv, AnswersAreDone
<1>1. CacheHoldsGoodRows'
  BY <1>0 DEF ExclusiveInv, CacheHoldsGoodRows
<1>2. \A g \in Measures : got[r][g].ok \/ failure[lease[r]] # None
  BY <1>0 DEF ExclusiveInv, GoodOrLatched, Settled, Busy, Waiting
<1>3. CASE Begin(r)
  <2>1. pc'[r] = "run" /\ UNCHANGED <<got, failure>>
    BY <1>0, <1>3 DEF Begin, BeginQuery, Goto
  <2>2. \A g \in Measures : Settled(r, g)' \/ (pc'[r] \in Latching /\ failure'[lease'[r]] # None)
    BY <1>0, <1>2, <2>1 DEF Settled, Latching
  <2> QED
    BY <1>0, <1>1, <2>1, <2>2, OwnPart DEF Work
<1>4. CASE QueryOk(r) \/ QueryFails(r)
  <2>1. /\ AfterQuery(r) \in Latching
        /\ AfterQuery(r) \notin {"dictkey", "dictget"}
        /\ AfterQuery(r) = "store" => goal[r] \in DictGoal
    BY <1>0 DEF AfterQuery, DictGoal, Goal, Latching
  <2>2. pc'[r] = AfterQuery(r)
    BY <1>0, <1>4 DEF QueryOk, QueryFails, Goto
  <2>3. failure[lease[r]] # None => failure'[lease[r]] # None
    BY <1>0, <1>4 DEF QueryOk, QueryFails, EndQuery, Latched
  <2>4. \A g \in Measures \ {goal[r]} : got'[r][g] = got[r][g]
    BY <1>0, <1>4 DEF QueryOk, QueryFails, Deliver, Measures
  <2>5. goal[r] \in Measures => got'[r][goal[r]].ok \/ failure'[lease[r]] # None
    <3>1. CASE QueryOk(r)
      BY <1>0, <3>1 DEF QueryOk, Deliver
    <3>2. CASE QueryFails(r)
      BY <1>0, <3>2, NoneAssumption DEF QueryFails, EndQuery, Latched, Measures
    <3> QED
      BY <1>4, <3>1, <3>2
  <2>6. \A g \in Measures : Settled(r, g)' \/ (pc'[r] \in Latching /\ failure'[lease'[r]] # None)
    BY <1>0, <1>2, <2>1, <2>2, <2>3, <2>4, <2>5 DEF Settled
  <2> QED
    BY <1>0, <1>1, <2>1, <2>2, <2>6, OwnPart DEF Work
<1> QED
  BY <1>3, <1>4 DEF Query

LEMMA WorkKeepsExclusiveInv ==
  ASSUME TypeOK, OneWorker, ExclusiveInv, NEW r \in Req, Work(r)
  PROVE  ExclusiveInv'
<1>0. /\ Busy(r) /\ goal[r] \in Goal /\ pc \in [Req -> PcValue] /\ goal \in [Req -> Goal]
      /\ got \in [Req -> [Goal -> Result]] /\ lease' = lease
      /\ client[r] \notin {"answer", "fault"}
  BY DEF Work, Query, Begin, QueryOk, QueryFails, Filter, CheckFilter,
     DictKey, DictGet, Store, RoleCheck, Clean, ResultKey, ResultGet, CheckRows, Render, Axes,
     Final, Busy, Waiting, TypeOK, RequestTypeOK, ExclusiveInv, AnswersAreDone
<1>1. pc[r] \notin Latching => \A g \in Measures : got[r][g].ok
  BY <1>0 DEF ExclusiveInv, GoodOrLatched, Settled, Busy, Waiting
<1>2. \A g \in Measures : got[r][g].ok \/ failure[lease[r]] # None
  BY <1>0 DEF ExclusiveInv, GoodOrLatched, Settled, Busy, Waiting
<1>3. CASE Query(r)
  BY <1>3, QueryKeepsExclusiveInv
<1>4. CASE Filter(r) \/ Clean(r) \/ ResultKey(r) \/ Render(r)
  <2> USE DEF Filter, Clean, ResultKey, Render
  <2>1. /\ UNCHANGED <<got, client, results>> /\ pc[r] \notin Latching /\ pc'[r] # "done"
    BY <1>0, <1>4 DEF cacheVars, Latching, Goto, Aim
  <2>2. pc'[r] \in {"dictkey", "dictget", "store"} => goal'[r] \in DictGoal
    BY <1>0, <1>4 DEF Goto, Aim, DictGoal
  <2>3. \A g \in Measures : Settled(r, g)'
    BY <1>1, <2>1 DEF Settled
  <2>4. CacheHoldsGoodRows'
    BY <2>1 DEF ExclusiveInv, CacheHoldsGoodRows
  <2> QED
    BY <1>0, <2>1, <2>2, <2>3, <2>4, OwnPart
<1>5. CASE DictKey(r) \/ Store(r) \/ Axes(r)
  <2> USE DEF DictKey, Store, Axes
  <2>1. /\ UNCHANGED <<got, client, results, failure>> /\ pc'[r] \in Latching
    BY <1>0, <1>5 DEF cacheVars, backendVars, Latching, Goto, Aim, AfterDict
  <2>2. pc'[r] \in {"dictkey", "dictget", "store"} => goal'[r] \in DictGoal
    BY <1>0, <1>5 DEF Goto, Aim, DictGoal, AfterDict, ExclusiveInv, AimsAtDict
  <2>3. \A g \in Measures : Settled(r, g)' \/ (pc'[r] \in Latching /\ failure'[lease'[r]] # None)
    BY <1>0, <1>2, <2>1 DEF Settled
  <2>4. CacheHoldsGoodRows'
    BY <2>1 DEF ExclusiveInv, CacheHoldsGoodRows
  <2> QED
    BY <1>0, <1>5, <2>1, <2>2, <2>3, <2>4, OwnPart
<1>6. CASE DictGet(r)
  <2>1. /\ UNCHANGED <<client, results, failure>> /\ pc'[r] \in {"rolecheck", "final", "wait"}
    BY <1>0, <1>6 DEF DictGet, cacheVars, backendVars, Goto, AfterDict
  <2>2. goal[r] \in DictGoal
    BY <1>6 DEF DictGet, ExclusiveInv, AimsAtDict
  <2>3. \A g \in Measures : got'[r][g] = got[r][g]
    BY <1>0, <1>6, <2>2 DEF DictGet, Deliver, Measures
  <2>4. \A g \in Measures : Settled(r, g)' \/ (pc'[r] \in Latching /\ failure'[lease'[r]] # None)
    BY <1>0, <1>2, <2>1, <2>3 DEF Settled, Latching
  <2>5. CacheHoldsGoodRows'
    BY <2>1 DEF ExclusiveInv, CacheHoldsGoodRows
  <2> QED
    BY <1>0, <2>1, <2>4, <2>5, OwnPart
<1>7. CASE ResultGet(r)
  <2>1. /\ UNCHANGED <<client, results>> /\ pc[r] = "get" /\ pc'[r] \in {"render", "wait"}
    BY <1>0, <1>7 DEF ResultGet, cacheVars, Goto
  <2>2. got' = got \/ \E c \in results : got' = [got EXCEPT ![r][goal[r]] = c.res]
    BY <1>7 DEF ResultGet, Cached, Deliver
  <2>3. \A c \in results : c.res.ok
    BY DEF ExclusiveInv, CacheHoldsGoodRows
  <2>4. \A g \in Measures : got'[r][g].ok
    BY <1>0, <1>1, <2>1, <2>2, <2>3 DEF Latching, Measures
  <2>5. \A g \in Measures : Settled(r, g)'
    BY <2>4 DEF Settled
  <2>6. CacheHoldsGoodRows'
    BY <2>1, <2>3 DEF CacheHoldsGoodRows
  <2> QED
    BY <1>0, <2>1, <2>5, <2>6, OwnPart
<1>8. CASE CheckFilter(r) \/ RoleCheck(r)
  <2> USE DEF CheckFilter, RoleCheck
  <2>1. UNCHANGED <<got, results>>
    BY <1>8 DEF cacheVars
  <2>2. CacheHoldsGoodRows'
    BY <2>1 DEF ExclusiveInv, CacheHoldsGoodRows
  <2>3. CASE FaultIfLatched(r)
    BY <1>0, <2>2, <2>3, LatchFaults, OwnPart DEF ExclusiveInv
  <2>4. CASE failure[lease[r]] = None /\ client' = client
    <3>1. \A g \in Measures : Settled(r, g)'
      BY <1>0, <2>1, <2>4, CleanLatch DEF ExclusiveInv, Settled
    <3>2. pc'[r] \in {"dictkey", "dictget", "store"} => goal'[r] \in DictGoal
      BY <1>0, <1>8, <2>4 DEF FaultIfLatched, Goto, Aim, DictGoal
    <3> QED
      BY <1>0, <2>2, <2>4, <3>1, <3>2, OwnPart
  <2> QED
    BY <1>8, <2>3, <2>4
<1>9. CASE CheckRows(r)
  <2>1. CASE FaultIfLatched(r)
    <3>1. results' = results
      BY <1>9, <2>1 DEF CheckRows, FaultIfLatched
    <3>2. CacheHoldsGoodRows'
      BY <3>1 DEF ExclusiveInv, CacheHoldsGoodRows
    <3> QED
      BY <1>0, <2>1, <3>2, LatchFaults, OwnPart DEF ExclusiveInv
  <2>2. CASE ~FaultIfLatched(r)
    <3>1. /\ failure[lease[r]] = None /\ UNCHANGED <<client, got>> /\ pc'[r] = "render"
          /\ results' = Put(results, key[r], ScopeOf(r), got[r]["rows"])
      BY <1>0, <1>9, <2>2 DEF CheckRows, Goto
    <3>2. \A g \in Measures : got[r][g].ok
      BY <1>0, <3>1, CleanLatch DEF ExclusiveInv
    <3>3. CacheHoldsGoodRows'
      BY <3>1, <3>2 DEF ExclusiveInv, CacheHoldsGoodRows, Put, Cached, Measures, Goal, DictGoal
    <3>4. \A g \in Measures : Settled(r, g)'
      BY <3>1, <3>2 DEF Settled
    <3> QED
      BY <1>0, <3>1, <3>3, <3>4, OwnPart
  <2> QED
    BY <2>1, <2>2
<1>10. CASE Final(r)
  <2>1. UNCHANGED <<got, results>>
    BY <1>10 DEF Final, cacheVars
  <2>2. CacheHoldsGoodRows'
    BY <2>1 DEF ExclusiveInv, CacheHoldsGoodRows
  <2>3. CASE FaultIfLatched(r)
    BY <1>0, <2>2, <2>3, LatchFaults, OwnPart DEF ExclusiveInv
  <2>4. CASE ~FaultIfLatched(r)
    <3>1. failure[lease[r]] = None /\ pc'[r] = "done"
      BY <1>0, <1>10, <2>4 DEF Final, Return, Goto
    <3>2. \A g \in Measures : Settled(r, g)'
      BY <1>0, <2>1, <3>1, CleanLatch DEF ExclusiveInv, Settled
    <3> QED
      BY <1>0, <2>2, <3>1, <3>2, OwnPart
  <2> QED
    BY <2>3, <2>4
<1> QED
  BY <1>3, <1>4, <1>5, <1>6, <1>7, <1>8, <1>9, <1>10 DEF Work

LEMMA HandleKeepsExclusiveInv ==
  ASSUME TypeOK, OneWorker, ExclusiveInv, NEW r \in Req, Handle(r)
  PROVE  ExclusiveInv'
<1> USE DEF TypeOK, RequestTypeOK, Goto
<1>1. CASE Arrive(r) \/ Acquire(r)
  <2> USE DEF Arrive, Acquire
  <2>1. /\ UNCHANGED <<got, client, goal, results, failure>>
        /\ pc[r] \in {"new", "queued"} /\ pc'[r] \in {"queued", "filter", "clean"}
        /\ \A q \in Req \ {r} : pc'[q] = pc[q] /\ lease'[q] = lease[q]
    BY <1>1 DEF cacheVars, backendVars, Checkout
  <2>2. \A g \in Measures : got[r][g].ok
    BY <2>1 DEF ExclusiveInv, GoodOrLatched, Settled, Latching
  <2>3. GoodOrLatched'
    BY <2>1, <2>2 DEF ExclusiveInv, GoodOrLatched, Settled
  <2> QED
    BY <2>1, <2>3 DEF ExclusiveInv, AimsAtDict, AnswersAreDone, CacheHoldsGoodRows
<1>2. CASE Elapse(r) \/ InterruptWorker(r)
  <2> USE DEF Elapse, InterruptWorker
  <2>1. /\ UNCHANGED <<got, goal, pc, lease, results, failure>>
        /\ client'[r] \in {"elapsed", "timeout"}
        /\ \A q \in Req \ {r} : client'[q] = client[q]
    BY <1>2 DEF cacheVars, backendVars, Interrupt
  <2> QED
    BY <2>1 DEF ExclusiveInv, GoodOrLatched, Settled, AimsAtDict, AnswersAreDone,
       CacheHoldsGoodRows
<1>3. CASE Unwind(r)
  <2>1. /\ Busy(r) /\ UNCHANGED <<got, results>> /\ pc'[r] = "done"
        /\ client[r] # "answer" /\ client'[r] # "answer"
    BY <1>3 DEF Unwind, Return, cacheVars, ExclusiveInv, AnswersAreDone, Busy
  <2>2. \A g \in Measures : Settled(r, g)'
    BY <2>1 DEF Settled
  <2>3. CacheHoldsGoodRows'
    BY <2>1 DEF ExclusiveInv, CacheHoldsGoodRows
  <2> QED
    BY <1>3, <2>1, <2>2, <2>3, OwnPart
<1> QED
  BY <1>1, <1>2, <1>3 DEF Handle

\* A reload touches no latch of a connection in use: the pool it starts is one
\* that nobody holds.
LEMMA ReloadSparesLatches ==
  ASSUME TypeOK, NEW k \in Reloaders, Reload(k)
  PROVE  /\ UNCHANGED requestVars
         /\ \A r \in Req : Busy(r) => failure'[lease[r]] = failure[lease[r]]
         /\ results' = results \/ results' = {}
<1> USE DEF backendVars, cacheVars
<1>1. CASE DisableStale(k)
  <2>1. PICK p \in Pool : ~InUse(p) /\ ResetPool(p)
    BY <1>1 DEF DisableStale
  <2>2. \A r \in Req : Busy(r) => lease[r] \in Slot /\ lease[r][1] # p
    BY <2>1 DEF InUse, Holds, TypeOK, RequestTypeOK
  <2> QED
    BY <1>1, <2>1, <2>2 DEF DisableStale, ResetPool
<1>2. CASE OpenNext(k)
  BY <1>2 DEF OpenNext, OpenConnection
<1>3. CASE \/ OpenFails(k) \/ CaptureStamp(k) \/ Swap(k) \/ BumpEpoch(k)
           \/ PublishStatus(k) \/ ClearResults(k) \/ ClearDicts(k)
  BY <1>3 DEF OpenFails, CaptureStamp, Swap, BumpEpoch, PublishStatus, ClearResults, ClearDicts
<1> QED
  BY <1>1, <1>2, <1>3 DEF Reload

LEMMA QuietKeepsExclusiveInv ==
  ASSUME ExclusiveInv, UNCHANGED requestVars,
         \A r \in Req : Busy(r) => failure'[lease[r]] = failure[lease[r]],
         results' \subseteq results
  PROVE  ExclusiveInv'
<1>1. UNCHANGED <<pc, goal, lease, client, got>>
  BY DEF requestVars
<1>2. \A r \in Req : pc[r] \in Latching => failure'[lease[r]] = failure[lease[r]]
  BY DEF Latching, Busy, Waiting
<1> QED
  BY <1>1, <1>2 DEF ExclusiveInv, AimsAtDict, AnswersAreDone, GoodOrLatched, Settled,
     CacheHoldsGoodRows

LEMMA ExclusiveStep == TypeOK /\ OneWorker /\ ExclusiveInv /\ [Next]_vars => ExclusiveInv'
<1> SUFFICES ASSUME TypeOK, OneWorker, ExclusiveInv, [Next]_vars PROVE ExclusiveInv'
  OBVIOUS
<1>1. CASE UNCHANGED vars \/ Trigger \/ ReplaceFile \/ Forget
  <2>1. UNCHANGED requestVars /\ failure' = failure /\ results' \subseteq results
    BY <1>1 DEF vars, backendVars, cacheVars, Trigger, ReplaceFile, Forget, SendHangup,
       TakeHangup, SpawnWatcher, Poll
  <2> QED
    BY <2>1, QuietKeepsExclusiveInv
<1>2. ASSUME NEW k \in Reloaders, Reload(k) PROVE ExclusiveInv'
  BY <1>2, ReloadSparesLatches, QuietKeepsExclusiveInv
<1> QED
  BY <1>1, <1>2, WorkKeepsExclusiveInv, HandleKeepsExclusiveInv DEF Next

LEMMA ExclusiveAlways ==
  ASSUME Slots = 1
  PROVE  Spec => []ExclusiveInv
<1>1. Init => ExclusiveInv
  BY ExclusiveInit
<1>2. TypeOK /\ PermitsOut => OneWorker
  BY OneSlotOneWorker
<1>3. TypeOK /\ OneWorker /\ ExclusiveInv /\ [Next]_vars => ExclusiveInv'
  BY ExclusiveStep
<1> QED
  BY <1>1, <1>2, <1>3, TypesAndPermits, PTL DEF Spec

\* With one slot, no failed measure query becomes an answer.
THEOREM FailuresAreNotServed ==
  ASSUME Slots = 1
  PROVE  Spec => []NoWrongNumber
<1>1. ExclusiveInv => NoWrongNumber
  BY DEF ExclusiveInv, GoodOrLatched, AnswersAreDone, Settled, Latching, Measures,
     NoWrongNumber, Answered
<1> QED
  BY <1>1, ExclusiveAlways, PTL

\* With one slot, no rows of a failed query enter the result cache.
THEOREM FailuresAreNotCached ==
  ASSUME Slots = 1
  PROVE  Spec => []CacheHoldsGoodRows
<1>1. ExclusiveInv => CacheHoldsGoodRows
  BY DEF ExclusiveInv
<1> QED
  BY <1>1, ExclusiveAlways, PTL
-----------------------------------------------------------------------------
(* Faults.  The check after the role dictionaries takes the latch before the *)
(* clean start, so restricted requests are excluded.                         *)

OwnLatch ==
    \A r \in Req : Busy(r) /\ pc[r] \notin {"filter", "clean"} =>
        failure[lease[r]] \in {None, r}

FaultInv == OwnLatch /\ FaultIsOwn /\ AnswersAreDone

LEMMA WorkKeepsFaultInv ==
  ASSUME TypeOK, OneWorker, FaultInv, "restricted" \notin Kinds, NEW r \in Req,
         Work(r) \/ Unwind(r)
  PROVE  FaultInv'
<1>0. /\ Busy(r) /\ goal[r] \in Goal /\ pc \in [Req -> PcValue] /\ lease[r] \in Slot
      /\ lease' = lease /\ kind[r] # "restricted" /\ client[r] \notin {"answer", "fault"}
      /\ failure \in [Slot -> Req \union {None}]
  <2>1. Busy(r) /\ lease' = lease
    BY DEF Work, Query, Begin, QueryOk, QueryFails, Filter, CheckFilter, DictKey, DictGet,
       Store, RoleCheck, Clean, ResultKey, ResultGet, CheckRows, Render, Axes, Final, Unwind,
       Busy, Waiting
  <2>2. pc[r] # "done"
    BY <2>1 DEF Busy
  <2> QED
    BY <2>1, <2>2 DEF TypeOK, RequestTypeOK, BackendTypeOK, FaultInv, AnswersAreDone
<1>1. /\ kind' = kind
      /\ \A q \in Req \ {r} : /\ pc'[q] = pc[q] /\ client'[q] = client[q] /\ blame'[q] = blame[q]
                              /\ ~Busy(q)
  BY <1>0 DEF OneWorker, TypeOK, RequestTypeOK, Work, Query, Begin, QueryOk, QueryFails, Filter,
     CheckFilter, DictKey, DictGet, Store, RoleCheck, Clean, ResultKey, ResultGet, CheckRows,
     Render, Axes, Final, Unwind, Return, FaultIfLatched, Goto, Aim
<1>2. SUFFICES
        /\ client'[r] = client[r] \/ pc'[r] = "done"
        /\ client'[r] = "fault" => blame'[r] = r
        /\ pc'[r] \in {"filter", "clean", "done"} \/ failure'[lease[r]] \in {None, r}
  <2>1. FaultIsOwn' /\ AnswersAreDone'
    BY <1>0, <1>1 DEF FaultInv, FaultIsOwn, AnswersAreDone
  <2>2. OwnLatch'
    BY <1>0, <1>1 DEF OwnLatch, Busy, Waiting
  <2> QED
    BY <2>1, <2>2 DEF FaultInv
<1>3. pc[r] \notin {"filter", "clean"} => failure[lease[r]] \in {None, r}
  BY <1>0 DEF FaultInv, OwnLatch
<1>4. CASE Query(r)
  <2>1. client' = client
    BY <1>4 DEF Query, Begin, QueryOk, QueryFails
  <2>2. failure'[lease[r]] \in {None, r}
    BY <1>0, <1>3, <1>4 DEF Query, Begin, BeginQuery, QueryOk, QueryFails, EndQuery, Latched
  <2> QED
    BY <1>0, <2>1, <2>2
<1>5. CASE Filter(r) \/ Clean(r)
  <2>1. client' = client
    BY <1>5 DEF Filter, Clean
  <2>2. pc'[r] = "clean" \/ failure'[lease[r]] = None
    BY <1>0, <1>5 DEF Filter, Clean, TakeFailure, Goto, Aim
  <2> QED
    BY <1>0, <2>1, <2>2
<1>6. CASE \/ DictKey(r) \/ DictGet(r) \/ Store(r) \/ ResultKey(r) \/ ResultGet(r)
           \/ Render(r) \/ Axes(r)
  <2> USE DEF DictKey, DictGet, Store, ResultKey, ResultGet, Render, Axes
  <2>1. UNCHANGED <<client, failure>> /\ pc[r] \notin {"filter", "clean"}
    BY <1>6 DEF backendVars
  <2> QED
    BY <1>0, <1>3, <2>1
<1>7. CASE CheckFilter(r) \/ RoleCheck(r) \/ CheckRows(r) \/ Final(r)
  <2> USE DEF CheckFilter, RoleCheck, CheckRows, Final
  <2>1. failure'[lease[r]] = None /\ failure[lease[r]] \in {None, r}
    BY <1>0, <1>3, <1>7 DEF TakeFailure
  <2>2. \/ client' = client
        \/ Return(r, "fault", failure[lease[r]]) /\ failure[lease[r]] # None
        \/ Return(r, "answer", None)
    BY <1>7 DEF FaultIfLatched
  <2> QED
    BY <1>0, <2>1, <2>2 DEF Return, Goto, TypeOK, RequestTypeOK
<1>8. CASE Unwind(r)
  BY <1>0, <1>8 DEF Unwind, Return, Goto, TypeOK, RequestTypeOK
<1> QED
  BY <1>4, <1>5, <1>6, <1>7, <1>8 DEF Work

LEMMA HandleKeepsFaultInv ==
  ASSUME TypeOK, FaultInv, NEW r \in Req, Arrive(r) \/ Acquire(r) \/ Elapse(r) \/ InterruptWorker(r)
  PROVE  FaultInv'
<1> USE DEF TypeOK, RequestTypeOK, Goto
<1>1. CASE Arrive(r) \/ Acquire(r)
  <2> USE DEF Arrive, Acquire
  <2>1. /\ UNCHANGED <<kind, client, blame, failure>> /\ client[r] \notin {"answer", "fault"}
        /\ pc'[r] \in {"queued", "filter", "clean"}
        /\ \A q \in Req \ {r} : pc'[q] = pc[q] /\ lease'[q] = lease[q]
    BY <1>1 DEF backendVars, Checkout, FaultInv, AnswersAreDone
  <2> QED
    BY <2>1 DEF FaultInv, OwnLatch, FaultIsOwn, AnswersAreDone, Busy, Waiting
<1>2. CASE Elapse(r) \/ InterruptWorker(r)
  <2> USE DEF Elapse, InterruptWorker
  <2>1. /\ UNCHANGED <<pc, kind, lease, blame, failure>>
        /\ client'[r] \in {"elapsed", "timeout"}
        /\ \A q \in Req \ {r} : client'[q] = client[q]
    BY <1>2 DEF backendVars, Interrupt
  <2> QED
    BY <2>1 DEF FaultInv, OwnLatch, FaultIsOwn, AnswersAreDone, Busy, Waiting
<1> QED
  BY <1>1, <1>2

LEMMA FaultStep ==
  ASSUME "restricted" \notin Kinds
  PROVE  TypeOK /\ OneWorker /\ FaultInv /\ [Next]_vars => FaultInv'
<1> SUFFICES ASSUME TypeOK, OneWorker, FaultInv, [Next]_vars PROVE FaultInv'
  OBVIOUS
<1>1. ASSUME UNCHANGED requestVars,
             \A r \in Req : Busy(r) => failure'[lease[r]] = failure[lease[r]]
      PROVE  FaultInv'
  BY <1>1 DEF requestVars, FaultInv, OwnLatch, FaultIsOwn, AnswersAreDone, Busy, Waiting
<1>2. CASE UNCHANGED vars \/ Trigger \/ ReplaceFile \/ Forget
  <2>1. UNCHANGED requestVars /\ failure' = failure
    BY <1>2 DEF vars, backendVars, Trigger, ReplaceFile, Forget, SendHangup,
       TakeHangup, SpawnWatcher, Poll
  <2> QED
    BY <1>1, <2>1
<1>3. ASSUME NEW k \in Reloaders, Reload(k) PROVE FaultInv'
  BY <1>1, <1>3, ReloadSparesLatches
<1>4. ASSUME NEW r \in Req, Work(r) \/ Handle(r) PROVE FaultInv'
  BY <1>4, WorkKeepsFaultInv, HandleKeepsFaultInv DEF Handle
<1> QED
  BY <1>2, <1>3, <1>4 DEF Next

\* With one slot and no restricted role, a fault is always the request's own:
\* whatever earlier requests left latched on the connection was dropped.
THEOREM FaultsAreOwn ==
  ASSUME Slots = 1, "restricted" \notin Kinds
  PROVE  Spec => []FaultIsOwn
<1>1. Init => FaultInv
  BY DEF Init, FaultInv, OwnLatch, FaultIsOwn, AnswersAreDone, Busy, Waiting
<1>2. TypeOK /\ PermitsOut => OneWorker
  BY OneSlotOneWorker
<1>3. TypeOK /\ OneWorker /\ FaultInv /\ [Next]_vars => FaultInv'
  BY FaultStep
<1>4. FaultInv => FaultIsOwn
  BY DEF FaultInv
<1> QED
  BY <1>1, <1>2, <1>3, <1>4, TypesAndPermits, PTL DEF Spec

------------------------------------------------------------------------------
(* A rollup query never misses its sidecar, whatever is reloaded meanwhile;   *)
(* and with one trigger the data served only gets newer and /status tells     *)
(* the epoch.                                                                 *)
(*                                                                            *)
(* Aggregations are only ever switched off, so while they are on every        *)
(* connection a request can reach, and every one already opened for a new     *)
(* pool, has the sidecar; and no pool somebody can reach is opened again.     *)


\* The pool of a reload under way is its own: the Arc it will swap in.
Private(k) == rpc[k] \in {"open", "stamp", "swap"}

PoolsApart ==
    /\ \A k \in Reloaders :
          Private(k) => rpool[k] # source /\ \A r \in Req : ~Holds(r, rpool[k])
    /\ \A j, k \in Reloaders : Private(j) /\ Private(k) /\ j # k => rpool[j] # rpool[k]

OpenedBy(k, c) == (rpc[k] = "open" /\ c < rnext[k]) \/ rpc[k] \in {"stamp", "swap"}

AttachedWhileOn ==
    agg => /\ \A c \in Conn : sidecar[<<source, c>>]
           /\ \A r \in Req : Busy(r) => sidecar[lease[r]]
           /\ \A k \in Reloaders, c \in Conn : OpenedBy(k, c) => sidecar[<<rpool[k], c>>]

RollupInv == PoolsApart /\ AttachedWhileOn /\ RollupIsAttached

Routed(r) == pc[r] \in {"wait", "run"} /\ rollup[r]

LEMMA RollupInit == Init => RollupInv
<1> SUFFICES ASSUME Init PROVE RollupInv
  OBVIOUS
<1>1. PoolsApart
  BY DEF Init, PoolsApart, Private
<1>2. AttachedWhileOn
  <2>1. \A c \in Conn : agg => sidecar[<<source, c>>]
    <3> TAKE c \in Conn
    <3>1. PICK first \in Pool : source = first /\ BackendInit(first, 1, AggCache)
      BY DEF Init
    <3>2. <<source, c>> \in Slot /\ <<source, c>>[1] = first
      BY <3>1 DEF Slot
    <3>3. sidecar[<<source, c>>] = AggCache
      BY <3>1, <3>2, FlagsAssumption DEF BackendInit
    <3> QED
      BY <3>3 DEF Init
  <2> QED
    BY <2>1 DEF Init, AttachedWhileOn, OpenedBy, Busy, Waiting
<1>3. RollupIsAttached
  BY DEF Init, RollupIsAttached
<1> QED
  BY <1>1, <1>2, <1>3 DEF RollupInv

\* A request's step takes no pool but the current one, and routes a query only
\* while aggregations are on.
LEMMA RequestReach ==
  ASSUME TypeOK, NEW q \in Req, Work(q) \/ Handle(q)
  PROVE  /\ UNCHANGED <<rpc, rpool, rnext, source, agg, sidecar>>
         /\ \A r \in Req : \/ lease'[r] = lease[r] /\ (Busy(r)' => Busy(r))
                           \/ Busy(r)' /\ \E c \in Conn : lease'[r] = <<source, c>>
         /\ \A r \in Req, p \in Pool : Holds(r, p)' => Holds(r, p) \/ p = source
         /\ \A r \in Req : Routed(r)' =>
               lease'[r] = lease[r] /\ (Routed(r) \/ (agg /\ Busy(r)))
<1> USE DEF TypeOK, RequestTypeOK, Busy, Waiting, Holds, Routed, Goto, Aim
<1>1. CASE Handle(q)
  <2>1. CASE Acquire(q)
    <3>1. next[source] \in Conn
      BY DEF BackendTypeOK, SharedTypeOK
    <3>2. \A r \in Req : pc'[r] \in {"wait", "run"} => r # q
      BY <2>1 DEF Acquire
    <3> QED
      BY <2>1, <3>1, <3>2 DEF Acquire, Checkout, sharedVars, reloadVars
  <2>2. CASE Arrive(q) \/ Elapse(q)
    BY <2>2 DEF Arrive, Elapse, backendVars, sharedVars, reloadVars
  <2>3. CASE InterruptWorker(q)
    BY <2>3 DEF InterruptWorker, Interrupt, sharedVars, reloadVars
  <2>4. CASE Unwind(q)
    BY <2>4 DEF Unwind, Return, backendVars, sharedVars, reloadVars
  <2> QED
    BY <1>1, <2>1, <2>2, <2>3, <2>4 DEF Handle
<1>2. CASE Work(q)
  <2> USE DEF sharedVars, reloadVars, backendVars
  <2>1. CASE Query(q)
    <3>1. CASE Begin(q)
      BY <3>1 DEF Begin, BeginQuery
    <3>2. CASE QueryOk(q) \/ QueryFails(q)
      <4>1. goal[q] \in Goal => AfterQuery(q) \in {"checkfilter", "checkrows", "final",
                                                  "axes", "store"}
        BY DEF AfterQuery, Goal, DictGoal
      <4>2. \E l \in {"checkfilter", "checkrows", "final", "axes", "store"} :
               pc' = [pc EXCEPT ![q] = l]
        BY <3>2, <4>1 DEF QueryOk, QueryFails
      <4> QED
        BY <3>2, <4>2 DEF QueryOk, QueryFails, EndQuery
    <3> QED
      BY <2>1, <3>1, <3>2 DEF Query
  <2>2. CASE Filter(q) \/ CheckFilter(q)
    BY <2>2 DEF Filter, CheckFilter, TakeFailure, FaultIfLatched, Return
  <2>3. CASE DictKey(q) \/ DictGet(q) \/ Store(q)
    BY <2>3 DEF DictKey, DictGet, Store, AfterDict
  <2>4. CASE RoleCheck(q) \/ CheckRows(q) \/ Final(q)
    BY <2>4 DEF RoleCheck, CheckRows, Final, TakeFailure, FaultIfLatched, Return
  <2>5. CASE Clean(q)
    BY <2>5 DEF Clean, TakeFailure
  <2>6. CASE ResultKey(q) \/ ResultGet(q)
    BY <2>6 DEF ResultKey, ResultGet
  <2>7. CASE Render(q) \/ Axes(q)
    BY <2>7 DEF Render, Axes
  <2> QED
    BY <1>2, <2>1, <2>2, <2>3, <2>4, <2>5, <2>6, <2>7 DEF Work
<1> QED
  BY <1>1, <1>2

LEMMA RequestKeepsPoolsApart ==
  ASSUME TypeOK, PoolsApart, NEW q \in Req, Work(q) \/ Handle(q)
  PROVE  PoolsApart'
<1>1. UNCHANGED <<rpc, rpool, source>>
  BY RequestReach
<1>2. \A k \in Reloaders : rpool[k] \in Pool
  BY DEF TypeOK, ReloadTypeOK
<1>3. \A k \in Reloaders : Private(k) => \A r \in Req : ~Holds(r, rpool[k])'
  BY <1>1, <1>2, RequestReach DEF PoolsApart
<1>4. \A k \in Reloaders : Private(k)' <=> Private(k)
  BY <1>1 DEF Private
<1>5. \A k \in Reloaders : Private(k)' =>
         rpool'[k] # source' /\ \A r \in Req : ~Holds(r, rpool[k])'
  BY <1>1, <1>3, <1>4 DEF PoolsApart
<1>6. \A j, k \in Reloaders : Private(j)' /\ Private(k)' /\ j # k => rpool'[j] # rpool'[k]
  BY <1>1, <1>4 DEF PoolsApart
<1> QED
  BY <1>1, <1>5, <1>6 DEF PoolsApart

\* A reload takes a pool that nobody can reach, and keeps it to itself.
LEMMA PoolsApartKept ==
  ASSUME TypeOK, PoolsApart, NEW k \in Reloaders, Reload(k)
  PROVE  PoolsApart'
<1>0. /\ UNCHANGED <<pc, lease, client>>
      /\ \A r \in Req, p \in Pool : Holds(r, p)' <=> Holds(r, p)
      /\ rpc \in [Reloaders -> RpcValue] /\ rpool \in [Reloaders -> Pool]
      /\ rnext \in [Reloaders -> Conn]
  BY DEF Reload, DisableStale, OpenNext, OpenFails, CaptureStamp, Swap, BumpEpoch, PublishStatus,
     ClearResults, ClearDicts, requestVars, Busy, Waiting, Holds, TypeOK, ReloadTypeOK
<1>1. CASE DisableStale(k)
  <2>1. PICK p \in Pool : ~InUse(p) /\ rpool' = [rpool EXCEPT ![k] = p]
    BY <1>1 DEF DisableStale
  <2>2. /\ p # source
        /\ \A r \in Req : ~Holds(r, p)
        /\ \A j \in Reloaders : Private(j) => rpool[j] # p
    BY <2>1 DEF InUse, Private
  <2> QED
    BY <1>0, <1>1, <2>1, <2>2 DEF DisableStale, PoolsApart, Private, Step
<1>2. CASE OpenNext(k)
  BY <1>0, <1>2 DEF OpenNext, PoolsApart, Private, Step, sharedVars
<1>3. CASE Swap(k)
  BY <1>0, <1>3 DEF Swap, PoolsApart, Private, Step
<1>4. CASE \/ OpenFails(k) \/ CaptureStamp(k) \/ BumpEpoch(k) \/ PublishStatus(k)
           \/ ClearResults(k) \/ ClearDicts(k)
  BY <1>0, <1>4 DEF OpenFails, CaptureStamp, BumpEpoch, PublishStatus, ClearResults, ClearDicts,
     PoolsApart, Private, Step, sharedVars
<1> QED
  BY <1>1, <1>2, <1>3, <1>4 DEF Reload

\* A turn of the opening loop opens one connection.
LEMMA OpensInOrder ==
  ASSUME TypeOK, NEW k \in Reloaders, OpenNext(k)
  PROVE  \A c \in Conn : OpenedBy(k, c)' => OpenedBy(k, c) \/ c = rnext[k]
<1> SUFFICES ASSUME NEW c \in Conn, OpenedBy(k, c)' PROVE OpenedBy(k, c) \/ c = rnext[k]
  OBVIOUS
<1>1. rpc \in [Reloaders -> RpcValue] /\ rnext \in [Reloaders -> Conn]
  BY DEF TypeOK, ReloadTypeOK
<1>2. CASE rnext[k] = PoolSize - 1
  BY <1>1, <1>2, PoolSizeAssumption DEF OpenNext, OpenedBy, Conn, Step
<1>3. CASE rnext[k] # PoolSize - 1
  <2>1. c < rnext[k] + 1
    BY <1>1, <1>3 DEF OpenNext, OpenedBy
  <2> QED
    BY <1>1, <1>3, <2>1, PoolSizeAssumption DEF OpenNext, OpenedBy, Conn
<1> QED
  BY <1>2, <1>3

LEMMA RequestKeepsRollupInv ==
  ASSUME TypeOK, RollupInv, NEW q \in Req, Work(q) \/ Handle(q)
  PROVE  RollupInv'
<1> USE DEF RollupInv
<1>1. PoolsApart'
  BY RequestKeepsPoolsApart
<1>2. AttachedWhileOn'
  <2>1. UNCHANGED <<rpc, rpool, rnext, source, agg, sidecar>>
    BY RequestReach
  <2>2. \A r \in Req : agg /\ Busy(r)' => sidecar[lease'[r]]
    BY RequestReach DEF AttachedWhileOn
  <2> QED
    BY <2>1, <2>2 DEF AttachedWhileOn, OpenedBy
<1>3. RollupIsAttached'
  BY RequestReach DEF RollupIsAttached, AttachedWhileOn, Routed
<1> QED
  BY <1>1, <1>2, <1>3

LEMMA ReloadKeepsRollupInv ==
  ASSUME TypeOK, RollupInv, NEW k \in Reloaders, Reload(k)
  PROVE  RollupInv'
<1> USE DEF Step
<1>0. /\ UNCHANGED <<pc, lease, rollup, client>>
      /\ \A r \in Req : (Busy(r)' <=> Busy(r)) /\ \A p \in Pool : Holds(r, p)' <=> Holds(r, p)
      /\ rpc \in [Reloaders -> RpcValue] /\ rpool \in [Reloaders -> Pool]
      /\ rnext \in [Reloaders -> Conn] /\ sidecar \in [Slot -> BOOLEAN]
      /\ lease \in [Req -> Slot] /\ source \in Pool
  BY DEF Reload, DisableStale, OpenNext, OpenFails, CaptureStamp, Swap, BumpEpoch, PublishStatus,
     ClearResults, ClearDicts, requestVars, Busy, Waiting, Holds, TypeOK, BackendTypeOK,
     RequestTypeOK, SharedTypeOK, ReloadTypeOK
<1>1. CASE DisableStale(k)
  <2>1. PICK p \in Pool : ~InUse(p) /\ ResetPool(p) /\ rpool' = [rpool EXCEPT ![k] = p]
    BY <1>1 DEF DisableStale
  <2>2. /\ p # source
        /\ \A r \in Req : ~Holds(r, p)
        /\ \A j \in Reloaders : Private(j) => rpool[j] # p
    BY <2>1 DEF InUse, Private
  <2>3. \A s \in Slot : s[1] # p => sidecar'[s] = sidecar[s]
    BY <1>0, <2>1 DEF ResetPool
  <2>4. PoolsApart'
    BY PoolsApartKept DEF RollupInv
  <2>5. \A r \in Req : Busy(r) => sidecar'[lease[r]] = sidecar[lease[r]]
    BY <1>0, <2>2, <2>3 DEF Holds
  <2>6. AttachedWhileOn'
    <3>1. agg' => agg
      BY <1>1 DEF DisableStale
    <3>2. \A c \in Conn : sidecar'[<<source', c>>] = sidecar[<<source, c>>]
      BY <1>0, <1>1, <2>2, <2>3 DEF DisableStale, Slot
    <3>3. \A j \in Reloaders, c \in Conn :
             OpenedBy(j, c)' => OpenedBy(j, c) /\ sidecar'[<<rpool'[j], c>>] = sidecar[<<rpool[j], c>>]
      <4> SUFFICES ASSUME NEW j \in Reloaders, NEW c \in Conn, OpenedBy(j, c)'
                   PROVE  OpenedBy(j, c) /\ sidecar'[<<rpool'[j], c>>] = sidecar[<<rpool[j], c>>]
        OBVIOUS
      <4>1. j # k
        BY <1>0, <1>1 DEF DisableStale, OpenedBy, Conn
      <4>2. OpenedBy(j, c) /\ rpool'[j] = rpool[j] /\ Private(j)
        BY <1>0, <1>1, <2>1, <4>1 DEF DisableStale, OpenedBy, Private
      <4> QED
        BY <1>0, <2>2, <2>3, <4>2 DEF Slot
    <3> QED
      BY <1>0, <2>5, <3>1, <3>2, <3>3 DEF RollupInv, AttachedWhileOn
  <2>7. RollupIsAttached'
    BY <1>0, <2>5 DEF RollupInv, RollupIsAttached, Busy, Waiting
  <2> QED
    BY <2>4, <2>6, <2>7 DEF RollupInv
<1>2. CASE OpenNext(k)
  <2>1. /\ UNCHANGED <<rpool, source, agg>>
        /\ sidecar' = [sidecar EXCEPT ![<<rpool[k], rnext[k]>>] = agg]
        /\ <<rpool[k], rnext[k]>> \in Slot /\ Private(k)
    BY <1>0, <1>2 DEF OpenNext, OpenConnection, sharedVars, Private, Slot
  <2>2. rpc' = [rpc EXCEPT ![k] = IF rnext[k] = PoolSize - 1 THEN "stamp" ELSE "open"]
    BY <1>0, <1>2 DEF OpenNext
  <2>3. PoolsApart'
    BY PoolsApartKept DEF RollupInv
  <2>4. \A r \in Req : Busy(r) => sidecar'[lease[r]] = sidecar[lease[r]]
    BY <1>0, <2>1 DEF RollupInv, PoolsApart, Holds
  <2>5. \A s \in Slot : sidecar[s] => sidecar'[s] \/ ~agg
    BY <1>0, <2>1
  <2>6. AttachedWhileOn'
    <3>1. \A c \in Conn : OpenedBy(k, c)' => OpenedBy(k, c) \/ c = rnext[k]
      BY <1>2, OpensInOrder
    <3>2. \A j \in Reloaders, c \in Conn : j # k => (OpenedBy(j, c)' <=> OpenedBy(j, c))
      BY <1>0, <1>2 DEF OpenNext, OpenedBy
    <3>3. agg => \A c \in Conn : sidecar'[<<source, c>>]
      BY <1>0, <2>5 DEF RollupInv, AttachedWhileOn, Slot
    <3>4. agg => \A c \in Conn : OpenedBy(k, c)' => sidecar'[<<rpool[k], c>>]
      BY <1>0, <2>1, <2>5, <3>1 DEF RollupInv, AttachedWhileOn, Slot
    <3>5. agg => \A j \in Reloaders, c \in Conn : OpenedBy(j, c)' => sidecar'[<<rpool[j], c>>]
      BY <1>0, <2>5, <3>2, <3>4 DEF RollupInv, AttachedWhileOn, Slot
    <3> QED
      BY <1>0, <2>1, <2>4, <3>3, <3>5 DEF RollupInv, AttachedWhileOn
  <2>7. RollupIsAttached'
    BY <1>0, <2>4 DEF RollupInv, RollupIsAttached, Busy, Waiting
  <2> QED
    BY <2>3, <2>6, <2>7 DEF RollupInv
<1>3. CASE Swap(k)
  <2>1. /\ source' = rpool[k] /\ UNCHANGED <<rpool, rnext, agg, sidecar>>
        /\ rpc[k] = "swap" /\ rpc' = [rpc EXCEPT ![k] = "bump"]
    BY <1>3 DEF Swap, backendVars
  <2>2. PoolsApart'
    BY PoolsApartKept DEF RollupInv
  <2>3. AttachedWhileOn'
    BY <1>0, <2>1 DEF RollupInv, AttachedWhileOn, OpenedBy
  <2>4. RollupIsAttached'
    BY <1>0, <2>1 DEF RollupInv, RollupIsAttached
  <2> QED
    BY <2>2, <2>3, <2>4 DEF RollupInv
<1>4. CASE \/ OpenFails(k) \/ CaptureStamp(k) \/ BumpEpoch(k) \/ PublishStatus(k)
           \/ ClearResults(k) \/ ClearDicts(k)
  <2> USE DEF OpenFails, CaptureStamp, BumpEpoch, PublishStatus, ClearResults, ClearDicts
  <2>1. UNCHANGED <<source, agg, sidecar, rpool, rnext>>
    BY <1>4 DEF backendVars, sharedVars
  <2>2. \A j \in Reloaders : /\ Private(j)' => Private(j)
                             /\ \A c \in Conn : OpenedBy(j, c)' => OpenedBy(j, c)
    BY <1>0, <1>4, <2>1 DEF Private, OpenedBy
  <2>3. PoolsApart'
    BY PoolsApartKept DEF RollupInv
  <2>4. AttachedWhileOn'
    BY <1>0, <2>1, <2>2 DEF RollupInv, AttachedWhileOn
  <2>5. RollupIsAttached'
    BY <1>0, <2>1 DEF RollupInv, RollupIsAttached
  <2> QED
    BY <2>3, <2>4, <2>5 DEF RollupInv
<1> QED
  BY <1>1, <1>2, <1>3, <1>4 DEF Reload

LEMMA RollupStep == TypeOK /\ RollupInv /\ [Next]_vars => RollupInv'
<1> SUFFICES ASSUME TypeOK, RollupInv, [Next]_vars PROVE RollupInv'
  OBVIOUS
<1>1. CASE UNCHANGED vars
  BY <1>1 DEF vars, backendVars, requestVars, sharedVars, reloadVars, RollupInv, PoolsApart,
     AttachedWhileOn, RollupIsAttached, Private, OpenedBy, Holds, Busy, Waiting
<1>2. CASE Trigger \/ ReplaceFile \/ Forget
  <2>1. /\ UNCHANGED <<backendVars, requestVars, sharedVars, rpool, rnext>>
        /\ \A k \in Reloaders : rpc'[k] = rpc[k] \/ rpc'[k] = "stale"
    BY <1>2 DEF TypeOK, ReloadTypeOK, Trigger, ReplaceFile, Forget, SendHangup, TakeHangup,
       SpawnWatcher, Poll, Step, reloadVars
  <2> QED
    BY <2>1 DEF backendVars, requestVars, sharedVars, RollupInv, PoolsApart,
       AttachedWhileOn, RollupIsAttached, Private, OpenedBy, Holds, Busy, Waiting
<1> QED
  BY <1>1, <1>2, RequestKeepsRollupInv, ReloadKeepsRollupInv DEF Next

\* A query is routed to a rollup only on a connection that has the sidecar, for
\* any number of requests, connections, pools and reloads.
THEOREM RollupsAreAttached == Spec => []RollupIsAttached
<1>1. Init => RollupInv
  BY RollupInit
<1>2. TypeOK /\ RollupInv /\ [Next]_vars => RollupInv'
  BY RollupStep
<1>3. RollupInv => RollupIsAttached
  BY DEF RollupInv
<1> QED
  BY <1>1, <1>2, <1>3, TypeCorrect, PTL DEF Spec
-----------------------------------------------------------------------------
(* One trigger.  With SIGHUP alone, or the watcher alone, reloads follow one *)
(* another, and each opens the file as it is after the one before.  (Two     *)
(* triggers overlap, and then neither property below holds.)                 *)

\* Nothing a reload opened is older than what is being served, and nothing is
\* newer than the file.
OpenedAfter ==
    /\ \A s \in Slot : data[s] <= file
    /\ \A k \in Reloaders, c, d \in Conn :
          OpenedBy(k, c) => data[<<rpool[k], c>>] >= data[<<source, d>>]

\* The status is behind only from the bump of an epoch to its publication.
StatusFollows ==
    /\ (\A k \in Reloaders : rpc[k] # "publish") => status.epoch = epoch
    /\ \A k \in Reloaders : rpc[k] = "publish" => repoch[k] = epoch

ReloadInv == PoolsApart /\ OpenedAfter /\ StatusFollows

OneTrigger == \A j, k \in Reloaders : j = k

LEMMA ReloadInit == Init => ReloadInv
<1> SUFFICES ASSUME Init PROVE ReloadInv
  OBVIOUS
<1>1. PoolsApart
  BY DEF Init, PoolsApart, Private
<1>2. \A s \in Slot : data[s] <= file
  BY DEF Init, BackendInit, Closed
<1>3. StatusFollows
  BY DEF Init, StatusFollows
<1> QED
  BY <1>1, <1>2, <1>3 DEF Init, ReloadInv, OpenedAfter, OpenedBy

\* Only a reload opens data, moves the epoch or publishes a status.
LEMMA RequestSparesReloads ==
  ASSUME NEW q \in Req, Work(q) \/ Handle(q)
  PROVE  UNCHANGED <<data, epoch, status, file, rpc, rpool, rnext, repoch, source>>
<1> USE DEF sharedVars, reloadVars, envVars, backendVars
<1>1. CASE Handle(q)
  BY <1>1 DEF Handle, Arrive, Acquire, Checkout, Elapse, InterruptWorker, Interrupt, Unwind
<1>2. CASE Query(q)
  BY <1>2 DEF Query, Begin, BeginQuery, QueryOk, QueryFails, EndQuery
<1>3. CASE \/ Filter(q) \/ CheckFilter(q) \/ DictKey(q) \/ DictGet(q) \/ Store(q)
           \/ RoleCheck(q) \/ Clean(q)
  BY <1>3 DEF Filter, CheckFilter, DictKey, DictGet, Store, RoleCheck, Clean, TakeFailure
<1>4. CASE ResultKey(q) \/ ResultGet(q) \/ CheckRows(q) \/ Render(q) \/ Axes(q) \/ Final(q)
  BY <1>4 DEF ResultKey, ResultGet, CheckRows, Render, Axes, Final, TakeFailure
<1> QED
  BY <1>1, <1>2, <1>3, <1>4 DEF Work

LEMMA RequestKeepsReloadInv ==
  ASSUME TypeOK, ReloadInv, NEW q \in Req, Work(q) \/ Handle(q)
  PROVE  ReloadInv'
<1>1. UNCHANGED <<data, epoch, status, file, rpc, rpool, rnext, repoch, source>>
  BY RequestSparesReloads
<1>2. PoolsApart'
  BY RequestKeepsPoolsApart DEF ReloadInv
<1>3. OpenedAfter' /\ StatusFollows'
  BY <1>1 DEF ReloadInv, OpenedAfter, OpenedBy, StatusFollows
<1> QED
  BY <1>2, <1>3 DEF ReloadInv

LEMMA StatusKept ==
  ASSUME OneTrigger, TypeOK, StatusFollows, NEW k \in Reloaders, Reload(k)
  PROVE  StatusFollows'
<1> USE DEF Step, StatusFollows
<1>0. /\ rpc \in [Reloaders -> RpcValue] /\ repoch \in [Reloaders -> Nat]
      /\ Reloaders = {k}
  BY DEF TypeOK, ReloadTypeOK, OneTrigger
<1>1. CASE BumpEpoch(k)
  BY <1>0, <1>1 DEF BumpEpoch
<1>2. CASE PublishStatus(k)
  BY <1>0, <1>2 DEF PublishStatus
<1>3. CASE \/ DisableStale(k) \/ OpenNext(k) \/ OpenFails(k) \/ CaptureStamp(k) \/ Swap(k)
           \/ ClearResults(k) \/ ClearDicts(k)
  BY <1>0, <1>3 DEF DisableStale, OpenNext, OpenFails, CaptureStamp, Swap, ClearResults,
     ClearDicts, sharedVars
<1> QED
  BY <1>1, <1>2, <1>3 DEF Reload

LEMMA OpenedAfterKept ==
  ASSUME OneTrigger, TypeOK, PoolsApart, OpenedAfter, NEW k \in Reloaders, Reload(k)
  PROVE  OpenedAfter'
<1>0. /\ Reloaders = {k} /\ source \in Pool /\ file \in Nat
      /\ data \in [Slot -> Nat] /\ rpc \in [Reloaders -> RpcValue]
      /\ rpool \in [Reloaders -> Pool] /\ rnext \in [Reloaders -> Conn]
      /\ file' = file
  <2>1. file' = file
    BY DEF Reload, DisableStale, OpenNext, OpenFails, CaptureStamp, Swap, BumpEpoch,
       PublishStatus, ClearResults, ClearDicts, envVars
  <2>2. Version \union {Closed} \subseteq Nat
    BY MaxVersionAssumption DEF Version, Closed
  <2> QED
    BY <2>1, <2>2 DEF OneTrigger, TypeOK, BackendTypeOK, SharedTypeOK, ReloadTypeOK, EnvTypeOK
<1>1. CASE DisableStale(k)
  <2>1. PICK p \in Pool : ResetPool(p)
    BY <1>1 DEF DisableStale
  <2>2. \A s \in Slot : data'[s] <= file
    BY <1>0, <2>1 DEF ResetPool, OpenedAfter, Closed
  <2>3. rnext'[k] = 0 /\ rpc'[k] = "open"
    BY <1>0, <1>1 DEF DisableStale, Step
  <2>4. \A c \in Conn : ~OpenedBy(k, c)'
    BY <2>3 DEF OpenedBy, Conn
  <2> QED
    BY <1>0, <2>2, <2>4 DEF OpenedAfter
<1>2. CASE OpenNext(k)
  <2>1. /\ UNCHANGED <<rpool, source>>
        /\ data' = [data EXCEPT ![<<rpool[k], rnext[k]>>] = file]
        /\ <<rpool[k], rnext[k]>> \in Slot /\ rpool[k] # source
    BY <1>0, <1>2 DEF OpenNext, OpenConnection, sharedVars, PoolsApart, Private, Slot
  <2>2. \A s \in Slot : data'[s] <= file
    BY <1>0, <2>1 DEF OpenedAfter
  <2>3. \A d \in Conn : data'[<<source, d>>] = data[<<source, d>>] /\ data[<<source, d>>] <= file
    BY <1>0, <2>1 DEF OpenedAfter, Slot
  <2>4. \A c \in Conn : OpenedBy(k, c)' => OpenedBy(k, c) \/ c = rnext[k]
    BY <1>2, OpensInOrder
  <2>5. \A c, d \in Conn : OpenedBy(k, c)' => data'[<<rpool[k], c>>] >= data[<<source, d>>]
    <3> SUFFICES ASSUME NEW c \in Conn, NEW d \in Conn, OpenedBy(k, c)'
                 PROVE  data'[<<rpool[k], c>>] >= data[<<source, d>>]
      OBVIOUS
    <3>1. CASE c = rnext[k]
      BY <1>0, <2>1, <2>3, <3>1
    <3>2. CASE c # rnext[k]
      <4>1. data'[<<rpool[k], c>>] = data[<<rpool[k], c>>]
        BY <1>0, <2>1, <3>2 DEF Slot
      <4> QED
        BY <2>4, <3>2, <4>1 DEF OpenedAfter
    <3> QED
      BY <3>1, <3>2
  <2> QED
    BY <1>0, <2>1, <2>2, <2>3, <2>5 DEF OpenedAfter
<1>3. CASE Swap(k)
  <2>1. UNCHANGED <<data, rpool, rnext>> /\ rpc'[k] = "bump"
    BY <1>0, <1>3 DEF Swap, Step, backendVars
  <2> QED
    BY <1>0, <2>1 DEF OpenedAfter, OpenedBy
<1>4. CASE \/ OpenFails(k) \/ CaptureStamp(k) \/ BumpEpoch(k) \/ PublishStatus(k)
           \/ ClearResults(k) \/ ClearDicts(k)
  <2> USE DEF OpenFails, CaptureStamp, BumpEpoch, PublishStatus, ClearResults, ClearDicts
  <2>1. UNCHANGED <<data, source, rpool, rnext>>
    BY <1>4 DEF backendVars, sharedVars
  <2>2. \A c \in Conn : OpenedBy(k, c)' => OpenedBy(k, c)
    BY <1>0, <1>4, <2>1 DEF OpenedBy, Step
  <2> QED
    BY <1>0, <2>1, <2>2 DEF OpenedAfter
<1> QED
  BY <1>1, <1>2, <1>3, <1>4 DEF Reload

LEMMA ReloadStep ==
  ASSUME OneTrigger
  PROVE  TypeOK /\ ReloadInv /\ [Next]_vars => ReloadInv'
<1> SUFFICES ASSUME TypeOK, ReloadInv, [Next]_vars PROVE ReloadInv'
  OBVIOUS
<1>1. CASE UNCHANGED vars
  BY <1>1 DEF vars, backendVars, requestVars, sharedVars, reloadVars, envVars, ReloadInv,
     PoolsApart, OpenedAfter, StatusFollows, Private, OpenedBy, Holds, Busy, Waiting
<1>2. CASE Trigger \/ ReplaceFile \/ Forget
  <2>1. /\ UNCHANGED <<backendVars, requestVars, sharedVars, rpool, rnext, repoch>>
        /\ \A k \in Reloaders :
              rpc'[k] = rpc[k] \/ (rpc'[k] = "stale" /\ rpc[k] = "idle")
        /\ file' = file \/ file' = file + 1
    BY <1>2 DEF TypeOK, ReloadTypeOK, Trigger, ReplaceFile, Forget, SendHangup, TakeHangup,
       SpawnWatcher, Poll, Step, reloadVars, envVars
  <2>2. \A s \in Slot : data'[s] <= file'
    <3>1. data \in [Slot -> Nat] /\ file \in Nat
      BY MaxVersionAssumption DEF TypeOK, BackendTypeOK, EnvTypeOK, Version, Closed
    <3> QED
      BY <2>1, <3>1 DEF ReloadInv, OpenedAfter, backendVars
  <2>3. PoolsApart'
    BY <2>1 DEF backendVars, requestVars, sharedVars, ReloadInv, PoolsApart, Private, Holds,
       Busy, Waiting
  <2>4. OpenedAfter'
    BY <2>1, <2>2 DEF backendVars, sharedVars, ReloadInv, OpenedAfter, OpenedBy
  <2>5. StatusFollows'
    BY <2>1 DEF sharedVars, ReloadInv, StatusFollows
  <2> QED
    BY <2>3, <2>4, <2>5 DEF ReloadInv
<1>3. ASSUME NEW k \in Reloaders, Reload(k) PROVE ReloadInv'
  BY <1>3, StatusKept, OpenedAfterKept, PoolsApartKept DEF ReloadInv
<1> QED
  BY <1>1, <1>2, <1>3, RequestKeepsReloadInv DEF Next

\* Only the last step of an open replaces what is served, by what that reload
\* opened.
LEMMA SwapMovesForward ==
  TypeOK /\ ReloadInv /\ [Next]_vars =>
      (source' # source =>
          \A c, d \in Conn : data[<<source', c>>] >= data[<<source, d>>])
<1> SUFFICES ASSUME TypeOK, ReloadInv, [Next]_vars, source' # source
             PROVE  \A c, d \in Conn : data[<<source', c>>] >= data[<<source, d>>]
  OBVIOUS
<1>1. PICK k \in Reloaders : Reload(k)
  BY RequestSparesReloads DEF Next, vars, sharedVars, Trigger, ReplaceFile, Forget, SendHangup,
     TakeHangup, SpawnWatcher, Poll
<1>2. rpc[k] = "swap" /\ source' = rpool[k]
  BY <1>1 DEF Reload, DisableStale, OpenNext, OpenFails, CaptureStamp, Swap, BumpEpoch,
     PublishStatus, ClearResults, ClearDicts, sharedVars
<1> QED
  BY <1>2 DEF ReloadInv, OpenedAfter, OpenedBy

\* With one trigger, every pool swapped in is as new as the one it replaces,
\* whichever file each of its connections found.
THEOREM ServedDataMovesForward ==
  ASSUME OneTrigger
  PROVE  Spec => NewerPoolOnly
<1>1. Init => ReloadInv
  BY ReloadInit
<1>2. TypeOK /\ ReloadInv /\ [Next]_vars => ReloadInv'
  BY ReloadStep
<1>3. TypeOK /\ ReloadInv /\ [Next]_vars =>
         [source' # source =>
             \A c, d \in Conn : data[<<source', c>>] >= data[<<source, d>>]]_vars
  BY SwapMovesForward
<1> QED
  BY <1>1, <1>2, <1>3, TypeCorrect, PTL DEF Spec, NewerPoolOnly

\* With one trigger, whenever no reload is under way /status tells the epoch of
\* the cache keys.
THEOREM StatusTellsTheEpoch ==
  ASSUME OneTrigger
  PROVE  Spec => []StatusTellsEpoch
<1>1. Init => ReloadInv
  BY ReloadInit
<1>2. TypeOK /\ ReloadInv /\ [Next]_vars => ReloadInv'
  BY ReloadStep
<1>3. ReloadInv => StatusTellsEpoch
  BY DEF ReloadInv, StatusFollows, StatusTellsEpoch, Quiet
<1> QED
  BY <1>1, <1>2, <1>3, TypeCorrect, PTL DEF Spec
=============================================================================
