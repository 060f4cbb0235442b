--------------------------- MODULE AdmissionProofs ---------------------------
(* Who is let in, and as whom: the session registry with the thread-local     *)
(* response id, and the front door, for every number of requests, threads,    *)
(* sessions, callers, keys, workers and rotations.                            *)
EXTENDS SessionRegistry, FrontDoor, FiniteSetTheorems, TLAPS

------------------------------------------------------------------------------
(* Sessions.                                                                  *)

\* Ids are issued in the order of time, so the expired ones are in front.
Sorted == \A i, j \in 1 .. issued : i <= j => born[i] <= born[j] /\ born[j] <= now

EndedAreGone == ended \in SUBSET (1 .. issued) /\ live \intersect ended = {}

\* What the registry may have forgotten.
Kept ==
    \A i \in 1 .. issued : i \in live \/ i \in ended \/ Expired(i) \/ issued - i >= Capacity

\* A running request has its thread to itself, and what it put there.
OwnThread ==
    /\ \A r \in Req : pc[r] = "routed" =>
          on[r] \in Thread /\ current[on[r]] \in {Nobody, begun[r]}
    /\ \A q, r \in Req : pc[q] = "routed" /\ pc[r] = "routed" /\ on[q] = on[r] => q = r
    /\ \A r \in Req : pc[r] # "done" => reply[r] = Nobody

RegistryInv == TypeOK /\ Sorted /\ EndedAreGone /\ Kept
Inv == RegistryInv /\ OwnThread /\ ReplyIsOwn

LEMMA RegistryInit == Init => Inv
BY LimitsAssumption
DEF Init, Inv, RegistryInv, TypeOK, Sorted, EndedAreGone, Kept, OwnThread, ReplyIsOwn

\* Popping the front until a live id is met leaves live ids only, and all of them.
LEMMA ExpiredAreInFront ==
  ASSUME RegistryInv
  PROVE  Unexpired(live) = {i \in live : ~Expired(i)}
<1>1. ASSUME NEW i \in live, NEW j \in live, j <= i, ~Expired(j) PROVE ~Expired(i)
  <2>1. /\ i \in 1 .. issued /\ j \in 1 .. issued /\ born[j] <= born[i]
        /\ born[i] \in Nat /\ born[j] \in Nat /\ now \in Int
    BY <1>1, LimitsAssumption DEF RegistryInv, TypeOK, Sorted, Id
  <2> QED
    BY <1>1, <2>1, LimitsAssumption DEF Expired
<1>2. \A i \in live : i <= i
  BY DEF RegistryInv, TypeOK
<1> QED
  BY <1>1, <1>2 DEF Unexpired

\* Only ids with at least n newer ones fall out for lack of room.
LEMMA PushedOut ==
  ASSUME NEW n \in Nat, NEW m \in Nat, NEW S \in SUBSET (1 .. m), NEW i \in S, i \notin Newest(S, n)
  PROVE  m - i >= n
<1> DEFINE N == {j \in S : j > i}
<1>1. IsFiniteSet((i + 1) .. m) /\ Cardinality((i + 1) .. m) = m - i
  BY FS_Interval
<1>2. N \in SUBSET ((i + 1) .. m)
  <2>1. ASSUME NEW j \in S, j > i PROVE j \in (i + 1) .. m
    <3>1. j \in 1 .. m /\ i \in 1 .. m
      OBVIOUS
    <3> QED
      BY <2>1, <3>1
  <2> QED
    BY <2>1
<1>3. IsFiniteSet(N) /\ Cardinality(N) <= m - i
  BY <1>1, <1>2, FS_Subset
<1>4. ~(Cardinality(N) < n) /\ Cardinality(N) \in Nat
  BY <1>3, FS_CardinalityType DEF Newest
<1> QED
  BY <1>3, <1>4

LEMMA BeginStep ==
  ASSUME RegistryInv, NEW r \in Req, NEW t \in Thread, Begin(r, t)
  PROVE  RegistryInv'
<1> USE LimitsAssumption
<1>1. /\ issued \in Nat /\ issued' = issued + 1 /\ issued' \in Id /\ issued' \in 0 .. MaxId
      /\ born \in [Id -> Nat] /\ now \in Nat
      /\ born' = [born EXCEPT ![issued'] = now] /\ now' = now
      /\ live' = Newest(Unexpired(live), Capacity - 1) \union {issued'}
      /\ live \in SUBSET (1 .. issued) /\ ended' = ended
  BY DEF Begin, RegistryInv, TypeOK, Id
<1>2. /\ \A i \in 1 .. issued : i \in Id /\ born'[i] = born[i]
      /\ born'[issued'] = now
      /\ \A i \in 1 .. issued' : i \in 1 .. issued \/ i = issued'
  BY <1>1 DEF Id
<1>3. live' \in SUBSET (1 .. issued') /\ live' \ {issued'} \in SUBSET live
  <2>1. Newest(Unexpired(live), Capacity - 1) \in SUBSET live
    BY DEF Newest, Unexpired
  <2>2. 1 .. issued \in SUBSET (1 .. issued') /\ issued' \in 1 .. issued'
    BY <1>1
  <2> QED
    BY <1>1, <2>1, <2>2
<1>4. TypeOK'
  <2>1. /\ born' \in [Id -> Nat] /\ now' \in 0 .. MaxTime
        /\ current' \in [Thread -> Id \union {Nobody}]
        /\ begun' \in [Req -> Id \union {Nobody}]
    BY <1>1 DEF Begin, RegistryInv, TypeOK
  <2>2. ended' \in SUBSET Id
    BY <1>1 DEF RegistryInv, TypeOK
  <2> QED
    BY <1>1, <1>3, <2>1, <2>2 DEF Begin, Start, RegistryInv, TypeOK
<1>5. Sorted'
  BY <1>1, <1>2 DEF RegistryInv, Sorted
<1>6. EndedAreGone'
  BY <1>1, <1>3 DEF RegistryInv, EndedAreGone
<1>7. Kept'
  <2> SUFFICES ASSUME NEW i \in 1 .. issued', i \notin live', i \notin ended, ~Expired(i)'
               PROVE  issued' - i >= Capacity
    BY <1>1 DEF Kept
  <2>1. i \in 1 .. issued /\ ~Expired(i)
    BY <1>1, <1>2 DEF Expired
  <2>2. CASE i \in live
    <3>1. i \in Unexpired(live) /\ Unexpired(live) \in SUBSET (1 .. issued)
      BY <1>1, <2>1, <2>2, ExpiredAreInFront
    <3>2. i \notin Newest(Unexpired(live), Capacity - 1) /\ Capacity - 1 \in Nat
      BY <1>1
    <3>3. issued - i >= Capacity - 1
      BY <1>1, <3>1, <3>2, PushedOut
    <3> QED
      BY <1>1, <3>3
  <2>3. CASE i \notin live
    BY <1>1, <2>1, <2>3 DEF RegistryInv, Kept
  <2> QED
    BY <2>2, <2>3
<1> QED
  BY <1>4, <1>5, <1>6, <1>7 DEF RegistryInv

LEMMA AcceptOrRefuseStep ==
  ASSUME RegistryInv, NEW r \in Req, NEW t \in Thread, NEW i \in Id, NEW end \in BOOLEAN,
         Accept(r, t, i, end) \/ Refuse(r, t, i)
  PROVE  RegistryInv'
<1> USE LimitsAssumption
<1>1. /\ UNCHANGED <<born, issued, now>>
      /\ live' \in SUBSET live
      /\ \A j \in live \ live' : Expired(j) \/ j \in ended'
      /\ ended' \in SUBSET (ended \union (live \ live'))
      /\ ended \in SUBSET ended'
  BY ExpiredAreInFront DEF Accept, Refuse
<1>2. TypeOK'
  <2>1. live' \in SUBSET (1 .. issued) /\ ended' \in SUBSET Id
    BY <1>1 DEF RegistryInv, TypeOK, Id
  <2>2. CASE Accept(r, t, i, end)
    BY <1>1, <2>1, <2>2 DEF Accept, Start, RegistryInv, TypeOK
  <2>3. CASE Refuse(r, t, i)
    BY <1>1, <2>1, <2>3 DEF Refuse, Start, RegistryInv, TypeOK
  <2> QED
    BY <2>2, <2>3
<1>3. Sorted' /\ EndedAreGone'
  BY <1>1 DEF RegistryInv, TypeOK, Sorted, EndedAreGone
<1>4. Kept'
  BY <1>1 DEF RegistryInv, Kept, Expired
<1> QED
  BY <1>2, <1>3, <1>4 DEF RegistryInv

LEMMA RegistryStep == Inv /\ [Next]_vars => RegistryInv'
<1> SUFFICES ASSUME Inv, [Next]_vars PROVE RegistryInv'
  OBVIOUS
<1> USE LimitsAssumption DEF Inv
<1>1. CASE UNCHANGED vars
  BY <1>1 DEF vars, RegistryInv, TypeOK, Sorted, EndedAreGone, Kept, Expired
<1>2. CASE Tick
  <2>1. /\ now' = now + 1 /\ now \in Nat /\ now' \in 0 .. MaxTime
        /\ UNCHANGED <<live, born, issued, ended>>
        /\ \A i \in 1 .. issued : born[i] \in Nat
    BY <1>2 DEF Tick, RegistryInv, TypeOK, Id
  <2>2. TypeOK'
    BY <1>2, <2>1 DEF Tick, RegistryInv, TypeOK
  <2>3. Sorted' /\ EndedAreGone' /\ Kept'
    BY <2>1 DEF RegistryInv, Sorted, EndedAreGone, Kept, Expired
  <2> QED
    BY <2>2, <2>3 DEF RegistryInv
<1>3. ASSUME NEW r \in Req, Respond(r) \/ Fault(r) \/ \E t \in Thread : Plain(r, t)
      PROVE  RegistryInv'
  <2>1. UNCHANGED <<live, born, issued, now, ended>>
    BY <1>3 DEF Respond, Fault, Plain
  <2>2. TypeOK'
    BY <1>3, <2>1 DEF Respond, Fault, Plain, Start, RegistryInv, TypeOK, OwnThread
  <2>3. Sorted' /\ EndedAreGone' /\ Kept'
    BY <2>1 DEF RegistryInv, Sorted, EndedAreGone, Kept, Expired
  <2> QED
    BY <2>2, <2>3 DEF RegistryInv
<1> QED
  BY <1>1, <1>2, <1>3, BeginStep, AcceptOrRefuseStep DEF Next, Route

LEMMA ThreadStep == Inv /\ [Next]_vars => OwnThread' /\ ReplyIsOwn'
<1> SUFFICES ASSUME Inv, [Next]_vars PROVE OwnThread' /\ ReplyIsOwn'
  OBVIOUS
<1> USE DEF Inv, OwnThread, ReplyIsOwn
<1>0. /\ pc \in [Req -> {"new", "routed", "done"}] /\ on \in [Req -> Thread \union {Nobody}]
      /\ current \in [Thread -> Id \union {Nobody}] /\ begun \in [Req -> Id \union {Nobody}]
      /\ reply \in [Req -> Id \union {Nobody}]
  BY DEF RegistryInv, TypeOK
<1>1. CASE UNCHANGED vars \/ Tick
  BY <1>1 DEF vars, Tick
<1>2. ASSUME NEW r \in Req, Respond(r) \/ Fault(r) PROVE OwnThread' /\ ReplyIsOwn'
  BY <1>0, <1>2 DEF Respond, Fault
<1>3. ASSUME NEW r \in Req, NEW t \in Thread, Begin(r, t) PROVE OwnThread' /\ ReplyIsOwn'
  BY <1>0, <1>3 DEF Begin, Start, Free
<1>4. ASSUME NEW r \in Req, NEW t \in Thread,
             Plain(r, t) \/ \E i \in Id, end \in BOOLEAN : Accept(r, t, i, end)
      PROVE  OwnThread' /\ ReplyIsOwn'
  <2>1. /\ Start(r, t, "routed") /\ current' = [current EXCEPT ![t] = Nobody]
        /\ UNCHANGED <<begun, reply>>
    BY <1>4 DEF Plain, Accept
  <2> QED
    BY <1>0, <2>1 DEF Start, Free
<1>5. ASSUME NEW r \in Req, NEW t \in Thread, NEW i \in Id, Refuse(r, t, i)
      PROVE  OwnThread' /\ ReplyIsOwn'
  BY <1>0, <1>5 DEF Refuse, Start, Free
<1> QED
  BY <1>1, <1>2, <1>3, <1>4, <1>5 DEF Next, Route

\* The inductive invariant of the registry and the threads.
THEOREM SessionInvariant == Spec => []Inv
<1>1. Inv /\ [Next]_vars => Inv'
  BY RegistryStep, ThreadStep DEF Inv
<1> QED
  BY <1>1, RegistryInit, PTL DEF Spec

\* No client ever receives the session id of another request that its thread
\* served before.
THEOREM RepliesAreOwn == Spec => []ReplyIsOwn
<1>1. Inv => ReplyIsOwn
  BY DEF Inv
<1> QED
  BY <1>1, SessionInvariant, PTL

LEMMA Decision ==
  ASSUME Inv, [Next]_vars, NEW r \in Req, NEW v \in {"accepted", "refused"}, Decides(r, v)
  PROVE  LET i == asked'[r] IN
           /\ i \in Id
           /\ v = "accepted" => i \in Unexpired(live)
           /\ v = "refused" => i \notin Unexpired(live)
<1> USE DEF Decides
<1>0. verdict \in [Req -> {"none", "accepted", "refused"}] /\ asked \in [Req -> Id \union {Nobody}]
  BY DEF Inv, RegistryInv, TypeOK
<1>1. verdict' # verdict
  BY <1>0
<1>2. PICK q \in Req, t \in Thread, i \in Id :
         Refuse(q, t, i) \/ \E end \in BOOLEAN : Accept(q, t, i, end)
  BY <1>1 DEF Next, vars, Tick, Respond, Fault, Route, Begin, Plain
<1>3. q = r
  BY <1>0, <1>2 DEF Refuse, Accept
<1> QED
  BY <1>0, <1>2, <1>3 DEF Refuse, Accept

\* Only ids that were issued, did not end and did not expire are accepted.
THEOREM OnlyLiveAccepted == Spec => AcceptsOnlyLive
<1>1. ASSUME Inv, [Next]_vars, NEW r \in Req, Decides(r, "accepted")
      PROVE  LET i == asked'[r] IN i \in 1 .. issued /\ i \notin ended /\ ~Expired(i)
  BY <1>1, Decision, ExpiredAreInFront DEF Inv, RegistryInv, TypeOK, EndedAreGone
<1>2. Inv /\ [Next]_vars =>
        [\A r \in Req : Decides(r, "accepted") =>
            LET i == asked'[r] IN i \in 1 .. issued /\ i \notin ended /\ ~Expired(i)]_vars
  BY <1>1
<1> QED
  BY <1>2, SessionInvariant, PTL DEF Spec, AcceptsOnlyLive

\* An id is refused only for a reason; capacity is one when Capacity newer ids
\* were issued.
THEOREM OnlyDeadRefused == Spec => RefusesOnlyDead
<1>1. ASSUME Inv, [Next]_vars, NEW r \in Req, Decides(r, "refused")
      PROVE  LET i == asked'[r] IN
               i \notin 1 .. issued \/ i \in ended \/ Expired(i) \/ issued - i >= Capacity
  BY <1>1, Decision, ExpiredAreInFront DEF Inv, RegistryInv, Kept
<1>2. Inv /\ [Next]_vars =>
        [\A r \in Req : Decides(r, "refused") =>
            LET i == asked'[r] IN
              i \notin 1 .. issued \/ i \in ended \/ Expired(i) \/ issued - i >= Capacity]_vars
  BY <1>1
<1> QED
  BY <1>2, SessionInvariant, PTL DEF Spec, RefusesOnlyDead

------------------------------------------------------------------------------
(* The front door.                                                            *)

Fetching == {"fetching", "fetched"}

\* The shape of the variables the proofs look into.
Shape ==
    /\ deployment \in Deployment /\ bind_decision(deployment)
    /\ rotations \in Nat /\ stores \in Nat
    /\ stage \in [Caller -> {"new", "done"} \union Waiting]
    /\ credential \in [Caller -> SUBSET Credential]
    /\ DOMAIN context = Caller
    /\ failure \in [Caller -> {"none", "fetch", "invalid", "unknown"}]
    /\ kept \in [Caller -> SUBSET Kid]
    /\ published \in SUBSET Kid

\* What a request has left behind by the time it is in a stage.
Progressed ==
    \A r \in Caller :
        /\ stage[r] = "new" => credential[r] = {} /\ failure[r] = "none"
        /\ stage[r] # "done" => failure[r] # "unknown"
        /\ stage[r] \in Waiting => /\ \A c \in credential[r] : c.form = "token"
                                   /\ kept[r] \subseteq published

\* Only the holder of the mutex fetches, for a kid that is still not cached; the
\* answer holds whatever was published all along.
Held ==
    \A r \in Caller :
        /\ stage[r] \in Fetching => refresh = {r} /\ KidOf(r) \notin keys
        /\ stage[r] = "fetched" => kept[r] \subseteq response

\* As many stores as publications: the cached keys are the published ones, and
\* an answer with a kid that is not cached comes from a later publication.
Counted ==
    /\ stores <= rotations + 1
    /\ stores = rotations + 1 => keys = published
    /\ \A r \in Caller :
          (stage[r] = "fetched" /\ KidOf(r) \in response) =>
              stores <= rotations /\ (stores = rotations => response = published)

DoorInv == Shape /\ Progressed /\ Held /\ Counted /\ UnknownWasUnpublished /\ AnonymousAsReported
-----------------------------------------------------------------------------
\* The front door opens with the invariant: nothing is asked and nothing cached.
THEOREM DoorInvInit == DoorInit => DoorInv
<1> SUFFICES ASSUME DoorInit PROVE DoorInv
  OBVIOUS
<1> USE KidAssumption DEF DoorInit
<1>1. Shape
  BY DEF Shape, Waiting
<1>2. Progressed
  BY DEF Progressed, Waiting
<1>3. Held
  BY DEF Held, Fetching
<1>4. Counted
  BY DEF Counted
<1>5. UnknownWasUnpublished
  BY DEF UnknownWasUnpublished
<1>6. AnonymousAsReported
  BY DEF AnonymousAsReported
<1> QED
  BY <1>1, <1>2, <1>3, <1>4, <1>5, <1>6 DEF DoorInv

\* Validation changes what the request is told and nothing else; it never says
\* that a key is unknown.
LEMMA Validated ==
  ASSUME NEW r \in Caller, Shape, Validate(r)
  PROVE  /\ failure' \in [Caller -> {"none", "fetch", "invalid", "unknown"}]
         /\ failure'[r] # "unknown" \/ failure' = failure
         /\ \A q \in Caller \ {r} : failure'[q] = failure[q] /\ context'[q] = context[q]
         /\ DOMAIN context' = Caller
  BY DEF Validate, Reject, Shape

\* A request that goes on leaves the others, and what every one carries, alone.
LEMMA OnlyOwn ==
  ASSUME NEW r \in Caller, Shape, Advance(r)
  PROVE  /\ stage[r] \in Waiting
         /\ UNCHANGED <<deployment, credential>>
         /\ \A q \in Caller : KidOf(q)' = KidOf(q)
         /\ \A q \in Caller \ {r} : context'[q] = context[q]
<1>1. stage[r] \in Waiting /\ UNCHANGED <<deployment, credential>>
  BY DEF Advance, Discover, DiscoverFails, Hit, Miss, SecondLook, Fetch, ProviderAnswers, FetchFails,
         Store, KeyMissing, Proceed, Waiting
<1>2. \A q \in Caller : KidOf(q)' = KidOf(q)
  BY <1>1 DEF KidOf
<1>3. \A q \in Caller \ {r} : context'[q] = context[q]
  BY DEF Advance, Discover, DiscoverFails, Hit, Miss, SecondLook, Fetch, ProviderAnswers, FetchFails,
         Store, KeyMissing, Validate, Reject, Shape
<1> QED
  BY <1>1, <1>2, <1>3

\* Every step keeps the shape.
LEMMA ShapeKept == (DoorInv /\ [DoorNext]_doorVars) => Shape'
<1> SUFFICES ASSUME DoorInv, [DoorNext]_doorVars PROVE Shape'
  OBVIOUS
<1> USE DEF DoorInv, Shape, Waiting
<1>1. ASSUME NEW r \in Caller, Admit(r) \/ Advance(r) PROVE Shape'
  <2>1. CASE Admit(r)
    BY <2>1 DEF Admit, ArriveDirect, ArriveWithToken, Arrive
  <2>2. CASE Discover(r)
    BY <2>2 DEF Discover, Proceed
  <2>3. CASE DiscoverFails(r)
    BY <2>3 DEF DiscoverFails, Proceed, Reject
  <2>4. CASE Hit(r)
    BY <2>4, Validated DEF Hit, Proceed
  <2>5. CASE Miss(r)
    BY <2>5 DEF Miss, Proceed
  <2>6. CASE SecondLook(r)
    BY <2>6, Validated DEF SecondLook, Proceed
  <2>7. CASE Fetch(r)
    BY <2>7 DEF Fetch, Proceed
  <2>8. CASE ProviderAnswers(r)
    BY <2>8 DEF ProviderAnswers, Proceed
  <2>9. CASE FetchFails(r)
    BY <2>9 DEF FetchFails, Proceed, Reject
  <2>10. CASE Store(r)
    BY <2>10, Validated DEF Store, Proceed
  <2>11. CASE KeyMissing(r)
    BY <2>11 DEF KeyMissing, Proceed, Reject
  <2> QED
    BY <1>1, <2>1, <2>2, <2>3, <2>4, <2>5, <2>6, <2>7, <2>8, <2>9, <2>10, <2>11 DEF Advance
<1>2. ASSUME NEW S \in (SUBSET Kid) \ {{}}, Rotate(S) PROVE Shape'
  BY <1>2 DEF Rotate, requestVars
<1>3. CASE UNCHANGED doorVars
  BY <1>3 DEF doorVars
<1> QED
  BY <1>1, <1>2, <1>3 DEF DoorNext

\* ... and what a request has left behind: a kid is out of `kept' once the
\* provider drops it.
LEMMA ProgressedKept == (DoorInv /\ [DoorNext]_doorVars) => Progressed'
<1> SUFFICES ASSUME DoorInv, [DoorNext]_doorVars PROVE Progressed'
  OBVIOUS
<1> USE DEF DoorInv, Shape, Progressed, Waiting
<1>1. ASSUME NEW r \in Caller, Admit(r) \/ Advance(r) PROVE Progressed'
  <2>1. CASE Admit(r)
    BY <2>1 DEF Admit, ArriveDirect, ArriveWithToken, Arrive, ByToken
  <2>2. CASE Discover(r)
    BY <2>2 DEF Discover, Proceed
  <2>3. CASE DiscoverFails(r)
    BY <2>3 DEF DiscoverFails, Proceed, Reject
  <2>4. CASE Hit(r)
    BY <2>4, Validated DEF Hit, Proceed
  <2>5. CASE Miss(r)
    BY <2>5 DEF Miss, Proceed
  <2>6. CASE SecondLook(r)
    BY <2>6, Validated DEF SecondLook, Proceed
  <2>7. CASE Fetch(r)
    BY <2>7 DEF Fetch, Proceed
  <2>8. CASE ProviderAnswers(r)
    BY <2>8 DEF ProviderAnswers, Proceed
  <2>9. CASE FetchFails(r)
    BY <2>9 DEF FetchFails, Proceed, Reject
  <2>10. CASE Store(r)
    BY <2>10, Validated DEF Store, Proceed
  <2>11. CASE KeyMissing(r)
    BY <2>11 DEF KeyMissing, Proceed, Reject
  <2> QED
    BY <1>1, <2>1, <2>2, <2>3, <2>4, <2>5, <2>6, <2>7, <2>8, <2>9, <2>10, <2>11 DEF Advance
<1>2. ASSUME NEW S \in (SUBSET Kid) \ {{}}, Rotate(S) PROVE Progressed'
  BY <1>2 DEF Rotate, requestVars
<1>3. CASE UNCHANGED doorVars
  BY <1>3 DEF doorVars
<1> QED
  BY <1>1, <1>2, <1>3 DEF DoorNext

\* ... the mutex: it is taken only when it is free, and given back on every way out.
LEMMA HeldKept == (DoorInv /\ [DoorNext]_doorVars) => Held'
<1> SUFFICES ASSUME DoorInv, [DoorNext]_doorVars PROVE Held'
  OBVIOUS
<1> USE DEF DoorInv, Shape, Progressed, Held, Fetching, Waiting
<1>1. ASSUME NEW r \in Caller, Admit(r) \/ Advance(r) PROVE Held'
  <2>0. Advance(r) => \A q \in Caller : KidOf(q)' = KidOf(q)
    BY OnlyOwn
  <2>1. CASE Admit(r)
    BY <2>1 DEF KidOf, Admit, ArriveDirect, ArriveWithToken, Arrive
  <2>2. CASE Discover(r)
    BY <2>0, <2>2 DEF Advance, Discover, Proceed
  <2>3. CASE DiscoverFails(r)
    BY <2>0, <2>3 DEF Advance, DiscoverFails, Proceed, Reject
  <2>4. CASE Hit(r)
    BY <2>0, <2>4, Validated DEF Advance, Hit, Proceed
  <2>5. CASE Miss(r)
    BY <2>0, <2>5 DEF Advance, Miss, Proceed
  <2>6. CASE SecondLook(r)
    BY <2>0, <2>6, Validated DEF Advance, SecondLook, Proceed
  <2>7. CASE Fetch(r)
    BY <2>0, <2>7 DEF Advance, Fetch, Proceed
  <2>8. CASE ProviderAnswers(r)
    BY <2>0, <2>8 DEF Advance, ProviderAnswers, Proceed
  <2>9. CASE FetchFails(r)
    BY <2>0, <2>9 DEF Advance, FetchFails, Proceed, Reject
  <2>10. CASE Store(r)
    BY <2>0, <2>10, Validated DEF Advance, Store, Proceed
  <2>11. CASE KeyMissing(r)
    BY <2>0, <2>11 DEF Advance, KeyMissing, Proceed, Reject
  <2> QED
    BY <1>1, <2>1, <2>2, <2>3, <2>4, <2>5, <2>6, <2>7, <2>8, <2>9, <2>10, <2>11 DEF Advance
<1>2. ASSUME NEW S \in (SUBSET Kid) \ {{}}, Rotate(S) PROVE Held'
  BY <1>2 DEF Rotate, requestVars, KidOf
<1>3. CASE UNCHANGED doorVars
  BY <1>3 DEF doorVars, KidOf
<1> QED
  BY <1>1, <1>2, <1>3 DEF DoorNext

\* ... the count: a store needs an answer that differs from the cached keys.
LEMMA CountedKept == (DoorInv /\ [DoorNext]_doorVars) => Counted'
<1> SUFFICES ASSUME DoorInv, [DoorNext]_doorVars PROVE Counted'
  OBVIOUS
<1> USE DEF DoorInv, Shape, Progressed, Held, Counted, Fetching, Waiting
<1>1. ASSUME NEW r \in Caller, Admit(r) \/ Advance(r) PROVE Counted'
  <2>0. Advance(r) => \A q \in Caller : KidOf(q)' = KidOf(q)
    BY OnlyOwn
  <2>1. CASE Admit(r)
    BY <2>1 DEF KidOf, Admit, ArriveDirect, ArriveWithToken, Arrive
  <2>2. CASE Discover(r)
    BY <2>0, <2>2 DEF Advance, Discover, Proceed
  <2>3. CASE DiscoverFails(r)
    BY <2>0, <2>3 DEF Advance, DiscoverFails, Proceed, Reject
  <2>4. CASE Hit(r)
    BY <2>0, <2>4, Validated DEF Advance, Hit, Proceed
  <2>5. CASE Miss(r)
    BY <2>0, <2>5 DEF Advance, Miss, Proceed
  <2>6. CASE SecondLook(r)
    BY <2>0, <2>6, Validated DEF Advance, SecondLook, Proceed
  <2>7. CASE Fetch(r)
    BY <2>0, <2>7 DEF Advance, Fetch, Proceed
  <2>8. CASE ProviderAnswers(r)
    BY <2>0, <2>8 DEF Advance, ProviderAnswers, Proceed
  <2>9. CASE FetchFails(r)
    BY <2>0, <2>9 DEF Advance, FetchFails, Proceed, Reject
  <2>10. CASE Store(r)
    BY <2>0, <2>10, Validated DEF Advance, Store, Proceed
  <2>11. CASE KeyMissing(r)
    BY <2>0, <2>11 DEF Advance, KeyMissing, Proceed, Reject
  <2> QED
    BY <1>1, <2>1, <2>2, <2>3, <2>4, <2>5, <2>6, <2>7, <2>8, <2>9, <2>10, <2>11 DEF Advance
<1>2. ASSUME NEW S \in (SUBSET Kid) \ {{}}, Rotate(S) PROVE Counted'
  BY <1>2 DEF Rotate, requestVars, KidOf
<1>3. CASE UNCHANGED doorVars
  BY <1>3 DEF doorVars, KidOf
<1> QED
  BY <1>1, <1>2, <1>3 DEF DoorNext

\* ... the verdict: an answer without the kid was published during the request.
LEMMA UnknownKept == (DoorInv /\ [DoorNext]_doorVars) => UnknownWasUnpublished'
<1> SUFFICES ASSUME DoorInv, [DoorNext]_doorVars PROVE UnknownWasUnpublished'
  OBVIOUS
<1> USE DEF DoorInv, Shape, Progressed, Held, UnknownWasUnpublished, Fetching, Waiting
<1>1. ASSUME NEW r \in Caller, Admit(r) \/ Advance(r) PROVE UnknownWasUnpublished'
  <2>0. Advance(r) => \A q \in Caller : KidOf(q)' = KidOf(q)
    BY OnlyOwn
  <2>1. CASE Admit(r)
    BY <2>1 DEF KidOf, Admit, ArriveDirect, ArriveWithToken, Arrive
  <2>2. CASE Discover(r)
    BY <2>0, <2>2 DEF Advance, Discover, Proceed
  <2>3. CASE DiscoverFails(r)
    BY <2>0, <2>3 DEF Advance, DiscoverFails, Proceed, Reject
  <2>4. CASE Hit(r)
    BY <2>0, <2>4, Validated DEF Advance, Hit, Proceed
  <2>5. CASE Miss(r)
    BY <2>0, <2>5 DEF Advance, Miss, Proceed
  <2>6. CASE SecondLook(r)
    BY <2>0, <2>6, Validated DEF Advance, SecondLook, Proceed
  <2>7. CASE Fetch(r)
    BY <2>0, <2>7 DEF Advance, Fetch, Proceed
  <2>8. CASE ProviderAnswers(r)
    BY <2>0, <2>8 DEF Advance, ProviderAnswers, Proceed
  <2>9. CASE FetchFails(r)
    BY <2>0, <2>9 DEF Advance, FetchFails, Proceed, Reject
  <2>10. CASE Store(r)
    BY <2>0, <2>10, Validated DEF Advance, Store, Proceed
  <2>11. CASE KeyMissing(r)
    BY <2>0, <2>11 DEF Advance, KeyMissing, Proceed, Reject
  <2> QED
    BY <1>1, <2>1, <2>2, <2>3, <2>4, <2>5, <2>6, <2>7, <2>8, <2>9, <2>10, <2>11 DEF Advance
<1>2. ASSUME NEW S \in (SUBSET Kid) \ {{}}, Rotate(S) PROVE UnknownWasUnpublished'
  BY <1>2 DEF Rotate, requestVars, KidOf
<1>3. CASE UNCHANGED doorVars
  BY <1>3 DEF doorVars, KidOf
<1> QED
  BY <1>1, <1>2, <1>3 DEF DoorNext

\* ... and the anonymous caller, who never comes with a token.
LEMMA AnonymousKept == (DoorInv /\ [DoorNext]_doorVars) => AnonymousAsReported'
<1> SUFFICES ASSUME DoorInv, [DoorNext]_doorVars PROVE AnonymousAsReported'
  OBVIOUS
<1> USE DEF DoorInv, Shape, Progressed, AnonymousAsReported
<1>1. ASSUME NEW r \in Caller, Admit(r) PROVE AnonymousAsReported'
  <2> USE DeploymentAssumption DEF Arrive, ByToken, DirectContext, ShowsNothing, StatusAnonymous,
          AuthConfigured, admin_default, deny_all, bind_decision
  <2>1. ASSUME NEW c \in Credential, ArriveDirect(r, c) PROVE AnonymousAsReported'
    <3>1. ShowsNothing(c) => DirectContext(c) = StatusAnonymous(deployment)
      OBVIOUS
    <3>2. StatusAnonymous(deployment) = admin_default
             => deployment.loopback \/ deployment.allow_anonymous
      OBVIOUS
    <3>3. UNCHANGED deployment /\ credential'[r] = {c} /\ context'[r] = {DirectContext(c)}
      BY <2>1 DEF ArriveDirect
    <3>4. \A q \in Caller \ {r} : credential'[q] = credential[q] /\ context'[q] = context[q]
      BY <2>1 DEF ArriveDirect
    <3> HIDE DEF DirectContext, StatusAnonymous, admin_default, ShowsNothing
    <3>5. \A q \in Caller : \A d \in credential'[q] : ShowsNothing(d) =>
            /\ context'[q] = {StatusAnonymous(deployment)}
            /\ context'[q] = {admin_default} => deployment.loopback \/ deployment.allow_anonymous
      BY <3>1, <3>2, <3>3, <3>4
    <3> QED
      BY <3>3, <3>5 DEF StatusAnonymous, admin_default, ShowsNothing
  <2>2. CASE \E c \in Credential : ArriveWithToken(r, c)
    BY <2>2 DEF ArriveWithToken
  <2> QED
    BY <1>1, <2>1, <2>2 DEF Admit
<1>2. ASSUME NEW r \in Caller, Advance(r) PROVE AnonymousAsReported'
  BY <1>2, OnlyOwn DEF ShowsNothing, StatusAnonymous
<1>3. ASSUME NEW S \in (SUBSET Kid) \ {{}}, Rotate(S) PROVE AnonymousAsReported'
  BY <1>3 DEF Rotate, requestVars
<1>4. CASE UNCHANGED doorVars
  BY <1>4 DEF doorVars
<1> QED
  BY <1>1, <1>2, <1>3, <1>4 DEF DoorNext

\* Every step keeps the invariant.
THEOREM DoorInvStep == (DoorInv /\ [DoorNext]_doorVars) => DoorInv'
  BY ShapeKept, ProgressedKept, HeldKept, CountedKept, UnknownKept, AnonymousKept DEF DoorInv

\* "A key rotation triggers a single refresh": the cached keys are replaced at most once more
\* than the provider changed its own, for any number of callers that miss at once.
THEOREM RefreshedOnce == DoorSpec => []SingleRefresh
<1>1. DoorInv => SingleRefresh
  BY DEF DoorInv, Counted, SingleRefresh
<1> QED
  BY <1>1, DoorInvInit, DoorInvStep, PTL DEF DoorSpec

\* No token is turned away for a key the provider published throughout.
THEOREM TurnedAwayRightly == DoorSpec => []UnknownWasUnpublished
<1>1. DoorInv => UnknownWasUnpublished
  BY DEF DoorInv
<1> QED
  BY <1>1, DoorInvInit, DoorInvStep, PTL DEF DoorSpec

\* /status tells the truth about anonymous callers, and none is an administrator off the
\* loopback interface without consent.
THEOREM AnonymousTold == DoorSpec => []AnonymousAsReported
<1>1. DoorInv => AnonymousAsReported
  BY DEF DoorInv
<1> QED
  BY <1>1, DoorInvInit, DoorInvStep, PTL DEF DoorSpec

==============================================================================
