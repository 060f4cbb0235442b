--------------------------- MODULE SessionRegistry ---------------------------
(* XMLA sessions: the bounded, expiring registry of xmla/session.rs, the     *)
(* session header of a request (route_request in main.rs), and the           *)
(* thread-local id that ends up in the response header (xmla/response.rs).   *)
(*                                                                           *)
(* The registry is a queue in the order of issue, under a mutex held for a   *)
(* whole operation.  An id is the number of its BeginSession, so the queue   *)
(* is a set of ids and its front the smallest.  Requests run on the reused   *)
(* threads of a blocking pool.                                               *)
EXTENDS Integers, FiniteSets

CONSTANTS
    Req, Thread,
    Nobody,    \* no session id, no thread
    Capacity,  \* CAPACITY
    Ttl,       \* TTL
    MaxTime,   \* bound: clock ticks
    MaxId      \* bound: sessions begun

ASSUME LimitsAssumption ==
    Capacity \in Nat \ {0} /\ Ttl \in Nat /\ MaxTime \in Nat /\ MaxId \in Nat
ASSUME NobodyAssumption == Nobody \notin Nat \union Thread

Id == 1 .. MaxId

VARIABLES
    live,     \* the ids in the queue
    born,     \* when an id was issued
    issued,   \* how many ids were issued
    now,
    current,  \* CURRENT_SESSION_ID of a thread
    pc, on,   \* where a request is, and the thread it runs on
    asked,    \* the id its header named
    verdict,  \* what the registry said of it
    begun,    \* the id its BeginSession got
    reply,    \* the id its response carries
    ended     \* history: the ids whose EndSession was accepted

vars == <<live, born, issued, now, current, pc, on, asked, verdict, begun, reply, ended>>

Init ==
    /\ live = {}
    /\ born = [i \in Id |-> 0]
    /\ issued = 0
    /\ now = 0
    /\ current = [t \in Thread |-> Nobody]
    /\ pc = [r \in Req |-> "new"]
    /\ on = [r \in Req |-> Nobody]
    /\ asked = [r \in Req |-> Nobody]
    /\ verdict = [r \in Req |-> "none"]
    /\ begun = [r \in Req |-> Nobody]
    /\ reply = [r \in Req |-> Nobody]
    /\ ended = {}

Tick ==
    /\ now < MaxTime
    /\ now' = now + 1
    /\ UNCHANGED <<live, born, issued, current, pc, on, asked, verdict, begun, reply, ended>>

Expired(i) == now - born[i] > Ttl

\* Mutant: nothing expires.
UnexpiredNever(S) == S

\* expire: the front is dropped as long as it is too old.
Unexpired(S) == {i \in S : \E j \in S : j <= i /\ ~Expired(j)}

\* Mutant: the newest ids fall out.
OldestIds(S, n) == {i \in S : Cardinality({j \in S : j < i}) < n}

\* Mutant: one id too many is kept.
NewestAndOneMore(S, n) == {i \in S : Cardinality({j \in S : j > i}) <= n}

\* The n newest of S: what is left when the front is dropped until only n are.
Newest(S, n) == {i \in S : Cardinality({j \in S : j > i}) < n}

Free(t) == \A r \in Req : pc[r] = "routed" => on[r] # t

\* A worker takes the request up on a free thread.
Start(r, t, l) ==
    /\ pc[r] = "new"
    /\ Free(t)
    /\ pc' = [pc EXCEPT ![r] = l]
    /\ on' = [on EXCEPT ![r] = t]

\* Mutant: the id registered is not the one the client is given.
BeginOther(r, t) ==
    /\ Start(r, t, "routed")
    /\ issued < MaxId
    /\ issued' = issued + 1
    /\ live' = Newest(Unexpired(live), Capacity - 1) \union {issued}
    /\ born' = [born EXCEPT ![issued'] = now]
    /\ current' = [current EXCEPT ![t] = issued']
    /\ begun' = [begun EXCEPT ![r] = issued']
    /\ UNCHANGED <<now, asked, verdict, reply, ended>>

Begin(r, t) ==
    /\ Start(r, t, "routed")
    /\ issued < MaxId
    /\ issued' = issued + 1
    /\ live' = Newest(Unexpired(live), Capacity - 1) \union {issued'}
    /\ born' = [born EXCEPT ![issued'] = now]
    /\ current' = [current EXCEPT ![t] = issued']
    /\ begun' = [begun EXCEPT ![r] = issued']
    /\ UNCHANGED <<now, asked, verdict, reply, ended>>

\* Mutant: EndSession retains the ended id and drops the others.
AcceptEndingOthers(r, t, i, end) ==
    /\ i \in Unexpired(live)
    /\ Start(r, t, "routed")
    /\ live' = IF end THEN {i} ELSE Unexpired(live)
    /\ ended' = ended \union (IF end THEN {i} ELSE {})
    /\ asked' = [asked EXCEPT ![r] = i]
    /\ verdict' = [verdict EXCEPT ![r] = "accepted"]
    /\ current' = [current EXCEPT ![t] = Nobody]
    /\ UNCHANGED <<born, issued, now, begun, reply>>

\* Session or EndSession naming an id that is live; an ended one is gone.
Accept(r, t, i, end) ==
    /\ i \in Unexpired(live)
    /\ Start(r, t, "routed")
    /\ live' = Unexpired(live) \ (IF end THEN {i} ELSE {})
    /\ ended' = ended \union (IF end THEN {i} ELSE {})
    /\ asked' = [asked EXCEPT ![r] = i]
    /\ verdict' = [verdict EXCEPT ![r] = "accepted"]
    /\ current' = [current EXCEPT ![t] = Nobody]
    /\ UNCHANGED <<born, issued, now, begun, reply>>

\* Naming any other id is answered by a fault, which carries no header; the
\* thread keeps the id it had.
Refuse(r, t, i) ==
    /\ i \notin Unexpired(live)
    /\ Start(r, t, "done")
    /\ live' = Unexpired(live)
    /\ asked' = [asked EXCEPT ![r] = i]
    /\ verdict' = [verdict EXCEPT ![r] = "refused"]
    /\ UNCHANGED <<born, issued, now, current, begun, reply, ended>>

\* Mutant: the thread keeps the id of the request it served before.
PlainKeepingId(r, t) ==
    /\ Start(r, t, "routed")
    /\ UNCHANGED <<live, born, issued, now, current, asked, verdict, begun, reply, ended>>

\* A request without a session header.
Plain(r, t) ==
    /\ Start(r, t, "routed")
    /\ current' = [current EXCEPT ![t] = Nobody]
    /\ UNCHANGED <<live, born, issued, now, asked, verdict, begun, reply, ended>>

\* soap_envelope_parts: the header carries the id of the thread.
Respond(r) ==
    /\ pc[r] = "routed"
    /\ reply' = [reply EXCEPT ![r] = current[on[r]]]
    /\ pc' = [pc EXCEPT ![r] = "done"]
    /\ UNCHANGED <<live, born, issued, now, current, on, asked, verdict, begun, ended>>

\* A fault instead (a refusal, a panic): fault_response carries no header.
Fault(r) ==
    /\ pc[r] = "routed"
    /\ pc' = [pc EXCEPT ![r] = "done"]
    /\ UNCHANGED <<live, born, issued, now, current, on, asked, verdict, begun, reply, ended>>

Route(r, t) ==
    \/ Begin(r, t) \/ Plain(r, t)
    \/ \E i \in Id : Refuse(r, t, i) \/ \E end \in BOOLEAN : Accept(r, t, i, end)

Next ==
    \/ Tick
    \/ \E r \in Req : Respond(r) \/ Fault(r) \/ \E t \in Thread : Route(r, t)

Spec == Init /\ [][Next]_vars
-----------------------------------------------------------------------------
\* Every variable keeps its type: every id in the queue is one that was issued.
TypeOK ==
    /\ live \in SUBSET (1 .. issued)
    /\ born \in [Id -> Nat]
    /\ issued \in 0 .. MaxId
    /\ now \in 0 .. MaxTime
    /\ current \in [Thread -> Id \union {Nobody}]
    /\ pc \in [Req -> {"new", "routed", "done"}]
    /\ on \in [Req -> Thread \union {Nobody}]
    /\ asked \in [Req -> Id \union {Nobody}]
    /\ verdict \in [Req -> {"none", "accepted", "refused"}]
    /\ begun \in [Req -> Id \union {Nobody}]
    /\ reply \in [Req -> Id \union {Nobody}]
    /\ ended \in SUBSET Id

\* A response carries a session id only if its own request began that session,
\* whichever request its thread served before.
ReplyIsOwn == \A r \in Req : reply[r] \in {Nobody, begun[r]}

Decides(r, v) == verdict[r] = "none" /\ verdict'[r] = v

\* An id is accepted only while it is one the proxy issued, did not end and did
\* not let expire: popping expired ids off the front finds every one of them.
AcceptsOnlyLive ==
    [][\A r \in Req : Decides(r, "accepted") =>
          LET i == asked'[r] IN i \in 1 .. issued /\ i \notin ended /\ ~Expired(i)]_vars

\* A session is forgotten early only under pressure: an id that is refused was
\* never issued, has ended, is too old, or Capacity newer ones were begun.
RefusesOnlyDead ==
    [][\A r \in Req : Decides(r, "refused") =>
          LET i == asked'[r] IN
            i \notin 1 .. issued \/ i \in ended \/ Expired(i) \/ issued - i >= Capacity]_vars
=============================================================================
