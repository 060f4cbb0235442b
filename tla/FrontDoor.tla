------------------------------ MODULE FrontDoor ------------------------------
(* Who is asking: the bind decision at startup, build_user_context (main.rs), *)
(* and the JWKS cache of auth/mod.rs.                                         *)
(*                                                                            *)
(* build_user_context runs inside the async handler, before the query permit: *)
(* a request blocks a worker of the runtime while it waits for the refresh    *)
(* mutex or the identity provider.  A key is identified with its kid: the     *)
(* provider does not use a kid for a second key.                              *)
EXTENDS Integers, FiniteSets

CONSTANTS
    Caller,        \* the requests
    Kid,           \* key ids
    FirstKeys,     \* those published when the process starts
    Credential,    \* what a request may carry
    Deployment,    \* configurations and the environment of the process
    ContextOf,     \* resolve_user_context of the deployment's roles, for a set of names
    Workers,       \* threads of the runtime
    MaxRotations   \* bound: changes of the published key set

ASSUME KidAssumption == FirstKeys \subseteq Kid
ASSUME DeploymentAssumption ==
    Deployment \subseteq [auth : BOOLEAN, trusted_proxy : BOOLEAN, oidc : BOOLEAN, jwks_uri : BOOLEAN,
                          loopback : BOOLEAN, allow_anonymous : BOOLEAN]

VARIABLES
    deployment,  \* the configuration in force
    published,   \* the kids the identity provider serves now
    rotations,   \* how often that set has changed
    discovered,  \* is the key set's URI known?
    keys,        \* JwksCache.keys: the kids that have a cached key
    refresh,     \* JwksCache.refresh: who holds the mutex
    response,    \* the key set the holder was sent
    stage,       \* where each request is
    credential,  \* what each request carries, as a set of at most one
    context,     \* its UserContext, as a set of at most one
    failure,     \* why its token was rejected
    kept,        \* history: the kids published ever since the request arrived
    stores       \* history: how often the cached keys were replaced

doorVars == <<deployment, published, rotations, discovered, keys, refresh, response,
              stage, credential, context, failure, kept, stores>>
requestVars == <<stage, credential, context, failure>>

admin_default == [roles |-> << >>, admin |-> TRUE]
deny_all == [roles |-> << >>, admin |-> FALSE]
-----------------------------------------------------------------------------
(* Startup.                                                                   *)

\* Mutant: an auth block counts as a mechanism, whatever it holds.
AuthBlockConfigured(d) == d.auth

\* A mechanism that can authenticate, not merely an auth block.
AuthConfigured(d) == d.auth /\ (d.trusted_proxy \/ d.oidc)

\* What /status says an unidentified request gets.
StatusAnonymous(d) == IF AuthConfigured(d) THEN deny_all ELSE admin_default

bind_decision(d) == d.loopback \/ AuthConfigured(d) \/ d.allow_anonymous

DoorInit ==
    /\ deployment \in {d \in Deployment : bind_decision(d)}
    /\ published = FirstKeys
    /\ rotations = 0
    /\ discovered = deployment.jwks_uri
    /\ keys = {}
    /\ refresh = {}
    /\ response = {}
    /\ stage = [r \in Caller |-> "new"]
    /\ credential = [r \in Caller |-> {}]
    /\ context = [r \in Caller |-> {}]
    /\ failure = [r \in Caller |-> "none"]
    /\ kept = [r \in Caller |-> {}]
    /\ stores = 0
-----------------------------------------------------------------------------
(* A request is given a worker, and what it carries decides how it goes on.   *)

Waiting == {"discover", "lookup", "queued", "fetching", "fetched"}
Busy == {r \in Caller : stage[r] \in Waiting}

ByToken(c) == deployment.auth /\ deployment.oidc /\ c.form = "token"

\* build_user_context where no key is looked up.
DirectContext(c) ==
    CASE ~deployment.auth -> admin_default
      [] deployment.auth /\ deployment.oidc -> deny_all
      [] deployment.auth /\ ~deployment.oidc /\ deployment.trusted_proxy ->
            IF c.header = {} THEN deny_all ELSE ContextOf[c.header]
      [] OTHER -> admin_default

Arrive(r, c) ==
    /\ stage[r] = "new"
    /\ Cardinality(Busy) < Workers
    /\ credential' = [credential EXCEPT ![r] = {c}]
    /\ kept' = [kept EXCEPT ![r] = published]
    /\ UNCHANGED <<deployment, published, rotations, discovered, keys, refresh, response, failure, stores>>

\* No token to validate: no mechanism, the trusted header, no Bearer token, or
\* one whose header cannot be decoded.
ArriveDirect(r, c) ==
    /\ ~ByToken(c)
    /\ Arrive(r, c)
    /\ context' = [context EXCEPT ![r] = {DirectContext(c)}]
    /\ stage' = [stage EXCEPT ![r] = "done"]

ArriveWithToken(r, c) ==
    /\ ByToken(c)
    /\ Arrive(r, c)
    /\ stage' = [stage EXCEPT ![r] = IF discovered THEN "lookup" ELSE "discover"]
    /\ UNCHANGED context

KidOf(r) == (CHOOSE c \in credential[r] : TRUE).kid

Proceed(r, from, to) ==
    /\ stage[r] = from
    /\ stage' = [stage EXCEPT ![r] = to]
    /\ UNCHANGED <<deployment, published, rotations, credential, kept>>

\* resolve_jwks_uri: the lock is not held over the call, so several requests
\* may discover at once.
Discover(r) ==
    /\ Proceed(r, "discover", "lookup")
    /\ discovered' = TRUE
    /\ UNCHANGED <<keys, refresh, response, context, failure, stores>>

\* Any error on the way: the token is rejected and the caller denied.
Reject(r, why) ==
    /\ failure' = [failure EXCEPT ![r] = why]
    /\ context' = [context EXCEPT ![r] = {deny_all}]

DiscoverFails(r) ==
    /\ Proceed(r, "discover", "done")
    /\ Reject(r, "fetch")
    /\ UNCHANGED <<discovered, keys, refresh, response, stores>>

\* The rest of validate_and_resolve, with the key of the kid the token names:
\* signature and claims, then extract_identity.
Validate(r) ==
    \E c \in credential[r] :
        IF c.signer # c.kid \/ ~c.fit \/ c.user = {} THEN Reject(r, "invalid")
        ELSE /\ context' = [context EXCEPT ![r] = {ContextOf[c.user \union c.groups]}]
             /\ UNCHANGED failure

Hit(r) ==
    /\ Proceed(r, "lookup", "done")
    /\ KidOf(r) \in keys
    /\ Validate(r)
    /\ UNCHANGED <<discovered, keys, refresh, response, stores>>

Miss(r) ==
    /\ Proceed(r, "lookup", "queued")
    /\ KidOf(r) \notin keys
    /\ UNCHANGED <<discovered, keys, refresh, response, context, failure, stores>>

\* The mutex is ours: a second look, and the key is there.
SecondLook(r) ==
    /\ Proceed(r, "queued", "done")
    /\ refresh = {}
    /\ KidOf(r) \in keys
    /\ Validate(r)
    /\ UNCHANGED <<discovered, keys, refresh, response, stores>>

\* Mutant: no second look.
FetchUnlooked(r) ==
    /\ refresh = {}
    /\ Proceed(r, "queued", "fetching")
    /\ refresh' = {r}
    /\ UNCHANGED <<discovered, keys, response, context, failure, stores>>

\* It is not: the key set is fetched while the mutex is held.
Fetch(r) ==
    /\ Proceed(r, "queued", "fetching")
    /\ refresh = {}
    /\ KidOf(r) \notin keys
    /\ refresh' = {r}
    /\ UNCHANGED <<discovered, keys, response, context, failure, stores>>

\* Mutant: the provider's answer is the one of the last fetch.
ProviderAnswersStale(r) ==
    /\ Proceed(r, "fetching", "fetched")
    /\ response' = IF response = {} THEN published ELSE response
    /\ UNCHANGED <<discovered, keys, refresh, context, failure, stores>>

\* The provider answers with what it publishes then; nothing bounds the wait.
ProviderAnswers(r) ==
    /\ Proceed(r, "fetching", "fetched")
    /\ response' = published
    /\ UNCHANGED <<discovered, keys, refresh, context, failure, stores>>

\* Mutant: a failed fetch is tried again.
FetchFailsRetrying(r) ==
    /\ Proceed(r, "fetching", "lookup")
    /\ refresh' = {}
    /\ UNCHANGED <<discovered, keys, response, context, failure, stores>>

\* No answer, no key set, or one with a malformed key in it.
FetchFails(r) ==
    /\ Proceed(r, "fetching", "done")
    /\ Reject(r, "fetch")
    /\ refresh' = {}
    /\ UNCHANGED <<discovered, keys, response, stores>>

Store(r) ==
    /\ Proceed(r, "fetched", "done")
    /\ KidOf(r) \in response
    /\ Validate(r)
    /\ keys' = response
    /\ stores' = stores + 1
    /\ refresh' = {}
    /\ UNCHANGED <<discovered, response>>

\* The set does not hold the kid: it is not kept, not even its other keys.
KeyMissing(r) ==
    /\ Proceed(r, "fetched", "done")
    /\ KidOf(r) \notin response
    /\ Reject(r, "unknown")
    /\ refresh' = {}
    /\ UNCHANGED <<discovered, keys, response, stores>>

\* The provider, where there is one, publishes another set.
Rotate(S) ==
    /\ deployment.auth /\ deployment.oidc
    /\ rotations < MaxRotations
    /\ S # published
    /\ rotations' = rotations + 1
    /\ published' = S
    /\ kept' = [r \in Caller |-> kept[r] \intersect S]
    /\ UNCHANGED <<deployment, discovered, keys, refresh, response, requestVars, stores>>

\* What a request that has a worker does next.
Advance(r) ==
    \/ Discover(r) \/ DiscoverFails(r) \/ Hit(r) \/ Miss(r) \/ SecondLook(r)
    \/ Fetch(r) \/ ProviderAnswers(r) \/ FetchFails(r) \/ Store(r) \/ KeyMissing(r)

Admit(r) == \E c \in Credential : ArriveDirect(r, c) \/ ArriveWithToken(r, c)

DoorNext ==
    \/ \E r \in Caller : Admit(r) \/ Advance(r)
    \/ \E S \in (SUBSET Kid) \ {{}} : Rotate(S)

\* The runtime polls the requests, the mutex is handed on, and the provider or
\* the network ends every call.
DoorFairness == \A r \in Caller : WF_doorVars(Admit(r)) /\ WF_doorVars(Advance(r))

DoorSpec == DoorInit /\ [][DoorNext]_doorVars /\ DoorFairness
-----------------------------------------------------------------------------
(* Properties.                                                                *)

\* "A key rotation triggers a single refresh (guarded by a mutex)"
\* (auth/mod.rs:10-11): however many requests miss at once, the cached keys are
\* replaced at most once more than the provider changed them.  Replacements, not
\* fetches: a request with a key nobody publishes fetches every time.
SingleRefresh == stores <= rotations + 1

\* A token is turned away for its key only if the provider did not publish that
\* key all through the request: losing the race for the refresh does not count.
UnknownWasUnpublished ==
    \A r \in Caller : failure[r] = "unknown" => KidOf(r) \notin kept[r]

\* A caller who shows nothing gets what /status says an anonymous caller gets,
\* and off the loopback interface that is an administrator's access only with
\* the operator's consent.
ShowsNothing(c) == c.form = "none" /\ c.header = {}
AnonymousAsReported ==
    \A r \in Caller : \A c \in credential[r] : ShowsNothing(c) =>
        /\ context[r] = {StatusAnonymous(deployment)}
        /\ context[r] = {admin_default} => deployment.loopback \/ deployment.allow_anonymous

\* Every caller is told who he is: no refresh, however it ends, leaves the mutex
\* or a worker behind.
EveryoneIdentified == \A r \in Caller : <>(stage[r] = "done")
=============================================================================
