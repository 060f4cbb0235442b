---------------------------- MODULE MCFrontDoor ------------------------------
(* The front door, which says who a user is, beside the rollup service, which *)
(* serves him: two callers on two workers, two keys, and tokens that are    *)
(* sound, forged, expired, of nobody, of an unknown user and garbled.         *)
EXTENDS MCRollupService, FrontDoor

MCCaller == {"c1", "c2"}
MCKid == {"k1", "k2"}
MCFirstKeys == {"k1"}

Token(kid, signer, fit, user, groups) ==
    [form |-> "token", kid |-> kid, signer |-> signer, fit |-> fit,
     user |-> user, groups |-> groups, header |-> {}]
Headers(names) == [form |-> "none", header |-> names]
MCCredential ==
    {Token("k1", "k1", TRUE, {"north"}, {}), Token("k2", "k2", TRUE, {"ann"}, {"boss"}),
     Token("k2", "k1", TRUE, {"boss"}, {}), Token("k2", "k2", TRUE, {}, {"boss"}),
     [form |-> "garbled", header |-> {}], Headers({}), Headers({"north"})}
MCDoorNames == SUBSET {"north", "boss", "ann", "stranger"}
MCContextOf == [names \in MCDoorNames |-> Known(names)]

\* Every mechanism on and off the loopback interface, with and without consent.
Mechanisms == {[auth |-> FALSE, trusted_proxy |-> FALSE, oidc |-> FALSE, jwks_uri |-> FALSE],
               [auth |-> TRUE, trusted_proxy |-> FALSE, oidc |-> FALSE, jwks_uri |-> FALSE],
               [auth |-> TRUE, trusted_proxy |-> TRUE, oidc |-> FALSE, jwks_uri |-> FALSE],
               [auth |-> TRUE, trusted_proxy |-> TRUE, oidc |-> TRUE, jwks_uri |-> FALSE],
               [auth |-> TRUE, trusted_proxy |-> FALSE, oidc |-> TRUE, jwks_uri |-> TRUE]}
Deploy(m, loopback, consent) ==
    [auth |-> m.auth, trusted_proxy |-> m.trusted_proxy, oidc |-> m.oidc, jwks_uri |-> m.jwks_uri,
     loopback |-> loopback, allow_anonymous |-> consent]
MCDeployment ==
    {Deploy(m, FALSE, FALSE) : m \in Mechanisms}
      \union {Deploy(m, l[1], l[2]) : m \in {n \in Mechanisms : ~n.oidc},
                                     l \in {<<TRUE, FALSE>>, <<FALSE, TRUE>>}}

\* The two share no state: a behaviour is one of either, and the other stays put.
VARIABLE part
partVars == <<serviceVars, doorVars, part>>

DoorIsShut ==
    /\ deployment = CHOOSE d \in MCDeployment : d.loopback
    /\ published = MCKid /\ rotations = 0 /\ discovered = FALSE /\ keys = {}
    /\ refresh = {} /\ response = {} /\ stores = 0
    /\ stage = [r \in Caller |-> "new"] /\ failure = [r \in Caller |-> "none"]
    /\ credential = [r \in Caller |-> {}] /\ context = [r \in Caller |-> {}]
    /\ kept = [r \in Caller |-> {}]

PartInit ==
    /\ ServiceInit
    /\ \/ part = "service" /\ DoorIsShut
       \/ part = "door" /\ DoorInit
PartNext ==
    \/ part = "service" /\ ServiceNext /\ UNCHANGED <<doorVars, part>>
    \/ part = "door" /\ DoorNext /\ UNCHANGED <<serviceVars, part>>
    \/ part = "door" /\ (\A r \in Caller : stage[r] = "done") /\ UNCHANGED partVars
PartSpec ==
    /\ PartInit /\ [][PartNext]_partVars
    /\ \A r \in Caller : /\ WF_partVars(part = "door" /\ Admit(r) /\ UNCHANGED <<serviceVars, part>>)
                         /\ WF_partVars(part = "door" /\ Advance(r) /\ UNCHANGED <<serviceVars, part>>)

\* Every caller of the front door is told who he is.
DoorAnswers == part = "door" => EveryoneIdentified
=============================================================================
