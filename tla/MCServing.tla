------------------------------ MODULE MCServing ------------------------------
(* Small instances of Serving for TLC.                                       *)
EXTENDS Serving, TLC

CONSTANTS r1, r2, p1, p2, p3

MCReq == {r1, r2}
MCOne == {r1}
MCPool == {p1, p2, p3}
MCOnePool == {p1}
Symmetry == Permutations(MCReq) \union Permutations(MCPool)

AllKinds == {"execute", "restricted", "drillthrough", "members"}
ExecuteOnly == {"execute"}
MembersOnly == {"members"}
ExecuteOrMembers == {"execute", "members"}
Sighup == {"sighup"}
Both == {"sighup", "watcher"}
NoReload == {}
-----------------------------------------------------------------------------
(* Requests without reloads.  Either no reader is restricted, and the engine *)
(* fails and workers panic up to the bounds; or every reader is, and only    *)
(* timeouts and interrupts disturb them.                                     *)

AllRestricted == \A r \in Req : kind[r] = "restricted"
NoneRestricted == \A r \in Req : kind[r] # "restricted"

ExclusiveSpec ==
    /\ Init /\ (AllRestricted \/ NoneRestricted)
    /\ [][Next /\ (AllRestricted => faults' = 0 /\ unwinds' = 0)]_vars
    /\ RequestFairness
-----------------------------------------------------------------------------
(* One trigger at a time (with both, NewerPoolOnly and StatusTellsEpoch fail *)
(* in the code as in the model): the watcher beside a metadata request, over *)
(* a file that is replaced twice, or SIGHUPs beside a request that computes, *)
(* over a file that is replaced once.                                        *)

OneTrigger ==
    IF \E r \in Req : kind[r] = "members"
    THEN hangups = 0
    ELSE wlast = 0 /\ file <= 2

\* Of ReloadFairness what the watcher needs; of SIGHUPs only safety is asked.
ReloadSpec ==
    /\ Init /\ [][Next /\ OneTrigger']_vars
    /\ WF_vars(Reload("watcher")) /\ WF_vars(SpawnWatcher /\ OneTrigger') /\ WF_vars(Poll)
=============================================================================
