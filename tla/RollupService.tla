---------------------------- MODULE RollupService ----------------------------
(* Plans answered while the sidecar lives: each is answered by a rollup or by *)
(* the fact table, and the two have to say the same.                          *)
EXTENDS Sidecar, Rollups

CONSTANTS Plan,         \* the plans asked
          User,         \* the users asking, as resolve_user_context makes them
          Fact          \* the rows of the fact table, per version of the file

\* The sidecar is that of the rollups that are designed, validated by their sums.
ASSUME DesignedAssumption ==
    /\ Agg = Rollup /\ ToSet(Design) = Rollup
    /\ \A i, j \in DOMAIN Design : i < j => Earlier(Design[i], Design[j])
    /\ TableOf = [a \in Rollup |-> TableName(a)]
ASSUME ValidatedAssumption ==
    Valid = [t \in Table |-> [v \in 1..MaxVersion |-> SumsAgree(Holder(t), Fact[v])]]
ASSUME FactAssumption ==
    \A v \in 1..MaxVersion : IsFiniteSet(Fact[v]) /\ \A r \in Fact[v] : r.amount \in Int

\* A filter is of a dimension, and one by the levels of a related dimension lists members.
ASSUME PlanAssumption ==
    \A plan \in Plan :
        /\ plan.group_by \in Seq(Dim) /\ plan.levels \in Seq(Nat) /\ plan.grouped \in BOOLEAN
        /\ \A f \in plan.filters :
             /\ f.dim \in Dim /\ f.level \in Nat /\ f.kind \in {"members", "scope", "flag"}
             /\ f.kind = "members" => f.keys \subseteq Seq(UNION {ToSet(k) : k \in f.keys})
             /\ (f.kind = "members" /\ f.dim \in Related) => f.keys # {}

\* The filter a role gives a related table names a column of that table.
ASSUME UserAssumption ==
    \A user \in User :
        /\ user.roles \in Seq(ToSet(user.roles)) /\ user.admin \in BOOLEAN
        /\ \A t \in {"fact"} \union Related : \A i \in DOMAIN user.roles :
             LET entries == user.roles[i].tables[t] IN
             /\ entries \in Seq(ToSet(entries))
             /\ \A e \in ToSet(entries) :
                  /\ e.filter \in Seq(ToSet(e.filter))
                  /\ (t \in Related /\ e.filter # << >>) => \E a \in UNION ToSet(e.filter) : a.dim = t

\* Rows without a row of a related dimension do not cancel out, so that comparing
\* sums (validate_rollups) shows that there are some.
LossesShow ==
    \A v \in 1..MaxVersion, d \in Related :
        LET lost == {r \in Fact[v] : ~Joined(r, d)} IN lost # {} => Total(lost) # 0

VARIABLE reply          \* the last plan answered by a rollup, << >> when none was

serviceVars == <<vars, reply>>

ServiceInit == Init /\ reply = << >>

\* Gates of plan_from_semantic_with_model_and_context: model, then table.
Readable(user) == /\ effective_model_permission(user) # "none"
                  /\ effective_table_filter(user, "fact").kind # "hidden"

\* The content of a table built from a version.
Built == [t \in Table |-> [v \in 1..MaxVersion |-> build_sql(Holder(t), Fact[v])]]
Content(table) == Built[table][tables[table]]

\* Bound: one question between two steps of the sidecar, which it cannot affect.
Ask(plan, user) ==
    /\ reply = << >>
    /\ pc \in Serves /\ routing
    /\ Readable(user)
    /\ LET route == route_plan(plan, user)
       IN  /\ route # <<>>
           /\ reply' = [plan |-> plan, user |-> user, agg |-> route[1],
                        answer |-> RollupAnswer(route[1], plan, user, Content(TableName(route[1]))),
                        fact |-> FactAnswer(plan, user, Fact[pool])]
    /\ UNCHANGED vars

Live == Next /\ reply' = << >>

ServiceNext == Live \/ \E plan \in Plan, user \in User : Ask(plan, user)
ServiceSpec == ServiceInit /\ [][ServiceNext]_serviceVars

------------------------------------------------------------------------------
(* Properties.                                                                *)

\* A rollup answers what the fact table would, with the roles of the user
\* applied (plans/043-rls-aware-rollup-routing.md:40, "the rollup is filtered
\* exactly like the fact path").
RollupAnswersAsFact ==
    (reply # << >> /\ ~moved) => reply.answer = reply.fact

\* Where the rollup query is known to be a translation of the fact query: every
\* filter lists single keys, ...
ListsSingleKeys(plan) ==
    \A f \in plan.filters : f.kind # "scope" /\ \A k \in f.keys : Len(k) = 1
\* ... a rolled-up dimension is grouped first, at a named level, one level below
\* its single parent if it has one, ...
GroupsOneDown(plan, agg) ==
    \A i \in DOMAIN plan.group_by :
        plan.group_by[i] = agg.dim =>
            /\ i = 1 /\ plan.levels # <<>> /\ plan.levels[1] # 0
            /\ plan.levels[1] > 1 => \A f \in plan.filters :
                                       f.dim = agg.dim => f.level + 1 = plan.levels[1]
\* ... no role filter has an OR at its top beside another condition, ...
JoinsByAnd(plan, user) ==
    \/ \A t \in FilteredTables(user) : Len(RoleClause(user, t)) = 1
    \/ /\ \E t \in FilteredTables(user) : FilteredTables(user) = {t}
       /\ \A f \in plan.filters : f.keys = {}
\* ... and no other rollup has a level of the name.
HoldsOwnTable(agg) == Holder(TableName(agg)) = agg

TranslatedAnswersAsFact ==
    (/\ reply # << >> /\ ~moved
     /\ ListsSingleKeys(reply.plan)
     /\ GroupsOneDown(reply.plan, reply.agg)
     /\ JoinsByAnd(reply.plan, reply.user)
     /\ HoldsOwnTable(reply.agg)) => reply.answer = reply.fact
=============================================================================
