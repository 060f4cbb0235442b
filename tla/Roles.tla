-------------------------------- MODULE Roles --------------------------------
(* What a user may read.  A role filter is SQL text; two roles' texts are     *)
(* joined by OR, several parts of a WHERE by AND, and SQL reads AND before    *)
(* OR.  A Text is therefore the sequence of its disjuncts, each a set of      *)
(* atoms [dim, col, vals] (a column and the values it may have).              *)
EXTENDS Naturals, FiniteSets, Sequences, SequencesExt

Full == [kind |-> "full"]
Hidden == [kind |-> "hidden"]
Filtered(texts) == [kind |-> "filtered", texts |-> texts]

\* The roles of which a name of the user is a member, in the config's order.
resolve_user_context(config, auth, names) ==
    IF ~auth THEN [roles |-> <<>>, admin |-> TRUE]
    ELSE LET matched == SelectSeq(config, LAMBDA role : role.members \intersect names # {})
         IN  [roles |-> matched,
              admin |-> \E role \in ToSet(matched) : role.permission = "administrator"]

effective_model_permission(user) ==
    IF user.admin THEN "administrator"
    ELSE IF \E role \in ToSet(user.roles) : role.permission = "read" THEN "read" ELSE "none"

\* One entry of table_permissions: [hide, filter, dax].  A filter that only
\* exists as DAX cannot be applied and hides the table.
HidesTable(e) == e.hide \/ (e.filter = <<>> /\ e.dax)
GrantsFull(e) == ~e.hide /\ e.filter = <<>> /\ ~e.dax

\* The permissions of a user on a table, by the place of the role and of the
\* permission in it, and some of them in the order of the config.
Permissions(user, table) ==
    UNION {{i} \X DOMAIN user.roles[i].tables[table] : i \in DOMAIN user.roles}
Precedes(p, q) == p[1] < q[1] \/ (p[1] = q[1] /\ p[2] < q[2])
InOrder(S) ==
    [n \in 1..Cardinality(S) |-> CHOOSE p \in S : Cardinality({q \in S : Precedes(q, p)}) = n - 1]

effective_table_filter(user, table) ==
    LET perRole == [i \in DOMAIN user.roles |-> user.roles[i].tables[table]]
        all == Permissions(user, table)
        entry(p) == perRole[p[1]][p[2]]
        filters == InOrder({p \in all : ~entry(p).hide /\ entry(p).filter # <<>>})
    IN  CASE \/ user.admin
             \/ \E i \in DOMAIN perRole : perRole[i] = <<>>
             \/ \E p \in all : GrantsFull(entry(p)) -> Full
          [] OTHER ->
             IF filters # <<>> THEN Filtered([n \in DOMAIN filters |-> entry(filters[n]).filter])
             ELSE IF \E p \in all : HidesTable(entry(p)) THEN Hidden ELSE Full

------------------------------------------------------------------------------
(* SQL text.  In a Clause a disjunct is a set of texts in parentheses (an     *)
(* atom is the text of one atom).                                             *)

AtomText(a) == << {a} >>

\* "f" of one role stays as it is written, several become "(f) OR (g)".
CombinedClause(texts) ==
    IF Len(texts) = 1
    THEN [i \in DOMAIN texts[1] |-> {AtomText(a) : a \in texts[1][i]}]
    ELSE [i \in DOMAIN texts |-> {texts[i]}]

ClauseAtoms(c) == UNION {UNION {UNION ToSet(t) : t \in c[i]} : i \in DOMAIN c}

\* What holds of a row of which the atoms of a set are true.
TextHolds(t, true) == \E i \in DOMAIN t : t[i] \subseteq true
DisjunctHolds(d, true) == \A t \in d : TextHolds(t, true)
ClauseHolds(c, true) == \E i \in DOMAIN c : DisjunctHolds(c[i], true)

\* Clauses joined by AND without parentheses.  AND binds first: the last
\* disjunct of one, all clauses of a single disjunct after it, and the first
\* disjunct of the next are one conjunction.
NoCondition == << {} >>
Disjuncts(parts) == UNION {{i} \X DOMAIN parts[i] : i \in DOMAIN parts}
MeetsLater(parts, p, q) ==
    /\ p[1] < q[1] /\ p[2] = Len(parts[p[1]]) /\ q[2] = 1
    /\ \A i \in p[1] + 1..q[1] - 1 : Len(parts[i]) = 1
AndHolds(parts, true) ==
    \E p \in Disjuncts(parts) : \A q \in Disjuncts(parts) :
        p = q \/ MeetsLater(parts, p, q) \/ MeetsLater(parts, q, p)
           => DisjunctHolds(parts[q[1]][q[2]], true)
=============================================================================
