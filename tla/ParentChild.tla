------------------------------ MODULE ParentChild ------------------------------
(* A parent-child dimension (project/project.rs, backend/mod.rs): its levels    *)
(* are columns added to its own table by the server that starts, one statement  *)
(* after the other and in no transaction, and read back by whoever starts       *)
(* later.  mallard qualify (tools/qualify.rs) says whether the rows are fit for *)
(* it.  The data changes while no server holds the file.                        *)
EXTENDS Integers, Sequences, FiniteSets

CONSTANTS
    RowId,        \* the rows of the table
    Null,         \* no key, no parent (also the empty text), no ancestor
    Table,        \* the contents it may have: RowId -> [key, parent]
    MaxDepth,     \* the depth the recursion stops at (64)
    MaxChanges,   \* bound: changes of the data
    MaxCrashes    \* bound: servers that die while they write

ASSUME DepthAssumption == MaxDepth \in Nat \ {0}
ASSUME RowsAssumption == IsFiniteSet(RowId)

VARIABLES
    rows,       \* the key and the parent of every row
    hasDepth,   \* the column __pc_depth exists
    column,     \* the columns __pc_l1, __pc_l2, ...: number -> (row -> key)
    server,     \* "down", "writing" or "up"
    todo,       \* the statements a writing server has still to run
    walked,     \* its temporary table: the paths from the roots
    levels,     \* the level columns of the running server, from the top
    built,      \* the rows all columns were computed from, if they were
    changes, crashes

treeVars == <<rows, hasDepth, column, server, todo, walked, levels, built, changes, crashes>>

TreeInit ==
    /\ rows \in Table /\ hasDepth = FALSE /\ column = [n \in {} |-> {}]
    /\ server = "down" /\ todo = <<>> /\ walked = {} /\ levels = <<>> /\ built = {}
    /\ changes = 0 /\ crashes = 0

------------------------------------------------------------------------------
\* A root has no parent, or is its own.
IsRoot(t, r) == t[r].parent = Null \/ (t[r].parent = t[r].key)
\* The recursion down from the roots: every way a row is reached, cut off at a
\* depth.  Nothing joins to a row without a key.
Walk(t, depth) ==
    {p \in UNION {[1..n -> RowId] : n \in 1..depth} :
       /\ IsRoot(t, p[1])
       /\ \A i \in 2..Len(p) : t[p[i]].parent = t[p[i - 1]].key /\ t[p[i]].parent # Null}
Height(paths) == IF paths = {} THEN 0 ELSE CHOOSE n \in {Len(p) : p \in paths} : \A p \in paths : Len(p) <= n

\* What mallard qualify blocks: keys missing or twice, a parent that is no key,
\* fewer ways from the roots than rows, a way longer than the limit.
Qualifies(t) ==
    LET reach == Walk(t, MaxDepth + 1)
    IN /\ \A r \in RowId : t[r].key # Null
       /\ \A r, s \in RowId : t[r].key = t[s].key => r = s
       /\ \A r \in RowId : IsRoot(t, r) \/ \E s \in RowId : t[s].key = t[r].parent
       /\ Cardinality(reach) >= Cardinality(RowId)
       /\ Height(reach) <= MaxDepth

\* The levels that are there, by their number.
read_materialized_parent_child ==
    IF ~hasDepth THEN <<>>
    ELSE CHOOSE s \in [1..Cardinality(DOMAIN column) -> DOMAIN column] :
           \A i, j \in DOMAIN s : i < j => s[i] < s[j]

------------------------------------------------------------------------------
\* prepare_parent_child: what is there is served, unless there is nothing and the
\* server may write, or the configuration asks for a refresh.
OpenProject(mode) ==
    LET reuse == mode # "Refresh" /\ (read_materialized_parent_child # <<>> \/ mode = "ReadOnly")
        paths == Walk(rows, MaxDepth)
        add == [i \in 1..2 * Height(paths) |-> [do |-> IF i % 2 = 1 THEN "add" ELSE "fill", number |-> (i + 1) \div 2]]
    IN /\ server = "down"
       /\ server' = IF reuse THEN "up" ELSE "writing"
       /\ levels' = IF reuse THEN read_materialized_parent_child ELSE <<>>
       /\ walked' = IF reuse THEN {} ELSE paths
       /\ todo' = IF reuse THEN <<>> ELSE << [do |-> "depth", number |-> 0], [do |-> "drop", number |-> Height(paths)] >> \o add
       /\ built' = IF reuse THEN built ELSE {}
       /\ UNCHANGED <<rows, hasDepth, column, changes, crashes>>

Deeper(n) == {m \in DOMAIN column : m > n}
\* Mutant: a path is taken for shorter than it is.
KeyAtShorter(p, n) == IF n < Len(p) THEN rows[p[n]].key ELSE Null

KeyAt(p, n) == IF n <= Len(p) THEN rows[p[n]].key ELSE Null
\* UPDATE ... FROM: a row no path leads to keeps what it had, one that several
\* lead to takes any.
FillsColumn(n, filled) ==
    \A r \in RowId :
       LET found == {p \in walked : rows[p[Len(p)]].key = rows[r].key /\ rows[r].key # Null}
       IN IF found = {} THEN filled[r] = column[n][r] ELSE \E p \in found : filled[r] = KeyAt(p, n)

Keys == {rows[r].key : r \in RowId} \union {Null}
Statement ==
    LET s == Head(todo) IN
    /\ server = "writing" /\ todo # <<>>
    /\ \/ /\ s.do = "depth" /\ hasDepth' = TRUE /\ UNCHANGED column /\ todo' = Tail(todo)
       \/ /\ s.do = "drop" /\ Deeper(s.number) = {} /\ UNCHANGED <<column, hasDepth>> /\ todo' = Tail(todo)
       \/ \E n \in Deeper(s.number) :
             /\ s.do = "drop" /\ \A m \in Deeper(s.number) : n <= m
             /\ column' = [m \in DOMAIN column \ {n} |-> column[m]]
             /\ UNCHANGED <<hasDepth, todo>>
       \/ /\ s.do = "add" /\ UNCHANGED hasDepth /\ todo' = Tail(todo)
          /\ column' = [m \in DOMAIN column \union {s.number} |->
                          IF m \in DOMAIN column THEN column[m] ELSE [r \in RowId |-> Null]]
       \/ /\ s.do = "fill" /\ UNCHANGED hasDepth /\ todo' = Tail(todo)
          /\ \E filled \in [RowId -> Keys \union {column[s.number][r] : r \in RowId}] :
                FillsColumn(s.number, filled) /\ column' = [column EXCEPT ![s.number] = filled]
    /\ UNCHANGED <<rows, server, walked, levels, built, changes, crashes>>

\* The levels are those that were just written, as deep as the paths go.
Ready ==
    /\ server = "writing" /\ todo = <<>>
    /\ server' = "up" /\ levels' = [n \in 1..Height(walked) |-> n]
    /\ built' = {rows} /\ walked' = {}
    /\ UNCHANGED <<rows, hasDepth, column, todo, changes, crashes>>

\* A server dies between two statements: what they wrote stays.
Crash ==
    /\ server = "writing" /\ crashes < MaxCrashes
    /\ crashes' = crashes + 1 /\ server' = "down" /\ todo' = <<>> /\ walked' = {}
    /\ UNCHANGED <<rows, hasDepth, column, levels, built, changes>>

Stop ==
    /\ server = "up" /\ server' = "down" /\ levels' = <<>>
    /\ UNCHANGED <<rows, hasDepth, column, todo, walked, built, changes, crashes>>

\* New keys and parents; the level columns keep their values.
Change ==
    /\ server = "down" /\ changes < MaxChanges
    /\ changes' = changes + 1 /\ rows' \in Table
    /\ UNCHANGED <<hasDepth, column, server, todo, walked, levels, built, crashes>>

TreeNext ==
    \/ Statement \/ Ready \/ Crash \/ Stop \/ Change
    \/ \E mode \in {"ReadOnly", "Materialize", "Refresh"} : OpenProject(mode)

TreeSpec == TreeInit /\ [][TreeNext]_treeVars

------------------------------------------------------------------------------
\* Where a row ends: the number of its levels that are not empty.
DepthOf(r) == Cardinality({n \in DOMAIN levels : column[levels[n]][r] # Null})
\* The levels of a row end with its own key, begin at a root, and are its parent's above it.
IsPlaced(r) ==
    LET value(s, n) == column[levels[n]][s]
        d == DepthOf(r)
    IN /\ d > 0 /\ value(r, d) = rows[r].key
       /\ d = 1 => IsRoot(rows, r)
       /\ d > 1 => \E s \in RowId :
             /\ rows[s].key = rows[r].parent /\ DepthOf(s) = d - 1
             /\ \A n \in 1..d - 1 : value(s, n) = value(r, n)

\* Rows that qualify are served as the tree they are, once their levels were
\* computed to the end: every row under its parent, no level left from a deeper
\* tree, an interrupted server or rows that were placed elsewhere.  The two tools
\* decide separately what a root is and how deep a tree may be.
QualifiedTreesAreServed ==
    (server = "up" /\ built = {rows} /\ Qualifies(rows)) =>
       /\ \A r \in RowId : IsPlaced(r)
       /\ \A n \in DOMAIN levels : \E r \in RowId : column[levels[n]][r] # Null
=============================================================================
