--------------------------- MODULE ParentChildProofs ---------------------------
(* A parent-child dimension whose rows qualify is served as the tree it is.     *)
(*                                                                              *)
(* First the mathematics of the walk from the roots: where rows qualify, every  *)
(* row is reached by exactly one path, and a parent by the path without its     *)
(* last step.  Then the program: how far the statements of a writing server     *)
(* have brought the columns.                                                    *)
EXTENDS ParentChild, Counting

------------------------------------------------------------------------------
(* The walk.                                                                    *)

\* The paths of the walk, and the row one leads to.
LEMMA Paths ==
  ASSUME NEW t, NEW depth \in Nat
  PROVE  \A p : p \in Walk(t, depth) <=>
            \E n \in 1..depth :
               /\ p \in [1..n -> RowId] /\ Len(p) = n
               /\ IsRoot(t, p[1])
               /\ \A i \in 2..n : t[p[i]].parent = t[p[i - 1]].key /\ t[p[i]].parent # Null
<1>1. \A n \in Nat : \A p \in [1..n -> RowId] : Len(p) = n
  OBVIOUS
<1> QED
  BY <1>1 DEF Walk

Last(p) == p[Len(p)]

LEMMA PathType ==
  ASSUME NEW t, NEW depth \in Nat, NEW p \in Walk(t, depth)
  PROVE  /\ Len(p) \in 1..depth /\ p \in [1..Len(p) -> RowId] /\ Last(p) \in RowId
         /\ IsRoot(t, p[1])
         /\ \A i \in 2..Len(p) : t[p[i]].parent = t[p[i - 1]].key /\ t[p[i]].parent # Null
BY Paths DEF Last

LEMMA HeightIsGreatest ==
  ASSUME NEW t, NEW depth \in Nat
  PROVE  LET W == Walk(t, depth) IN
         /\ Height(W) \in Nat
         /\ \A p \in W : Len(p) <= Height(W)
         /\ W # {} => \E p \in W : Len(p) = Height(W)
<1> DEFINE W == Walk(t, depth)
           Lengths == {Len(p) : p \in W}
<1>1. CASE W = {}
  BY <1>1 DEF Height
<1>2. CASE W # {}
  <2>1. \A p \in W : Len(p) \in Nat /\ Len(p) <= depth
    BY PathType
  <2>2. Lengths \in SUBSET Nat /\ Lengths # {} /\ \A n \in Lengths : n <= depth
    BY <1>2, <2>1
  <2>3. \E n \in Lengths : \A m \in Lengths : m <= n
    BY <2>2, GreatestOf
  <2>4. \E n \in Lengths : \A p \in W : Len(p) <= n
    BY <2>3
  <2>5. Height(W) = CHOOSE n \in Lengths : \A p \in W : Len(p) <= n
    BY <1>2 DEF Height
  <2>6. Height(W) \in Lengths /\ \A p \in W : Len(p) <= Height(W)
    BY <2>4, <2>5
  <2> QED
    BY <2>2, <2>6
<1> QED
  BY <1>1, <1>2

\* A path is walked by a shorter walk exactly when it is short enough.
LEMMA WalksNest ==
  ASSUME NEW t, NEW d \in Nat, NEW p
  PROVE  p \in Walk(t, d) <=> p \in Walk(t, d + 1) /\ Len(p) <= d
<1>1. d + 1 \in Nat
  OBVIOUS
<1>2. ASSUME p \in Walk(t, d) PROVE p \in Walk(t, d + 1) /\ Len(p) <= d
  BY <1>1, <1>2, Paths
<1>3. ASSUME p \in Walk(t, d + 1), Len(p) <= d PROVE p \in Walk(t, d)
  BY <1>1, <1>3, Paths
<1> QED
  BY <1>2, <1>3

\* Rows that qualify are walked to the end, and none is its own parent.
LEMMA WalkedToTheEnd ==
  ASSUME NEW t, Qualifies(t)
  PROVE  /\ Walk(t, MaxDepth + 1) = Walk(t, MaxDepth)
         /\ \A r \in RowId : t[r].parent # t[r].key
<1> USE DepthAssumption
<1>0. MaxDepth + 1 \in Nat
  OBVIOUS
<1>1. \A p \in Walk(t, MaxDepth + 1) : Len(p) <= MaxDepth
  BY <1>0, HeightIsGreatest, PathType DEF Qualifies
<1>2. Walk(t, MaxDepth + 1) = Walk(t, MaxDepth)
  BY <1>1, WalksNest
<1>3. \A r \in RowId : t[r].parent # t[r].key
  <2> SUFFICES ASSUME NEW r \in RowId, t[r].parent = t[r].key PROVE FALSE
    OBVIOUS
  <2> DEFINE p == [i \in 1..MaxDepth + 1 |-> r]
  <2>1. p \in [1..MaxDepth + 1 -> RowId] /\ Len(p) = MaxDepth + 1
    OBVIOUS
  <2>2. IsRoot(t, p[1])
    BY DEF IsRoot
  <2>3. \A i \in 2..MaxDepth + 1 : t[p[i]].parent = t[p[i - 1]].key /\ t[p[i]].parent # Null
    BY DEF Qualifies
  <2>4. p \in Walk(t, MaxDepth + 1)
    BY <1>0, <2>1, <2>2, <2>3, Paths
  <2> QED
    BY <1>1, <2>1, <2>4
<1> QED
  BY <1>2, <1>3

\* Two paths to one row are one path: their steps agree from the last backwards.
LEMMA OnePathEach ==
  ASSUME NEW t, Qualifies(t), NEW p \in Walk(t, MaxDepth), NEW q \in Walk(t, MaxDepth),
         Last(p) = Last(q)
  PROVE  p = q
<1> USE DepthAssumption
<1> DEFINE P == Len(p)
           Q == Len(q)
<1>0. /\ P \in Nat /\ P > 0 /\ p \in [1..P -> RowId]
      /\ Q \in Nat /\ Q > 0 /\ q \in [1..Q -> RowId]
      /\ IsRoot(t, p[1]) /\ IsRoot(t, q[1])
      /\ \A i \in 2..P : t[p[i]].parent = t[p[i - 1]].key /\ t[p[i]].parent # Null
      /\ \A i \in 2..Q : t[q[i]].parent = t[q[i - 1]].key /\ t[q[i]].parent # Null
      /\ p[P] = q[Q]
  BY PathType DEF Last
<1> HIDE DEF P, Q
<1>1. \A j \in Nat : j < P /\ j < Q => p[P - j] = q[Q - j]
  <2> DEFINE Apart == {j \in Nat : j < P /\ j < Q /\ p[P - j] # q[Q - j]}
  <2> SUFFICES ASSUME Apart # {} PROVE FALSE
    OBVIOUS
  <2>1. PICK j \in Apart : \A k \in Apart : j <= k
    BY LeastOf
  <2>2. j # 0
    BY <1>0, <2>1
  <2>3. j - 1 \in Nat /\ j - 1 \notin Apart
    BY <2>1, <2>2
  <2>4. p[P - (j - 1)] = q[Q - (j - 1)]
    BY <1>0, <2>1, <2>3
  <2>5. /\ P - (j - 1) \in 2..P /\ Q - (j - 1) \in 2..Q
        /\ (P - (j - 1)) - 1 = P - j /\ (Q - (j - 1)) - 1 = Q - j
        /\ P - j \in 1..P /\ Q - j \in 1..Q
    BY <1>0, <2>1, <2>2
  <2>6. t[p[P - j]].key = t[q[Q - j]].key
    BY <1>0, <2>4, <2>5
  <2>7. p[P - j] = q[Q - j]
    BY <1>0, <2>5, <2>6 DEF Qualifies
  <2> QED
    BY <2>1, <2>7
<1>2. ~(P < Q)
  <2> SUFFICES ASSUME P < Q PROVE FALSE
    OBVIOUS
  <2>0. P - 1 \in Nat /\ P - 1 < P /\ P - 1 < Q
    BY <1>0
  <2>1. p[P - (P - 1)] = q[Q - (P - 1)] /\ P - (P - 1) = 1 /\ Q - (P - 1) \in 2..Q
    <3>1. p[P - (P - 1)] = q[Q - (P - 1)]
      BY <1>1, <2>0
    <3> QED
      BY <1>0, <2>0, <3>1
  <2>2. t[p[1]].parent = Null
    BY <1>0, WalkedToTheEnd DEF IsRoot
  <2> QED
    BY <1>0, <2>1, <2>2
<1>3. ~(Q < P)
  <2> SUFFICES ASSUME Q < P PROVE FALSE
    OBVIOUS
  <2>0. Q - 1 \in Nat /\ Q - 1 < P /\ Q - 1 < Q
    BY <1>0
  <2>1. p[P - (Q - 1)] = q[Q - (Q - 1)] /\ Q - (Q - 1) = 1 /\ P - (Q - 1) \in 2..P
    <3>1. p[P - (Q - 1)] = q[Q - (Q - 1)]
      BY <1>1, <2>0
    <3> QED
      BY <1>0, <2>0, <3>1
  <2>2. t[q[1]].parent = Null
    BY <1>0, WalkedToTheEnd DEF IsRoot
  <2> QED
    BY <1>0, <2>1, <2>2
<1>4. P = Q
  BY <1>0, <1>2, <1>3
<1>5. \A i \in 1..P : p[i] = q[i]
  <2> TAKE i \in 1..P
  <2>1. P - i \in Nat /\ P - i < P /\ P - (P - i) = i
    BY <1>0
  <2> QED
    BY <1>1, <1>4, <2>1
<1> QED
  BY <1>0, <1>4, <1>5

\* As many paths as rows, so one to every row.
LEMMA EveryRowReached ==
  ASSUME NEW t, Qualifies(t), NEW r \in RowId
  PROVE  \E p \in Walk(t, MaxDepth) : Last(p) = r
<1> USE DepthAssumption
<1> DEFINE W == Walk(t, MaxDepth)
           to == [p \in W |-> Last(p)]
<1>1. to \in [W -> RowId]
  BY PathType
<1>2. \A p, q \in W : to[p] = to[q] => p = q
  BY OnePathEach
<1>3. to \in Injection(W, RowId)
  BY <1>1, <1>2 DEF Injection, IsInjective
<1>4. Cardinality(W) >= Cardinality(RowId)
  BY WalkedToTheEnd DEF Qualifies
<1>5. Cardinality(W) = Cardinality(RowId)
  <2>1. IsFiniteSet(W) /\ Cardinality(W) <= Cardinality(RowId)
    BY <1>3, RowsAssumption, FS_Injection
  <2>2. Cardinality(W) \in Nat /\ Cardinality(RowId) \in Nat
    BY <2>1, RowsAssumption, FS_CardinalityType
  <2> QED
    BY <1>4, <2>1, <2>2
<1>6. to \in Surjection(W, RowId)
  BY <1>3, <1>5, RowsAssumption, FS_Injection
<1> QED
  BY <1>6 DEF Surjection

\* Without its last step a path leads to the parent.
LEMMA PathOfParent ==
  ASSUME NEW t, NEW depth \in Nat, NEW p \in Walk(t, depth), Len(p) > 1
  PROVE  LET q == [i \in 1..Len(p) - 1 |-> p[i]] IN
         /\ q \in Walk(t, depth) /\ Len(q) = Len(p) - 1
         /\ t[Last(q)].key = t[Last(p)].parent
<1> DEFINE n == Len(p) - 1
           q == [i \in 1..n |-> p[i]]
<1>1. /\ Len(p) \in 1..depth /\ p \in [1..Len(p) -> RowId] /\ IsRoot(t, p[1])
      /\ \A i \in 2..Len(p) : t[p[i]].parent = t[p[i - 1]].key /\ t[p[i]].parent # Null
  BY PathType
<1>2. n \in 1..depth /\ q \in [1..n -> RowId] /\ Len(q) = n
  BY <1>1
<1>3. IsRoot(t, q[1])
  BY <1>1, <1>2
<1>4. \A i \in 2..n : t[q[i]].parent = t[q[i - 1]].key /\ t[q[i]].parent # Null
  BY <1>1, <1>2
<1>5. q \in Walk(t, depth)
  BY <1>2, <1>3, <1>4, Paths
<1>6. t[Last(q)].key = t[Last(p)].parent
  BY <1>1, <1>2 DEF Last
<1> QED
  BY <1>2, <1>5, <1>6
------------------------------------------------------------------------------
(* The columns.                                                                 *)

WholeWalk(t) == Walk(t, MaxDepth)
Deepest(t) == Height(WholeWalk(t))

\* A column as the rows give it: every row that is reached has the key of the row
\* that is n steps down on some path to it.
FilledFrom(t, n) ==
    \A r \in RowId :
       LET found == {p \in WholeWalk(t) : t[Last(p)].key = t[r].key /\ t[r].key # Null}
       IN found # {} => \E p \in found : column[n][r] = IF n <= Len(p) THEN t[p[n]].key ELSE Null

Complete(t) ==
    /\ hasDepth
    /\ DOMAIN column = 1..Deepest(t)
    /\ \A n \in DOMAIN column : FilledFrom(t, n)

\* The statements of a writing server, by their number, for levels down to h.
PlanAt(k, h) ==
    IF k = 1 THEN [do |-> "depth", number |-> 0]
    ELSE IF k = 2 THEN [do |-> "drop", number |-> h]
    ELSE [do |-> IF k % 2 = 1 THEN "add" ELSE "fill", number |-> (k - 1) \div 2]

\* k statements have run: the first two cleared the way, and column n is there
\* after statement 2n + 1 and filled after statement 2n + 2.
Written(k, h, t) ==
    /\ todo = [i \in 1..(2 * h + 2) - k |-> PlanAt(k + i, h)]
    /\ k >= 1 => hasDepth
    /\ k >= 2 => DOMAIN column \subseteq 1..h
    /\ \A n \in 1..h : 2 * n + 1 <= k => n \in DOMAIN column
    /\ \A n \in 1..h : 2 * n + 2 <= k => FilledFrom(t, n)

TreeInv ==
    /\ server \in {"down", "writing", "up"}
    /\ DOMAIN column \subseteq Nat \ {0}
    /\ server = "writing" =>
         /\ walked = WholeWalk(rows) /\ built = {}
         /\ \E k \in 0..2 * Deepest(rows) + 2 : Written(k, Deepest(rows), rows)
    /\ \A t \in built : built = {t} /\ Complete(t)
    /\ server = "up" => \A t \in built : levels = [n \in 1..Deepest(t) |-> n]

LEMMA DeepestType == \A t : Deepest(t) \in Nat
BY DepthAssumption, HeightIsGreatest DEF Deepest, WholeWalk

\* Numbers in order, as many as there are, are all the numbers.
LEMMA InOrder ==
  ASSUME NEW h \in Nat, NEW s \in [1..h -> 1..h], \A i, j \in 1..h : i < j => s[i] < s[j]
  PROVE  s = [n \in 1..h |-> n]
<1>1. \A i \in 1..h : s[i] >= i
  <2> DEFINE Short == {i \in 1..h : s[i] < i}
  <2> SUFFICES ASSUME Short # {} PROVE FALSE
    OBVIOUS
  <2>1. PICK i \in Short : \A j \in Short : i <= j
    <3>1. Short \in SUBSET Nat
      OBVIOUS
    <3> QED
      BY <3>1, LeastOf
  <2>2. i - 1 \in 1..h /\ i - 1 \notin Short
    BY <2>1
  <2>3. s[i - 1] < s[i] /\ s[i - 1] >= i - 1 /\ s[i - 1] \in Int /\ s[i] \in Int
    BY <2>1, <2>2
  <2> QED
    BY <2>1, <2>3
<1>2. \A i \in 1..h : s[i] <= i
  <2> DEFINE Long == {k \in 0..h - 1 : s[h - k] > h - k}
  <2> SUFFICES ASSUME Long # {} PROVE FALSE
    <3> TAKE i \in 1..h
    <3>1. h - i \in 0..h - 1 /\ h - (h - i) = i /\ s[i] \in Int
      OBVIOUS
    <3>2. h - i \notin Long
      OBVIOUS
    <3> QED
      BY <3>1, <3>2
  <2>1. PICK k \in Long : \A j \in Long : k <= j
    <3>1. Long \in SUBSET Nat
      OBVIOUS
    <3> QED
      BY <3>1, LeastOf
  <2>2. k # 0
    BY <2>1
  <2>3. k - 1 \in 0..h - 1 /\ k - 1 \notin Long /\ h - (k - 1) = (h - k) + 1
    <3>1. k \in 0..h - 1 /\ h - (k - 1) = (h - k) + 1
      BY <2>1
    <3>2. k - 1 \in 0..h - 1
      BY <2>2, <3>1
    <3>3. k - 1 \in Long => k <= k - 1
      <4> HIDE DEF Long
      <4> QED
        BY <2>1
    <3>4. ~(k <= k - 1)
      BY <3>1
    <3> QED
      BY <3>1, <3>2, <3>3, <3>4
  <2>4. /\ s[h - k] < s[(h - k) + 1] /\ s[(h - k) + 1] <= (h - k) + 1
        /\ s[h - k] \in Int /\ s[(h - k) + 1] \in Int
    BY <2>1, <2>2, <2>3
  <2> QED
    BY <2>1, <2>4
<1>3. \A i \in 1..h : s[i] = i
  BY <1>1, <1>2
<1> QED
  BY <1>3

\* What was computed to the end is what a later server reads back.
LEMMA ReadBack ==
  ASSUME NEW t, Complete(t)
  PROVE  read_materialized_parent_child = [n \in 1..Deepest(t) |-> n]
<1> DEFINE h == Deepest(t)
           Ordered(s) == \A i, j \in DOMAIN s : i < j => s[i] < s[j]
<1>1. h \in Nat
  BY DeepestType
<1> HIDE DEF h
<1>2. hasDepth /\ DOMAIN column = 1..h /\ Cardinality(1..h) = h
  <2>1. Cardinality(1..h) = h
    BY <1>1, FS_Interval
  <2> QED
    BY <2>1 DEF Complete, h
<1>3. [n \in 1..h |-> n] \in [1..h -> 1..h] /\ Ordered([n \in 1..h |-> n])
  BY <1>1
<1>4. read_materialized_parent_child = CHOOSE s \in [1..h -> 1..h] : Ordered(s)
  BY <1>2 DEF read_materialized_parent_child
<1>5. /\ read_materialized_parent_child \in [1..h -> 1..h]
      /\ Ordered(read_materialized_parent_child)
  BY <1>3, <1>4
<1> HIDE DEF read_materialized_parent_child
<1>6. read_materialized_parent_child = [n \in 1..h |-> n]
  BY <1>1, <1>5, InOrder
<1> QED
  BY <1>6 DEF h
------------------------------------------------------------------------------
(* What complete columns show.                                                  *)

\* With complete columns over rows that qualify, the levels of a row are the keys
\* on its path.
LEMMA LevelsOfARow ==
  ASSUME NEW t, Complete(t), Qualifies(t), NEW r \in RowId
  PROVE  \E p \in WholeWalk(t) :
            /\ Last(p) = r /\ Len(p) \in 1..Deepest(t) /\ p \in [1..Len(p) -> RowId]
            /\ \A n \in 1..Deepest(t) :
                  column[n][r] = IF n <= Len(p) THEN t[p[n]].key ELSE Null
<1> USE DepthAssumption DEF WholeWalk
<1>1. PICK p \in WholeWalk(t) : Last(p) = r
  BY EveryRowReached
<1>2. Len(p) \in 1..Deepest(t) /\ p \in [1..Len(p) -> RowId]
  BY PathType, HeightIsGreatest DEF Deepest
<1>3. \A q \in WholeWalk(t) : t[Last(q)].key = t[r].key => q = p
  BY <1>1, PathType, OnePathEach DEF Qualifies
<1>4. t[Last(p)].key = t[r].key /\ t[r].key # Null
  BY <1>1 DEF Qualifies
<1>5. ASSUME NEW n \in 1..Deepest(t)
      PROVE  column[n][r] = IF n <= Len(p) THEN t[p[n]].key ELSE Null
  <2> DEFINE found == {q \in WholeWalk(t) : t[Last(q)].key = t[r].key /\ t[r].key # Null}
  <2>1. found # {} => \E q \in found : column[n][r] = IF n <= Len(q) THEN t[q[n]].key ELSE Null
    BY DEF Complete, FilledFrom
  <2>2. found = {p}
    BY <1>3, <1>4
  <2> QED
    BY <2>1, <2>2
<1> QED
  BY <1>1, <1>2, <1>5

LEMMA ServedAsTheTree ==
  ASSUME Complete(rows), Qualifies(rows), DOMAIN levels = 1..Deepest(rows),
         \A n \in 1..Deepest(rows) : levels[n] = n
  PROVE  /\ \A r \in RowId : IsPlaced(r)
         /\ \A n \in DOMAIN levels : \E r \in RowId : column[levels[n]][r] # Null
<1> DEFINE h == Deepest(rows)
<1> USE DepthAssumption
<1>1. h \in Nat
  BY DeepestType
<1>2. \A n \in 1..h : levels[n] = n
  OBVIOUS
<1>3. DOMAIN levels = 1..h
  OBVIOUS
<1> HIDE DEF h
<1> DEFINE Leads(p, r) ==
             /\ p \in WholeWalk(rows)
             /\ Last(p) = r /\ Len(p) \in 1..h /\ p \in [1..Len(p) -> RowId]
             /\ \A n \in 1..h : column[n][r] = IF n <= Len(p) THEN rows[p[n]].key ELSE Null
<1>4. \A r \in RowId : \E p : Leads(p, r)
  BY LevelsOfARow DEF h
<1>5. ASSUME NEW r \in RowId, NEW p, Leads(p, r) PROVE DepthOf(r) = Len(p)
  <2>1. \A n \in 1..h : column[levels[n]][r] # Null <=> n <= Len(p)
    BY <1>2, <1>5 DEF Qualifies
  <2>2. {n \in DOMAIN levels : column[levels[n]][r] # Null} = 1..Len(p)
    <3>1. {n \in 1..h : column[levels[n]][r] # Null} = {n \in 1..h : n <= Len(p)}
      BY <2>1
    <3>2. {n \in 1..h : n <= Len(p)} = 1..Len(p)
      BY <1>1, <1>5
    <3> QED
      BY <1>3, <3>1, <3>2
  <2>3. Cardinality(1..Len(p)) = Len(p)
    <3>1. Len(p) \in Int /\ Len(p) >= 1
      BY <1>1, <1>5
    <3> QED
      BY <3>1, FS_Interval
  <2> QED
    BY <2>2, <2>3 DEF DepthOf
<1>6. ASSUME NEW r \in RowId PROVE IsPlaced(r)
  <2>1. PICK p : Leads(p, r)
    BY <1>4
  <2> DEFINE d == Len(p)
  <2>2. DepthOf(r) = d /\ d \in 1..h
    BY <1>5, <2>1
  <2>3. column[levels[d]][r] = rows[r].key
    BY <1>2, <2>1 DEF Last
  <2>4. d = 1 => IsRoot(rows, r)
    BY <2>1, PathType DEF WholeWalk, Last
  <2>5. ASSUME d > 1
        PROVE  \E s \in RowId :
                  /\ rows[s].key = rows[r].parent /\ DepthOf(s) = d - 1
                  /\ \A n \in 1..d - 1 : column[levels[n]][s] = column[levels[n]][r]
    <3> DEFINE q == [i \in 1..d - 1 |-> p[i]]
    <3>1. /\ q \in WholeWalk(rows) /\ Len(q) = d - 1
          /\ rows[Last(q)].key = rows[r].parent
      BY <2>1, <2>5, PathOfParent DEF WholeWalk
    <3>2. Last(q) \in RowId
      BY <3>1, PathType DEF WholeWalk
    <3>3. PICK q2 : Leads(q2, Last(q))
      BY <1>4, <3>2
    <3>4. q2 = q
      BY <3>1, <3>3, OnePathEach DEF WholeWalk
    <3>5. DepthOf(Last(q)) = d - 1
      BY <1>5, <3>1, <3>2, <3>3, <3>4
    <3>6. ASSUME NEW n \in 1..d - 1
          PROVE  column[levels[n]][Last(q)] = column[levels[n]][r]
      <4>1. n \in 1..h /\ n <= Len(q) /\ n <= Len(p) /\ q[n] = p[n]
        BY <1>1, <2>2, <3>1
      <4>2. column[n][Last(q)] = rows[q[n]].key
        BY <3>3, <3>4, <4>1
      <4>3. column[n][r] = rows[p[n]].key
        BY <2>1, <4>1
      <4> QED
        BY <1>2, <4>1, <4>2, <4>3
    <3> QED
      BY <3>1, <3>2, <3>5, <3>6
  <2> HIDE DEF d
  <2> QED
    BY <2>2, <2>3, <2>4, <2>5 DEF IsPlaced
<1>7. ASSUME NEW n \in 1..h PROVE \E r \in RowId : column[levels[n]][r] # Null
  <2>1. PICK p \in WholeWalk(rows) : Len(p) = h
    <3>1. h > 0
      BY <1>1, <1>3
    <3>2. WholeWalk(rows) # {}
      BY <3>1 DEF h, Deepest, Height
    <3> QED
      BY <3>2, HeightIsGreatest DEF h, Deepest, WholeWalk
  <2>2. Last(p) \in RowId
    BY PathType DEF WholeWalk
  <2>3. PICK q : Leads(q, Last(p))
    BY <1>4, <2>2
  <2>4. q = p
    BY <2>3, OnePathEach DEF WholeWalk
  <2>5. n \in 1..h /\ n <= Len(q) /\ q[n] \in RowId
    BY <1>1, <1>3, <2>1, <2>3, <2>4
  <2>6. column[n][Last(p)] = rows[q[n]].key
    BY <2>3, <2>5
  <2> QED
    BY <1>2, <2>2, <2>5, <2>6 DEF Qualifies
<1> QED
  BY <1>3, <1>6, <1>7
------------------------------------------------------------------------------
(* The statements of a writing server.                                          *)

\* Which statement stands where.
LEMMA PlanEntries ==
  ASSUME NEW h \in Nat, NEW k \in 1..2 * h + 2
  PROVE  LET s == PlanAt(k, h) IN
         \/ k = 1 /\ s.do = "depth"
         \/ k = 2 /\ s.do = "drop" /\ s.number = h
         \/ s.do = "add" /\ s.number \in 1..h /\ k = 2 * s.number + 1
         \/ s.do = "fill" /\ s.number \in 1..h /\ k = 2 * s.number + 2
<1>1. CASE k \in {1, 2}
  BY <1>1 DEF PlanAt
<1>2. CASE k > 2 /\ k % 2 = 1
  <2>1. (k - 1) \div 2 \in 1..h /\ k = 2 * ((k - 1) \div 2) + 1
    BY <1>2
  <2> QED
    BY <1>2, <2>1 DEF PlanAt
<1>3. CASE k > 2 /\ k % 2 # 1
  <2>1. (k - 1) \div 2 \in 1..h /\ k = 2 * ((k - 1) \div 2) + 2
    BY <1>3
  <2> QED
    BY <1>3, <2>1 DEF PlanAt
<1> QED
  BY <1>1, <1>2, <1>3

LEMMA TailOfTuple ==
  ASSUME NEW m \in Nat \ {0}, NEW S, NEW s \in [1..m -> S]
  PROVE  Head(s) = s[1] /\ Tail(s) = [i \in 1..m - 1 |-> s[i + 1]]
<1>1. s \in Seq(S) /\ Len(s) = m /\ s # <<>>
  OBVIOUS
<1>2. Head(s) = s[1]
  BY <1>1
<1>3. Tail(s) \in Seq(S) /\ Len(Tail(s)) = m - 1 /\ \A i \in 1..m - 1 : Tail(s)[i] = s[i + 1]
  BY <1>1
<1>4. ASSUME NEW u \in Seq(S), Len(u) = m - 1, \A i \in 1..m - 1 : u[i] = s[i + 1]
      PROVE  u = [i \in 1..m - 1 |-> s[i + 1]]
  <2>1. u = [i \in 1..m - 1 |-> u[i]]
    BY <1>4
  <2> QED
    BY <1>4, <2>1
<1>5. Tail(s) = [i \in 1..m - 1 |-> s[i + 1]]
  BY <1>3, <1>4
<1> QED
  BY <1>2, <1>5

\* The first of them is the next, and the others stay.
LEMMA PlanAdvances ==
  ASSUME NEW h \in Nat, NEW k \in 0..2 * h + 2, todo # <<>>,
         todo = [i \in 1..(2 * h + 2) - k |-> PlanAt(k + i, h)]
  PROVE  /\ k + 1 \in 1..2 * h + 2 /\ Head(todo) = PlanAt(k + 1, h)
         /\ Tail(todo) = [i \in 1..(2 * h + 2) - (k + 1) |-> PlanAt((k + 1) + i, h)]
<1> DEFINE m == (2 * h + 2) - k
<1>1. m \in Nat /\ (2 * h + 2) - (k + 1) = m - 1
  OBVIOUS
<1>2. m # 0
  <2> SUFFICES ASSUME m = 0 PROVE FALSE
    OBVIOUS
  <2>1. todo = [i \in 1..0 |-> PlanAt(k + i, h)]
    OBVIOUS
  <2> QED
    BY <2>1
<1>3. todo \in [1..m -> {PlanAt(k + i, h) : i \in 1..m}]
  OBVIOUS
<1> HIDE DEF m
<1>4. Head(todo) = todo[1] /\ Tail(todo) = [i \in 1..m - 1 |-> todo[i + 1]]
  BY <1>1, <1>2, <1>3, TailOfTuple
<1>5. Head(todo) = PlanAt(k + 1, h)
  BY <1>1, <1>2, <1>4 DEF m
<1>6. \A i \in 1..m - 1 : todo[i + 1] = PlanAt((k + 1) + i, h)
  <2> TAKE i \in 1..m - 1
  <2>1. i + 1 \in 1..m /\ k + (i + 1) = (k + 1) + i
    BY <1>1
  <2> QED
    BY <2>1 DEF m
<1> QED
  BY <1>1, <1>2, <1>4, <1>5, <1>6 DEF m
\* The fill of column n, and what it leaves of the others.
LEMMA FillStep ==
  ASSUME NEW t, NEW n, NEW filled, n \in DOMAIN column, rows = t, walked = WholeWalk(t),
         FillsColumn(n, filled), column' = [column EXCEPT ![n] = filled]
  PROVE  /\ DOMAIN column' = DOMAIN column
         /\ FilledFrom(t, n)'
         /\ \A m \in DOMAIN column : m # n => column'[m] = column[m]
<1>1. column'[n] = filled
  OBVIOUS
<1>2. ASSUME NEW r \in RowId,
             {p \in WholeWalk(t) : t[Last(p)].key = t[r].key /\ t[r].key # Null} # {}
      PROVE  \E p \in {q \in WholeWalk(t) : t[Last(q)].key = t[r].key /\ t[r].key # Null} :
                filled[r] = IF n <= Len(p) THEN t[p[n]].key ELSE Null
  BY <1>2 DEF FillsColumn, KeyAt, Last
<1> QED
  BY <1>1, <1>2 DEF FilledFrom

\* How far a server has come is told by what the statement left.
LEMMA WrittenNext ==
  ASSUME NEW t, NEW h \in Nat, NEW k \in 0..2 * h + 2,
         todo' = [i \in 1..(2 * h + 2) - k |-> PlanAt(k + i, h)],
         k >= 1 => hasDepth',
         k >= 2 => DOMAIN column' \subseteq 1..h,
         \A n \in 1..h : 2 * n + 1 <= k => n \in DOMAIN column',
         \A n \in 1..h : 2 * n + 2 <= k => FilledFrom(t, n)'
  PROVE  Written(k, h, t)'
BY DEF Written

\* A column that stays holds what it held.
LEMMA FilledStays ==
  ASSUME NEW t, NEW n, column'[n] = column[n], FilledFrom(t, n)
  PROVE  FilledFrom(t, n)'
BY DEF FilledFrom

LEMMA StatementKeepsTreeInv == TreeInv /\ Statement => TreeInv'
<1> SUFFICES ASSUME TreeInv, Statement PROVE TreeInv'
  OBVIOUS
<1>0. PICK t, s : t = rows /\ s = Head(todo)
  OBVIOUS
<1>1. PICK h \in Nat : h = Deepest(t)
  BY DeepestType
<1>2. PICK k \in 0..2 * h + 2 : Written(k, h, t)
  BY <1>0, <1>1 DEF TreeInv, Statement
<1>3. /\ server = "writing" /\ todo # <<>> /\ walked = WholeWalk(t) /\ built = {}
      /\ rows' = t /\ UNCHANGED <<server, walked, levels, built>>
      /\ DOMAIN column \subseteq Nat \ {0}
  BY <1>0 DEF TreeInv, Statement
<1>4. /\ k + 1 \in 1..2 * h + 2 /\ s = PlanAt(k + 1, h)
      /\ Tail(todo) = [i \in 1..(2 * h + 2) - (k + 1) |-> PlanAt((k + 1) + i, h)]
  BY <1>0, <1>1, <1>2, <1>3, PlanAdvances DEF Written
<1>5. /\ k >= 1 => hasDepth
      /\ k >= 2 => DOMAIN column \subseteq 1..h
      /\ \A n \in 1..h : 2 * n + 1 <= k => n \in DOMAIN column
      /\ \A n \in 1..h : 2 * n + 2 <= k => FilledFrom(t, n)
  BY <1>2 DEF Written
<1>6. SUFFICES /\ DOMAIN column' \subseteq Nat \ {0}
               /\ \E j \in 0..2 * h + 2 : Written(j, h, t)'
  BY <1>1, <1>3 DEF TreeInv
<1>7. \/ k + 1 = 1 /\ s.do = "depth"
      \/ k + 1 = 2 /\ s.do = "drop" /\ s.number = h
      \/ s.do = "add" /\ s.number \in 1..h /\ k + 1 = 2 * s.number + 1
      \/ s.do = "fill" /\ s.number \in 1..h /\ k + 1 = 2 * s.number + 2
  BY <1>1, <1>4, PlanEntries
<1>8. CASE s.do = "depth"
  <2>1. k = 0 /\ hasDepth' /\ column' = column /\ todo' = Tail(todo)
    <3>1. k = 0
      BY <1>2, <1>7, <1>8
    <3>2. hasDepth' = TRUE /\ column' = column /\ todo' = Tail(todo)
      BY <1>0, <1>8 DEF Statement
    <3> QED
      BY <3>1, <3>2
  <2>2. Written(1, h, t)'
    <3>1. todo' = [i \in 1..(2 * h + 2) - 1 |-> PlanAt(1 + i, h)]
      BY <1>4, <2>1
    <3>2. /\ 1 \in 0..2 * h + 2
          /\ \A n \in 1..h : ~(2 * n + 1 <= 1) /\ ~(2 * n + 2 <= 1)
      BY <1>1
    <3>3. hasDepth'
      BY <2>1
    <3> QED
      BY <3>1, <3>2, <3>3 DEF Written
  <2>3. 1 \in 0..2 * h + 2 /\ DOMAIN column' \subseteq Nat \ {0}
    BY <1>1, <1>3, <2>1
  <2> QED
    BY <2>2, <2>3
<1>9. CASE s.do = "drop"
  <2>1. k = 1 /\ s.number = h
    BY <1>2, <1>7, <1>9
  <2>2. \A n \in 1..h : ~(2 * n + 1 <= 1) /\ ~(2 * n + 2 <= 1) /\ ~(2 * n + 1 <= 2) /\ ~(2 * n + 2 <= 2)
    BY <1>1
  <2>3. CASE Deeper(h) = {} /\ UNCHANGED <<column, hasDepth>> /\ todo' = Tail(todo)
    <3>1. DOMAIN column' \subseteq 1..h
      BY <1>1, <1>3, <2>3 DEF Deeper
    <3>2. todo' = [i \in 1..(2 * h + 2) - 2 |-> PlanAt(2 + i, h)]
      BY <1>4, <2>1, <2>3
    <3>3. 2 \in 0..2 * h + 2 /\ hasDepth'
      BY <1>1, <1>5, <2>1, <2>3
    <3>4. Written(2, h, t)'
      BY <2>2, <3>1, <3>2, <3>3, WrittenNext
    <3> QED
      BY <1>1, <1>3, <2>3, <3>3, <3>4
  <2>4. ASSUME NEW n \in Deeper(h), column' = [m \in DOMAIN column \ {n} |-> column[m]],
               UNCHANGED <<hasDepth, todo>>
        PROVE  /\ DOMAIN column' \subseteq Nat \ {0}
               /\ \E j \in 0..2 * h + 2 : Written(j, h, t)'
    <3>1. todo' = [i \in 1..(2 * h + 2) - 1 |-> PlanAt(1 + i, h)]
      BY <1>2, <2>1, <2>4 DEF Written
    <3>2. 1 \in 0..2 * h + 2 /\ hasDepth'
      BY <1>1, <1>5, <2>1, <2>4
    <3>3. Written(1, h, t)'
      BY <2>2, <3>1, <3>2 DEF Written
    <3> QED
      BY <1>3, <2>4, <3>2, <3>3
  <2> QED
    BY <1>0, <1>9, <2>1, <2>3, <2>4 DEF Statement
<1>10. CASE s.do = "add"
  <2>1. PICK n \in 1..h : n = s.number /\ k + 1 = 2 * n + 1
    BY <1>7, <1>10
  <2>2. /\ hasDepth' = hasDepth /\ todo' = Tail(todo)
        /\ column' = [m \in DOMAIN column \union {n} |->
                        IF m \in DOMAIN column THEN column[m] ELSE [r \in RowId |-> Null]]
    BY <1>0, <1>10, <2>1 DEF Statement
  <2>3. DOMAIN column' = DOMAIN column \union {n} /\ \A m \in DOMAIN column : column'[m] = column[m]
    BY <2>2
  <2>4. k >= 2 /\ k + 1 \in 0..2 * h + 2
    BY <1>1, <1>2, <2>1
  <2>5. DOMAIN column' \subseteq 1..h
    BY <1>5, <2>1, <2>3, <2>4
  <2>6. \A m \in 1..h : 2 * m + 1 <= k + 1 => m \in DOMAIN column'
    BY <1>1, <1>2, <1>5, <2>1, <2>3
  <2>7. ASSUME NEW m \in 1..h, 2 * m + 2 <= k + 1 PROVE FilledFrom(t, m)'
    <3>1. 2 * m + 2 <= k /\ 2 * m + 1 <= k
      BY <1>1, <1>2, <2>1, <2>7
    <3>2. FilledFrom(t, m) /\ m \in DOMAIN column
      BY <1>5, <3>1
    <3> QED
      BY <2>3, <3>2, FilledStays
  <2>8. Written(k + 1, h, t)'
    <3>1. todo' = [i \in 1..(2 * h + 2) - (k + 1) |-> PlanAt((k + 1) + i, h)] /\ hasDepth'
      BY <1>4, <1>5, <2>2, <2>4
    <3> QED
      BY <2>4, <2>5, <2>6, <2>7, <3>1, WrittenNext
  <2> QED
    BY <1>1, <1>3, <2>1, <2>3, <2>4, <2>8
<1>11. CASE s.do = "fill"
  <2>1. PICK n \in 1..h : n = s.number /\ k + 1 = 2 * n + 2
    BY <1>7, <1>11
  <2>2. PICK filled : /\ hasDepth' = hasDepth /\ todo' = Tail(todo)
                      /\ FillsColumn(n, filled) /\ column' = [column EXCEPT ![n] = filled]
    BY <1>0, <1>11, <2>1 DEF Statement
  <2>3. k >= 2 /\ k + 1 \in 0..2 * h + 2 /\ n \in DOMAIN column
    BY <1>1, <1>2, <1>5, <2>1
  <2>4. /\ DOMAIN column' = DOMAIN column /\ FilledFrom(t, n)'
        /\ \A m \in DOMAIN column : m # n => column'[m] = column[m]
    BY <1>0, <1>3, <2>2, <2>3, FillStep
  <2>5. \A m \in 1..h : 2 * m + 1 <= k + 1 => m \in DOMAIN column'
    <3> SUFFICES ASSUME NEW m \in 1..h, 2 * m + 1 <= k + 1 PROVE m \in DOMAIN column'
      OBVIOUS
    <3>1. 2 * m + 1 <= k
      BY <1>1, <1>2, <2>1
    <3> QED
      BY <1>5, <2>4, <3>1
  <2>6. ASSUME NEW m \in 1..h, 2 * m + 2 <= k + 1 PROVE FilledFrom(t, m)'
    <3>1. CASE m = n
      BY <2>4, <3>1
    <3>2. CASE m # n
      <4>1. 2 * m + 2 <= k /\ 2 * m + 1 <= k
        BY <1>1, <1>2, <2>1, <2>6, <3>2
      <4>2. FilledFrom(t, m) /\ m \in DOMAIN column
        BY <1>5, <4>1
      <4> QED
        BY <2>4, <3>2, <4>2, FilledStays
    <3> QED
      BY <3>1, <3>2
  <2>7. Written(k + 1, h, t)'
    <3>1. todo' = [i \in 1..(2 * h + 2) - (k + 1) |-> PlanAt((k + 1) + i, h)] /\ hasDepth'
      BY <1>4, <1>5, <2>2, <2>3
    <3>2. DOMAIN column' \subseteq 1..h
      BY <1>5, <2>3, <2>4
    <3> QED
      BY <2>3, <2>5, <2>6, <3>1, <3>2, WrittenNext
  <2> QED
    BY <1>3, <2>3, <2>4, <2>7
<1> QED
  BY <1>7, <1>8, <1>9, <1>10, <1>11
------------------------------------------------------------------------------
(* The other steps, and the theorem.                                            *)

\* What the invariant reads of the state; a step that leaves it alone keeps it.
LEMMA CompleteStays ==
  ASSUME NEW t, Complete(t), UNCHANGED <<hasDepth, column>>
  PROVE  Complete(t)'
BY DEF Complete, FilledFrom

\* The plan of a server that starts to write is the whole plan.
LEMMA OpenKeepsTreeInv ==
  ASSUME TreeInv, NEW mode, OpenProject(mode)
  PROVE  TreeInv'
<1>0. PICK t : t = rows
  OBVIOUS
<1>1. PICK h \in Nat : h = Deepest(t)
  BY DeepestType
<1>2. /\ server = "down" /\ rows' = t /\ UNCHANGED <<hasDepth, column>>
      /\ DOMAIN column \subseteq Nat \ {0} /\ \A u \in built : built = {u} /\ Complete(u)
  BY <1>0 DEF TreeInv, OpenProject
<1>3. CASE server' = "up"
  <2>1. built' = built /\ levels' = read_materialized_parent_child
    BY <1>3 DEF OpenProject
  <2>2. ASSUME NEW u \in built'
        PROVE  built' = {u} /\ Complete(u)' /\ levels' = [n \in 1..Deepest(u) |-> n]
    <3>1. built' = {u} /\ Complete(u)
      BY <1>2, <2>1, <2>2
    <3> QED
      BY <1>2, <2>1, <3>1, ReadBack, CompleteStays
  <2> QED
    BY <1>2, <1>3, <2>2 DEF TreeInv
<1>4. CASE server' = "writing"
  <2> DEFINE add == [i \in 1..2 * h |-> [do |-> IF i % 2 = 1 THEN "add" ELSE "fill", number |-> (i + 1) \div 2]]
             plan == << [do |-> "depth", number |-> 0], [do |-> "drop", number |-> h] >> \o add
  <2>1. built' = {} /\ walked' = WholeWalk(t) /\ todo' = plan
    BY <1>0, <1>1, <1>4 DEF OpenProject, WholeWalk, Deepest
  <2>2. plan = [i \in 1..2 * h + 2 |-> PlanAt(i, h)]
    <3>1. DOMAIN plan = 1..2 * h + 2 /\ plan = [i \in DOMAIN plan |-> plan[i]]
      OBVIOUS
    <3>2. ASSUME NEW i \in 1..2 * h + 2 PROVE plan[i] = PlanAt(i, h)
      <4>1. CASE i \in {1, 2}
        BY <4>1 DEF PlanAt
      <4>2. CASE i > 2
        <5>1. i - 2 \in 1..2 * h /\ (i - 2) % 2 = i % 2 /\ (i - 2) + 1 = i - 1
          BY <4>2
        <5>2. plan[i] = add[i - 2]
          BY <4>2
        <5> QED
          BY <4>2, <5>1, <5>2 DEF PlanAt
      <4> QED
        BY <4>1, <4>2
    <3> HIDE DEF plan
    <3> QED
      BY <3>1, <3>2
  <2> HIDE DEF plan
  <2>3. Written(0, h, t)'
    <3>1. todo' = [i \in 1..(2 * h + 2) - 0 |-> PlanAt(0 + i, h)]
      BY <2>1, <2>2
    <3>2. /\ ~(0 >= 1) /\ ~(0 >= 2)
          /\ \A n \in 1..h : ~(2 * n + 1 <= 0) /\ ~(2 * n + 2 <= 0)
      BY <1>1
    <3> QED
      BY <3>1, <3>2 DEF Written
  <2>4. 0 \in 0..2 * h + 2
    BY <1>1
  <2> QED
    BY <1>1, <1>2, <1>4, <2>1, <2>3, <2>4 DEF TreeInv
<1> QED
  BY <1>3, <1>4 DEF OpenProject

\* With no statement left, the columns are complete.
LEMMA ReadyKeepsTreeInv == TreeInv /\ Ready => TreeInv'
<1> SUFFICES ASSUME TreeInv, Ready PROVE TreeInv'
  OBVIOUS
<1>0. PICK t : t = rows
  OBVIOUS
<1>1. PICK h \in Nat : h = Deepest(t)
  BY DeepestType
<1>2. PICK k \in 0..2 * h + 2 : Written(k, h, t)
  BY <1>0, <1>1 DEF TreeInv, Ready
<1>3. /\ server' = "up" /\ built' = {t} /\ levels' = [n \in 1..h |-> n]
      /\ UNCHANGED <<hasDepth, column>> /\ DOMAIN column \subseteq Nat \ {0} /\ todo = <<>>
  BY <1>0, <1>1 DEF TreeInv, Ready, Deepest
<1>4. k = 2 * h + 2
  <2>1. todo = [i \in 1..(2 * h + 2) - k |-> PlanAt(k + i, h)]
    BY <1>2 DEF Written
  <2>2. DOMAIN todo = 1..(2 * h + 2) - k /\ DOMAIN todo = {}
    BY <1>3, <2>1
  <2>3. 1 \notin 1..(2 * h + 2) - k
    BY <2>2
  <2>4. (2 * h + 2) - k \in Int /\ (2 * h + 2) - k >= 0
    BY <1>1, <1>2
  <2> QED
    BY <1>1, <1>2, <2>3, <2>4
<1>5. /\ hasDepth /\ DOMAIN column \subseteq 1..h
      /\ \A n \in 1..h : n \in DOMAIN column /\ FilledFrom(t, n)
  <2>1. k >= 1 /\ k >= 2 /\ \A n \in 1..h : 2 * n + 1 <= k /\ 2 * n + 2 <= k
    BY <1>1, <1>4
  <2> QED
    BY <1>2, <2>1 DEF Written
<1>6. Complete(t)
  BY <1>1, <1>5 DEF Complete
<1>7. Complete(t)'
  BY <1>3, <1>6, CompleteStays
<1> QED
  BY <1>1, <1>3, <1>7 DEF TreeInv

LEMMA TreeStep == TreeInv /\ [TreeNext]_treeVars => TreeInv'
<1> SUFFICES ASSUME TreeInv, [TreeNext]_treeVars PROVE TreeInv'
  OBVIOUS
<1>1. ASSUME UNCHANGED <<hasDepth, column, built>>, server' = "down"
      PROVE  TreeInv'
  <2>1. \A u \in built : Complete(u)'
    BY <1>1, CompleteStays DEF TreeInv
  <2> QED
    BY <1>1, <2>1 DEF TreeInv
<1>2. CASE Crash
  BY <1>1, <1>2 DEF Crash
<1>3. CASE Stop
  BY <1>1, <1>3 DEF Stop
<1>4. CASE Change
  BY <1>1, <1>4 DEF Change
<1>5. CASE UNCHANGED treeVars
  <2>1. \A t, n : FilledFrom(t, n)' <=> FilledFrom(t, n)
    BY <1>5 DEF treeVars, FilledFrom
  <2> QED
    BY <1>5, <2>1 DEF treeVars, TreeInv, Complete, Written
<1> QED
  BY <1>2, <1>3, <1>4, <1>5, StatementKeepsTreeInv, ReadyKeepsTreeInv, OpenKeepsTreeInv DEF TreeNext

LEMMA TreeInitInv == TreeInit => TreeInv
BY DEF TreeInit, TreeInv

\* Rows that mallard qualify passes are served as the tree they are, once a server
\* has computed their levels to the end: whichever servers wrote, died, started
\* again or refreshed in between, whatever the rows were before, and however deep.
THEOREM QualifiedRowsAreATree == TreeSpec => []QualifiedTreesAreServed
<1>1. TreeInv => QualifiedTreesAreServed
  <2> SUFFICES ASSUME TreeInv, server = "up", built = {rows}, Qualifies(rows)
               PROVE  /\ \A r \in RowId : IsPlaced(r)
                      /\ \A n \in DOMAIN levels : \E r \in RowId : column[levels[n]][r] # Null
    BY DEF QualifiedTreesAreServed
  <2>1. Complete(rows) /\ levels = [n \in 1..Deepest(rows) |-> n]
    BY DEF TreeInv
  <2> QED
    BY <2>1, ServedAsTheTree
<1> QED
  BY <1>1, TreeInitInv, TreeStep, PTL DEF TreeSpec
=============================================================================
