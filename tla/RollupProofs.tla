----------------------------- MODULE RollupProofs -----------------------------
(* The sidecar of any number of rollups, any of which may share a table,      *)
(* through any number of crashes, errors and replacements of the data file;   *)
(* and the plans it answers: any rows, dimensions, roles and filters for      *)
(* which the rollup query is a translation of the fact query.                 *)
EXTENDS RollupService, Counting

\* No version a process or the disk knows is newer than the file.
NoneIsNewer == /\ meta <= source
               /\ stamp <= source
               /\ from <= source
               /\ pool <= source
               /\ \A t \in Table : tables[t] <= source

\* A process that starts took its stamp after the one on disk was written, and
\* what it attaches is no older than its stamp.
StampIsFresh == /\ pc \in Starting => meta <= stamp
                /\ (pc \in Starting /\ ~moved) => stamp = source
                /\ pc \in Building => stamp <= from

\* While tables are dropped and created, the stamp on disk is out of date.
BuildIsNotCurrent == pc \in Building => meta < source

\* How much of the build is done.
BuildProgress ==
    /\ pc \in {"dropping", "creating"} => next \in Steps
    /\ pc = "dropping" => \A i \in Steps : i < next => tables[TableAt(i)] = from
    /\ pc = "creating" => \A i \in Steps :
                            (i < next /\ TableAt(i) # TableAt(next)) => tables[TableAt(i)] = from
    /\ pc \in {"validating", "clearing", "stamping"} => \A i \in Steps : tables[TableAt(i)] = from

\* Routing is on only with a stamp no newer than the pool.
RoutingIsStamped ==
    /\ routing => pc \in {"ready"} \union Serves
    /\ (routing /\ pc = "ready") => meta = stamp
    /\ (routing /\ pc \in Serves) => meta <= pool
    /\ (routing /\ pc = "reloading" /\ ~moved) => meta = source

IInv == /\ TypeOK
        /\ NoneIsNewer
        /\ StampIsFresh
        /\ BuildIsNotCurrent
        /\ BuildProgress
        /\ RoutingIsStamped
        /\ CurrentSidecarIsWhole
        /\ RollupIsCurrent

LEMMA TablesAreTables == \A i \in Steps : TableAt(i) \in Table
BY DesignAssumption, TableAssumption DEF Steps, TableAt

LEMMA UsedTables == \A t \in Used : \E i \in Steps : t = TableAt(i)
BY DEF Used

LEMMA IInvInit == Init => IInv
<1> SUFFICES ASSUME Init PROVE IInv
  OBVIOUS
<1> USE VersionAssumption DEF Init, Starting, Building, Serves
<1>1. TypeOK
  <2>1. source \in 1..MaxVersion /\ 0 \in 0..MaxVersion /\ 1 \in Nat
    OBVIOUS
  <2>2. [t \in Table |-> 0] \in [Table -> 0..MaxVersion]
    BY <2>1
  <2> QED
    BY <2>1, <2>2 DEF TypeOK
<1>2. NoneIsNewer
  BY DEF NoneIsNewer
<1>3. StampIsFresh /\ BuildIsNotCurrent
  BY DEF StampIsFresh, BuildIsNotCurrent
<1>4. BuildProgress /\ RoutingIsStamped
  BY DEF BuildProgress, RoutingIsStamped
<1>5. CurrentSidecarIsWhole /\ RollupIsCurrent
  BY DEF CurrentSidecarIsWhole, RollupIsCurrent
<1> QED
  BY <1>1, <1>2, <1>3, <1>4, <1>5 DEF IInv

LEMMA UpdateType ==
  ASSUME NEW S, NEW T, NEW f \in [S -> T], NEW v \in T, NEW x
  PROVE  [f EXCEPT ![x] = v] \in [S -> T]
OBVIOUS

LEMMA TypeStep == TypeOK /\ [Next]_vars => TypeOK'
<1> SUFFICES ASSUME TypeOK, [Next]_vars PROVE TypeOK'
  OBVIOUS
<1> USE VersionAssumption DEF TypeOK, disk, local, Starting, Building, Serves
<1>1. CASE Replace
  <2>1. moved' \in BOOLEAN
    BY <1>1, Zenon DEF Replace
  <2>2. source' \in 1..MaxVersion
    BY <1>1 DEF Replace
  <2> QED
    BY <1>1, <2>1, <2>2 DEF Replace
<1>2. CASE Crash
  <2>1. moved' \in BOOLEAN /\ routing' \in BOOLEAN
    BY <1>2, Zenon DEF Crash
  <2>2. 0 \in 0..MaxVersion /\ 1 \in Nat
    OBVIOUS
  <2>3. /\ stamp' \in 0..MaxVersion /\ from' \in 0..MaxVersion /\ pool' \in 0..MaxVersion
        /\ next' \in Nat
    BY <1>2, <2>2, Zenon DEF Crash
  <2> QED
    BY <1>2, <2>1, <2>3 DEF Crash
<1>3. CASE OpenPool
  BY <1>3 DEF OpenPool
<1>4. CASE disable_stale_aggregations
  BY <1>4 DEF disable_stale_aggregations
<1>5. CASE ReopenPool
  BY <1>5 DEF ReopenPool
<1>6. CASE ReopenFails
  BY <1>6 DEF ReopenFails
<1>7. CASE Start
  BY <1>7 DEF Start
<1>8. CASE Reuse
  BY <1>8 DEF Reuse
<1>9. CASE Attach
  BY <1>9 DEF Attach
<1>10. CASE validate_rollups
  BY <1>10 DEF validate_rollups
<1>11. CASE ClearStamp
  BY <1>11 DEF ClearStamp
<1>12. CASE WriteStamp
  BY <1>12 DEF WriteStamp
<1>13. CASE BuildFails
  BY <1>13 DEF BuildFails
<1>14. CASE DropTable
  <2>1. tables' \in [Table -> 0..MaxVersion]
    <3>1. tables \in [Table -> 0..MaxVersion] /\ 0 \in 0..MaxVersion
      OBVIOUS
    <3> QED
      BY <1>14, <3>1, UpdateType DEF DropTable
  <2> QED
    BY <1>14, <2>1 DEF DropTable
<1>15. CASE CreateTable
  <2>1. tables' \in [Table -> 0..MaxVersion]
    <3>1. tables \in [Table -> 0..MaxVersion] /\ from \in 0..MaxVersion
      OBVIOUS
    <3> QED
      BY <1>15, <3>1, UpdateType DEF CreateTable
  <2> QED
    BY <1>15, <2>1 DEF CreateTable
<1>16. CASE UNCHANGED vars
  BY <1>16 DEF vars
<1> QED
  BY <1>1, <1>2, <1>3, <1>4, <1>5, <1>6, <1>7, <1>8,
     <1>9, <1>10, <1>11, <1>12, <1>13, <1>14, <1>15, <1>16
     DEF Next, ensure_aggregations, reload_data

\* The steps that touch neither the tables nor the stamp on disk.
LEMMA DiskKeptStep ==
  IInv /\ (Replace \/ Crash \/ Start \/ BuildFails \/ OpenPool \/ reload_data \/ UNCHANGED vars)
    => IInv'
<1> SUFFICES ASSUME IInv,
                    Replace \/ Crash \/ Start \/ BuildFails \/ OpenPool \/ reload_data \/ UNCHANGED vars
             PROVE  IInv'
  OBVIOUS
<1>t. TypeOK'
  BY TypeStep DEF IInv, Next, ensure_aggregations
<1> USE VersionAssumption DEF IInv, TypeOK, disk, local, Starting, Building, Serves
<1>1. CASE Replace
  <2>1. NoneIsNewer' /\ BuildIsNotCurrent' /\ CurrentSidecarIsWhole'
    BY <1>1 DEF Replace, NoneIsNewer, BuildIsNotCurrent, CurrentSidecarIsWhole
  <2>2. BuildProgress'
    BY <1>1 DEF Replace, BuildProgress
  <2>3. StampIsFresh'
    BY <1>1 DEF Replace, StampIsFresh
  <2>4. RoutingIsStamped' /\ RollupIsCurrent'
    BY <1>1 DEF Replace, RoutingIsStamped, RollupIsCurrent
  <2> QED
    BY <1>t, <2>1, <2>2, <2>3, <2>4
<1>2. CASE Crash
  BY <1>2, <1>t DEF Crash, NoneIsNewer, StampIsFresh, BuildIsNotCurrent, BuildProgress,
                    RoutingIsStamped, CurrentSidecarIsWhole, RollupIsCurrent
<1>3. CASE Start
  BY <1>3, <1>t DEF Start, NoneIsNewer, StampIsFresh, BuildIsNotCurrent, BuildProgress,
                    RoutingIsStamped, CurrentSidecarIsWhole, RollupIsCurrent
<1>4. CASE BuildFails
  BY <1>4, <1>t DEF BuildFails, NoneIsNewer, StampIsFresh, BuildIsNotCurrent, BuildProgress,
                    RoutingIsStamped, CurrentSidecarIsWhole, RollupIsCurrent
<1>5. CASE OpenPool
  BY <1>5, <1>t DEF OpenPool, NoneIsNewer, StampIsFresh, BuildIsNotCurrent, BuildProgress,
                    RoutingIsStamped, CurrentSidecarIsWhole, RollupIsCurrent
<1>6. CASE reload_data
  BY <1>6, <1>t DEF reload_data, disable_stale_aggregations, ReopenPool, ReopenFails, sidecar_current,
                    NoneIsNewer, StampIsFresh, BuildIsNotCurrent, BuildProgress,
                    RoutingIsStamped, CurrentSidecarIsWhole, RollupIsCurrent
<1>7. CASE UNCHANGED vars
  BY <1>7, <1>t DEF vars, NoneIsNewer, StampIsFresh, BuildIsNotCurrent, BuildProgress,
                    RoutingIsStamped, CurrentSidecarIsWhole, RollupIsCurrent
<1> QED
  BY <1>1, <1>2, <1>3, <1>4, <1>5, <1>6, <1>7

LEMMA ReuseStep == IInv /\ Reuse => IInv'
<1> SUFFICES ASSUME IInv, Reuse PROVE IInv'
  OBVIOUS
<1>t. TypeOK'
  BY TypeStep DEF IInv, Next, ensure_aggregations
<1> USE VersionAssumption DEF IInv, TypeOK, disk, local, Starting, Building, Serves
<1> QED
  BY <1>t DEF Reuse, sidecar_current, NoneIsNewer, StampIsFresh, BuildIsNotCurrent,
              BuildProgress, RoutingIsStamped, CurrentSidecarIsWhole, RollupIsCurrent

\* A build begins only over a sidecar whose stamp is out of date.
LEMMA AttachStep == IInv /\ Attach => IInv'
<1> SUFFICES ASSUME IInv, Attach PROVE IInv'
  OBVIOUS
<1>t. TypeOK'
  BY TypeStep DEF IInv, Next, ensure_aggregations
<1> USE VersionAssumption DEF IInv, TypeOK, disk, local, Starting, Building, Serves
<1>1. meta < source
  <2>1. CASE meta = source
    <3>1. stamp = source
      BY <2>1 DEF Attach, NoneIsNewer, StampIsFresh
    <3>2. \A t \in Used : tables[t] # 0
      BY <2>1 DEF CurrentSidecarIsWhole
    <3> QED
      BY <2>1, <3>1, <3>2 DEF Attach, sidecar_current, table_exists
  <2> QED
    BY <2>1 DEF NoneIsNewer
<1>2. 1 \in Steps \/ (Design = <<>> /\ Steps = {})
  BY DesignAssumption DEF Steps
<1>3. \A i \in Steps : ~(i < 1)
  BY DEF Steps
<1>4. NoneIsNewer' /\ StampIsFresh' /\ BuildIsNotCurrent'
  BY <1>1 DEF Attach, NoneIsNewer, StampIsFresh, BuildIsNotCurrent
<1>5. BuildProgress'
  <2>1. CASE Design = <<>>
    BY <1>2, <2>1 DEF Attach, BuildProgress, Steps
  <2>2. CASE Design # <<>>
    BY <1>2, <1>3, <2>2 DEF Attach, BuildProgress
  <2> QED
    BY <2>1, <2>2
<1>6. RoutingIsStamped' /\ CurrentSidecarIsWhole' /\ RollupIsCurrent'
  BY <1>1 DEF Attach, RoutingIsStamped, CurrentSidecarIsWhole, RollupIsCurrent
<1> QED
  BY <1>t, <1>4, <1>5, <1>6

LEMMA DropStep == IInv /\ DropTable => IInv'
<1> SUFFICES ASSUME IInv, DropTable PROVE IInv'
  OBVIOUS
<1>t. TypeOK'
  BY TypeStep DEF IInv, Next, ensure_aggregations
<1> USE VersionAssumption, TablesAreTables DEF IInv, TypeOK, disk, local, Starting, Building, Serves
<1>1. next \in Steps
  BY DEF DropTable, BuildProgress
<1>2. BuildProgress'
  BY <1>1 DEF DropTable, BuildProgress, TableAt, Steps
<1>3. NoneIsNewer'
  BY <1>1 DEF DropTable, NoneIsNewer
<1> QED
  BY <1>t, <1>2, <1>3 DEF DropTable, StampIsFresh, BuildIsNotCurrent,
     RoutingIsStamped, CurrentSidecarIsWhole, RollupIsCurrent

LEMMA CreateStep == IInv /\ CreateTable => IInv'
<1> SUFFICES ASSUME IInv, CreateTable PROVE IInv'
  OBVIOUS
<1>t. TypeOK'
  BY TypeStep DEF IInv, Next, ensure_aggregations
<1> USE VersionAssumption, TablesAreTables DEF IInv, TypeOK, disk, local, Starting, Building, Serves
<1>1. next \in Steps
  BY DEF CreateTable, BuildProgress
<1>2. \A i \in Steps : i <= next => tables'[TableAt(i)] = from
  BY <1>1 DEF CreateTable, BuildProgress, Steps
<1>3. BuildProgress'
  <2>1. CASE next = Len(Design)
    BY <1>2, <2>1 DEF CreateTable, BuildProgress, Steps, TableAt
  <2>2. CASE next # Len(Design)
    <3>1. next' \in Steps
      BY <1>1, <2>2, DesignAssumption DEF CreateTable, Steps
    <3>2. \A i \in Steps : i < next' => i <= next
      BY <1>1 DEF CreateTable, Steps
    <3> QED
      BY <1>2, <2>2, <3>1, <3>2 DEF CreateTable, BuildProgress, TableAt, Steps
  <2> QED
    BY <2>1, <2>2
<1>4. NoneIsNewer'
  BY <1>1 DEF CreateTable, NoneIsNewer
<1> QED
  BY <1>t, <1>3, <1>4 DEF CreateTable, StampIsFresh, BuildIsNotCurrent,
     RoutingIsStamped, CurrentSidecarIsWhole, RollupIsCurrent

LEMMA ValidateStep == IInv /\ validate_rollups => IInv'
<1> SUFFICES ASSUME IInv, validate_rollups PROVE IInv'
  OBVIOUS
<1>t. TypeOK'
  BY TypeStep DEF IInv, Next, ensure_aggregations
<1> USE VersionAssumption DEF IInv, TypeOK, disk, local, Starting, Building, Serves
<1> QED
  BY <1>t DEF validate_rollups, NoneIsNewer, StampIsFresh, BuildIsNotCurrent,
              BuildProgress, RoutingIsStamped, CurrentSidecarIsWhole, RollupIsCurrent

\* The new stamp names a version no newer than the one that was attached: if it
\* is that of the file, so is the build.
LEMMA StampStep == IInv /\ (ClearStamp \/ WriteStamp) => IInv'
<1> SUFFICES ASSUME IInv, ClearStamp \/ WriteStamp PROVE IInv'
  OBVIOUS
<1>t. TypeOK'
  BY TypeStep DEF IInv, Next, ensure_aggregations
<1> USE VersionAssumption DEF IInv, TypeOK, disk, local, Starting, Building, Serves
<1>1. \A t \in Used : tables[t] = from
  BY UsedTables DEF ClearStamp, WriteStamp, BuildProgress
<1>2. CASE ClearStamp
  BY <1>t, <1>1, <1>2 DEF ClearStamp, NoneIsNewer, StampIsFresh, BuildIsNotCurrent,
              BuildProgress, RoutingIsStamped, CurrentSidecarIsWhole, RollupIsCurrent
<1>3. CASE WriteStamp
  BY <1>t, <1>1, <1>3 DEF WriteStamp, NoneIsNewer, StampIsFresh, BuildIsNotCurrent,
              BuildProgress, RoutingIsStamped, CurrentSidecarIsWhole, RollupIsCurrent
<1> QED
  BY <1>2, <1>3

LEMMA IInvStep == IInv /\ [Next]_vars => IInv'
BY DiskKeptStep, ReuseStep, AttachStep, DropStep, CreateStep, ValidateStep, StampStep
   DEF Next, ensure_aggregations

\* Every variable keeps its type, whatever the rollups and their tables.
THEOREM TypeCorrect == Spec => []TypeOK
<1>1. IInv => TypeOK
  BY DEF IInv
<1> QED
  BY <1>1, IInvInit, IInvStep, PTL DEF Spec

\* A sidecar that looks current is whole and current, after any crashes.
THEOREM CurrentSidecarsAreWhole == Spec => []CurrentSidecarIsWhole
<1>1. IInv => CurrentSidecarIsWhole
  BY DEF IInv
<1> QED
  BY <1>1, IInvInit, IInvStep, PTL DEF Spec

\* A routed plan reads the version its pool reads, unless the file moved between.
THEOREM RollupsAreCurrent == Spec => []RollupIsCurrent
<1>1. IInv => RollupIsCurrent
  BY DEF IInv
<1> QED
  BY <1>1, IInvInit, IInvStep, PTL DEF Spec

-----------------------------------------------------------------------------
(* Totals of fact rows and of groups.                                         *)

HasAmounts(S) == IsFiniteSet(S) /\ \A r \in S : r.amount \in Int
Amounts(S) == [r \in S |-> r.amount]

\* A total is the sum of the amounts, in whatever order they are added up.
LEMMA TotalIsSum == \A S : HasAmounts(S) => Total(S) = SumOf(Amounts(S), S)
<1> SUFFICES ASSUME NEW S, HasAmounts(S) PROVE Total(S) = SumOf(Amounts(S), S)
  OBVIOUS
<1> DEFINE Step(it) == [s \in SUBSET S |-> IF s = {} THEN 0 ELSE AnyOf(s).amount + it[s \ {AnyOf(s)}]]
           sum == CHOOSE it : it = Step(it)
<1>1. Total(S) = sum[S]
  BY DEF Total, MapThenSumSet, MapThenFoldSet, AnyOf
<1>2. PICK f : f = Amounts(S)
  OBVIOUS
<1>3. HasNumbers(f, S)
  BY <1>2 DEF HasNumbers, HasAmounts, Amounts
<1>4. ASSUME NEW it PROVE it = Step(it) <=> Adds(f, S, it)
  <2>1. \A s \in SUBSET S : s # {} => AnyOf(s).amount = f[AnyOf(s)]
    <3>1. \A s \in SUBSET S : s # {} => AnyOf(s) \in S
      BY AnyOfIsOne
    <3> QED
      BY <1>2, <3>1 DEF Amounts
  <2>2. Step(it) = [s \in SUBSET S |-> IF s = {} THEN 0 ELSE f[AnyOf(s)] + it[s \ {AnyOf(s)}]]
    BY <2>1
  <2> QED
    BY <2>2 DEF Adds
<1>5. \E it : it = Step(it)
  BY <1>3, <1>4, SumAdds
<1>6. sum = Step(sum)
  <2> HIDE DEF Step
  <2> QED
    BY <1>5
<1>7. Adds(f, S, sum)
  <2> HIDE DEF Step, sum
  <2> QED
    BY <1>4, <1>6
<1> HIDE DEF sum
<1> QED
  BY <1>1, <1>2, <1>3, <1>7, AddsIsSum

LEMMA TotalOfNone == Total({}) = 0
<1>1. HasAmounts({})
  BY FS_EmptySet DEF HasAmounts
<1> QED
  BY <1>1, TotalIsSum, SumOfNone

LEMMA TotalOfOne == \A r : r.amount \in Int => Total({r}) = r.amount
<1> SUFFICES ASSUME NEW r, r.amount \in Int PROVE Total({r}) = r.amount
  OBVIOUS
<1>1. HasAmounts({r})
  BY FS_Singleton DEF HasAmounts
<1>2. Amounts({r})[r] = r.amount
  BY DEF Amounts
<1> QED
  BY <1>1, <1>2, TotalIsSum, SumOfOne

\* A total is that of a part and that of the rest.
LEMMA TotalSplit ==
  ASSUME NEW S, HasAmounts(S), NEW A \in SUBSET S
  PROVE  /\ Total(S) = Total(A) + Total(S \ A)
         /\ Total(S) \in Int /\ Total(A) \in Int /\ Total(S \ A) \in Int
<1>1. HasAmounts(A) /\ HasAmounts(S \ A)
  BY FS_Subset DEF HasAmounts
<1>2. PICK f, g, h : f = Amounts(S) /\ g = Amounts(A) /\ h = Amounts(S \ A)
  OBVIOUS
<1>3. HasNumbers(f, S)
  BY <1>2 DEF HasNumbers, HasAmounts, Amounts
<1>4. SumOf(g, A) = SumOf(f, A) /\ SumOf(h, S \ A) = SumOf(f, S \ A)
  <2>1. (\A x \in A : g[x] = f[x]) /\ (\A x \in S \ A : h[x] = f[x])
    BY <1>2 DEF Amounts
  <2> QED
    BY <2>1, SumOfSame
<1>5. Total(S) = SumOf(f, S) /\ Total(A) = SumOf(f, A) /\ Total(S \ A) = SumOf(f, S \ A)
  BY <1>1, <1>2, <1>4, TotalIsSum
<1> QED
  BY <1>3, <1>5, SumSplit

LEMMA TotalOfMore ==
  ASSUME NEW S, HasAmounts(S), NEW r, r \notin S, r.amount \in Int
  PROVE  HasAmounts(S \union {r}) /\ Total(S \union {r}) = Total(S) + r.amount
<1>1. HasAmounts(S \union {r})
  BY FS_AddElement DEF HasAmounts
<1>2. S \in SUBSET (S \union {r}) /\ (S \union {r}) \ S = {r}
  OBVIOUS
<1>3. Total(S \union {r}) = Total(S) + Total({r})
  BY <1>1, <1>2, TotalSplit
<1> QED
  BY <1>1, <1>3, TotalOfOne

\* Adding up the totals of groups is adding up the rows in them.
GroupRow(R, key, k) == [key |-> k, amount |-> Total({r \in R : key[r] = k})]
GroupsOf(R, key, K) == {GroupRow(R, key, k) : k \in K}
RowsOf(R, key, K) == {r \in R : key[r] \in K}

LEMMA RegroupedTotal ==
  ASSUME NEW R, HasAmounts(R), NEW key, NEW K, IsFiniteSet(K)
  PROVE  /\ HasAmounts(GroupsOf(R, key, K))
         /\ Total(GroupsOf(R, key, K)) = Total(RowsOf(R, key, K))
<1> DEFINE Groups(T) == {GroupRow(R, key, k) : k \in T}
           Rows(T) == {r \in R : key[r] \in T}
           Wrong == {T \in SUBSET K : ~(HasAmounts(Groups(T)) /\ Total(Groups(T)) = Total(Rows(T)))}
<1>1. Wrong = {}
  <2> SUFFICES ASSUME Wrong # {} PROVE FALSE
    OBVIOUS
  <2>1. Wrong \subseteq FiniteSubsetsOf(K)
    BY FS_Subset DEF FiniteSubsetsOf
  <2>2. IsWellFoundedOn(StrictSubsetOrdering(K), FiniteSubsetsOf(K))
    BY FS_StrictSubsetOrderingWellFounded
  <2>3. PICK T \in Wrong : \A U \in Wrong : ~(<<U, T>> \in StrictSubsetOrdering(K))
    <3> HIDE DEF Wrong
    <3> QED
      BY <2>1, <2>2, WFMin
  <2>4. T \in SUBSET K /\ ~(HasAmounts(Groups(T)) /\ Total(Groups(T)) = Total(Rows(T)))
    BY <2>3
  <2>5. PICK k : k \in T
    <3>1. ASSUME T = {} PROVE FALSE
      <4>1. Groups(T) = {} /\ Rows(T) = {}
        BY <3>1
      <4>2. HasAmounts({})
        BY FS_EmptySet DEF HasAmounts
      <4> HIDE DEF Groups, Rows
      <4> QED
        BY <2>4, <4>1, <4>2
    <3> QED
      BY <3>1
  <2> DEFINE U == T \ {k}
             g == GroupRow(R, key, k)
  <2>6. <<U, T>> \in StrictSubsetOrdering(K)
    BY <2>4, <2>5 DEF StrictSubsetOrdering
  <2>7. HasAmounts(Groups(U)) /\ Total(Groups(U)) = Total(Rows(U))
    <3>1. U \in SUBSET K /\ U \notin Wrong
      BY <2>3, <2>4, <2>6
    <3> QED
      BY <3>1
  <2>8. Groups(T) = Groups(U) \union {g}
    BY <2>5
  <2>9. g \notin Groups(U)
    <3>1. \A j \in U : GroupRow(R, key, j).key = j /\ j # k
      BY DEF GroupRow
    <3>2. g.key = k
      BY DEF GroupRow
    <3> QED
      BY <3>1, <3>2
  <2>10. HasAmounts(Rows(T)) /\ Rows(U) \in SUBSET Rows(T) /\ HasAmounts(Rows(T) \ Rows(U))
    BY FS_Subset DEF HasAmounts
  <2>11. g.amount = Total(Rows(T) \ Rows(U)) /\ g.amount \in Int
    <3>1. Rows(T) \ Rows(U) = {r \in R : key[r] = k}
      BY <2>5
    <3>2. g.amount = Total({r \in R : key[r] = k})
      BY DEF GroupRow
    <3>3. Total(Rows(T) \ Rows(U)) \in Int
      <4> HIDE DEF Rows, U
      <4> QED
        BY <2>10, TotalSplit
    <3> QED
      BY <3>1, <3>2, <3>3
  <2>12. HasAmounts(Groups(T)) /\ Total(Groups(T)) = Total(Groups(U)) + g.amount
    <3> HIDE DEF Groups, g, U
    <3> QED
      BY <2>7, <2>8, <2>9, <2>11, TotalOfMore
  <2>13. Total(Rows(T)) = Total(Rows(U)) + g.amount
    <3> HIDE DEF Rows, g
    <3> QED
      BY <2>10, <2>11, TotalSplit
  <2> HIDE DEF Groups, Rows, g, U
  <2> QED
    BY <2>4, <2>7, <2>12, <2>13
<1> HIDE DEF Groups, Rows
<1>2. HasAmounts(Groups(K)) /\ Total(Groups(K)) = Total(Rows(K))
  BY <1>1
<1> QED
  BY <1>2 DEF Groups, Rows, GroupsOf, RowsOf

-----------------------------------------------------------------------------
(* Routing.                                                                   *)

LEMMA RollupType ==
  \A a \in Rollup : /\ a.dim \in Related /\ a.dim \in Dim
                    /\ Len(Levels[a.dim]) \in Nat /\ a.level \in 1..Len(Levels[a.dim]) - 1
                    /\ a = [dim |-> a.dim, level |-> a.level]
<1> SUFFICES ASSUME NEW d \in Related, NEW l \in 1..Len(Levels[d]) - 1
             PROVE  d \in Dim /\ Len(Levels[d]) \in Nat
  BY DEF Rollup
<1>1. d \in Dim
  BY DimAssumption
<1>2. Levels[d] \in Seq(ToSet(Levels[d]))
  BY <1>1, DimAssumption
<1> QED
  BY <1>1, <1>2

LEMMA PositionType == \A d \in Dim : Position(d) \in Nat /\ Dims[Position(d)] = d
<1> SUFFICES ASSUME NEW d \in Dim PROVE Position(d) \in Nat /\ Dims[Position(d)] = d
  OBVIOUS
<1>1. \E i \in DOMAIN Dims : Dims[i] = d
  BY DEF Dim, ToSet
<1>2. Position(d) \in DOMAIN Dims /\ Dims[Position(d)] = d
  BY <1>1 DEF Position
<1>3. DOMAIN Dims \subseteq Nat
  BY DimAssumption
<1> QED
  BY <1>2, <1>3

\* Among any rollups one is designed first.
LEMMA OneIsFirst ==
  ASSUME NEW S \in SUBSET Rollup, S # {}
  PROVE  \E a \in S : \A b \in S \ {a} : Earlier(a, b)
<1>1. PICK l \in {a.level : a \in S} : \A m \in {a.level : a \in S} : l <= m
  <2>1. {a.level : a \in S} \in SUBSET Nat /\ {a.level : a \in S} # {}
    BY RollupType
  <2> QED
    BY <2>1, LeastOf
<1> DEFINE T == {a \in S : a.level = l}
           places == {Position(a.dim) : a \in T}
<1>2. PICK p \in places : \A q \in places : p <= q
  <2>1. places \in SUBSET Nat /\ places # {}
    BY <1>1, RollupType, PositionType
  <2> HIDE DEF places
  <2> QED
    BY <2>1, LeastOf
<1>3. PICK a \in T : p = Position(a.dim)
  BY <1>2
<1>4. ASSUME NEW b \in S \ {a} PROVE Earlier(a, b)
  <2>1. a \in Rollup /\ b \in Rollup /\ a.level = l /\ a.level <= b.level
    BY <1>1, <1>3, <1>4
  <2>2. a.level \in Nat /\ b.level \in Nat
    BY <2>1, RollupType
  <2>3. CASE a.level # b.level
    BY <2>1, <2>2, <2>3 DEF Earlier
  <2>4. CASE a.level = b.level
    <3>1. Position(a.dim) <= Position(b.dim)
      BY <1>2, <1>3, <1>4, <2>1, <2>4
    <3>2. a.dim # b.dim
      BY <1>4, <2>1, <2>4, RollupType
    <3>3. /\ Position(a.dim) \in Nat /\ Dims[Position(a.dim)] = a.dim
          /\ Position(b.dim) \in Nat /\ Dims[Position(b.dim)] = b.dim
      BY <2>1, RollupType, PositionType
    <3>4. Position(a.dim) < Position(b.dim)
      BY <3>1, <3>2, <3>3
    <3> QED
      BY <2>4, <3>4 DEF Earlier
  <2> QED
    BY <2>3, <2>4
<1> QED
  BY <1>3, <1>4

\* What routing has checked of the rollup it takes.
Routed(plan, user, agg) ==
    /\ agg \in Rollup /\ agg_covers(agg, plan)
    /\ \A t \in FilteredTables(user) : rewrite_predicate_for_rollup(agg, RoleClause(user, t))
    /\ plan.grouped => ~needs_path(plan)

LEMMA RouteIsRouted ==
  ASSUME NEW plan, NEW user, route_plan(plan, user) # <<>>
  PROVE  Routed(plan, user, route_plan(plan, user)[1])
<1> DEFINE agg == agg_for_plan_with(plan)
<1>1. /\ route_plan(plan, user) = << agg >>
      /\ ~(plan.grouped /\ needs_path(plan))
      /\ Covering(plan) # {}
      /\ \A t \in FilteredTables(user) : rewrite_predicate_for_rollup(agg, RoleClause(user, t))
  BY DEF route_plan
<1>2. agg \in Covering(plan)
  <2>1. \E a \in Covering(plan) : \A b \in Covering(plan) \ {a} : Earlier(a, b)
    <3>1. Covering(plan) \in SUBSET Rollup
      BY DEF Covering
    <3> QED
      BY <1>1, <3>1, OneIsFirst
  <2> QED
    BY <2>1 DEF agg_for_plan_with
<1>3. agg \in Rollup /\ agg_covers(agg, plan)
  BY <1>2 DEF Covering
<1> QED
  BY <1>1, <1>3 DEF Routed

-----------------------------------------------------------------------------
(* The clause of a role filter.                                               *)

\* Permissions are finitely many, and in order they begin with one of them.
LEMMA PermissionsFinite ==
  ASSUME NEW user \in User, NEW t \in {"fact"} \union Related
  PROVE  /\ IsFiniteSet(Permissions(user, t))
         /\ \A p \in Permissions(user, t) : p[1] \in Nat /\ p[2] \in Nat
<1> DEFINE roles == DOMAIN user.roles
           of == [i \in roles |-> {i} \X DOMAIN user.roles[i].tables[t]]
           parts == {of[i] : i \in roles}
<1>1. roles \subseteq Nat /\ IsFiniteSet(roles)
  <2>1. user.roles \in Seq(ToSet(user.roles))
    BY UserAssumption
  <2>2. roles = 1..Len(user.roles) /\ Len(user.roles) \in Nat
    BY <2>1
  <2> QED
    BY <2>2, FS_Interval
<1>2. ASSUME NEW i \in roles
      PROVE  DOMAIN user.roles[i].tables[t] \subseteq Nat /\ IsFiniteSet(of[i])
  <2>1. user.roles[i].tables[t] \in Seq(ToSet(user.roles[i].tables[t]))
    BY UserAssumption
  <2> DEFINE entries == user.roles[i].tables[t]
  <2>2. DOMAIN entries = 1..Len(entries) /\ Len(entries) \in Nat
    BY <2>1
  <2>3. IsFiniteSet(DOMAIN entries)
    BY <2>2, FS_Interval
  <2>4. IsFiniteSet({i} \X DOMAIN entries)
    <3>1. IsFiniteSet({i})
      BY FS_Singleton
    <3> HIDE DEF entries
    <3> QED
      BY <2>3, <3>1, FS_Product
  <2>5. of[i] = {i} \X DOMAIN entries
    OBVIOUS
  <2>6. DOMAIN entries \subseteq Nat
    BY <2>2
  <2> HIDE DEF of
  <2> QED
    BY <2>4, <2>5, <2>6
<1>3. IsFiniteSet(parts)
  <2>1. of \in Surjection(roles, parts)
    BY DEF Surjection
  <2> HIDE DEF of, roles, parts
  <2> QED
    BY <1>1, <2>1, FS_Surjection
<1>4. Permissions(user, t) = UNION parts
  BY DEF Permissions
<1>5. IsFiniteSet(UNION parts)
  <2>1. \A T \in parts : IsFiniteSet(T)
    BY <1>2
  <2> HIDE DEF parts
  <2> QED
    BY <1>3, <2>1, FS_UNION
<1>6. ASSUME NEW p \in Permissions(user, t) PROVE p[1] \in Nat /\ p[2] \in Nat
  <2>1. PICK i \in roles : p \in {i} \X DOMAIN user.roles[i].tables[t]
    BY DEF Permissions
  <2>2. p[1] = i /\ p[2] \in DOMAIN user.roles[i].tables[t]
    BY <2>1
  <2> QED
    BY <1>1, <1>2, <2>2
<1>7. IsFiniteSet(Permissions(user, t))
  BY <1>4, <1>5, Zenon
<1> QED
  BY <1>6, <1>7

LEMMA InOrderBegins ==
  ASSUME NEW S, IsFiniteSet(S), \A p \in S : p[1] \in Nat /\ p[2] \in Nat, S # {},
         \A p, q \in S : p[1] = q[1] /\ p[2] = q[2] => p = q
  PROVE  /\ Cardinality(S) \in Nat \ {0} /\ DOMAIN InOrder(S) = 1..Cardinality(S)
         /\ InOrder(S)[1] \in S
<1>1. Cardinality(S) \in Nat \ {0}
  BY FS_CardinalityType, FS_EmptySet
<1>2. PICK i \in {p[1] : p \in S} : \A j \in {p[1] : p \in S} : i <= j
  <2>1. {p[1] : p \in S} \in SUBSET Nat /\ {p[1] : p \in S} # {}
    OBVIOUS
  <2> QED
    BY <2>1, LeastOf
<1> DEFINE T == {p \in S : p[1] = i}
           seconds == {p[2] : p \in T}
<1>3. PICK k \in seconds : \A j \in seconds : k <= j
  <2>1. seconds \in SUBSET Nat /\ seconds # {}
    BY <1>2
  <2> HIDE DEF seconds
  <2> QED
    BY <2>1, LeastOf
<1>4. PICK p \in S : p[1] = i /\ p[2] = k
  BY <1>3
<1>5. {q \in S : Precedes(q, p)} = {}
  <2> SUFFICES ASSUME NEW q \in S, Precedes(q, p) PROVE FALSE
    OBVIOUS
  <2>1. p[1] <= q[1] /\ q[1] \in Nat /\ p[1] \in Nat
    BY <1>2, <1>4
  <2>2. q[1] = p[1] /\ q[2] < p[2]
    BY <2>1 DEF Precedes
  <2>3. p[2] <= q[2] /\ q[2] \in Nat /\ p[2] \in Nat
    BY <1>3, <1>4, <2>2
  <2> QED
    BY <2>2, <2>3
<1>6. Cardinality({q \in S : Precedes(q, p)}) = 1 - 1
  BY <1>5, FS_EmptySet
<1>7. 1 \in 1..Cardinality(S)
  BY <1>1
<1> QED
  BY <1>1, <1>6, <1>7 DEF InOrder

\* The permissions of a user on a table that have a filter, and their texts in order.
EntryAt(user, t, p) == [i \in DOMAIN user.roles |-> user.roles[i].tables[t]][p[1]][p[2]]
WithFilter(user, t) ==
    {p \in Permissions(user, t) : ~EntryAt(user, t, p).hide /\ EntryAt(user, t, p).filter # <<>>}
TextsOf(user, t) ==
    [n \in DOMAIN InOrder(WithFilter(user, t)) |-> EntryAt(user, t, InOrder(WithFilter(user, t))[n]).filter]

LEMMA FilteredTexts ==
  ASSUME NEW user, NEW t \in FilteredTables(user)
  PROVE  /\ t \in {"fact"} \union Related
         /\ InOrder(WithFilter(user, t)) # << >>
         /\ RoleClause(user, t) = CombinedClause(TextsOf(user, t))
<1>1. t \in {"fact"} \union Related /\ effective_table_filter(user, t).kind = "filtered"
  BY DEF FilteredTables
<1>2. /\ InOrder(WithFilter(user, t)) # <<>>
      /\ effective_table_filter(user, t) = Filtered(TextsOf(user, t))
  BY <1>1 DEF effective_table_filter, Full, Hidden, Filtered, WithFilter, TextsOf, EntryAt
<1>3. effective_table_filter(user, t).texts = TextsOf(user, t)
  BY <1>2 DEF Filtered
<1> QED
  BY <1>1, <1>2, <1>3 DEF RoleClause

\* The first text is that of a permission, and so a sequence of disjuncts.
LEMMA FirstText ==
  ASSUME NEW user \in User, NEW t \in FilteredTables(user)
  PROVE  \E p \in WithFilter(user, t), n \in Nat \ {0} :
           /\ Cardinality(WithFilter(user, t)) = n /\ DOMAIN TextsOf(user, t) = 1..n
           /\ TextsOf(user, t)[1] = EntryAt(user, t, p).filter
<1> DEFINE S == WithFilter(user, t)
<1>1. t \in {"fact"} \union Related /\ InOrder(S) # << >>
  BY FilteredTexts
<1>2. /\ IsFiniteSet(S) /\ \A p \in S : p[1] \in Nat /\ p[2] \in Nat
  BY <1>1, PermissionsFinite, FS_Subset DEF WithFilter
<1>3. S # {}
  <2> SUFFICES ASSUME S = {} PROVE FALSE
    OBVIOUS
  <2>1. 1..Cardinality(S) = {}
    BY FS_EmptySet
  <2>2. InOrder(S) = <<>>
    BY <2>1 DEF InOrder
  <2> QED
    BY <1>1, <2>2
<1>4. \A p, q \in S : p[1] = q[1] /\ p[2] = q[2] => p = q
  BY DEF WithFilter, Permissions
<1>5. /\ Cardinality(S) \in Nat \ {0} /\ DOMAIN InOrder(S) = 1..Cardinality(S)
      /\ InOrder(S)[1] \in S
  <2> HIDE DEF S
  <2> QED
    BY <1>2, <1>3, <1>4, InOrderBegins
<1>6. 1 \in DOMAIN InOrder(S)
  BY <1>5
<1>7. DOMAIN TextsOf(user, t) = 1..Cardinality(S) /\ TextsOf(user, t)[1] = EntryAt(user, t, InOrder(S)[1]).filter
  BY <1>5, <1>6 DEF TextsOf
<1> QED
  BY <1>5, <1>7

LEMMA EntryType ==
  ASSUME NEW user \in User, NEW t \in {"fact"} \union Related, NEW p \in WithFilter(user, t)
  PROVE  /\ EntryAt(user, t, p).filter \in Seq(ToSet(EntryAt(user, t, p).filter))
         /\ EntryAt(user, t, p).filter # <<>>
         /\ t \in Related => \E a \in UNION ToSet(EntryAt(user, t, p).filter) : a.dim = t
<1>1. PICK i \in DOMAIN user.roles : p \in {i} \X DOMAIN user.roles[i].tables[t]
  BY DEF WithFilter, Permissions
<1> DEFINE entries == user.roles[i].tables[t]
<1>2. EntryAt(user, t, p) = entries[p[2]] /\ p[2] \in DOMAIN entries
  BY <1>1 DEF EntryAt
<1>3. EntryAt(user, t, p) \in ToSet(entries)
  BY <1>2 DEF ToSet
<1>4. EntryAt(user, t, p).filter # <<>>
  BY DEF WithFilter
<1>5. \A e \in ToSet(entries) :
         /\ e.filter \in Seq(ToSet(e.filter))
         /\ (t \in Related /\ e.filter # << >>) => \E a \in UNION ToSet(e.filter) : a.dim = t
  BY UserAssumption
<1> HIDE DEF entries
<1> QED
  BY <1>3, <1>4, <1>5

\* A clause has disjuncts, and that of a related table names a column of it.
LEMMA RoleClauseType ==
  ASSUME NEW user \in User, NEW t \in FilteredTables(user)
  PROVE  /\ RoleClause(user, t) \in Seq(ToSet(RoleClause(user, t)))
         /\ Len(RoleClause(user, t)) > 0
         /\ t \in Related => \E a \in ClauseAtoms(RoleClause(user, t)) : a.dim = t
<1> DEFINE texts == TextsOf(user, t)
           c == RoleClause(user, t)
<1>1. t \in {"fact"} \union Related /\ c = CombinedClause(texts)
  BY FilteredTexts
<1>2. PICK p \in WithFilter(user, t), n \in Nat \ {0} :
         DOMAIN texts = 1..n /\ texts[1] = EntryAt(user, t, p).filter
  BY FirstText
<1>3. /\ texts[1] \in Seq(ToSet(texts[1])) /\ texts[1] # <<>>
      /\ t \in Related => \E a \in UNION ToSet(texts[1]) : a.dim = t
  BY <1>1, <1>2, EntryType
<1>4. Len(texts) = n
  <2>1. texts \in Seq({texts[i] : i \in 1..n})
    BY <1>2 DEF TextsOf
  <2> QED
    BY <1>2, <2>1
<1> HIDE DEF texts
<1>5. CASE n = 1
  <2>1. c = [i \in DOMAIN texts[1] |-> {AtomText(a) : a \in texts[1][i]}]
    BY <1>1, <1>4, <1>5 DEF CombinedClause
  <2>2. DOMAIN texts[1] = 1..Len(texts[1]) /\ Len(texts[1]) \in Nat \ {0}
    BY <1>3
  <2>3. c \in Seq(ToSet(c)) /\ Len(c) > 0
    BY <2>1, <2>2 DEF ToSet
  <2>4. ASSUME NEW a \in UNION ToSet(texts[1]) PROVE a \in ClauseAtoms(c)
    <3>1. PICK i \in DOMAIN texts[1] : a \in texts[1][i]
      BY DEF ToSet
    <3>2. AtomText(a) \in c[i] /\ i \in DOMAIN c
      BY <2>1, <3>1
    <3>3. a \in UNION ToSet(AtomText(a))
      BY DEF AtomText, ToSet
    <3> QED
      BY <3>2, <3>3 DEF ClauseAtoms
  <2> QED
    BY <1>3, <2>3, <2>4
<1>6. CASE n # 1
  <2>1. c = [i \in DOMAIN texts |-> {texts[i]}]
    BY <1>1, <1>4, <1>6 DEF CombinedClause
  <2>2. c \in Seq(ToSet(c)) /\ Len(c) > 0
    BY <1>2, <2>1 DEF ToSet
  <2>3. ASSUME NEW a \in UNION ToSet(texts[1]) PROVE a \in ClauseAtoms(c)
    <3>1. texts[1] \in c[1] /\ 1 \in DOMAIN c
      BY <1>2, <2>1
    <3> QED
      BY <3>1 DEF ClauseAtoms
  <2> QED
    BY <1>3, <2>2, <2>3
<1> QED
  BY <1>5, <1>6

-----------------------------------------------------------------------------
(* Clauses joined by AND.                                                     *)

LEMMA NoConditionHolds == /\ NoCondition \in Seq({{}}) /\ Len(NoCondition) = 1 /\ NoCondition[1] = {}
                          /\ \A true : DisjunctHolds({}, true) /\ ClauseHolds(NoCondition, true)
BY DEF NoCondition, DisjunctHolds, ClauseHolds

\* Clauses of one disjunct each have to hold together.
LEMMA SinglesHoldTogether ==
  ASSUME NEW n \in Nat \ {0}, NEW parts, DOMAIN parts = 1..n,
         \A i \in 1..n : DOMAIN parts[i] = {1} /\ Len(parts[i]) = 1, NEW true
  PROVE  AndHolds(parts, true) <=> \A i \in 1..n : ClauseHolds(parts[i], true)
<1>1. \A p : p \in Disjuncts(parts) <=> \E i \in 1..n : p = << i, 1 >>
  BY DEF Disjuncts
<1>2. ASSUME NEW p \in Disjuncts(parts), NEW q \in Disjuncts(parts)
      PROVE  p = q \/ MeetsLater(parts, p, q) \/ MeetsLater(parts, q, p)
  <2>1. PICK i \in 1..n, j \in 1..n : p = << i, 1 >> /\ q = << j, 1 >>
    BY <1>1
  <2>2. CASE i < j
    BY <2>1, <2>2 DEF MeetsLater
  <2>3. CASE j < i
    BY <2>1, <2>3 DEF MeetsLater
  <2>4. CASE i = j
    BY <2>1, <2>4
  <2> QED
    BY <2>2, <2>3, <2>4
<1>3. << 1, 1 >> \in Disjuncts(parts)
  BY <1>1
<1>4. AndHolds(parts, true) <=> \A q \in Disjuncts(parts) : DisjunctHolds(parts[q[1]][q[2]], true)
  BY <1>2, <1>3 DEF AndHolds
<1>5. (\A q \in Disjuncts(parts) : DisjunctHolds(parts[q[1]][q[2]], true))
        <=> \A i \in 1..n : DisjunctHolds(parts[i][1], true)
  <2> DEFINE Holds(q) == DisjunctHolds(parts[q[1]][q[2]], true)
  <2>1. \A i \in 1..n : << i, 1 >> \in Disjuncts(parts)
    BY <1>1
  <2>2. \A i \in 1..n : Holds(<< i, 1 >>) <=> DisjunctHolds(parts[i][1], true)
    OBVIOUS
  <2> HIDE DEF Holds
  <2>3. (\A q \in Disjuncts(parts) : Holds(q)) <=> \A i \in 1..n : DisjunctHolds(parts[i][1], true)
    BY <1>1, <2>1, <2>2
  <2> QED
    BY <2>3 DEF Holds
<1>6. \A i \in 1..n : DisjunctHolds(parts[i][1], true) <=> ClauseHolds(parts[i], true)
  BY DEF ClauseHolds
<1> QED
  BY <1>4, <1>5, <1>6

\* A clause beside which there is no condition has to hold.
LEMMA OneHoldsAlone ==
  ASSUME NEW n \in Nat \ {0}, NEW parts, DOMAIN parts = 1..n, NEW m \in 1..n,
         NEW k \in Nat \ {0}, DOMAIN parts[m] = 1..k, Len(parts[m]) = k,
         \A i \in 1..n : i # m => parts[i] = NoCondition, NEW true
  PROVE  AndHolds(parts, true) <=> \A i \in 1..n : ClauseHolds(parts[i], true)
<1> DEFINE c == parts[m]
<1>1. \A i \in 1..n : i # m => DOMAIN parts[i] = {1} /\ Len(parts[i]) = 1 /\ parts[i][1] = {}
  BY NoConditionHolds DEF NoCondition
<1>2. (\A i \in 1..n : ClauseHolds(parts[i], true)) <=> \E j \in 1..k : DisjunctHolds(c[j], true)
  BY NoConditionHolds DEF ClauseHolds
<1>3. \A i \in 1..n : \A j \in DOMAIN parts[i] : << i, j >> \in Disjuncts(parts)
  BY DEF Disjuncts
<1>4. ASSUME NEW j \in 1..k, DisjunctHolds(c[j], true) PROVE AndHolds(parts, true)
  <2> DEFINE p == << m, j >>
  <2>1. p \in Disjuncts(parts)
    BY <1>3
  <2>2. ASSUME NEW q \in Disjuncts(parts), p = q \/ MeetsLater(parts, p, q) \/ MeetsLater(parts, q, p)
        PROVE  DisjunctHolds(parts[q[1]][q[2]], true)
    <3>1. PICK i, l : i \in 1..n /\ l \in DOMAIN parts[i] /\ q = << i, l >>
      BY DEF Disjuncts
    <3>2. CASE i = m
      <4>1. p = q
        BY <2>2, <3>1, <3>2 DEF MeetsLater
      <4> QED
        BY <1>4, <4>1
    <3>3. CASE i # m
      <4>1. parts[i][l] = {}
        BY <1>1, <3>1, <3>3
      <4> QED
        BY <3>1, <4>1, NoConditionHolds
    <3> QED
      BY <3>2, <3>3
  <2> QED
    BY <2>1, <2>2 DEF AndHolds
<1>5. ASSUME AndHolds(parts, true) PROVE \E j \in 1..k : DisjunctHolds(c[j], true)
  <2> DEFINE Holds(q) == DisjunctHolds(parts[q[1]][q[2]], true)
  <2>1. PICK p \in Disjuncts(parts) : \A q \in Disjuncts(parts) :
           p = q \/ MeetsLater(parts, p, q) \/ MeetsLater(parts, q, p) => Holds(q)
    BY <1>5 DEF AndHolds
  <2>a. PICK i \in 1..n : p \in {i} \X DOMAIN parts[i]
    BY DEF Disjuncts
  <2>2. PICK l \in DOMAIN parts[i] : p = << i, l >>
    BY <2>a
  <2>3. \A j \in 1..k : << m, j >> \in Disjuncts(parts) /\ (Holds(<< m, j >>) => DisjunctHolds(c[j], true))
    BY <1>3
  <2>4. CASE i = m
    <3> HIDE DEF Holds
    <3> QED
      BY <2>1, <2>2, <2>3, <2>4
  <2>5. CASE i < m
    <3>1. p = << i, 1 >> /\ Len(parts[i]) = 1
      BY <1>1, <2>2, <2>5
    <3>2. \A j \in i + 1..m - 1 : Len(parts[j]) = 1
      BY <1>1
    <3>3. MeetsLater(parts, << i, 1 >>, << m, 1 >>) /\ 1 \in 1..k
      BY <2>5, <3>1, <3>2 DEF MeetsLater
    <3> HIDE DEF Holds
    <3> QED
      BY <2>1, <2>3, <3>1, <3>3
  <2>6. CASE m < i
    <3>1. MeetsLater(parts, << m, k >>, p) /\ k \in 1..k
      BY <1>1, <2>2, <2>6 DEF MeetsLater
    <3> HIDE DEF Holds
    <3> QED
      BY <2>1, <2>3, <3>1
  <2> QED
    BY <2>4, <2>5, <2>6
<1> QED
  BY <1>2, <1>4, <1>5

-----------------------------------------------------------------------------
(* The WHERE of a rollup query.                                               *)

LEMMA RoleTablesType ==
  /\ DOMAIN RoleTables = 1..Len(Dims) + 1 /\ Len(Dims) \in Nat
  /\ \A i, j \in DOMAIN RoleTables : RoleTables[i] = RoleTables[j] => i = j
  /\ \A t \in {"fact"} \union Related : \E i \in DOMAIN RoleTables : RoleTables[i] = t
<1>1. Dims \in Seq(Dim) /\ Len(Dims) \in Nat /\ DOMAIN Dims = 1..Len(Dims)
  BY DimAssumption
<1>2. /\ DOMAIN RoleTables = 1..Len(Dims) + 1 /\ RoleTables[1] = "fact"
      /\ \A i \in 1..Len(Dims) : RoleTables[i + 1] = Dims[i]
  BY <1>1 DEF RoleTables
<1>3. \A i \in 2..Len(Dims) + 1 : i - 1 \in 1..Len(Dims) /\ RoleTables[i] = Dims[i - 1]
  BY <1>1, <1>2
<1>4. \A i \in 2..Len(Dims) + 1 : RoleTables[i] # "fact"
  BY <1>1, <1>3, DimAssumption
<1>5. ASSUME NEW i \in 1..Len(Dims) + 1, NEW j \in 1..Len(Dims) + 1, RoleTables[i] = RoleTables[j]
      PROVE  i = j
  <2>1. CASE i = 1 \/ j = 1
    BY <1>1, <1>2, <1>4, <1>5, <2>1
  <2>2. CASE i # 1 /\ j # 1
    <3>1. i \in 2..Len(Dims) + 1 /\ j \in 2..Len(Dims) + 1
      BY <1>1, <2>2
    <3>2. i - 1 = j - 1
      BY <1>1, <1>3, <1>5, <3>1, DimAssumption DEF IsInjective
    <3> QED
      BY <3>1, <3>2
  <2> QED
    BY <2>1, <2>2
<1>6. ASSUME NEW t \in {"fact"} \union Related PROVE \E i \in 1..Len(Dims) + 1 : RoleTables[i] = t
  <2>1. CASE t = "fact"
    BY <1>1, <1>2, <2>1
  <2>2. CASE t \in Dim
    <3>1. PICK i \in 1..Len(Dims) : Dims[i] = t
      BY <1>1, <2>2 DEF Dim, ToSet
    <3> QED
      BY <1>1, <1>2, <3>1
  <2> QED
    BY <2>1, <2>2, DimAssumption
<1> QED
  BY <1>1, <1>2, <1>5, <1>6

LEMMA WhereType ==
  ASSUME NEW agg, NEW plan, NEW user
  PROVE  LET where == agg_where(agg, plan, user)
             n == Len(Dims) + 2
         IN  /\ n \in Nat \ {0} /\ DOMAIN where = 1..n /\ where[1] = ListedClause(agg, plan)
             /\ \A i \in DOMAIN RoleTables : i + 1 \in 1..n /\ where[i + 1] = RoleClause(user, RoleTables[i])
             /\ \A i \in 2..n : i - 1 \in DOMAIN RoleTables /\ where[i] = RoleClause(user, RoleTables[i - 1])
<1> DEFINE where == agg_where(agg, plan, user)
           n == Len(Dims) + 2
<1>1. DOMAIN RoleTables = 1..Len(Dims) + 1 /\ Len(Dims) \in Nat
  BY RoleTablesType
<1>2. /\ RoleClauses(user) \in Seq(ToSet(RoleClauses(user))) /\ Len(RoleClauses(user)) = Len(Dims) + 1
      /\ \A i \in DOMAIN RoleTables : RoleClauses(user)[i] = RoleClause(user, RoleTables[i])
  BY <1>1 DEF RoleClauses, ToSet
<1>3. /\ DOMAIN where = 1..n /\ where[1] = ListedClause(agg, plan)
      /\ \A i \in 1..Len(Dims) + 1 : where[i + 1] = RoleClauses(user)[i]
  BY <1>1, <1>2 DEF agg_where
<1>4. \A i \in DOMAIN RoleTables : i + 1 \in 1..n /\ where[i + 1] = RoleClause(user, RoleTables[i])
  BY <1>1, <1>2, <1>3
<1>5. \A i \in 2..n : i - 1 \in DOMAIN RoleTables /\ (i - 1) + 1 = i
  BY <1>1
<1> QED
  BY <1>1, <1>3, <1>4, <1>5

LEMMA ListedClauseType ==
  ASSUME NEW agg, NEW plan
  PROVE  LET c == ListedClause(agg, plan)
         IN  /\ DOMAIN c = {1} /\ Len(c) = 1
             /\ c[1] = {AtomText(ColumnAtom(agg, f)) : f \in {g \in plan.filters : g.keys # {}}}
             /\ \A true : ClauseHolds(c, true) <=> DisjunctHolds(c[1], true)
<1> DEFINE d == {AtomText(ColumnAtom(agg, f)) : f \in {g \in plan.filters : g.keys # {}}}
<1>1. ListedClause(agg, plan) = << d >>
  BY DEF ListedClause
<1> HIDE DEF d
<1>2. /\ DOMAIN << d >> = {1} /\ Len(<< d >>) = 1 /\ << d >>[1] = d
      /\ \A true : ClauseHolds(<< d >>, true) <=> DisjunctHolds(d, true)
  BY DEF ClauseHolds
<1> QED
  BY <1>1, <1>2 DEF d

\* The conditions of a rollup query, joined by AND, have to hold each.
LEMMA WhereHolds ==
  ASSUME NEW agg, NEW plan, NEW user \in User, JoinsByAnd(plan, user), NEW true
  PROVE  AndHolds(agg_where(agg, plan, user), true)
           <=> /\ DisjunctHolds(ListedClause(agg, plan)[1], true)
               /\ \A t \in FilteredTables(user) : ClauseHolds(RoleClause(user, t), true)
<1> DEFINE where == agg_where(agg, plan, user)
           n == Len(Dims) + 2
<1>1. /\ n \in Nat \ {0} /\ DOMAIN where = 1..n /\ where[1] = ListedClause(agg, plan)
      /\ \A i \in DOMAIN RoleTables : i + 1 \in 1..n /\ where[i + 1] = RoleClause(user, RoleTables[i])
      /\ \A i \in 2..n : i - 1 \in DOMAIN RoleTables /\ where[i] = RoleClause(user, RoleTables[i - 1])
  BY WhereType
<1> HIDE DEF where, n
<1>2. ASSUME NEW t, t \notin FilteredTables(user) PROVE RoleClause(user, t) = NoCondition
  BY <1>2 DEF RoleClause
<1>3. ASSUME NEW t \in FilteredTables(user)
      PROVE  \E k \in Nat \ {0} : DOMAIN RoleClause(user, t) = 1..k /\ Len(RoleClause(user, t)) = k
  BY RoleClauseType
<1>4. (\A i \in 1..n : ClauseHolds(where[i], true))
         <=> /\ DisjunctHolds(ListedClause(agg, plan)[1], true)
             /\ \A t \in FilteredTables(user) : ClauseHolds(RoleClause(user, t), true)
  <2>1. ASSUME \A i \in 1..n : ClauseHolds(where[i], true), NEW t \in FilteredTables(user)
        PROVE  ClauseHolds(RoleClause(user, t), true)
    <3>1. PICK i \in DOMAIN RoleTables : RoleTables[i] = t
      BY RoleTablesType DEF FilteredTables
    <3>2. i + 1 \in 1..n /\ where[i + 1] = RoleClause(user, t)
      BY <1>1, <3>1
    <3> QED
      BY <2>1, <3>2
  <2>2. ASSUME NEW i \in 2..n, \A t \in FilteredTables(user) : ClauseHolds(RoleClause(user, t), true)
        PROVE  ClauseHolds(where[i], true)
    <3>1. PICK t : t = RoleTables[i - 1] /\ where[i] = RoleClause(user, t)
      BY <1>1
    <3> QED
      BY <1>2, <2>2, <3>1, NoConditionHolds
  <2>3. ClauseHolds(where[1], true) <=> DisjunctHolds(ListedClause(agg, plan)[1], true)
    BY <1>1, ListedClauseType
  <2>4. 1 \in 1..n /\ \A i \in 1..n : i = 1 \/ i \in 2..n
    BY <1>1
  <2> QED
    BY <2>1, <2>2, <2>3, <2>4
<1>5. CASE \A t \in FilteredTables(user) : Len(RoleClause(user, t)) = 1
  <2>1. \A t : DOMAIN RoleClause(user, t) = {1} /\ Len(RoleClause(user, t)) = 1
    <3>1. \A t \in FilteredTables(user) : DOMAIN RoleClause(user, t) = {1}
      BY <1>3, <1>5
    <3>2. DOMAIN NoCondition = {1} /\ Len(NoCondition) = 1
      BY DEF NoCondition
    <3> QED
      BY <1>2, <1>5, <3>1, <3>2
  <2>2. \A i \in 1..n : i = 1 \/ i \in 2..n
    BY <1>1
  <2>3. \A i \in 1..n : DOMAIN where[i] = {1} /\ Len(where[i]) = 1
    <3>1. DOMAIN where[1] = {1} /\ Len(where[1]) = 1
      BY <1>1, ListedClauseType
    <3>2. \A i \in 2..n : DOMAIN where[i] = {1} /\ Len(where[i]) = 1
      BY <1>1, <2>1
    <3> QED
      BY <2>2, <3>1, <3>2
  <2>4. n \in Nat \ {0} /\ DOMAIN where = 1..n
    BY <1>1
  <2>5. AndHolds(where, true) <=> \A i \in 1..n : ClauseHolds(where[i], true)
    BY <2>3, <2>4, SinglesHoldTogether
  <2> QED
    BY <1>4, <2>5 DEF where
<1>6. CASE \E t \in FilteredTables(user) :
              FilteredTables(user) = {t} /\ \A f \in plan.filters : f.keys = {}
  <2>1. PICK t \in FilteredTables(user) :
               FilteredTables(user) = {t} /\ \A f \in plan.filters : f.keys = {}
    BY <1>6
  <2>2. PICK i \in DOMAIN RoleTables : RoleTables[i] = t
    BY RoleTablesType DEF FilteredTables
  <2>3. PICK m \in 1..n : m = i + 1 /\ where[m] = RoleClause(user, t)
    BY <1>1, <2>2
  <2>4. PICK k \in Nat \ {0} : DOMAIN where[m] = 1..k /\ Len(where[m]) = k
    BY <1>3, <2>3
  <2>5. ASSUME NEW j \in 1..n, j # m PROVE where[j] = NoCondition
    <3>1. CASE j = 1
      <4>1. ListedClause(agg, plan) = NoCondition
        BY <2>1 DEF ListedClause, NoCondition
      <4> QED
        BY <1>1, <3>1, <4>1
    <3>2. CASE j # 1
      <4>1. j \in 2..n
        BY <1>1, <3>2
      <4>2. j - 1 \in DOMAIN RoleTables /\ j - 1 # i /\ where[j] = RoleClause(user, RoleTables[j - 1])
        BY <1>1, <2>3, <2>5, <4>1, RoleTablesType
      <4>3. RoleTables[j - 1] # t
        BY <2>2, <4>2, RoleTablesType
      <4> QED
        BY <1>2, <2>1, <4>2, <4>3
    <3> QED
      BY <3>1, <3>2
  <2> QED
    BY <1>1, <1>4, <2>4, <2>5, OneHoldsAlone DEF where
<1> QED
  BY <1>5, <1>6 DEF JoinsByAnd

-----------------------------------------------------------------------------
(* A row and the group it belongs to.                                         *)

\* A column that the rollup has is read from the group as from the row.
ReadFrom(agg, a) == \/ a.dim \in Flat
                    \/ a.dim = agg.dim /\ \E l \in 1..agg.level : Levels[agg.dim][l].column = a.col

LEMMA ColumnIsRead ==
  ASSUME NEW agg \in Rollup, NEW r, NEW g, g.key = GroupKey(agg, r), NEW a, ReadFrom(agg, a)
  PROVE  RollupValue(agg, g, a) = Column(r, a.dim, a.col)
<1>1. agg.dim \in Related /\ g.key.dates = [l \in 1..agg.level |-> LevelValue(r, agg.dim, l)]
      /\ g.key.leaf = [d \in Flat |-> r.key[d]]
  BY RollupType DEF GroupKey
<1>2. CASE a.dim \in Flat
  BY <1>1, <1>2 DEF RollupValue, Column, Flat
<1>3. CASE a.dim = agg.dim /\ \E l \in 1..agg.level : Levels[agg.dim][l].column = a.col
  <2>1. PICK l \in 1..agg.level : /\ Levels[agg.dim][l].column = a.col
                                  /\ l = CHOOSE k \in 1..agg.level : Levels[agg.dim][k].column = a.col
    BY <1>3
  <2>2. RollupValue(agg, g, a) = LevelValue(r, agg.dim, l)
    BY <1>1, <1>3, <2>1 DEF RollupValue
  <2> QED
    BY <1>3, <2>1, <2>2 DEF LevelValue
<1> QED
  BY <1>2, <1>3 DEF ReadFrom

LEMMA SingleKey == \A S : \A k \in Seq(S) : Len(k) = 1 => k = << k[1] >>
<1> SUFFICES ASSUME NEW S, NEW k \in Seq(S), Len(k) = 1 PROVE k = << k[1] >>
  OBVIOUS
<1>1. k = [i \in 1..1 |-> k[i]]
  OBVIOUS
<1>2. << k[1] >> = [i \in 1..1 |-> k[i]]
  OBVIOUS
<1> QED
  BY <1>1, <1>2

\* What is known of a filter of a plan that is routed.
LEMMA RoutedFilter ==
  ASSUME NEW plan \in Plan, NEW user, NEW agg, Routed(plan, user, agg), ListsSingleKeys(plan),
         NEW f \in plan.filters
  PROVE  /\ f.kind = "members" /\ f.dim \in Flat \union {agg.dim}
         /\ f.dim = agg.dim => f.level \in 1..agg.level /\ f.keys # {}
         /\ \A k \in f.keys : Len(k) = 1 /\ k = << k[1] >>
<1>1. agg \in Rollup /\ agg_covers(agg, plan)
  BY DEF Routed
<1>2. /\ f.level \in Nat /\ f.kind \in {"members", "scope", "flag"}
      /\ f.kind = "members" => f.keys \subseteq Seq(UNION {ToSet(k) : k \in f.keys})
      /\ (f.kind = "members" /\ f.dim \in Related) => f.keys # {}
  BY PlanAssumption
<1>3. f.kind = "members"
  BY <1>1, <1>2 DEF agg_covers, ListsSingleKeys
<1>4. \A k \in f.keys : Len(k) = 1
  BY DEF ListsSingleKeys
<1>5. \A k \in f.keys : k = << k[1] >>
  BY <1>2, <1>3, <1>4, SingleKey
<1>6. f.dim \in Flat \union {agg.dim}
  BY <1>1 DEF agg_covers
<1>7. ASSUME f.dim = agg.dim PROVE f.level \in 1..agg.level /\ f.keys # {}
  <2>1. filter_level(f) <= agg.level
    BY <1>1, <1>7 DEF agg_covers
  <2>2. /\ agg.dim \in Related /\ Len(Levels[agg.dim]) \in Nat
        /\ agg.level \in Nat /\ agg.level < Len(Levels[agg.dim])
    BY <1>1, RollupType
  <2>3. f.level # 0 /\ f.level <= agg.level
    BY <1>7, <2>1, <2>2 DEF filter_level
  <2> QED
    BY <1>2, <1>3, <1>7, <2>2, <2>3
<1> QED
  BY <1>3, <1>4, <1>5, <1>6, <1>7

LEMMA FiltersAgree ==
  ASSUME NEW plan \in Plan, NEW user, NEW agg, Routed(plan, user, agg), ListsSingleKeys(plan),
         NEW f \in plan.filters, NEW r, Joined(r, agg.dim), NEW g, g.key = GroupKey(agg, r)
  PROVE  FilterHolds(r, f)
           <=> (f.keys # {} => RollupValue(agg, g, ColumnAtom(agg, f)) \in ColumnAtom(agg, f).vals)
<1> DEFINE a == ColumnAtom(agg, f)
<1>1. /\ f.kind = "members" /\ f.dim \in Flat \union {agg.dim}
      /\ f.dim = agg.dim => f.level \in 1..agg.level /\ f.keys # {}
      /\ \A k \in f.keys : Len(k) = 1 /\ k = << k[1] >>
  BY RoutedFilter
<1>2. agg \in Rollup /\ agg.dim \in Related /\ agg.dim \notin Flat /\ agg.level \in Nat
      /\ Len(Levels[agg.dim]) \in Nat /\ agg.level < Len(Levels[agg.dim])
  BY RollupType DEF Routed, Flat
<1>3. /\ a.dim = f.dim /\ a.vals = {k[1] : k \in f.keys}
      /\ a.col = IF f.dim = agg.dim THEN Levels[agg.dim][f.level].column ELSE f.dim
  BY <1>1 DEF ColumnAtom
<1>4. RollupValue(agg, g, a) = Column(r, a.dim, a.col)
  <2>1. ReadFrom(agg, a)
    BY <1>1, <1>3 DEF ReadFrom
  <2> HIDE DEF a
  <2> QED
    BY <1>2, <2>1, ColumnIsRead
<1> HIDE DEF a
<1>5. CASE f.dim = agg.dim
  <2>1. FilterHolds(r, f) <=> \E p \in f.keys : PathHolds(r, f, p)
    BY <1>1, <1>2, <1>5 DEF FilterHolds
  <2>2. \A p \in f.keys : PathHolds(r, f, p) <=> LevelValue(r, f.dim, f.level) = p[1]
    <3> SUFFICES ASSUME NEW p \in f.keys PROVE PathHolds(r, f, p) <=> LevelValue(r, f.dim, f.level) = p[1]
      OBVIOUS
    <3>1. Len(p) = 1 /\ f.level \in Nat /\ ~(1 > f.level) /\ f.level <= Len(Levels[f.dim])
      BY <1>1, <1>2, <1>5
    <3>2. f.level - 1 + 1 = f.level /\ 1..1 = {1}
      BY <3>1
    <3> QED
      BY <3>1, <3>2 DEF PathHolds
  <2>3. RollupValue(agg, g, a) = LevelValue(r, f.dim, f.level)
    BY <1>3, <1>4, <1>5 DEF LevelValue
  <2> QED
    BY <1>1, <1>3, <1>5, <2>1, <2>2, <2>3 DEF a
<1>6. CASE f.dim \in Flat
  <2>1. f.dim \notin Related
    BY <1>6 DEF Flat
  <2>2. FilterHolds(r, f) <=> f.keys = {} \/ << r.key[f.dim] >> \in f.keys
    BY <1>1, <2>1 DEF FilterHolds
  <2>3. RollupValue(agg, g, a) = r.key[f.dim]
    BY <1>3, <1>4, <2>1 DEF Column
  <2>4. << r.key[f.dim] >> \in f.keys <=> r.key[f.dim] \in {k[1] : k \in f.keys}
    BY <1>1
  <2> QED
    BY <1>3, <2>2, <2>3, <2>4 DEF a
<1> QED
  BY <1>1, <1>5, <1>6

LEMMA AtomsDecide ==
  ASSUME NEW c, NEW A, NEW B, \A a \in ClauseAtoms(c) : a \in A <=> a \in B
  PROVE  ClauseHolds(c, A) <=> ClauseHolds(c, B)
<1>1. ASSUME NEW i \in DOMAIN c, NEW t \in c[i] PROVE TextHolds(t, A) <=> TextHolds(t, B)
  <2>1. \A k \in DOMAIN t : t[k] \subseteq ClauseAtoms(c)
    BY DEF ClauseAtoms, ToSet
  <2>2. \A k \in DOMAIN t : t[k] \subseteq A <=> t[k] \subseteq B
    BY <2>1
  <2> QED
    BY <2>2 DEF TextHolds
<1> QED
  BY <1>1 DEF ClauseHolds, DisjunctHolds

\* A role filter that can be rewritten keeps a group as it keeps its rows.
LEMMA RolesAgree ==
  ASSUME NEW agg \in Rollup, NEW c, rewrite_predicate_for_rollup(agg, c),
         NEW r, NEW g, g.key = GroupKey(agg, r), NEW atoms, ClauseAtoms(c) \subseteq atoms
  PROVE  ClauseHolds(c, {a \in atoms : RollupValue(agg, g, a) \in a.vals}) <=> ClauseHoldsOf(c, r)
<1>1. ASSUME NEW a \in ClauseAtoms(c) PROVE RollupValue(agg, g, a) = Column(r, a.dim, a.col)
  <2>1. ReadFrom(agg, a)
    BY DEF rewrite_predicate_for_rollup, ReadFrom
  <2> QED
    BY <2>1, ColumnIsRead
<1> DEFINE A == {a \in atoms : RollupValue(agg, g, a) \in a.vals}
           B == {a \in ClauseAtoms(c) : Column(r, a.dim, a.col) \in a.vals}
<1>2. \A a \in ClauseAtoms(c) : a \in A <=> a \in B
  BY <1>1
<1>3. ClauseHoldsOf(c, r) <=> ClauseHolds(c, B)
  BY DEF ClauseHoldsOf
<1> HIDE DEF A, B
<1>4. ClauseHolds(c, A) <=> ClauseHolds(c, B)
  BY <1>2, AtomsDecide
<1> QED
  BY <1>3, <1>4 DEF A

\* The listed filters keep a group as they keep its rows.
LEMMA ListsAgree ==
  ASSUME NEW plan \in Plan, NEW user, NEW agg, Routed(plan, user, agg), ListsSingleKeys(plan),
         NEW r, Joined(r, agg.dim), NEW g, g.key = GroupKey(agg, r),
         NEW atoms, ClauseAtoms(ListedClause(agg, plan)) \subseteq atoms
  PROVE  DisjunctHolds(ListedClause(agg, plan)[1], {a \in atoms : RollupValue(agg, g, a) \in a.vals})
           <=> \A f \in plan.filters : FilterHolds(r, f)
<1> DEFINE A == {a \in atoms : RollupValue(agg, g, a) \in a.vals}
           c == ListedClause(agg, plan)
           listed == {f \in plan.filters : f.keys # {}}
<1>1. DOMAIN c = {1} /\ c[1] = {AtomText(ColumnAtom(agg, f)) : f \in listed}
  BY ListedClauseType
<1>2. ASSUME NEW f \in listed PROVE TextHolds(AtomText(ColumnAtom(agg, f)), A) <=> FilterHolds(r, f)
  <2> DEFINE a == ColumnAtom(agg, f)
  <2>1. a \in ClauseAtoms(c)
    <3>1. AtomText(a) \in c[1] /\ 1 \in DOMAIN c
      BY <1>1
    <3>2. a \in UNION ToSet(AtomText(a))
      BY DEF AtomText, ToSet
    <3> HIDE DEF a, c
    <3> QED
      BY <3>1, <3>2 DEF ClauseAtoms
  <2>2. a \in A <=> FilterHolds(r, f)
    <3>1. FilterHolds(r, f) <=> RollupValue(agg, g, a) \in a.vals
      BY FiltersAgree
    <3> HIDE DEF a
    <3> QED
      BY <2>1, <3>1
  <2>3. TextHolds(AtomText(a), A) <=> a \in A
    <3> HIDE DEF a, A
    <3> QED
      BY DEF TextHolds, AtomText
  <2> QED
    BY <2>2, <2>3
<1>3. \A f \in plan.filters \ listed : FilterHolds(r, f)
  BY FiltersAgree
<1> HIDE DEF A, c
<1>4. DisjunctHolds(c[1], A) <=> \A f \in listed : TextHolds(AtomText(ColumnAtom(agg, f)), A)
  BY <1>1 DEF DisjunctHolds
<1>5. DisjunctHolds(c[1], A) <=> \A f \in plan.filters : FilterHolds(r, f)
  BY <1>2, <1>3, <1>4
<1> QED
  BY <1>5 DEF A, c

\* The fact query joins no table but that of the rolled-up dimension.
LEMMA OneJoin ==
  ASSUME NEW plan \in Plan, NEW user \in User, NEW agg, Routed(plan, user, agg)
  PROVE  FactJoins(plan, user) \subseteq {agg.dim}
<1> SUFFICES ASSUME NEW d \in FactJoins(plan, user), d # agg.dim PROVE FALSE
  OBVIOUS
<1>1. d \in Related /\ d \notin Flat
  BY DEF FactJoins, Flat
<1>2. agg_covers(agg, plan)
  BY DEF Routed
<1>3. d \notin ToSet(plan.group_by)
  BY <1>1, <1>2 DEF agg_covers
<1>4. \A f \in plan.filters : f.dim # d
  BY <1>1, <1>2 DEF agg_covers
<1>5. d \in FilteredTables(user)
  BY <1>3, <1>4 DEF FactJoins
<1>6. PICK a \in ClauseAtoms(RoleClause(user, d)) : a.dim = d
  BY <1>1, <1>5, RoleClauseType
<1>7. a.dim \in Flat \/ a.dim = agg.dim
  BY <1>5, <1>6 DEF Routed, rewrite_predicate_for_rollup
<1> QED
  BY <1>1, <1>6, <1>7

\* A group is kept when its rows are.
LEMMA KeepsAgree ==
  ASSUME NEW plan \in Plan, NEW user \in User, NEW agg, Routed(plan, user, agg),
         ListsSingleKeys(plan), JoinsByAnd(plan, user),
         NEW r, Joined(r, agg.dim), NEW g, g.key = GroupKey(agg, r)
  PROVE  RollupHolds(agg, agg_where(agg, plan, user), g) <=> FactKeeps(plan, user, r)
<1> DEFINE where == agg_where(agg, plan, user)
           atoms == UNION {ClauseAtoms(where[i]) : i \in DOMAIN where}
           A == {a \in atoms : RollupValue(agg, g, a) \in a.vals}
<1>1. RollupHolds(agg, where, g) <=> AndHolds(where, A)
  BY DEF RollupHolds
<1>2. AndHolds(where, A) <=> /\ DisjunctHolds(ListedClause(agg, plan)[1], A)
                             /\ \A t \in FilteredTables(user) : ClauseHolds(RoleClause(user, t), A)
  <2> HIDE DEF A
  <2> QED
    BY WhereHolds
<1>3. ClauseAtoms(ListedClause(agg, plan)) \subseteq atoms
  <2>1. 1 \in DOMAIN where /\ where[1] = ListedClause(agg, plan)
    BY WhereType
  <2> HIDE DEF where
  <2> QED
    BY <2>1
<1>4. ASSUME NEW t \in FilteredTables(user) PROVE ClauseAtoms(RoleClause(user, t)) \subseteq atoms
  <2>1. PICK i \in DOMAIN RoleTables : RoleTables[i] = t
    BY RoleTablesType DEF FilteredTables
  <2>2. i + 1 \in DOMAIN where /\ where[i + 1] = RoleClause(user, t)
    BY <2>1, WhereType
  <2> HIDE DEF where
  <2> QED
    BY <2>2
<1> HIDE DEF atoms
<1>5. DisjunctHolds(ListedClause(agg, plan)[1], A) <=> \A f \in plan.filters : FilterHolds(r, f)
  BY <1>3, ListsAgree
<1>6. ASSUME NEW t \in FilteredTables(user)
      PROVE  ClauseHolds(RoleClause(user, t), A) <=> ClauseHoldsOf(RoleClause(user, t), r)
  <2>1. agg \in Rollup /\ rewrite_predicate_for_rollup(agg, RoleClause(user, t))
    BY DEF Routed
  <2> QED
    BY <1>4, <2>1, RolesAgree
<1>7. \A d \in FactJoins(plan, user) : Joined(r, d)
  BY OneJoin
<1> HIDE DEF A, where
<1> QED
  BY <1>1, <1>2, <1>5, <1>6, <1>7 DEF FactKeeps, where

\* A group has the labels of its rows.
LEMMA LabelsAgree ==
  ASSUME NEW plan \in Plan, NEW user, NEW agg, Routed(plan, user, agg), GroupsOneDown(plan, agg),
         plan.grouped, NEW r, NEW g, g.key = GroupKey(agg, r), NEW i \in DOMAIN plan.group_by
  PROVE  RollupLabel(agg, plan, g, i) = FactLabel(r, plan, i)
<1> DEFINE d == plan.group_by[i]
           l == IF i \in DOMAIN plan.levels THEN plan.levels[i] ELSE 0
<1>1. /\ agg \in Rollup /\ agg_covers(agg, plan) /\ ~needs_path(plan)
      /\ agg.dim \in Related /\ Len(Levels[agg.dim]) \in Nat
      /\ agg.level \in Nat /\ agg.level < Len(Levels[agg.dim])
  BY RollupType DEF Routed
<1>2. /\ plan.group_by \in Seq(Dim) /\ plan.levels \in Seq(Nat)
      /\ d \in ToSet(plan.group_by) /\ (d = agg.dim \/ d \in Flat)
  BY <1>1, PlanAssumption DEF agg_covers, ToSet
<1>3. /\ g.key.dates = [k \in 1..agg.level |-> LevelValue(r, agg.dim, k)]
      /\ g.key.leaf = [e \in Flat |-> r.key[e]]
  BY DEF GroupKey
<1>4. l \in Nat
  BY <1>2
<1>5. CASE d = agg.dim
  <2>1. /\ i = 1 /\ plan.levels # <<>> /\ plan.levels[1] # 0
        /\ plan.levels[1] > 1 => \A f \in plan.filters : f.dim = agg.dim => f.level + 1 = plan.levels[1]
    BY <1>5 DEF GroupsOneDown
  <2>2. 1 \in DOMAIN plan.levels /\ l = plan.levels[1]
    BY <1>2, <2>1
  <2>3. group_level(plan) = l /\ l \in 1..agg.level
    <3>1. plan.group_by # <<>>
      BY <2>1
    <3>2. group_level(plan) = l
      BY <2>1, <2>2, <3>1 DEF group_level
    <3> QED
      BY <1>1, <1>4, <2>1, <2>2, <3>2 DEF agg_covers
  <2>4. RollupLabel(agg, plan, g, i) = << LevelValue(r, d, l) >>
    BY <1>3, <1>5, <2>3 DEF RollupLabel
  <2>5. l = 1 \/ \E f \in plan.filters : /\ f.dim = d /\ Cardinality(f.keys) = 1
                                         /\ f.level = 0 \/ l = f.level + 1
    <3> SUFFICES ASSUME l # 1 PROVE \E f \in plan.filters : /\ f.dim = d /\ Cardinality(f.keys) = 1
                                                          /\ l = f.level + 1
      OBVIOUS
    <3>1. plan.levels[1] > 1
      BY <1>4, <2>1, <2>2
    <3>2. SingleParent(plan, plan.group_by[1])
      BY <1>1, <2>1, <2>2, <3>1 DEF needs_path
    <3> QED
      BY <1>5, <2>1, <2>2, <3>1, <3>2 DEF SingleParent
  <2>6. l \in 1..Len(Levels[d])
    BY <1>1, <1>5, <2>3
  <2> HIDE DEF l, d
  <2>7. FactLabel(r, plan, i) = << LevelValue(r, d, l) >>
    BY <2>5, <2>6 DEF FactLabel, l, d
  <2> QED
    BY <2>4, <2>7
<1>6. CASE d \in Flat
  <2>1. d # agg.dim /\ Len(Levels[d]) = 0
    <3> HIDE DEF d
    <3>1. d \in Dim /\ d \notin Related /\ Levels[d] = << >>
      BY <1>6, DimAssumption DEF Flat
    <3> QED
      BY <1>1, <3>1
  <2>2. RollupLabel(agg, plan, g, i) = << r.key[d] >>
    BY <1>3, <1>6, <2>1 DEF RollupLabel
  <2>3. l \notin 1..Len(Levels[d])
    BY <1>4, <2>1
  <2> HIDE DEF l, d
  <2>4. FactLabel(r, plan, i) = << r.key[d] >>
    BY <2>3 DEF FactLabel, l, d
  <2> QED
    BY <2>2, <2>4
<1> QED
  BY <1>2, <1>5, <1>6

-----------------------------------------------------------------------------
(* A rollup and the rows it was built from.                                   *)

\* The rollup of rows, each of which joins, has a group for every key.
Keys(agg, R) == [r \in R |-> GroupKey(agg, r)]
KeysOf(agg, R) == {Keys(agg, R)[r] : r \in R}

LEMMA KeysFinite ==
  ASSUME NEW agg, NEW R, IsFiniteSet(R)
  PROVE  IsFiniteSet(KeysOf(agg, R)) /\ \A r \in R : Keys(agg, R)[r] = GroupKey(agg, r)
<1>1. Keys(agg, R) \in Surjection(R, KeysOf(agg, R))
  BY DEF Keys, KeysOf, Surjection
<1>2. IsFiniteSet(KeysOf(agg, R))
  BY <1>1, FS_Surjection
<1> QED
  BY <1>2 DEF Keys

Joining(agg, R) == {r \in R : Joined(r, agg.dim)}
LEMMA BuiltGroups ==
  ASSUME NEW agg, NEW R, NEW J, J = Joining(agg, R)
  PROVE  build_sql(agg, R) = GroupsOf(J, Keys(agg, J), KeysOf(agg, J))
<1>1. \A r \in J : Keys(agg, J)[r] = GroupKey(agg, r)
  BY DEF Keys
<1>2. KeysOf(agg, J) = {GroupKey(agg, r) : r \in J}
  BY <1>1 DEF KeysOf
<1>3. \A k : GroupRow(J, Keys(agg, J), k) = [key |-> k, amount |-> Total({r \in J : GroupKey(agg, r) = k})]
  <2>1. \A k : {r \in J : Keys(agg, J)[r] = k} = {r \in J : GroupKey(agg, r) = k}
    BY <1>1
  <2> QED
    BY <2>1 DEF GroupRow
<1> QED
  BY <1>2, <1>3 DEF build_sql, Joining, GroupsOf

\* A rollup with the sum of the fact table has every row, if losses show.
LEMMA AllRowsJoin ==
  ASSUME LossesShow, NEW agg \in Rollup, NEW v \in 1..MaxVersion, SumsAgree(agg, Fact[v])
  PROVE  Joining(agg, Fact[v]) = Fact[v]
<1>1. PICK R, J, key, K :
         R = Fact[v] /\ J = Joining(agg, R) /\ key = Keys(agg, J) /\ K = KeysOf(agg, J)
  OBVIOUS
<1>2. HasAmounts(R) /\ J \in SUBSET R /\ HasAmounts(J) /\ IsFiniteSet(J)
  <2>1. HasAmounts(R)
    BY <1>1, FactAssumption DEF HasAmounts
  <2>2. J \in SUBSET R
    BY <1>1 DEF Joining
  <2> QED
    BY <2>1, <2>2, FS_Subset DEF HasAmounts
<1>3. Total(build_sql(agg, R)) = Total(J)
  <2>1. build_sql(agg, R) = GroupsOf(J, key, K)
    BY <1>1, BuiltGroups
  <2>2. IsFiniteSet(K)
    BY <1>1, <1>2, KeysFinite
  <2>3. Total(GroupsOf(J, key, K)) = Total(RowsOf(J, key, K))
    BY <1>2, <2>2, RegroupedTotal
  <2>4. RowsOf(J, key, K) = J
    BY <1>1 DEF RowsOf, KeysOf
  <2> QED
    BY <2>1, <2>3, <2>4
<1>4. Total(R \ J) = 0
  <2>1. Total(R) = Total(J)
    BY <1>1, <1>3 DEF SumsAgree
  <2> QED
    BY <1>2, <2>1, TotalSplit
<1>5. R \ J = {r \in Fact[v] : ~Joined(r, agg.dim)}
  BY <1>1 DEF Joining
<1>6. R \ J = {}
  BY <1>4, <1>5, RollupType DEF LossesShow
<1> QED
  BY <1>1, <1>2, <1>6

TotalAt(label, x) == Total({r \in DOMAIN label : label[r] = x})
LabelsOf(label) == {label[r] : r \in DOMAIN label}
LEMMA GroupedSame ==
  ASSUME NEW f, NEW h, LabelsOf(f) = LabelsOf(h), \A x : TotalAt(f, x) = TotalAt(h, x)
  PROVE  Grouped(f) = Grouped(h)
<1>1. \A label : Grouped(label) = {<< x, TotalAt(label, x) >> : x \in LabelsOf(label)}
  BY DEF Grouped, TotalAt, LabelsOf
<1>2. {<< x, TotalAt(f, x) >> : x \in LabelsOf(f)} = {<< x, TotalAt(h, x) >> : x \in LabelsOf(h)}
  OBVIOUS
<1> QED
  BY <1>1, <1>2

\* Where every row joins and the query is a translation, the rollup of rows
\* answers as they do.
LEMMA AnswersAgree ==
  ASSUME NEW plan \in Plan, NEW user \in User, NEW agg, Routed(plan, user, agg),
         ListsSingleKeys(plan), GroupsOneDown(plan, agg), JoinsByAnd(plan, user),
         NEW R, HasAmounts(R), Joining(agg, R) = R
  PROVE  RollupAnswer(agg, plan, user, build_sql(agg, R)) = FactAnswer(plan, user, R)
<1>1. PICK key, K, B, where :
         key = Keys(agg, R) /\ K = KeysOf(agg, R) /\ B = build_sql(agg, R) /\ where = agg_where(agg, plan, user)
  OBVIOUS
<1>2. B = GroupsOf(R, key, K) /\ IsFiniteSet(K)
  BY <1>1, BuiltGroups, KeysFinite DEF HasAmounts
<1>3. /\ \A r \in R : key[r] = GroupKey(agg, r) /\ key[r] \in K /\ Joined(r, agg.dim)
      /\ \A k \in K : \E r \in R : key[r] = k
  BY <1>1 DEF Keys, KeysOf, Joining
<1> DEFINE group(k) == GroupRow(R, key, k)
           keptGroups == {g \in B : RollupHolds(agg, where, g)}
           keptKeys == {k \in K : RollupHolds(agg, where, group(k))}
           keptRows == {r \in R : FactKeeps(plan, user, r)}
<1>4. \A k : group(k).key = k
  BY DEF GroupRow
<1>5. ASSUME NEW r \in R PROVE key[r] \in keptKeys <=> r \in keptRows
  <2>1. group(key[r]).key = GroupKey(agg, r)
    BY <1>3, <1>4
  <2>2. RollupHolds(agg, where, group(key[r])) <=> FactKeeps(plan, user, r)
    <3> HIDE DEF group
    <3> QED
      BY <1>1, <1>3, <2>1, KeepsAgree
  <2> QED
    BY <1>3, <2>2
<1>6. keptGroups = {group(k) : k \in keptKeys}
  BY <1>2 DEF GroupsOf
<1>7. IsFiniteSet(keptKeys) /\ keptKeys \subseteq K
  BY <1>2, FS_Subset
<1> HIDE DEF group, keptGroups, keptKeys, keptRows
<1>8. keptGroups = GroupsOf(R, key, keptKeys) /\ keptRows = RowsOf(R, key, keptKeys)
  <2>1. keptRows \subseteq R
    BY DEF keptRows
  <2> QED
    BY <1>5, <1>6, <2>1 DEF GroupsOf, RowsOf, group
<1>9. CASE ~plan.grouped
  <2>1. Total(keptGroups) = Total(keptRows)
    BY <1>7, <1>8, RegroupedTotal
  <2> QED
    BY <1>1, <1>9, <2>1 DEF RollupAnswer, FactAnswer, keptGroups, keptRows
<1>10. CASE plan.grouped
  <2> DEFINE named(g) == [i \in DOMAIN plan.group_by |-> RollupLabel(agg, plan, g, i)]
             label(r) == [i \in DOMAIN plan.group_by |-> FactLabel(r, plan, i)]
  <2>1. PICK names, labels :
           names = [g \in keptGroups |-> named(g)] /\ labels = [r \in keptRows |-> label(r)]
    OBVIOUS
  <2>2. RollupAnswer(agg, plan, user, B) = Grouped(names) /\ FactAnswer(plan, user, R) = Grouped(labels)
    BY <1>1, <1>10, <2>1 DEF RollupAnswer, FactAnswer, keptGroups, keptRows
  <2>3. ASSUME NEW r \in keptRows PROVE named(group(key[r])) = label(r)
    <3>1. r \in R /\ group(key[r]).key = GroupKey(agg, r)
      BY <1>3, <1>4 DEF keptRows
    <3>2. \A i \in DOMAIN plan.group_by : RollupLabel(agg, plan, group(key[r]), i) = FactLabel(r, plan, i)
      BY <1>10, <3>1, LabelsAgree
    <3> QED
      BY <3>2
  <2> HIDE DEF named, label
  <2>4. \A r \in keptRows : key[r] \in keptKeys /\ group(key[r]) \in keptGroups
    BY <1>8, <1>6 DEF RowsOf
  <2>5. \A r \in keptRows : names[group(key[r])] = labels[r]
    BY <2>1, <2>3, <2>4
  <2>6. \A k \in keptKeys : \E r \in keptRows : key[r] = k
    BY <1>3, <1>5, <1>7
  <2>7. DOMAIN names = keptGroups /\ DOMAIN labels = keptRows
    BY <2>1
  <2>8. LabelsOf(names) = LabelsOf(labels)
    BY <1>6, <2>4, <2>5, <2>6, <2>7 DEF LabelsOf
  <2>9. ASSUME NEW x PROVE TotalAt(names, x) = TotalAt(labels, x)
    <3>1. PICK L : L = {k \in keptKeys : names[group(k)] = x}
      OBVIOUS
    <3>2. IsFiniteSet(L)
      BY <1>7, <3>1, FS_Subset
    <3>3. {g \in keptGroups : names[g] = x} = GroupsOf(R, key, L)
      BY <1>6, <3>1 DEF GroupsOf, group
    <3>4. {r \in keptRows : labels[r] = x} = RowsOf(R, key, L)
      BY <1>8, <2>4, <2>5, <3>1 DEF RowsOf
    <3> QED
      BY <2>7, <3>2, <3>3, <3>4, RegroupedTotal DEF TotalAt
  <2>10. Grouped(names) = Grouped(labels)
    BY <2>8, <2>9, GroupedSame
  <2> QED
    BY <1>1, <2>2, <2>10
<1> QED
  BY <1>9, <1>10

-----------------------------------------------------------------------------
(* What the service reads.                                                    *)

\* A stamp that is that of the file vouches for sums that agree.
StampIsValidated ==
    /\ pc \in Serves => pool \in 1..MaxVersion
    /\ pc \in {"clearing", "stamping"} => \A t \in Used : Valid[t][from]
    /\ meta = source => \A t \in Used : Valid[t][source]
    /\ (pc \in Serves /\ routing /\ ~moved) => \A t \in Used : Valid[t][pool]

LEMMA ValidatedInit == Init => StampIsValidated
BY VersionAssumption DEF Init, StampIsValidated, Serves

LEMMA ValidatedStep == IInv /\ StampIsValidated /\ [Next]_vars => StampIsValidated'
<1> SUFFICES ASSUME IInv, StampIsValidated, [Next]_vars PROVE StampIsValidated'
  OBVIOUS
<1> USE VersionAssumption DEF IInv, TypeOK, NoneIsNewer, StampIsValidated, disk, local,
                              Starting, Building, Serves
<1>1. CASE Replace
  BY <1>1 DEF Replace
<1>2. CASE Crash \/ Start \/ BuildFails
  BY <1>2 DEF Crash, Start, BuildFails
<1>3. CASE OpenPool
  <2>1. (routing /\ ~moved) => meta = source
    BY <1>3 DEF OpenPool, StampIsFresh, RoutingIsStamped
  <2> QED
    BY <1>3, <2>1 DEF OpenPool
<1>4. CASE disable_stale_aggregations
  <2>1. meta = source /\ routing => pool = source
    BY <1>4 DEF disable_stale_aggregations, RoutingIsStamped
  <2> QED
    BY <1>4, <2>1 DEF disable_stale_aggregations, sidecar_current
<1>5. CASE ReopenPool
  <2>1. (routing /\ ~moved) => meta = source
    BY <1>5 DEF ReopenPool, RoutingIsStamped
  <2> QED
    BY <1>5, <2>1 DEF ReopenPool
<1>6. CASE ReopenFails
  BY <1>6 DEF ReopenFails
<1>7. CASE Reuse \/ Attach \/ DropTable \/ CreateTable \/ validate_rollups
  BY <1>7 DEF Reuse, Attach, DropTable, CreateTable, validate_rollups
<1>8. CASE ClearStamp
  BY <1>8 DEF ClearStamp
<1>9. CASE WriteStamp
  <2>1. stamp = source => from = source
    BY <1>9 DEF WriteStamp, StampIsFresh
  <2> QED
    BY <1>9, <2>1 DEF WriteStamp
<1>10. CASE UNCHANGED vars
  BY <1>10 DEF vars
<1> QED
  BY <1>1, <1>2, <1>3, <1>4, <1>5, <1>6, <1>7, <1>8, <1>9, <1>10
     DEF Next, ensure_aggregations, reload_data

\* What was answered last is what the present state answers.
ReplyIsPresent ==
    reply # << >> =>
        /\ pc \in Serves /\ routing
        /\ \E plan \in Plan, user \in User :
             /\ route_plan(plan, user) # << >>
             /\ reply = [plan |-> plan, user |-> user, agg |-> route_plan(plan, user)[1],
                         answer |-> RollupAnswer(route_plan(plan, user)[1], plan, user,
                                                 Content(TableName(route_plan(plan, user)[1]))),
                         fact |-> FactAnswer(plan, user, Fact[pool])]

ServiceInv == IInv /\ StampIsValidated /\ ReplyIsPresent

LEMMA ServiceInvInit == ServiceInit => ServiceInv
<1> SUFFICES ASSUME ServiceInit PROVE ServiceInv
  OBVIOUS
<1>1. IInv /\ StampIsValidated
  BY IInvInit, ValidatedInit DEF ServiceInit
<1> QED
  BY <1>1 DEF ServiceInv, ReplyIsPresent, ServiceInit

LEMMA ServiceInvStep == ServiceInv /\ [ServiceNext]_serviceVars => ServiceInv'
<1> SUFFICES ASSUME ServiceInv, [ServiceNext]_serviceVars PROVE ServiceInv'
  OBVIOUS
<1>1. [Next]_vars
  BY DEF ServiceNext, Live, Ask, serviceVars
<1>2. IInv' /\ StampIsValidated'
  BY <1>1, IInvStep, ValidatedStep DEF ServiceInv
<1>3. CASE Live
  BY <1>2, <1>3 DEF Live, ServiceInv, ReplyIsPresent
<1>4. ASSUME NEW plan \in Plan, NEW user \in User, Ask(plan, user) PROVE ServiceInv'
  <2>1. /\ UNCHANGED <<pc, routing, pool, tables>> /\ pc \in Serves /\ routing
        /\ route_plan(plan, user) # << >>
        /\ reply' = [plan |-> plan, user |-> user, agg |-> route_plan(plan, user)[1],
                     answer |-> RollupAnswer(route_plan(plan, user)[1], plan, user,
                                             Content(TableName(route_plan(plan, user)[1]))),
                     fact |-> FactAnswer(plan, user, Fact[pool])]
    BY <1>4 DEF Ask, vars, disk
  <2>2. ReplyIsPresent'
    BY <2>1 DEF ReplyIsPresent, Content
  <2> QED
    BY <1>2, <2>2 DEF ServiceInv
<1>5. CASE UNCHANGED serviceVars
  <2>1. UNCHANGED <<pc, routing, pool, tables, reply>>
    BY <1>5 DEF serviceVars, vars, disk
  <2>2. ReplyIsPresent'
    BY <2>1 DEF ServiceInv, ReplyIsPresent, Content
  <2> QED
    BY <1>2, <2>2 DEF ServiceInv
<1> QED
  BY <1>3, <1>4, <1>5 DEF ServiceNext

\* A table that one rollup only is named for holds it, built from the rows the
\* pool reads, and with their sum.
LEMMA ContentIsBuilt ==
  ASSUME ServiceInv, pc \in Serves, routing, ~moved, NEW agg \in Rollup, HoldsOwnTable(agg)
  PROVE  /\ pool \in 1..MaxVersion /\ SumsAgree(agg, Fact[pool])
         /\ Content(TableName(agg)) = build_sql(agg, Fact[pool])
<1> DEFINE table == TableName(agg)
<1>1. table \in Used /\ table \in Table
  <2>1. PICK i \in DOMAIN Design : Design[i] = agg
    BY DesignedAssumption DEF ToSet
  <2>2. i \in Steps
    BY <2>1, DesignAssumption DEF Steps
  <2>3. TableAt(i) = table
    BY <2>1, DesignedAssumption DEF TableAt
  <2> QED
    BY <2>2, <2>3, TablesAreTables DEF Used
<1>2. pool \in 1..MaxVersion /\ Valid[table][pool]
  BY <1>1 DEF ServiceInv, StampIsValidated
<1>3. tables[table] = pool
  BY <1>1 DEF ServiceInv, IInv, RollupIsCurrent
<1>4. Holder(table) = agg
  BY DEF HoldsOwnTable
<1> HIDE DEF table
<1>5. Valid[table][pool] = SumsAgree(agg, Fact[pool])
  BY <1>1, <1>2, <1>4, ValidatedAssumption
<1>6. Built[table][pool] = build_sql(agg, Fact[pool])
  BY <1>1, <1>2, <1>4 DEF Built
<1> QED
  BY <1>2, <1>3, <1>5, <1>6 DEF Content, table

LEMMA ServiceInvTranslates == LossesShow /\ ServiceInv => TranslatedAnswersAsFact
<1> SUFFICES ASSUME LossesShow, ServiceInv, reply # << >>, ~moved,
                    ListsSingleKeys(reply.plan), GroupsOneDown(reply.plan, reply.agg),
                    JoinsByAnd(reply.plan, reply.user), HoldsOwnTable(reply.agg)
             PROVE  reply.answer = reply.fact
  BY DEF TranslatedAnswersAsFact
<1>1. pc \in Serves /\ routing
  BY DEF ServiceInv, ReplyIsPresent
<1>2. PICK plan \in Plan, user \in User :
         /\ route_plan(plan, user) # << >>
         /\ reply = [plan |-> plan, user |-> user, agg |-> route_plan(plan, user)[1],
                     answer |-> RollupAnswer(route_plan(plan, user)[1], plan, user,
                                             Content(TableName(route_plan(plan, user)[1]))),
                     fact |-> FactAnswer(plan, user, Fact[pool])]
  BY DEF ServiceInv, ReplyIsPresent
<1>3. PICK agg : agg = route_plan(plan, user)[1]
  OBVIOUS
<1>4. /\ reply.plan = plan /\ reply.user = user /\ reply.agg = agg
      /\ reply.answer = RollupAnswer(agg, plan, user, Content(TableName(agg)))
      /\ reply.fact = FactAnswer(plan, user, Fact[pool])
  BY <1>2, <1>3
<1>5. Routed(plan, user, agg) /\ agg \in Rollup
  BY <1>2, <1>3, RouteIsRouted DEF Routed
<1>6. /\ pool \in 1..MaxVersion /\ SumsAgree(agg, Fact[pool])
      /\ Content(TableName(agg)) = build_sql(agg, Fact[pool])
  BY <1>1, <1>4, <1>5, ContentIsBuilt
<1>7. Joining(agg, Fact[pool]) = Fact[pool]
  BY <1>5, <1>6, AllRowsJoin
<1>8. HasAmounts(Fact[pool])
  BY <1>6, FactAssumption DEF HasAmounts
<1>9. RollupAnswer(agg, plan, user, build_sql(agg, Fact[pool])) = FactAnswer(plan, user, Fact[pool])
  BY <1>4, <1>5, <1>7, <1>8, AnswersAgree
<1> QED
  BY <1>4, <1>6, <1>9

\* Where a rollup query is a translation of the fact query, the rollup answers what
\* the fact table would, roles applied, whatever the sidecar has been through; rows
\* without a row of the dimension are shown by the sums or there are none.
THEOREM TranslatedAnswers ==
  ASSUME LossesShow
  PROVE  ServiceSpec => []TranslatedAnswersAsFact
<1>1. ServiceInv => TranslatedAnswersAsFact
  BY ServiceInvTranslates
<1> QED
  BY <1>1, ServiceInvInit, ServiceInvStep, PTL DEF ServiceSpec
=============================================================================
