-------------------------- MODULE ResultCacheProofs --------------------------
(* The result cache keeps its contract, its entry cap and the count of its   *)
(* bytes for every set of keys and results and every limit.                  *)
EXTENDS ResultCache, Counting

LEMMA SurvivorsAreOthers ==
  ASSUME NEW v \in Value, NEW others \in SUBSET Key, NEW S \in Survivors(v, others)
  PROVE  S \in SUBSET others
BY DEF Survivors

LEMMA EntriesInit == Init => EntriesTypeOK /\ EntriesBounded
<1> SUFFICES ASSUME Init PROVE EntriesTypeOK /\ EntriesBounded
  OBVIOUS
<1>1. EntriesTypeOK
  BY LimitsAssumption DEF Init, EntriesTypeOK
<1>2. Present = {}
  BY DEF Init, Present
<1> QED
  BY <1>1, <1>2, FS_EmptySet, LimitsAssumption DEF EntriesBounded

LEMMA EntriesTypeStep == EntriesTypeOK /\ [Next]_vars => EntriesTypeOK'
<1> SUFFICES ASSUME EntriesTypeOK, [Next]_vars PROVE EntriesTypeOK'
  OBVIOUS
<1> USE LimitsAssumption, AbsentAssumption DEF EntriesTypeOK
<1>1. CASE UNCHANGED vars \/ Tick \/ Clear
  BY <1>1 DEF vars, Tick, Clear
<1>2. ASSUME NEW k \in Key, Hit(k) \/ Miss(k) PROVE EntriesTypeOK'
  BY <1>2 DEF Hit, Miss, IsFresh, Entry
<1>3. ASSUME NEW k \in Key, NEW v \in Value, Refuse(k, v) PROVE EntriesTypeOK'
  BY <1>3 DEF Refuse, vars
<1>4. ASSUME NEW k \in Key, NEW v \in Value, Insert(k, v) PROVE EntriesTypeOK'
  <2> DEFINE others == Present \ {k}
  <2>1. PICK S \in Survivors(v, others) :
           /\ entries' = [j \in Key |-> IF j = k THEN [value |-> v, at |-> now]
                                        ELSE IF j \in S THEN entries[j] ELSE Absent]
           /\ evictions + Cardinality(others \ S) <= MaxCount
           /\ evictions' = evictions + Cardinality(others \ S)
    BY <1>4 DEF Insert
  <2>2. entries' \in [Key -> {Absent} \union Entry]
    BY <2>1 DEF Entry
  <2>3. Cardinality(others \ S) \in Nat
    <3>1. IsFiniteSet(others \ S)
      BY FS_Subset, KeyAssumption DEF Present
    <3> QED
      BY <3>1, FS_CardinalityType
  <2>4. evictions' \in 0 .. MaxCount
    <3> HIDE DEF others
    <3> QED
      BY <2>1, <2>3
  <2> QED
    BY <1>4, <2>2, <2>4 DEF Insert
<1> QED
  BY <1>1, <1>2, <1>3, <1>4 DEF Next

LEMMA RoomAfterEviction ==
  ASSUME NEW v \in Value, NEW others \in SUBSET Key, NEW S \in Survivors(v, others)
  PROVE  IsFiniteSet(S) /\ Cardinality(S) < Capacity
<1>1. S \in SUBSET others
  BY SurvivorsAreOthers
<1>2. IsFiniteSet(S)
  BY <1>1, FS_Subset, KeyAssumption
<1>3. S = {} \/ HasRoom(v, S)
  BY DEF Survivors
<1>4. S = {} => Cardinality(S) < Capacity
  BY FS_EmptySet, LimitsAssumption
<1> QED
  BY <1>2, <1>3, <1>4 DEF HasRoom

LEMMA BoundedStep ==
  ASSUME EntriesTypeOK, EntriesBounded, [Next]_vars
  PROVE  EntriesBounded'
<1> USE DEF EntriesBounded
<1>1. ASSUME Present' \in SUBSET Present PROVE EntriesBounded'
  <2>1. IsFiniteSet(Present)
    BY FS_Subset, KeyAssumption DEF Present
  <2>2. IsFiniteSet(Present') /\ Cardinality(Present') <= Cardinality(Present)
    BY <1>1, <2>1, FS_Subset
  <2>3. Cardinality(Present) \in Nat /\ Cardinality(Present') \in Nat
    BY <2>1, <2>2, FS_CardinalityType
  <2> QED
    BY <2>2, <2>3, LimitsAssumption
<1>2. CASE UNCHANGED vars \/ Tick \/ Clear
  BY <1>1, <1>2 DEF vars, Tick, Clear, Present
<1>3. ASSUME NEW k \in Key, Hit(k) \/ Miss(k) PROVE EntriesBounded'
  <2>1. Present' \in SUBSET Present
    BY <1>3 DEF Hit, Miss, Present, EntriesTypeOK
  <2> QED
    BY <1>1, <2>1
<1>4. ASSUME NEW k \in Key, NEW v \in Value, Refuse(k, v) PROVE EntriesBounded'
  BY <1>1, <1>4 DEF Refuse, vars, Present
<1>5. ASSUME NEW k \in Key, NEW v \in Value, Insert(k, v) PROVE EntriesBounded'
  <2> DEFINE others == Present \ {k}
  <2>1. PICK S \in Survivors(v, others) :
           entries' = [j \in Key |-> IF j = k THEN [value |-> v, at |-> now]
                                     ELSE IF j \in S THEN entries[j] ELSE Absent]
    BY <1>5 DEF Insert
  <2>2. others \in SUBSET Key
    BY DEF Present
  <2>3. S \in SUBSET others /\ IsFiniteSet(S) /\ Cardinality(S) < Capacity
    BY <2>1, <2>2, RoomAfterEviction, SurvivorsAreOthers
  <2>4. Present' \in SUBSET (S \union {k}) /\ k \notin S
    BY <2>1, <2>3 DEF Present
  <2>5. IsFiniteSet(S \union {k}) /\ Cardinality(S \union {k}) = Cardinality(S) + 1
    BY <2>3, <2>4, FS_AddElement
  <2>6. IsFiniteSet(Present') /\ Cardinality(Present') <= Cardinality(S \union {k})
    BY <2>4, <2>5, FS_Subset
  <2>7. Cardinality(Present') \in Nat /\ Cardinality(S) \in Nat
    BY <2>3, <2>6, FS_CardinalityType
  <2> QED
    BY <2>3, <2>5, <2>6, <2>7, LimitsAssumption
<1> QED
  BY <1>2, <1>3, <1>4, <1>5 DEF Next

\* No burst of distinct queries grows the map beyond its capacity.
THEOREM EntryCap == Spec => []EntriesBounded
<1>1. Init => EntriesTypeOK /\ EntriesBounded
  BY EntriesInit
<1>2. EntriesTypeOK /\ EntriesBounded /\ [Next]_vars => (EntriesTypeOK /\ EntriesBounded)'
  BY EntriesTypeStep, BoundedStep
<1> QED
  BY <1>1, <1>2, PTL DEF Spec
-----------------------------------------------------------------------------
(* Refinement of CacheContract, with store <- entries.                       *)

LEMMA ContractInit == Init => Contract!Init
BY DEF Init, Contract!Init

LEMMA ContractStep == EntriesTypeOK /\ [Next]_vars => [Contract!Next]_(Contract!contractVars)
<1> SUFFICES ASSUME EntriesTypeOK, [Next]_vars
             PROVE  Contract!Next \/ UNCHANGED Contract!contractVars
  OBVIOUS
<1>1. CASE UNCHANGED vars
  BY <1>1 DEF vars, Contract!contractVars
<1>2. CASE Tick
  BY <1>2 DEF Tick, Contract!Next, Contract!Tick
<1>3. CASE Clear
  BY <1>3 DEF Clear, Contract!Next, Contract!Clear
<1>4. ASSUME NEW k \in Key, Hit(k) \/ Miss(k) PROVE Contract!Lookup(k)
  <2>1. IsFresh(k) <=> Contract!Fresh(entries[k])
    BY DEF IsFresh, Contract!Fresh
  <2> QED
    BY <1>4, <2>1 DEF Hit, Miss, Contract!Lookup
<1>5. ASSUME NEW k \in Key, NEW v \in Value, Refuse(k, v) PROVE UNCHANGED Contract!contractVars
  BY <1>5 DEF Refuse, vars, Contract!contractVars
<1>6. ASSUME NEW k \in Key, NEW v \in Value, Insert(k, v) PROVE Contract!Store(k, v)
  <2>1. PICK S \in Survivors(v, Present \ {k}) :
           entries' = [j \in Key |-> IF j = k THEN [value |-> v, at |-> now]
                                     ELSE IF j \in S THEN entries[j] ELSE Absent]
    BY <1>6 DEF Insert
  <2>2. UNCHANGED <<now, answer>>
    BY <1>6 DEF Insert
  <2>3. entries' \in [Key -> {Absent} \union [value : Value, at : Nat]]
    BY <2>1, LimitsAssumption DEF EntriesTypeOK, Entry
  <2> QED
    BY <2>1, <2>2, <2>3 DEF Contract!Store
<1> QED
  BY <1>1, <1>2, <1>3, <1>4, <1>5, <1>6 DEF Next, Contract!Next

\* Whatever the cache evicts, expires, replaces or refuses, a lookup answers
\* what the contract allows.
THEOREM CacheKeepsContract == Spec => ImplementsContract
<1>1. Init => EntriesTypeOK
  BY EntriesInit
<1>2. EntriesTypeOK /\ [Next]_vars => EntriesTypeOK'
  BY EntriesTypeStep
<1> QED
  BY <1>1, <1>2, ContractInit, ContractStep, PTL DEF Spec, ImplementsContract, Contract!Spec
-----------------------------------------------------------------------------
(* The bytes.                                                                *)

LEMMA BytesAreSum ==
  \A f, S : HasNumbers(f, S) /\ (\A x \in S : f[x] = SizeOf[entries[x].value]) => BytesOf(S) = SumOf(f, S)
<1> SUFFICES ASSUME NEW f, NEW S, HasNumbers(f, S), \A x \in S : f[x] = SizeOf[entries[x].value]
             PROVE  BytesOf(S) = SumOf(f, S)
  OBVIOUS
<1> DEFINE Step(it) ==
             [s \in SUBSET S |-> IF s = {} THEN 0
                                 ELSE SizeOf[entries[AnyOf(s)].value] + it[s \ {AnyOf(s)}]]
           sum == CHOOSE it : it = Step(it)
<1>1. BytesOf(S) = sum[S]
  BY DEF BytesOf, MapThenSumSet, MapThenFoldSet, AnyOf
<1>2. ASSUME NEW it PROVE it = Step(it) <=> Adds(f, S, it)
  <2>1. \A s \in SUBSET S : s # {} => SizeOf[entries[AnyOf(s)].value] = f[AnyOf(s)]
    BY AnyOfIsOne
  <2>2. Step(it) = [s \in SUBSET S |-> IF s = {} THEN 0 ELSE f[AnyOf(s)] + it[s \ {AnyOf(s)}]]
    BY <2>1
  <2> QED
    BY <2>2 DEF Adds
<1>3. \E it : it = Step(it)
  BY <1>2, SumAdds
<1>4. sum = Step(sum)
  <2> HIDE DEF Step
  <2> QED
    BY <1>3
<1>5. Adds(f, S, sum)
  <2> HIDE DEF Step, sum
  <2> QED
    BY <1>2, <1>4
<1> HIDE DEF sum
<1> QED
  BY <1>1, <1>5, AddsIsSum

\* The sizes of the entries, and the totals over them in this state and the next.
SizeNow(k) == IF entries[k] = Absent THEN 0 ELSE SizeOf[entries[k].value]

LEMMA SizesAreNumbers == EntriesTypeOK => \A k \in Key : SizeNow(k) \in Nat
<1> SUFFICES ASSUME EntriesTypeOK, NEW k \in Key PROVE SizeNow(k) \in Nat
  OBVIOUS
<1>1. entries[k] # Absent => entries[k].value \in Value
  BY DEF EntriesTypeOK, Entry
<1> QED
  BY <1>1, SizeOfAssumption DEF SizeNow

LEMMA PresentBytes ==
  EntriesTypeOK => \A f, P : P = Present /\ f = [k \in Key |-> SizeNow(k)] => BytesOf(Present) = SumOf(f, P)
<1> SUFFICES ASSUME EntriesTypeOK, NEW f, NEW P, P = Present, f = [k \in Key |-> SizeNow(k)]
             PROVE  BytesOf(P) = SumOf(f, P)
  OBVIOUS
<1>1. HasNumbers(f, P)
  BY SizesAreNumbers, FS_Subset, KeyAssumption DEF HasNumbers, Present
<1>2. \A k \in P : f[k] = SizeOf[entries[k].value]
  BY DEF Present, SizeNow
<1> QED
  BY <1>1, <1>2, BytesAreSum

LEMMA PresentBytesNext ==
  EntriesTypeOK' => (\A f, P : P = Present /\ f = [k \in Key |-> SizeNow(k)] => BytesOf(Present) = SumOf(f, P))'
BY PresentBytes, PTL

LEMMA BytesInit == Init => BytesAreCounted
<1> SUFFICES ASSUME Init PROVE BytesAreCounted
  OBVIOUS
<1> DEFINE f == [k \in {} |-> 0]
<1>1. Present = {} /\ bytesUsed = 0
  BY DEF Init, Present
<1>2. HasNumbers(f, {})
  BY FS_EmptySet DEF HasNumbers
<1>3. BytesOf({}) = SumOf(f, {})
  BY <1>2, BytesAreSum
<1> QED
  BY <1>1, <1>3, SumOfNone, LimitsAssumption DEF BytesAreCounted

\* Every operation keeps the counter the total over the entries.
LEMMA BytesStep ==
  ASSUME EntriesTypeOK, BytesAreCounted, [Next]_vars
  PROVE  BytesAreCounted'
<1> DEFINE sizes == [k \in Key |-> SizeNow(k)]
<1>1. EntriesTypeOK'
  BY EntriesTypeStep
<1>2. PICK f, g, P, Q : f = sizes /\ g = sizes' /\ P = Present /\ Q = Present'
  OBVIOUS
<1>3. \A S \in SUBSET Key : HasNumbers(f, S) /\ HasNumbers(g, S) /\ SumOf(f, S) \in Nat
  <2>1. \A k \in Key : f[k] \in Nat
    BY <1>2, SizesAreNumbers
  <2>2. \A k \in Key : SizeNow(k)' \in Nat
    BY <1>1, SizeOfAssumption DEF EntriesTypeOK, Entry, SizeNow
  <2>3. \A k \in Key : g[k] \in Nat
    BY <1>2, <2>2
  <2>4. \A S \in SUBSET Key : HasNumbers(f, S) /\ HasNumbers(g, S)
    BY <2>1, <2>3, KeyAssumption, FS_Subset DEF HasNumbers
  <2> QED
    BY <2>1, <2>4, SumOfNaturals
<1>4. P \in SUBSET Key /\ Q \in SUBSET Key
  BY <1>2 DEF Present
<1>5. bytesUsed = SumOf(f, P) /\ (MaxBytes > 0 => bytesUsed <= MaxBytes)
  BY <1>2, PresentBytes DEF BytesAreCounted
<1>6. ASSUME NEW S \in SUBSET P PROVE BytesOf(S) = SumOf(f, S)
  <2>1. \A k \in S : f[k] = SizeOf[entries[k].value]
    BY <1>2 DEF Present, SizeNow
  <2> QED
    BY <1>3, <1>4, <2>1, BytesAreSum
<1>7. SUFFICES bytesUsed' = SumOf(g, Q) /\ (MaxBytes > 0 => bytesUsed' <= MaxBytes)
  <2>1. BytesOf(Present)' = SumOf(g, Q)
    BY <1>1, <1>2, PresentBytesNext
  <2> QED
    BY <2>1 DEF BytesAreCounted
<1>8. ASSUME UNCHANGED <<entries, bytesUsed>>
      PROVE  bytesUsed' = SumOf(g, Q) /\ (MaxBytes > 0 => bytesUsed' <= MaxBytes)
  <2>1. f = g /\ P = Q
    BY <1>2, <1>8 DEF SizeNow, Present
  <2> QED
    BY <1>5, <1>8, <2>1
<1>9. CASE UNCHANGED vars \/ Tick
  BY <1>8, <1>9 DEF vars, Tick
<1>10. ASSUME NEW k \in Key, Hit(k)
       PROVE  bytesUsed' = SumOf(g, Q) /\ (MaxBytes > 0 => bytesUsed' <= MaxBytes)
  BY <1>8, <1>10 DEF Hit
<1>11. ASSUME NEW k \in Key, NEW v \in Value, Refuse(k, v)
       PROVE  bytesUsed' = SumOf(g, Q) /\ (MaxBytes > 0 => bytesUsed' <= MaxBytes)
  BY <1>8, <1>11 DEF Refuse, vars
<1>12. CASE Clear
  <2>1. Q = {} /\ bytesUsed' = 0
    BY <1>2, <1>12 DEF Clear, Present
  <2> QED
    BY <2>1, SumOfNone, LimitsAssumption
<1>13. ASSUME NEW k \in Key, Miss(k)
       PROVE  bytesUsed' = SumOf(g, Q) /\ (MaxBytes > 0 => bytesUsed' <= MaxBytes)
  <2>1. /\ bytesUsed' = bytesUsed - BytesOf(Present \intersect {k})
        /\ entries' = [entries EXCEPT ![k] = Absent]
    BY <1>13 DEF Miss
  <2>2. PICK A \in SUBSET P : A = Present \intersect {k} /\ Q = P \ A
    <3>1. Present \intersect {k} \in SUBSET P
      BY <1>2
    <3>2. Q = P \ (Present \intersect {k})
      BY <1>2, <2>1 DEF Present, EntriesTypeOK
    <3> QED
      BY <3>1, <3>2
  <2>3. \A x \in Q : f[x] = g[x]
    <3>1. \A x \in Q : x \in Key /\ x # k
      BY <1>2, <1>4, <2>2
    <3>2. \A x \in Q : entries'[x] = entries[x]
      BY <2>1, <3>1 DEF EntriesTypeOK
    <3> QED
      BY <1>2, <3>1, <3>2 DEF SizeNow
  <2>4. SumOf(g, Q) = SumOf(f, Q)
    BY <2>3, SumOfSame
  <2>5. BytesOf(Present \intersect {k}) = SumOf(f, A)
    BY <1>6, <2>2
  <2>6. HasNumbers(f, P)
    BY <1>3, <1>4
  <2>7. SumOf(f, P) = SumOf(f, A) + SumOf(f, Q) /\ SumOf(f, A) \in Nat /\ SumOf(f, Q) \in Nat
    <3>1. SumOf(f, P) = SumOf(f, A) + SumOf(f, P \ A)
      BY <2>6, SumSplit
    <3>2. SumOf(f, A) \in Nat /\ SumOf(f, P \ A) \in Nat
      BY <1>3, <1>4
    <3> QED
      BY <2>2, <3>1, <3>2
  <2>8. bytesUsed' = SumOf(f, P) - SumOf(f, A)
    BY <1>5, <2>1, <2>5
  <2> QED
    BY <1>5, <2>4, <2>7, <2>8, LimitsAssumption
<1>14. ASSUME NEW k \in Key, NEW v \in Value, Insert(k, v)
       PROVE  bytesUsed' = SumOf(g, Q) /\ (MaxBytes > 0 => bytesUsed' <= MaxBytes)
  <2> DEFINE others == Present \ {k}
  <2>1. PICK S \in Survivors(v, others) :
           /\ entries' = [j \in Key |-> IF j = k THEN [value |-> v, at |-> now]
                                        ELSE IF j \in S THEN entries[j] ELSE Absent]
           /\ bytesUsed' = bytesUsed - BytesOf(Present \ S) + SizeOf[v]
    BY <1>14 DEF Insert
  <2>2. others \in SUBSET Key /\ S \in SUBSET others /\ S \in SUBSET P /\ k \notin S
    <3>1. others \in SUBSET Key
      BY DEF Present
    <3> QED
      BY <1>2, <2>1, <3>1, SurvivorsAreOthers
  <2>3. \A j \in Key : entries'[j] # Absent <=> j \in S \union {k}
    BY <1>2, <2>1, <2>2, AbsentAssumption, LimitsAssumption DEF EntriesTypeOK, Present
  <2>4. Q = S \union {k}
    BY <1>2, <2>2, <2>3 DEF Present
  <2>5. g[k] = SizeOf[v] /\ \A x \in S : f[x] = g[x]
    <3>1. entries'[k] = [value |-> v, at |-> now] /\ entries'[k] # Absent
      BY <2>1, <2>3
    <3>2. \A x \in S : entries'[x] = entries[x] /\ x \in Key
      BY <2>1, <2>2
    <3> QED
      BY <1>2, <3>1, <3>2 DEF SizeNow
  <2>6. SumOf(g, Q) = SizeOf[v] + SumOf(f, S)
    <3>1. Q \ {k} = S /\ k \in Q
      BY <2>2, <2>4
    <3>2. SumOf(g, Q) = g[k] + SumOf(g, S)
      BY <1>3, <1>4, <3>1, SumOfMore
    <3> QED
      BY <2>5, <3>2, SumOfSame
  <2>7. BytesOf(Present \ S) = SumOf(f, P \ S)
    BY <1>2, <1>6
  <2>8. /\ SumOf(f, P) = SumOf(f, S) + SumOf(f, P \ S)
        /\ SumOf(f, S) \in Nat /\ SumOf(f, P \ S) \in Nat /\ SizeOf[v] \in Nat
    <3>1. HasNumbers(f, P)
      BY <1>3, <1>4
    <3>2. SumOf(f, P) = SumOf(f, S) + SumOf(f, P \ S)
      BY <2>2, <3>1, SumSplit
    <3>3. S \in SUBSET Key /\ P \ S \in SUBSET Key
      BY <1>4, <2>2
    <3> QED
      BY <1>3, <3>2, <3>3, SizeOfAssumption
  <2>9. bytesUsed' = SumOf(g, Q)
    BY <1>5, <2>1, <2>6, <2>7, <2>8
  <2>10. ASSUME MaxBytes > 0 PROVE bytesUsed' <= MaxBytes
    <3>1. S = {} \/ HasRoom(v, S)
      BY <2>1 DEF Survivors
    <3>2. CASE S = {}
      <4>1. SizeOf[v] <= MaxBytes
        BY <1>14, <2>8, <2>10, LimitsAssumption DEF Insert, TooBig
      <4>2. SumOf(f, S) = 0
        BY <3>2, SumOfNone
      <4> QED
        BY <2>6, <2>8, <2>9, <4>1, <4>2
    <3>3. CASE HasRoom(v, S)
      BY <2>1, <2>10, <3>3, LimitsAssumption DEF HasRoom
    <3> QED
      BY <3>1, <3>2, <3>3
  <2> QED
    BY <2>9, <2>10
<1> QED
  BY <1>9, <1>10, <1>11, <1>12, <1>13, <1>14 DEF Next

\* The byte counter is the sum over the entries and within its budget, whatever is
\* replaced, expires, is evicted or cleared.
THEOREM BytesWithinBudget == Spec => []BytesAreCounted
<1>1. Init => EntriesTypeOK /\ BytesAreCounted
  BY EntriesInit, BytesInit
<1>2. EntriesTypeOK /\ BytesAreCounted /\ [Next]_vars => (EntriesTypeOK /\ BytesAreCounted)'
  BY EntriesTypeStep, BytesStep
<1> QED
  BY <1>1, <1>2, PTL DEF Spec

\* The byte counter, an unsigned atomic, is never taken below zero.
LEMMA CounterIsNatural == EntriesTypeOK /\ BytesAreCounted => TypeOK
<1> SUFFICES ASSUME EntriesTypeOK, BytesAreCounted PROVE bytesUsed \in Nat
  BY DEF TypeOK
<1>1. PICK f, P : P = Present /\ f = [k \in Key |-> SizeNow(k)]
  OBVIOUS
<1>2. HasNumbers(f, P)
  BY <1>1, SizesAreNumbers, FS_Subset, KeyAssumption DEF HasNumbers, Present
<1>3. \A k \in P : f[k] \in Nat
  BY <1>1, SizesAreNumbers DEF Present
<1>4. SumOf(f, P) \in Nat
  BY <1>2, <1>3, SumOfNaturals
<1> QED
  BY <1>1, <1>4, PresentBytes DEF BytesAreCounted

THEOREM TypesKept == Spec => []TypeOK
<1>1. Init => EntriesTypeOK /\ BytesAreCounted
  BY EntriesInit, BytesInit
<1>2. EntriesTypeOK /\ BytesAreCounted /\ [Next]_vars => (EntriesTypeOK /\ BytesAreCounted)'
  BY EntriesTypeStep, BytesStep
<1> QED
  BY <1>1, <1>2, CounterIsNatural, PTL DEF Spec
=============================================================================
