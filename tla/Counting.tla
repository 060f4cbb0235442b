------------------------------ MODULE Counting ------------------------------
(* Facts about numbers and sums that the proofs of several components need.   *)
(* The sum of integers over a finite set is the number of units its elements  *)
(* give less the number they owe, so that what holds of sums over parts is    *)
(* what holds of cardinalities.                                               *)
EXTENDS Integers, FiniteSets, FiniteSetTheorems, TLAPS

\* A set of natural numbers has a least element.
LEMMA LeastOf ==
  ASSUME NEW T \in SUBSET Nat, T # {}
  PROVE  \E x \in T : \A y \in T : x <= y
<1> DEFINE Below == {1..n : n \in T}
<1>1. Below \subseteq FiniteSubsetsOf(Nat)
  <2>1. \A n \in T : 1..n \in SUBSET Nat /\ IsFiniteSet(1..n)
    BY FS_Interval
  <2> QED
    BY <2>1 DEF FiniteSubsetsOf
<1>2. Below # {}
  OBVIOUS
<1>3. IsWellFoundedOn(StrictSubsetOrdering(Nat), FiniteSubsetsOf(Nat))
  BY FS_StrictSubsetOrderingWellFounded
<1> HIDE DEF Below
<1>4. PICK X \in Below : \A Y \in Below : ~(<<Y, X>> \in StrictSubsetOrdering(Nat))
  BY <1>1, <1>2, <1>3, WFMin
<1>5. PICK x \in T : X = 1..x
  BY DEF Below
<1>6. \A y \in T : x <= y
  <2> SUFFICES ASSUME NEW y \in T, y < x PROVE FALSE
    OBVIOUS
  <2>1. 1..y \in Below
    BY DEF Below
  <2>2. 1..y \subseteq 1..x /\ 1..y # 1..x /\ x \in 1..x /\ x \notin 1..y
    OBVIOUS
  <2>3. <<1..y, X>> \in StrictSubsetOrdering(Nat)
    BY <1>5, <2>2 DEF StrictSubsetOrdering
  <2> QED
    BY <1>4, <2>1, <2>3
<1> QED
  BY <1>6

\* A bounded set of natural numbers has a greatest element.
LEMMA GreatestOf ==
  ASSUME NEW T \in SUBSET Nat, T # {}, NEW b \in Nat, \A n \in T : n <= b
  PROVE  \E x \in T : \A y \in T : y <= x
<1> DEFINE Bounds == {n \in Nat : \A y \in T : y <= n}
<1>1. PICK m \in Bounds : \A n \in Bounds : m <= n
  <2>1. Bounds \in SUBSET Nat /\ b \in Bounds
    OBVIOUS
  <2> QED
    BY <2>1, LeastOf
<1>2. m \in T
  <2> SUFFICES ASSUME m \notin T PROVE FALSE
    OBVIOUS
  <2>1. PICK y \in T : TRUE
    OBVIOUS
  <2>2. m \in Nat /\ m # 0 /\ \A n \in T : n <= m /\ n # m
    BY <2>1
  <2>3. m - 1 \in Bounds
    BY <2>2
  <2> QED
    BY <1>1, <2>2, <2>3
<1> QED
  BY <1>2

-----------------------------------------------------------------------------
(* Units.                                                                     *)

\* The units of a number that are due (it is positive) or owed (it is negative).
Signs == {"due", "owed"}
Signed(n, s) == IF s = "due" THEN n ELSE 0 - n
Units(f, S, s) == UNION {{<<x, i>> : i \in 1..Signed(f[x], s)} : x \in S}
SumOf(f, S) == Cardinality(Units(f, S, "due")) - Cardinality(Units(f, S, "owed"))
HasNumbers(f, S) == IsFiniteSet(S) /\ \A x \in S : f[x] \in Int

LEMMA UnitsOfOne ==
  ASSUME NEW f, NEW x, f[x] \in Int, NEW s \in Signs
  PROVE  /\ IsFiniteSet(Units(f, {x}, s))
         /\ Cardinality(Units(f, {x}, s)) = IF Signed(f[x], s) > 0 THEN Signed(f[x], s) ELSE 0
<1> DEFINE n == Signed(f[x], s)
           number == [i \in 1..n |-> <<x, i>>]
<1>1. n \in Int
  BY DEF Signed
<1>2. Units(f, {x}, s) = {<<x, i>> : i \in 1..n}
  BY DEF Units
<1>3. number \in Bijection(1..n, Units(f, {x}, s))
  BY <1>2 DEF Bijection, Injection, Surjection, IsInjective
<1>4. IsFiniteSet(1..n) /\ Cardinality(1..n) = IF n > 0 THEN n ELSE 0
  <2> HIDE DEF n
  <2> QED
    BY <1>1, FS_Interval
<1> QED
  BY <1>3, <1>4, FS_Bijection DEF ExistsBijection

LEMMA UnitsSplit ==
  ASSUME NEW f, NEW S, NEW A \in SUBSET S, NEW s \in Signs,
         IsFiniteSet(Units(f, A, s)), IsFiniteSet(Units(f, S \ A, s))
  PROVE  /\ IsFiniteSet(Units(f, S, s))
         /\ Cardinality(Units(f, S, s)) = Cardinality(Units(f, A, s)) + Cardinality(Units(f, S \ A, s))
<1> DEFINE a == Units(f, A, s)
           b == Units(f, S \ A, s)
<1>1. Units(f, S, s) = a \union b
  BY DEF Units
<1>2. a \intersect b = {}
  BY DEF Units
<1>3. IsFiniteSet(a) /\ IsFiniteSet(b)
  OBVIOUS
<1> HIDE DEF a, b
<1>4. /\ IsFiniteSet(a \union b)
      /\ Cardinality(a \union b) = Cardinality(a) + Cardinality(b) - Cardinality(a \intersect b)
  BY <1>3, FS_Union
<1>5. Cardinality(a \intersect b) = 0
  BY <1>2, FS_EmptySet
<1>6. Cardinality(a) \in Nat /\ Cardinality(b) \in Nat
  BY <1>3, FS_CardinalityType
<1>7. IsFiniteSet(a \union b) /\ Cardinality(a \union b) = Cardinality(a) + Cardinality(b)
  BY <1>4, <1>5, <1>6
<1> QED
  BY <1>1, <1>7 DEF a, b

LEMMA UnitsFinite ==
  ASSUME NEW f, NEW S, HasNumbers(f, S), NEW s \in Signs
  PROVE  IsFiniteSet(Units(f, S, s)) /\ Cardinality(Units(f, S, s)) \in Nat
<1> DEFINE Endless == {T \in SUBSET S : ~IsFiniteSet(Units(f, T, s))}
<1>1. Endless = {}
  <2> SUFFICES ASSUME Endless # {} PROVE FALSE
    OBVIOUS
  <2>1. Endless \subseteq FiniteSubsetsOf(S)
    BY FS_Subset DEF FiniteSubsetsOf, HasNumbers
  <2>2. IsWellFoundedOn(StrictSubsetOrdering(S), FiniteSubsetsOf(S))
    BY FS_StrictSubsetOrderingWellFounded
  <2> HIDE DEF Endless
  <2>3. PICK T \in Endless : \A U \in Endless : ~(<<U, T>> \in StrictSubsetOrdering(S))
    BY <2>1, <2>2, WFMin
  <2>4. T \in SUBSET S /\ ~IsFiniteSet(Units(f, T, s))
    BY <2>3 DEF Endless
  <2>5. PICK x : x \in T
    <3>1. Units(f, {}, s) = {}
      BY DEF Units
    <3> QED
      BY <2>4, <3>1, FS_EmptySet
  <2>6. <<T \ {x}, T>> \in StrictSubsetOrdering(S)
    BY <2>4, <2>5 DEF StrictSubsetOrdering
  <2>7. T \ {x} \in SUBSET S /\ T \ {x} \notin Endless
    BY <2>3, <2>4, <2>6
  <2>8. IsFiniteSet(Units(f, T \ {x}, s))
    BY <2>7 DEF Endless
  <2>9. IsFiniteSet(Units(f, {x}, s))
    BY <2>4, <2>5, UnitsOfOne DEF HasNumbers
  <2> QED
    BY <2>4, <2>5, <2>8, <2>9, UnitsSplit
<1>2. IsFiniteSet(Units(f, S, s))
  BY <1>1
<1> QED
  BY <1>2, FS_CardinalityType

-----------------------------------------------------------------------------
(* Sums.                                                                      *)

LEMMA PartHasNumbers ==
  ASSUME NEW f, NEW S, HasNumbers(f, S), NEW A \in SUBSET S
  PROVE  HasNumbers(f, A)
BY FS_Subset DEF HasNumbers

\* A sum is that of a part and that of the rest.
LEMMA SumSplit ==
  ASSUME NEW f, NEW S, HasNumbers(f, S), NEW A \in SUBSET S
  PROVE  /\ SumOf(f, S) = SumOf(f, A) + SumOf(f, S \ A)
         /\ SumOf(f, S) \in Int /\ SumOf(f, A) \in Int /\ SumOf(f, S \ A) \in Int
<1>1. HasNumbers(f, A) /\ HasNumbers(f, S \ A)
  BY PartHasNumbers
<1>2. ASSUME NEW s \in Signs
      PROVE  /\ Cardinality(Units(f, S, s)) = Cardinality(Units(f, A, s)) + Cardinality(Units(f, S \ A, s))
             /\ Cardinality(Units(f, A, s)) \in Nat /\ Cardinality(Units(f, S \ A, s)) \in Nat
  BY <1>1, UnitsFinite, UnitsSplit
<1>3. PICK d, da, db, o, oa, ob :
         /\ d = Cardinality(Units(f, S, "due")) /\ o = Cardinality(Units(f, S, "owed"))
         /\ da = Cardinality(Units(f, A, "due")) /\ oa = Cardinality(Units(f, A, "owed"))
         /\ db = Cardinality(Units(f, S \ A, "due")) /\ ob = Cardinality(Units(f, S \ A, "owed"))
  OBVIOUS
<1>4. d = da + db /\ da \in Nat /\ db \in Nat
  BY <1>2, <1>3 DEF Signs
<1>5. o = oa + ob /\ oa \in Nat /\ ob \in Nat
  BY <1>2, <1>3 DEF Signs
<1>6. SumOf(f, S) = d - o /\ SumOf(f, A) = da - oa /\ SumOf(f, S \ A) = db - ob
  BY <1>3 DEF SumOf
<1> QED
  BY <1>4, <1>5, <1>6

LEMMA SumOfOne == ASSUME NEW f, NEW x, f[x] \in Int PROVE SumOf(f, {x}) = f[x]
<1>1. "due" \in Signs /\ "owed" \in Signs
  BY DEF Signs
<1>2. /\ Cardinality(Units(f, {x}, "due")) = IF f[x] > 0 THEN f[x] ELSE 0
      /\ Cardinality(Units(f, {x}, "owed")) = IF 0 - f[x] > 0 THEN 0 - f[x] ELSE 0
  BY <1>1, UnitsOfOne DEF Signed
<1> QED
  BY <1>2 DEF SumOf

LEMMA SumOfMore ==
  ASSUME NEW f, NEW S, HasNumbers(f, S), NEW x \in S
  PROVE  SumOf(f, S) = f[x] + SumOf(f, S \ {x})
<1>1. SumOf(f, S) = SumOf(f, {x}) + SumOf(f, S \ {x})
  <2>1. {x} \in SUBSET S
    OBVIOUS
  <2> QED
    BY <2>1, SumSplit
<1>2. SumOf(f, {x}) = f[x]
  BY SumOfOne DEF HasNumbers
<1> QED
  BY <1>1, <1>2

LEMMA SumOfNone == ASSUME NEW f PROVE SumOf(f, {}) = 0
<1>1. Units(f, {}, "due") = {} /\ Units(f, {}, "owed") = {}
  BY DEF Units
<1> QED
  BY <1>1, FS_EmptySet DEF SumOf

LEMMA SumOfSame ==
  ASSUME NEW f, NEW g, NEW S, \A x \in S : f[x] = g[x]
  PROVE  SumOf(f, S) = SumOf(g, S)
<1>1. \A s : Units(f, S, s) = Units(g, S, s)
  BY DEF Units
<1> QED
  BY <1>1 DEF SumOf

LEMMA SumOfNaturals ==
  ASSUME NEW f, NEW S, HasNumbers(f, S), \A x \in S : f[x] \in Nat
  PROVE  SumOf(f, S) \in Nat
<1>1. Units(f, S, "owed") = {}
  <2>1. \A x \in S : 1..Signed(f[x], "owed") = {}
    BY DEF Signed
  <2> QED
    BY <2>1 DEF Units
<1>2. Cardinality(Units(f, S, "due")) \in Nat
  BY UnitsFinite DEF Signs
<1>3. SumOf(f, S) = Cardinality(Units(f, S, "due")) - 0
  BY <1>1, FS_EmptySet DEF SumOf
<1> QED
  BY <1>2, <1>3

\* The fold that adds up from an element to the next has one solution: the sum.
AnyOf(s) == CHOOSE x \in s : TRUE
Adds(f, S, sum) ==
    sum = [s \in SUBSET S |-> IF s = {} THEN 0 ELSE f[AnyOf(s)] + sum[s \ {AnyOf(s)}]]

LEMMA AnyOfIsOne == \A s : s # {} => AnyOf(s) \in s
BY DEF AnyOf

LEMMA SumAdds ==
  ASSUME NEW f, NEW S, HasNumbers(f, S)
  PROVE  Adds(f, S, [s \in SUBSET S |-> SumOf(f, s)])
<1> DEFINE sum == [s \in SUBSET S |-> SumOf(f, s)]
<1>1. ASSUME NEW s \in SUBSET S, s # {}
      PROVE  SumOf(f, s) = f[AnyOf(s)] + sum[s \ {AnyOf(s)}]
  <2>1. HasNumbers(f, s) /\ AnyOf(s) \in s
    BY <1>1, FS_Subset, AnyOfIsOne DEF HasNumbers
  <2>2. s \ {AnyOf(s)} \in SUBSET S
    OBVIOUS
  <2> QED
    BY <2>1, <2>2, SumOfMore
<1>2. ASSUME NEW s \in SUBSET S
      PROVE  SumOf(f, s) = IF s = {} THEN 0 ELSE f[AnyOf(s)] + sum[s \ {AnyOf(s)}]
  BY <1>1, SumOfNone
<1> QED
  BY <1>2 DEF Adds

LEMMA AddsIsSum ==
  ASSUME NEW f, NEW S, HasNumbers(f, S), NEW sum, Adds(f, S, sum)
  PROVE  sum[S] = SumOf(f, S)
<1> DEFINE Wrong == {s \in SUBSET S : sum[s] # SumOf(f, s)}
<1>1. Wrong = {}
  <2> SUFFICES ASSUME Wrong # {} PROVE FALSE
    OBVIOUS
  <2>1. Wrong \subseteq FiniteSubsetsOf(S)
    BY FS_Subset DEF FiniteSubsetsOf, HasNumbers
  <2>2. IsWellFoundedOn(StrictSubsetOrdering(S), FiniteSubsetsOf(S))
    BY FS_StrictSubsetOrderingWellFounded
  <2> HIDE DEF Wrong
  <2>3. PICK T \in Wrong : \A U \in Wrong : ~(<<U, T>> \in StrictSubsetOrdering(S))
    BY <2>1, <2>2, WFMin
  <2>4. T \in SUBSET S /\ sum[T] # SumOf(f, T)
    BY <2>3 DEF Wrong
  <2>5. sum[T] = IF T = {} THEN 0 ELSE f[AnyOf(T)] + sum[T \ {AnyOf(T)}]
    BY <2>4 DEF Adds
  <2>6. T # {} /\ AnyOf(T) \in T
    BY <2>4, <2>5, SumOfNone, AnyOfIsOne
  <2>7. <<T \ {AnyOf(T)}, T>> \in StrictSubsetOrdering(S)
    BY <2>4, <2>6 DEF StrictSubsetOrdering
  <2>8. T \ {AnyOf(T)} \in SUBSET S /\ T \ {AnyOf(T)} \notin Wrong
    BY <2>3, <2>4, <2>7
  <2>9. sum[T \ {AnyOf(T)}] = SumOf(f, T \ {AnyOf(T)})
    BY <2>8 DEF Wrong
  <2>10. SumOf(f, T) = f[AnyOf(T)] + SumOf(f, T \ {AnyOf(T)})
    <3>1. HasNumbers(f, T)
      BY <2>4, FS_Subset DEF HasNumbers
    <3> QED
      BY <2>6, <3>1, SumOfMore
  <2> QED
    BY <2>4, <2>5, <2>6, <2>9, <2>10
<1> QED
  BY <1>1
=============================================================================
