-------------------------- MODULE DeploymentProofs --------------------------
(* mallard fmt keeps what a configuration means, and a server serves what the  *)
(* contract declares: for every contract and every sequence of edits, failed   *)
(* writes and servers started in between.                                      *)
(*                                                                             *)
(* First the texts: what is written is read back, what was derived and left    *)
(* out is derived again.  The second is the crux, because a measure's group is *)
(* derived from the fact tables, and these are themselves derived: the         *)
(* configuration with its defaults filled in, the one without them and the one *)
(* first read must agree on the default fact table and on every group.         *)
(* Then the files: those of the canonical form load as the configuration they  *)
(* were made from.  Then the program: which of them are written already.       *)
(*                                                                             *)
(* Then the contract: what it declares is what its projection says, and a      *)
(* configuration that begins with the projection makes a server answer so.     *)
(* The files keep to it: a section file left over from before may add entries, *)
(* never put one before those of the projection.                               *)
EXTENDS Deployment, Counting, SequenceTheorems

------------------------------------------------------------------------------
(* Texts are read back.                                                       *)

\* What no entry of a list leaves out, and the shape of entries and configurations.
MustHave == [dimensions |-> {"id", "caption"}, measures |-> {"caption"}, facts |-> {"id", "table"},
             relationships |-> {}, roles |-> {}]
IsItem(list, x) ==
    x = [f \in DOMAIN x |-> x[f]] /\ DOMAIN DefaultsOf[list] \union MustHave[list] \subseteq DOMAIN x
IsItems(list, s) == IsList(s) /\ \A i \in DOMAIN s : IsItem(list, s[i])
IsConfig(c) ==
    /\ c = [f \in DOMAIN c |-> c[f]] /\ DOMAIN MainDefaults \union {"cube"} \subseteq DOMAIN c
    /\ c.files \subseteq Section
    /\ \A list \in Items : IsItems(list, c[list])

\* Serde: what is left out because it is the default is the default again.
LEMMA TextReadBack ==
  ASSUME NEW x, NEW D, x = [f \in DOMAIN x |-> x[f]], DOMAIN D \subseteq DOMAIN x
  PROVE  Read(Written(x, D), D) = x
BY DEF Read, Written

\* The lists of a configuration.
LEMMA ItemNames == Items = {"dimensions", "measures", "facts", "relationships", "roles"}
BY DEF Items, DefaultsOf

\* The fields of a main file that may be left out.
LEMMA MainNames ==
  DOMAIN MainDefaults = {"source", "table", "facts", "relationships", "roles", "time", "dimensions", "measures", "files"}
BY DEF MainDefaults

\* A list is read back as it was, entry by entry.
LEMMA ItemsReadBack ==
  ASSUME NEW list \in Items, NEW s, IsItems(list, s)
  PROVE  ListRead(list, ListText(list, s)) = s
<1> DEFINE D == DefaultsOf[list]
<1>1. ListText(list, s) = [i \in DOMAIN s |-> Written(s[i], D)]
  BY DEF ListText, Each
<1>2. ListRead(list, ListText(list, s)) = [i \in DOMAIN s |-> Read(Written(s[i], D), D)]
  BY <1>1 DEF ListRead, Each
<1>3. \A i \in DOMAIN s : Read(Written(s[i], D), D) = s[i]
  BY TextReadBack DEF IsItems, IsItem
<1>4. s = [i \in DOMAIN s |-> s[i]]
  BY DEF IsItems, IsList
<1> QED
  BY <1>2, <1>3, <1>4

\* parse_str without the helper that names an intermediate value.
LEMMA ParsedText ==
  ASSUME NEW t
  PROVE  parse_str(t) = LET c == Read(t, MainDefaults)
                        IN [f \in DOMAIN c |-> IF f \in Items THEN ListRead(f, c[f]) ELSE c[f]]
BY DEF parse_str, Once

\* What serialize writes parse_str reads back.
LEMMA ConfigReadBack == ASSUME NEW c, IsConfig(c) PROVE parse_str(serialize(c)) = c
<1> DEFINE text == [f \in DOMAIN c |-> IF f \in Items THEN ListText(f, c[f]) ELSE c[f]]
<1>1. serialize(c) = Written(text, MainDefaults)
  BY DEF serialize
<1>2. Read(serialize(c), MainDefaults) = text
  BY <1>1, TextReadBack DEF IsConfig
<1>3. parse_str(serialize(c)) = [f \in DOMAIN text |-> IF f \in Items THEN ListRead(f, text[f]) ELSE text[f]]
  BY <1>2, ParsedText
<1>4. \A f \in Items : f \in DOMAIN c => ListRead(f, text[f]) = c[f]
  BY ItemsReadBack DEF IsConfig
<1> QED
  BY <1>3, <1>4 DEF IsConfig

------------------------------------------------------------------------------
(* What was derived is derived again, entry by entry: n is filled in, k is    *)
(* without what can be derived, m is filled in again.                         *)

\* One function differs from another in some fields only.
DiffersIn(n, d, fields) ==
    n = [f \in DOMAIN n |-> n[f]] /\ DOMAIN n = DOMAIN d /\ \A f \in DOMAIN d : f \notin fields => n[f] = d[f]

\* The derived fields, after filling in and after leaving out.
DimensionDerived == {"hierarchy", "all", "leaf", "field", "ordinal"}
DimensionFilled(n, d, i) ==
    /\ DiffersIn(n, d, DimensionDerived)
    /\ n.hierarchy = Filled(d.hierarchy, "", d.caption) /\ n.all = Filled(d.all, "", "(All)")
    /\ n.leaf = Filled(d.leaf, "", d.caption) /\ n.field = Filled(d.field, "", d.id)
    /\ n.ordinal = Filled(d.ordinal, 0, i)
DimensionCleared(n, d, i) ==
    /\ DiffersIn(n, d, DimensionDerived)
    /\ n.hierarchy = Cleared(d.hierarchy, "", d.caption) /\ n.all = Cleared(d.all, "", "(All)")
    /\ n.leaf = Cleared(d.leaf, "", d.caption) /\ n.field = Cleared(d.field, "", d.id)
    /\ n.ordinal = Cleared(d.ordinal, 0, i)

\* The derived fields of a dimension, and all others as they were.
LEMMA DimensionFields ==
  ASSUME NEW d, NEW i, IsItem("dimensions", d)
  PROVE  /\ DimensionFilled(DerivedDimension(Filled, d, i), d, i)
         /\ DimensionCleared(DerivedDimension(Cleared, d, i), d, i)
BY DEF DerivedDimension, IsItem, MustHave, DefaultsOf, DimensionDefaults, DimensionFilled, DimensionCleared, DiffersIn,
       DimensionDerived

\* An entry keeps its fields whatever is derived.
LEMMA ItemStays ==
  ASSUME NEW list, NEW n, NEW d, NEW fields, IsItem(list, d), DiffersIn(n, d, fields)
  PROVE  IsItem(list, n)
BY DEF IsItem, DiffersIn

\* A dimension gets again what it had when that was left out.
LEMMA DimensionAgain ==
  ASSUME NEW d, NEW i, IsItem("dimensions", d)
  PROVE  LET n == DerivedDimension(Filled, d, i)
             k == DerivedDimension(Cleared, n, i)
         IN IsItem("dimensions", n) /\ IsItem("dimensions", k) /\ DerivedDimension(Filled, k, i) = n
<1> DEFINE n == DerivedDimension(Filled, d, i)
           k == DerivedDimension(Cleared, n, i)
           m == DerivedDimension(Filled, k, i)
<1> HIDE DEF n, k, m
<1>1. DimensionFilled(n, d, i) /\ IsItem("dimensions", n)
  BY DimensionFields, ItemStays DEF n, DimensionFilled
<1>2. DimensionCleared(k, n, i) /\ IsItem("dimensions", k)
  BY <1>1, DimensionFields, ItemStays DEF k, DimensionCleared
<1>3. DimensionFilled(m, k, i)
  BY <1>2, DimensionFields DEF m
<1>4. {"id", "caption"} \subseteq DOMAIN d
  BY DEF IsItem, MustHave
<1>5. /\ k.id = d.id /\ k.caption = d.caption /\ n.id = d.id /\ n.caption = d.caption
  BY <1>1, <1>2, <1>4 DEF DimensionFilled, DimensionCleared, DiffersIn, DimensionDerived
<1>6. m.hierarchy = n.hierarchy /\ m.all = n.all /\ m.leaf = n.leaf /\ m.field = n.field /\ m.ordinal = n.ordinal
  <2> USE <1>1, <1>2, <1>3, <1>5 DEF DimensionFilled, DimensionCleared, Filled, Cleared
  <2>1. m.hierarchy = n.hierarchy
    OBVIOUS
  <2>2. m.all = n.all
    OBVIOUS
  <2>3. m.leaf = n.leaf
    OBVIOUS
  <2>4. m.field = n.field
    OBVIOUS
  <2>5. m.ordinal = n.ordinal
    OBVIOUS
  <2> QED
    BY <2>1, <2>2, <2>3, <2>4, <2>5
<1>7. DiffersIn(m, n, {})
  BY <1>1, <1>2, <1>3, <1>6 DEF DimensionFilled, DimensionCleared, DiffersIn, DimensionDerived
<1>8. m = n
  BY <1>1, <1>7 DEF DiffersIn, DimensionFilled
<1> QED
  BY <1>1, <1>2, <1>8 DEF n, k, m

\* The same for a fact table.
FactFilled(n, d) ==
    /\ DiffersIn(n, d, {"source", "group"})
    /\ n.source = Filled(d.source, "", d.table) /\ n.group = Filled(d.group, "", d.id)
FactCleared(n, d) ==
    /\ DiffersIn(n, d, {"source", "group"})
    /\ n.source = Cleared(d.source, "", d.table) /\ n.group = Cleared(d.group, "", d.id)

\* The derived fields of a fact table.
LEMMA FactFields ==
  ASSUME NEW d, IsItem("facts", d)
  PROVE  /\ FactFilled(DerivedFact(Filled, d), d)
         /\ FactCleared(DerivedFact(Cleared, d), d)
BY DEF DerivedFact, IsItem, MustHave, DefaultsOf, FactDefaults, FactFilled, FactCleared, DiffersIn

\* A fact table gets again what it had, and its id and group are those it had all along.
LEMMA FactAgain ==
  ASSUME NEW d, IsItem("facts", d)
  PROVE  LET n == DerivedFact(Filled, d)
             k == DerivedFact(Cleared, n)
         IN /\ IsItem("facts", n) /\ IsItem("facts", k) /\ n.id = d.id /\ k.id = d.id
            /\ Filled(n.group, "", n.id) = Filled(d.group, "", d.id) /\ Filled(k.group, "", k.id) = Filled(d.group, "", d.id)
            /\ DerivedFact(Filled, k) = n
<1> DEFINE n == DerivedFact(Filled, d)
           k == DerivedFact(Cleared, n)
           m == DerivedFact(Filled, k)
<1> HIDE DEF n, k, m
<1>1. FactFilled(n, d) /\ IsItem("facts", n)
  BY FactFields, ItemStays DEF n, FactFilled
<1>2. FactCleared(k, n) /\ IsItem("facts", k)
  BY <1>1, FactFields, ItemStays DEF k, FactCleared
<1>3. FactFilled(m, k)
  BY <1>2, FactFields DEF m
<1>4. {"id", "table"} \subseteq DOMAIN d
  BY DEF IsItem, MustHave
<1>5. /\ k.id = d.id /\ k.table = d.table /\ n.id = d.id /\ n.table = d.table
  BY <1>1, <1>2, <1>4 DEF FactFilled, FactCleared, DiffersIn
<1>6. m.source = n.source /\ m.group = n.group
  BY <1>1, <1>2, <1>3, <1>5 DEF FactFilled, FactCleared, Filled, Cleared
<1>7. DiffersIn(m, n, {})
  BY <1>1, <1>2, <1>3, <1>6 DEF FactFilled, FactCleared, DiffersIn
<1>8. m = n
  BY <1>1, <1>7 DEF DiffersIn, FactFilled
<1>9. Filled(n.group, "", n.id) = Filled(d.group, "", d.id) /\ Filled(k.group, "", k.id) = Filled(d.group, "", d.id)
  BY <1>1, <1>2, <1>5 DEF FactFilled, FactCleared, Filled, Cleared
<1> QED
  BY <1>1, <1>2, <1>5, <1>8, <1>9 DEF n, k, m

\* A relationship without a fact table gets the default one again: the three configurations
\* agree on which it is.
LEMMA RelationshipAgain ==
  ASSUME NEW r, NEW c, NEW C, NEW D, IsItem("relationships", r),
         DefaultFact(C) = DefaultFact(c), DefaultFact(D) = DefaultFact(c)
  PROVE  LET n == DerivedRelationship(Filled, c, r)
             k == DerivedRelationship(Cleared, C, n)
         IN IsItem("relationships", n) /\ IsItem("relationships", k) /\ DerivedRelationship(Filled, D, k) = n
<1> DEFINE n == DerivedRelationship(Filled, c, r)
           k == DerivedRelationship(Cleared, C, n)
           m == DerivedRelationship(Filled, D, k)
           v == DefaultFact(c)
<1>1. r = [f \in DOMAIN r |-> r[f]] /\ "fact" \in DOMAIN r
  BY DEF IsItem, DefaultsOf, RelationshipDefaults
<1>2. n = [r EXCEPT !.fact = Filled(r.fact, "", v)]
  BY DEF DerivedRelationship
<1>3. k = [n EXCEPT !.fact = Cleared(n.fact, "", v)]
  BY DEF DerivedRelationship
<1>4. m = [k EXCEPT !.fact = Filled(k.fact, "", v)]
  BY DEF DerivedRelationship
<1> HIDE DEF n, k, m, v
<1>5. DiffersIn(n, r, {"fact"}) /\ n.fact = Filled(r.fact, "", v)
  BY <1>1, <1>2 DEF DiffersIn
<1>6. DiffersIn(k, n, {"fact"}) /\ k.fact = Cleared(n.fact, "", v)
  BY <1>1, <1>3, <1>5 DEF DiffersIn
<1>7. DiffersIn(m, k, {"fact"}) /\ m.fact = Filled(k.fact, "", v)
  BY <1>1, <1>4, <1>5, <1>6 DEF DiffersIn
<1>8. m.fact = n.fact
  BY <1>5, <1>6, <1>7 DEF Filled, Cleared
<1>9. m = n
  <2>1. DiffersIn(m, n, {})
    BY <1>5, <1>6, <1>7, <1>8 DEF DiffersIn
  <2> QED
    BY <1>5, <2>1 DEF DiffersIn
<1>10. IsItem("relationships", n) /\ IsItem("relationships", k)
  BY <1>5, <1>6, ItemStays
<1> QED
  BY <1>9, <1>10 DEF n, k, m

\* The same for a measure; only filling in touches its format.
MeasureDerived == {"display", "ordinal", "group", "fact", "format"}
MeasureFilled(n, c, m, i) ==
    /\ DiffersIn(n, m, MeasureDerived)
    /\ n.display = Filled(m.display, "", m.caption) /\ n.ordinal = Filled(m.ordinal, 0, i)
    /\ n.group = Filled(m.group, "", GroupOf(c, FactOf(c, m))) /\ n.fact = Filled(m.fact, {}, {DefaultFact(c)})
    /\ n.format = Filled(m.format, "", default_format_string)
MeasureCleared(n, c, m, i) ==
    /\ DiffersIn(n, m, MeasureDerived)
    /\ n.display = Cleared(m.display, "", m.caption) /\ n.ordinal = Cleared(m.ordinal, 0, i)
    /\ n.group = Cleared(m.group, "", GroupOf(c, FactOf(c, m))) /\ n.fact = Cleared(m.fact, {}, {DefaultFact(c)})
    /\ n.format = m.format

\* The derived fields of a measure.
LEMMA MeasureFields ==
  ASSUME NEW c, NEW m, NEW i, IsItem("measures", m)
  PROVE  /\ MeasureFilled(WithFormat(DerivedMeasure(Filled, c, m, i)), c, m, i)
         /\ MeasureCleared(DerivedMeasure(Cleared, c, m, i), c, m, i)
BY DEF DerivedMeasure, WithFormat, IsItem, MustHave, DefaultsOf, MeasureDefaults, MeasureFilled, MeasureCleared, DiffersIn,
       MeasureDerived

\* A measure gets again what it had. Its group is that of its fact table, which may have been
\* left out in turn: the three configurations agree on the default table and on all groups.
LEMMA MeasureAgain ==
  ASSUME NEW x, NEW i, NEW c, NEW C, NEW D, IsItem("measures", x),
         DefaultFact(C) = DefaultFact(c), DefaultFact(D) = DefaultFact(c),
         \A f : GroupOf(C, f) = GroupOf(c, f) /\ GroupOf(D, f) = GroupOf(c, f)
  PROVE  LET n == WithFormat(DerivedMeasure(Filled, c, x, i))
             k == DerivedMeasure(Cleared, C, n, i)
         IN /\ IsItem("measures", n) /\ IsItem("measures", k)
            /\ WithFormat(DerivedMeasure(Filled, D, k, i)) = n
<1> DEFINE n == WithFormat(DerivedMeasure(Filled, c, x, i))
           k == DerivedMeasure(Cleared, C, n, i)
           m == WithFormat(DerivedMeasure(Filled, D, k, i))
<1> HIDE DEF n, k, m
<1>1. MeasureFilled(n, c, x, i) /\ IsItem("measures", n)
  <2>1. MeasureFilled(n, c, x, i)
    BY MeasureFields DEF n
  <2> QED
    BY <2>1, ItemStays DEF MeasureFilled
<1>2. MeasureCleared(k, C, n, i) /\ IsItem("measures", k)
  <2>1. MeasureCleared(k, C, n, i)
    BY <1>1, MeasureFields DEF k
  <2> QED
    BY <1>1, <2>1, ItemStays DEF MeasureCleared
<1>3. MeasureFilled(m, D, k, i)
  BY <1>2, MeasureFields DEF m
<1>4. "caption" \in DOMAIN x
  BY DEF IsItem, MustHave
<1>5. k.caption = x.caption /\ n.caption = x.caption
  BY <1>1, <1>2, <1>4 DEF MeasureFilled, MeasureCleared, DiffersIn, MeasureDerived
<1>6. m.fact = n.fact /\ FactOf(C, n) = FactOf(c, x) /\ FactOf(D, k) = FactOf(c, x)
  <2> DEFINE v == DefaultFact(c)
  <2>1. /\ n.fact = Filled(x.fact, {}, {v}) /\ k.fact = Cleared(n.fact, {}, {v})
        /\ m.fact = Filled(k.fact, {}, {v})
    BY <1>1, <1>2, <1>3 DEF MeasureFilled, MeasureCleared
  <2>2. /\ FactOf(c, x) = IF x.fact = {} THEN v ELSE CHOOSE f \in x.fact : TRUE
        /\ FactOf(C, n) = IF n.fact = {} THEN v ELSE CHOOSE f \in n.fact : TRUE
        /\ FactOf(D, k) = IF k.fact = {} THEN v ELSE CHOOSE f \in k.fact : TRUE
    BY DEF FactOf
  <2> HIDE DEF v
  <2>3. (CHOOSE f \in {v} : TRUE) = v
    OBVIOUS
  <2>4. m.fact = n.fact /\ n.fact # {} /\ (k.fact = n.fact \/ (k.fact = {} /\ n.fact = {v}))
    <3>1. n.fact # {}
      BY <2>1 DEF Filled
    <3>2. CASE n.fact = {v}
      BY <2>1, <3>1, <3>2 DEF Filled, Cleared
    <3>3. CASE n.fact # {v}
      BY <2>1, <3>1, <3>3 DEF Filled, Cleared
    <3> QED
      BY <3>1, <3>2, <3>3
  <2>5. n.fact = x.fact \/ (x.fact = {} /\ n.fact = {v})
    BY <2>1 DEF Filled
  <2>6. FactOf(C, n) = FactOf(c, x)
    <3>1. CASE n.fact = x.fact
      BY <2>2, <2>4, <3>1
    <3>2. CASE x.fact = {} /\ n.fact = {v}
      BY <2>2, <2>3, <3>2
    <3> QED
      BY <2>5, <3>1, <3>2
  <2>7. FactOf(D, k) = FactOf(C, n)
    <3>1. CASE k.fact = n.fact
      BY <2>2, <2>4, <3>1
    <3>2. CASE k.fact = {} /\ n.fact = {v}
      BY <2>2, <2>3, <3>2
    <3> QED
      BY <2>4, <3>1, <3>2
  <2> QED
    BY <2>4, <2>6, <2>7
<1>7. m.group = n.group
  <2> DEFINE v == GroupOf(c, FactOf(c, x))
  <2>1. GroupOf(C, FactOf(C, n)) = v /\ GroupOf(D, FactOf(D, k)) = v
    BY <1>6
  <2>2. n.group = Filled(x.group, "", v) /\ k.group = Cleared(n.group, "", v) /\ m.group = Filled(k.group, "", v)
    BY <1>1, <1>2, <1>3, <2>1 DEF MeasureFilled, MeasureCleared
  <2> QED
    BY <2>2 DEF Filled, Cleared
<1>8. m.display = n.display
  BY <1>1, <1>2, <1>3, <1>5 DEF MeasureFilled, MeasureCleared, Filled, Cleared
<1>9. m.ordinal = n.ordinal
  BY <1>1, <1>2, <1>3 DEF MeasureFilled, MeasureCleared, Filled, Cleared
<1>10. m.format = n.format
  BY <1>1, <1>2, <1>3 DEF MeasureFilled, MeasureCleared, Filled, default_format_string
<1>11. DiffersIn(m, n, {})
  BY <1>1, <1>2, <1>3, <1>6, <1>7, <1>8, <1>9, <1>10 DEF MeasureFilled, MeasureCleared, DiffersIn, MeasureDerived
<1>12. m = n
  BY <1>1, <1>11 DEF DiffersIn, MeasureFilled
<1> QED
  BY <1>1, <1>2, <1>12 DEF n, k, m

------------------------------------------------------------------------------

\* A function with the domain of a list is a list.
LEMMA ListLike ==
  ASSUME NEW s, NEW t, IsList(s), t = [i \in DOMAIN t |-> t[i]], DOMAIN t = DOMAIN s
  PROVE  IsList(t)
<1> DEFINE R == {t[i] : i \in DOMAIN t}
<1>1. s \in Seq({s[i] : i \in DOMAIN s})
  BY DEF IsList
<1>2. DOMAIN s = 1..Len(s) /\ Len(s) \in Nat
  BY <1>1
<1>3. t \in [1..Len(s) -> R]
  BY <1>2
<1>4. t \in Seq(R)
  <2> HIDE DEF R
  <2> QED
    BY <1>2, <1>3, SeqDef
<1> QED
  BY <1>4 DEF IsList

\* The positions of a list.
LEMMA ListDomain == ASSUME NEW s, IsList(s) PROVE Len(s) \in Nat /\ DOMAIN s = 1..Len(s) /\ (s # <<>> => 1 \in DOMAIN s)
<1> DEFINE R == {s[i] : i \in DOMAIN s}
<1>1. s \in Seq(R)
  BY DEF IsList
<1> HIDE DEF R
<1>2. Len(s) \in Nat /\ DOMAIN s = 1..Len(s)
  BY <1>1
<1>3. s # <<>> => Len(s) # 0
  BY <1>1
<1> QED
  BY <1>2, <1>3

\* A nonempty set of positions has a last one.
LEMMA LastOf ==
  ASSUME NEW T, NEW n \in Nat, T \subseteq 1..n, T # {}
  PROVE  \E x \in T : \A y \in T : y <= x
<1>1. \A x \in T : x \in Nat /\ x <= n
  OBVIOUS
<1> QED
  BY <1>1, GreatestOf

\* The groups measures get stay those they got.
LEMMA GroupsStay ==
  ASSUME NEW c, NEW d, NEW f, IsList(c.facts), d.cube = c.cube, DOMAIN d.facts = DOMAIN c.facts,
         \A i \in DOMAIN c.facts :
            /\ d.facts[i].id = c.facts[i].id
            /\ Filled(d.facts[i].group, "", d.facts[i].id) = Filled(c.facts[i].group, "", c.facts[i].id)
  PROVE  GroupOf(d, f) = GroupOf(c, f)
<1> DEFINE named(x) == {i \in DOMAIN x.facts : x.facts[i].id = f}
           latest(S) == CHOOSE i \in S : \A j \in S : j <= i
           group(x, k) == IF named(x) = {} THEN x.cube ELSE Filled(x.facts[k].group, "", x.facts[k].id)
<1>1. GroupOf(c, f) = group(c, latest(named(c))) /\ GroupOf(d, f) = group(d, latest(named(d)))
  BY DEF GroupOf
<1>2. named(d) = named(c)
  OBVIOUS
<1>3. ASSUME named(c) # {} PROVE latest(named(c)) \in named(c)
  <2> DEFINE T == named(c)
  <2>1. DOMAIN c.facts = 1..Len(c.facts) /\ Len(c.facts) \in Nat
    BY ListDomain
  <2>2. T \subseteq 1..Len(c.facts)
    BY <2>1
  <2>3. T # {}
    BY <1>3
  <2> HIDE DEF T
  <2>4. \E i \in T : \A j \in T : j <= i
    BY <2>1, <2>2, <2>3, LastOf
  <2> QED
    BY <2>4 DEF T
<1>4. named(c) \subseteq DOMAIN c.facts
  OBVIOUS
<1> DEFINE k == latest(named(c))
<1> HIDE DEF named, latest
<1>5. CASE named(c) = {}
  BY <1>1, <1>2, <1>5
<1>6. CASE named(c) # {}
  <2>1. k \in DOMAIN c.facts
    BY <1>3, <1>4, <1>6
  <2>2. GroupOf(c, f) = Filled(c.facts[k].group, "", c.facts[k].id)
    BY <1>1, <1>6
  <2>3. GroupOf(d, f) = Filled(d.facts[k].group, "", d.facts[k].id)
    BY <1>1, <1>2, <1>6
  <2> HIDE DEF k
  <2> QED
    BY <2>1, <2>2, <2>3
<1> QED
  BY <1>5, <1>6

\* The default fact table stays the one it was.
LEMMA DefaultStays ==
  ASSUME NEW c, NEW d, IsList(c.facts), d.facts = [i \in DOMAIN d.facts |-> d.facts[i]], DOMAIN d.facts = DOMAIN c.facts,
         \A i \in DOMAIN c.facts : d.facts[i].id = c.facts[i].id
  PROVE  DefaultFact(d) = DefaultFact(c)
<1>1. IsList(d.facts)
  BY ListLike
<1>2. c.facts = <<>> <=> d.facts = <<>>
  <2>1. c.facts # <<>> => DOMAIN d.facts # {}
    BY ListDomain
  <2>2. d.facts # <<>> => DOMAIN c.facts # {}
    BY <1>1, ListDomain
  <2>3. c.facts = <<>> => DOMAIN d.facts = {}
    OBVIOUS
  <2>4. d.facts = <<>> => DOMAIN c.facts = {}
    OBVIOUS
  <2> QED
    BY <2>1, <2>2, <2>3, <2>4
<1>3. c.facts # <<>> => c.facts[1].id = d.facts[1].id
  BY ListDomain
<1> QED
  BY <1>2, <1>3 DEF DefaultFact

\* Entries that replace the entries of a list are a list of entries.
LEMMA ItemsLike ==
  ASSUME NEW list, NEW s, NEW t, IsItems(list, s), t = [i \in DOMAIN t |-> t[i]], DOMAIN t = DOMAIN s,
         \A i \in DOMAIN s : IsItem(list, t[i])
  PROVE  IsItems(list, t)
<1>1. IsList(t)
  BY ListLike DEF IsItems
<1> QED
  BY <1>1 DEF IsItems

\* The fields normalize and deminimize touch, and what they make of them.
MainDerived == {"source", "dimensions", "measures", "facts", "relationships"}
NormalOf(n, c) ==
    /\ DiffersIn(n, c, MainDerived) /\ n.source = Filled(c.source, "", c.table)
    /\ n.dimensions = [i \in DOMAIN c.dimensions |-> DerivedDimension(Filled, c.dimensions[i], i)]
    /\ n.measures = [i \in DOMAIN c.measures |-> WithFormat(DerivedMeasure(Filled, c, c.measures[i], i))]
    /\ n.facts = [i \in DOMAIN c.facts |-> DerivedFact(Filled, c.facts[i])]
    /\ n.relationships = [i \in DOMAIN c.relationships |-> DerivedRelationship(Filled, c, c.relationships[i])]
MinimalOf(n, c) ==
    /\ DiffersIn(n, c, MainDerived) /\ n.source = Cleared(c.source, "", c.table)
    /\ n.dimensions = [i \in DOMAIN c.dimensions |-> DerivedDimension(Cleared, c.dimensions[i], i)]
    /\ n.measures = [i \in DOMAIN c.measures |-> DerivedMeasure(Cleared, c, c.measures[i], i)]
    /\ n.facts = [i \in DOMAIN c.facts |-> DerivedFact(Cleared, c.facts[i])]
    /\ n.relationships = [i \in DOMAIN c.relationships |-> DerivedRelationship(Cleared, c, c.relationships[i])]

\* What normalize fills in.
LEMMA NormalFields == ASSUME NEW c, IsConfig(c) PROVE NormalOf(normalize(c), c)
BY MainNames DEF normalize, Derived, IsConfig, NormalOf, DiffersIn, MainDerived

\* What deminimize leaves out.
LEMMA MinimalFields == ASSUME NEW c, IsConfig(c) PROVE MinimalOf(deminimize(c), c)
BY MainNames DEF deminimize, Derived, IsConfig, MinimalOf, DiffersIn, MainDerived

\* The parts of a configuration, by name.
LEMMA ConfigParts ==
  ASSUME NEW c, IsConfig(c)
  PROVE  /\ IsItems("dimensions", c.dimensions) /\ IsItems("measures", c.measures) /\ IsItems("facts", c.facts)
         /\ IsItems("relationships", c.relationships) /\ IsItems("roles", c.roles)
         /\ {"source", "table", "facts", "relationships", "roles", "time", "dimensions", "measures", "files", "cube"} \subseteq DOMAIN c
BY ItemNames, MainNames DEF IsConfig

\* The rest of a configuration stays.
LEMMA RestStays ==
  ASSUME NEW n, NEW c, IsConfig(c), DiffersIn(n, c, MainDerived),
         IsItems("dimensions", n.dimensions), IsItems("measures", n.measures), IsItems("facts", n.facts),
         IsItems("relationships", n.relationships)
  PROVE  IsConfig(n)
<1>1. n.roles = c.roles /\ n.files = c.files
  BY ConfigParts DEF DiffersIn, MainDerived
<1>2. \A list \in Items : IsItems(list, n[list])
  BY <1>1, ConfigParts, ItemNames
<1> QED
  BY <1>1, <1>2 DEF IsConfig, DiffersIn

\* The fact tables of another configuration with the same ids, in the same groups.
SameFact(x, y) == x.id = y.id /\ Filled(x.group, "", x.id) = Filled(y.group, "", y.id)
SameFacts(d, c) ==
    /\ d.facts = [i \in DOMAIN d.facts |-> d.facts[i]] /\ DOMAIN d.facts = DOMAIN c.facts /\ d.cube = c.cube
    /\ \A i \in DOMAIN c.facts : SameFact(d.facts[i], c.facts[i])

\* With the same fact tables the default one is the same.
LEMMA DefaultAgrees ==
  ASSUME NEW c, NEW d, IsItems("facts", c.facts), SameFacts(d, c)
  PROVE  DefaultFact(d) = DefaultFact(c)
<1>1. IsList(c.facts)
  BY DEF IsItems
<1> QED
  BY <1>1, DefaultStays DEF SameFacts, SameFact

\* With the same fact tables every table is in the same group.
LEMMA GroupsAgree ==
  ASSUME NEW c, NEW d, IsItems("facts", c.facts), SameFacts(d, c)
  PROVE  \A f : GroupOf(d, f) = GroupOf(c, f)
<1>1. IsList(c.facts)
  BY DEF IsItems
<1> SUFFICES ASSUME NEW f PROVE GroupOf(d, f) = GroupOf(c, f)
  OBVIOUS
<1> QED
  BY <1>1, GroupsStay DEF SameFacts, SameFact

\* A configuration with its defaults filled in is one, over the same fact tables.
LEMMA NormalConfig ==
  ASSUME NEW c, NEW C, IsConfig(c), NormalOf(C, c)
  PROVE  IsConfig(C) /\ SameFacts(C, c)
<1>1. /\ IsItems("dimensions", c.dimensions) /\ IsItems("measures", c.measures) /\ IsItems("facts", c.facts)
      /\ IsItems("relationships", c.relationships)
  BY ConfigParts
<1>2. IsItems("dimensions", C.dimensions)
  <2>1. ASSUME NEW i \in DOMAIN c.dimensions PROVE IsItem("dimensions", C.dimensions[i])
    <3>1. C.dimensions[i] = DerivedDimension(Filled, c.dimensions[i], i) /\ IsItem("dimensions", c.dimensions[i])
      BY <1>1, <2>1 DEF IsItems, NormalOf
    <3> QED
      BY <3>1, DimensionAgain
  <2>2. DOMAIN C.dimensions = DOMAIN c.dimensions /\ C.dimensions = [i \in DOMAIN C.dimensions |-> C.dimensions[i]]
    BY DEF NormalOf
  <2> QED
    BY <1>1, <2>1, <2>2, ItemsLike
<1>3. IsItems("measures", C.measures)
  <2>1. ASSUME NEW i \in DOMAIN c.measures PROVE IsItem("measures", C.measures[i])
    <3>1. C.measures[i] = WithFormat(DerivedMeasure(Filled, c, c.measures[i], i)) /\ IsItem("measures", c.measures[i])
      BY <1>1, <2>1 DEF IsItems, NormalOf
    <3> QED
      BY <3>1, MeasureAgain
  <2>2. DOMAIN C.measures = DOMAIN c.measures /\ C.measures = [i \in DOMAIN C.measures |-> C.measures[i]]
    BY DEF NormalOf
  <2> QED
    BY <1>1, <2>1, <2>2, ItemsLike
<1>4. DOMAIN C.facts = DOMAIN c.facts /\ C.facts = [i \in DOMAIN C.facts |-> C.facts[i]]
  BY DEF NormalOf
<1>5. ASSUME NEW i \in DOMAIN c.facts
      PROVE  IsItem("facts", C.facts[i]) /\ SameFact(C.facts[i], c.facts[i])
  <2>1. C.facts[i] = DerivedFact(Filled, c.facts[i]) /\ IsItem("facts", c.facts[i])
    BY <1>1, <1>5 DEF IsItems, NormalOf
  <2> QED
    BY <2>1, FactAgain DEF SameFact
<1>6. IsItems("facts", C.facts)
  BY <1>1, <1>4, <1>5, ItemsLike
<1>7. IsItems("relationships", C.relationships)
  <2>1. ASSUME NEW i \in DOMAIN c.relationships PROVE IsItem("relationships", C.relationships[i])
    <3>1. C.relationships[i] = DerivedRelationship(Filled, c, c.relationships[i]) /\ IsItem("relationships", c.relationships[i])
      BY <1>1, <2>1 DEF IsItems, NormalOf
    <3> QED
      BY <3>1, RelationshipAgain
  <2>2. DOMAIN C.relationships = DOMAIN c.relationships /\ C.relationships = [i \in DOMAIN C.relationships |-> C.relationships[i]]
    BY DEF NormalOf
  <2> QED
    BY <1>1, <2>1, <2>2, ItemsLike
<1>8. IsConfig(C)
  BY <1>2, <1>3, <1>6, <1>7, RestStays DEF NormalOf
<1>9. C.cube = c.cube
  BY ConfigParts DEF NormalOf, DiffersIn, MainDerived
<1> QED
  BY <1>4, <1>5, <1>8, <1>9 DEF SameFacts

\* Entry by entry: what is cleared is filled again.
LEMMA DimensionsAgain ==
  ASSUME NEW c, NEW C, NEW D, IsConfig(c), NormalOf(C, c), MinimalOf(D, C), NEW i \in DOMAIN c.dimensions
  PROVE  IsItem("dimensions", D.dimensions[i]) /\ DerivedDimension(Filled, D.dimensions[i], i) = C.dimensions[i]
<1>1. IsItem("dimensions", c.dimensions[i])
  BY ConfigParts DEF IsItems
<1>2. /\ C.dimensions[i] = DerivedDimension(Filled, c.dimensions[i], i)
      /\ D.dimensions[i] = DerivedDimension(Cleared, C.dimensions[i], i)
  BY DEF NormalOf, MinimalOf
<1> QED
  BY <1>1, <1>2, DimensionAgain

\* Measures: X is any configuration with the same groups.
LEMMA MeasuresAgain ==
  ASSUME NEW c, NEW C, NEW D, IsConfig(c), NormalOf(C, c), MinimalOf(D, C), NEW X, DefaultFact(C) = DefaultFact(c),
         DefaultFact(X) = DefaultFact(c), \A f : GroupOf(C, f) = GroupOf(c, f) /\ GroupOf(X, f) = GroupOf(c, f),
         NEW i \in DOMAIN c.measures
  PROVE  /\ IsItem("measures", D.measures[i])
         /\ WithFormat(DerivedMeasure(Filled, X, D.measures[i], i)) = C.measures[i]
<1>1. IsItem("measures", c.measures[i])
  BY ConfigParts DEF IsItems
<1>2. /\ C.measures[i] = WithFormat(DerivedMeasure(Filled, c, c.measures[i], i))
      /\ D.measures[i] = DerivedMeasure(Cleared, C, C.measures[i], i)
  BY DEF NormalOf, MinimalOf
<1> QED
  BY <1>1, <1>2, MeasureAgain

\* Fact tables.
LEMMA FactsAgain ==
  ASSUME NEW c, NEW C, NEW D, IsConfig(c), NormalOf(C, c), MinimalOf(D, C), NEW i \in DOMAIN c.facts
  PROVE  /\ IsItem("facts", D.facts[i]) /\ SameFact(D.facts[i], c.facts[i])
         /\ DerivedFact(Filled, D.facts[i]) = C.facts[i]
<1>1. IsItem("facts", c.facts[i])
  BY ConfigParts DEF IsItems
<1>2. C.facts[i] = DerivedFact(Filled, c.facts[i]) /\ D.facts[i] = DerivedFact(Cleared, C.facts[i])
  BY DEF NormalOf, MinimalOf
<1> QED
  BY <1>1, <1>2, FactAgain DEF SameFact

\* Relationships.
LEMMA RelationshipsAgain ==
  ASSUME NEW c, NEW C, NEW D, IsConfig(c), NormalOf(C, c), MinimalOf(D, C), NEW X, DefaultFact(C) = DefaultFact(c),
         DefaultFact(X) = DefaultFact(c), NEW i \in DOMAIN c.relationships
  PROVE  /\ IsItem("relationships", D.relationships[i])
         /\ DerivedRelationship(Filled, X, D.relationships[i]) = C.relationships[i]
<1>1. IsItem("relationships", c.relationships[i])
  BY ConfigParts DEF IsItems
<1>2. /\ C.relationships[i] = DerivedRelationship(Filled, c, c.relationships[i])
      /\ D.relationships[i] = DerivedRelationship(Cleared, C, C.relationships[i])
  BY DEF NormalOf, MinimalOf
<1> QED
  BY <1>1, <1>2, RelationshipAgain

\* A configuration without its defaults is one, over the same fact tables.
LEMMA MinimalConfig ==
  ASSUME NEW c, NEW C, NEW D, IsConfig(c), NormalOf(C, c), MinimalOf(D, C)
  PROVE  IsConfig(D) /\ SameFacts(D, c)
<1>1. /\ IsItems("dimensions", c.dimensions) /\ IsItems("measures", c.measures) /\ IsItems("facts", c.facts)
      /\ IsItems("relationships", c.relationships)
  BY ConfigParts
<1>2. IsConfig(C) /\ SameFacts(C, c) /\ DefaultFact(C) = DefaultFact(c) /\ \A f : GroupOf(C, f) = GroupOf(c, f)
  BY <1>1, NormalConfig, DefaultAgrees, GroupsAgree
<1>3. IsItems("dimensions", D.dimensions)
  <2>1. ASSUME NEW i \in DOMAIN c.dimensions PROVE IsItem("dimensions", D.dimensions[i])
    BY <2>1, DimensionsAgain
  <2>2. DOMAIN D.dimensions = DOMAIN c.dimensions /\ D.dimensions = [i \in DOMAIN D.dimensions |-> D.dimensions[i]]
    BY DEF NormalOf, MinimalOf
  <2> QED
    BY <1>1, <2>1, <2>2, ItemsLike
<1>4. IsItems("measures", D.measures)
  <2>1. ASSUME NEW i \in DOMAIN c.measures PROVE IsItem("measures", D.measures[i])
    BY <1>2, <2>1, MeasuresAgain
  <2>2. DOMAIN D.measures = DOMAIN c.measures /\ D.measures = [i \in DOMAIN D.measures |-> D.measures[i]]
    BY DEF NormalOf, MinimalOf
  <2> QED
    BY <1>1, <2>1, <2>2, ItemsLike
<1>5. DOMAIN D.facts = DOMAIN c.facts /\ D.facts = [i \in DOMAIN D.facts |-> D.facts[i]]
  BY DEF NormalOf, MinimalOf
<1>6. ASSUME NEW i \in DOMAIN c.facts
      PROVE  IsItem("facts", D.facts[i]) /\ SameFact(D.facts[i], c.facts[i])
  BY <1>6, FactsAgain
<1>7. IsItems("facts", D.facts)
  BY <1>1, <1>5, <1>6, ItemsLike
<1>8. IsItems("relationships", D.relationships)
  <2>1. ASSUME NEW i \in DOMAIN c.relationships PROVE IsItem("relationships", D.relationships[i])
    BY <1>2, <2>1, RelationshipsAgain
  <2>2. DOMAIN D.relationships = DOMAIN c.relationships /\ D.relationships = [i \in DOMAIN D.relationships |-> D.relationships[i]]
    BY DEF NormalOf, MinimalOf
  <2> QED
    BY <1>1, <2>1, <2>2, ItemsLike
<1>9. IsConfig(D)
  BY <1>2, <1>3, <1>4, <1>7, <1>8, RestStays DEF MinimalOf
<1>10. D.cube = c.cube
  BY <1>2, ConfigParts DEF NormalOf, MinimalOf, DiffersIn, MainDerived
<1> QED
  BY <1>5, <1>6, <1>9, <1>10 DEF SameFacts

\* Filling in what was left out gives the configuration it was left out of.
LEMMA NormalAgain ==
  ASSUME NEW c, NEW C, NEW D, NEW R, IsConfig(c), NormalOf(C, c), MinimalOf(D, C), NormalOf(R, D)
  PROVE  R = C
<1>1. /\ IsItems("dimensions", c.dimensions) /\ IsItems("measures", c.measures) /\ IsItems("facts", c.facts)
      /\ IsItems("relationships", c.relationships)
  BY ConfigParts
<1>2. /\ IsConfig(C) /\ DefaultFact(C) = DefaultFact(c) /\ \A f : GroupOf(C, f) = GroupOf(c, f)
      /\ IsConfig(D) /\ DefaultFact(D) = DefaultFact(c) /\ \A f : GroupOf(D, f) = GroupOf(c, f)
  BY <1>1, NormalConfig, MinimalConfig, DefaultAgrees, GroupsAgree
<1>3. R.dimensions = C.dimensions
  <2>1. ASSUME NEW i \in DOMAIN c.dimensions PROVE DerivedDimension(Filled, D.dimensions[i], i) = C.dimensions[i]
    BY <2>1, DimensionsAgain
  <2>2. DOMAIN D.dimensions = DOMAIN c.dimensions /\ C.dimensions = [i \in DOMAIN c.dimensions |-> C.dimensions[i]]
    BY DEF NormalOf, MinimalOf
  <2>3. R.dimensions = [i \in DOMAIN c.dimensions |-> DerivedDimension(Filled, D.dimensions[i], i)]
    BY <2>2 DEF NormalOf
  <2> QED
    BY <2>1, <2>2, <2>3
<1>4. R.measures = C.measures
  <2>1. ASSUME NEW i \in DOMAIN c.measures PROVE WithFormat(DerivedMeasure(Filled, D, D.measures[i], i)) = C.measures[i]
    BY <1>2, <2>1, MeasuresAgain
  <2>2. DOMAIN D.measures = DOMAIN c.measures /\ C.measures = [i \in DOMAIN c.measures |-> C.measures[i]]
    BY DEF NormalOf, MinimalOf
  <2>3. R.measures = [i \in DOMAIN c.measures |-> WithFormat(DerivedMeasure(Filled, D, D.measures[i], i))]
    BY <2>2 DEF NormalOf
  <2> QED
    BY <2>1, <2>2, <2>3
<1>5. R.facts = C.facts
  <2>1. ASSUME NEW i \in DOMAIN c.facts PROVE DerivedFact(Filled, D.facts[i]) = C.facts[i]
    BY <2>1, FactsAgain
  <2>2. DOMAIN D.facts = DOMAIN c.facts /\ C.facts = [i \in DOMAIN c.facts |-> C.facts[i]]
    BY DEF NormalOf, MinimalOf
  <2>3. R.facts = [i \in DOMAIN c.facts |-> DerivedFact(Filled, D.facts[i])]
    BY <2>2 DEF NormalOf
  <2> QED
    BY <2>1, <2>2, <2>3
<1>6. R.relationships = C.relationships
  <2>1. ASSUME NEW i \in DOMAIN c.relationships PROVE DerivedRelationship(Filled, D, D.relationships[i]) = C.relationships[i]
    BY <1>2, <2>1, RelationshipsAgain
  <2>2. DOMAIN D.relationships = DOMAIN c.relationships /\ C.relationships = [i \in DOMAIN c.relationships |-> C.relationships[i]]
    BY DEF NormalOf, MinimalOf
  <2>3. R.relationships = [i \in DOMAIN c.relationships |-> DerivedRelationship(Filled, D, D.relationships[i])]
    BY <2>2 DEF NormalOf
  <2> QED
    BY <2>1, <2>2, <2>3
<1>7. R.source = C.source
  <2>1. C.table = c.table /\ D.table = c.table
    BY <1>2, ConfigParts DEF NormalOf, MinimalOf, DiffersIn, MainDerived
  <2>2. /\ C.source = Filled(c.source, "", c.table) /\ D.source = Cleared(C.source, "", c.table)
        /\ R.source = Filled(D.source, "", c.table)
    BY <2>1 DEF NormalOf, MinimalOf
  <2> QED
    BY <2>2 DEF Filled, Cleared
<1>8. \A f \in DOMAIN C : f \notin MainDerived => R[f] = C[f]
  BY DEF NormalOf, MinimalOf, DiffersIn
<1>9. R = [f \in DOMAIN R |-> R[f]] /\ C = [f \in DOMAIN C |-> C[f]] /\ DOMAIN R = DOMAIN C
  BY DEF NormalOf, MinimalOf, DiffersIn
<1>10. \A f \in DOMAIN C : R[f] = C[f]
  BY <1>3, <1>4, <1>5, <1>6, <1>7, <1>8 DEF MainDerived
<1> QED
  BY <1>9, <1>10

------------------------------------------------------------------------------
(* The files.                                                                 *)

\* The empty list.
LEMMA EmptyIsList == IsList(<<>>)
<1>1. <<>> \in Seq({<<>>[i] : i \in DOMAIN <<>>})
  OBVIOUS
<1> QED
  BY <1>1 DEF IsList

\* An empty file has no entries.
LEMMA NoItems == ASSUME NEW list PROVE IsItems(list, <<>>) /\ ListRead(list, <<>>) = <<>>
<1>1. DOMAIN <<>> = {}
  OBVIOUS
<1>2. ListRead(list, <<>>) = [i \in DOMAIN <<>> |-> Read(<<>>[i], DefaultsOf[list])]
  BY DEF ListRead, Each
<1>3. ListRead(list, <<>>) = <<>>
  BY <1>1, <1>2
<1> QED
  BY <1>1, <1>3, EmptyIsList DEF IsItems

\* The inline entries and the file's are entries.
LEMMA ItemsJoined ==
  ASSUME NEW list, NEW s, NEW t, IsItems(list, s), IsItems(list, t)
  PROVE  IsItems(list, s \o t)
<1> DEFINE S == {x \in {s[i] : i \in DOMAIN s} \union {t[i] : i \in DOMAIN t} : IsItem(list, x)}
<1>1. s \in Seq(S) /\ t \in Seq(S)
  <2>1. s \in Seq({s[i] : i \in DOMAIN s}) /\ t \in Seq({t[i] : i \in DOMAIN t})
    BY DEF IsItems, IsList
  <2>2. s \in Seq({s[i] : i \in DOMAIN s} \union {t[i] : i \in DOMAIN t}) /\ t \in Seq({s[i] : i \in DOMAIN s} \union {t[i] : i \in DOMAIN t})
    BY <2>1
  <2>3. (\A i \in DOMAIN s : s[i] \in S) /\ (\A i \in DOMAIN t : t[i] \in S)
    BY DEF IsItems
  <2>4. DOMAIN s = 1..Len(s) /\ Len(s) \in Nat /\ DOMAIN t = 1..Len(t) /\ Len(t) \in Nat
    BY <2>1
  <2>5. s = [i \in 1..Len(s) |-> s[i]] /\ t = [i \in 1..Len(t) |-> t[i]]
    BY <2>1, <2>4
  <2> HIDE DEF S
  <2>6. s \in [1..Len(s) -> S] /\ t \in [1..Len(t) -> S]
    BY <2>3, <2>4, <2>5
  <2> QED
    BY <2>4, <2>6, SeqDef
<1>2. \A x \in S : IsItem(list, x)
  OBVIOUS
<1> HIDE DEF S
<1>3. s \o t \in Seq(S)
  BY <1>1
<1> DEFINE u == s \o t
<1> HIDE DEF u
<1>4. u \in Seq(S)
  BY <1>3 DEF u
<1>5. \A i \in DOMAIN u : u[i] \in S
  BY <1>4
<1>6. u = [i \in 1..Len(u) |-> u[i]] /\ DOMAIN u = 1..Len(u) /\ Len(u) \in Nat
  BY <1>4
<1>7. IsList(u)
  <2> DEFINE R == {u[i] : i \in DOMAIN u}
  <2>1. u \in [1..Len(u) -> R]
    BY <1>6
  <2>2. u \in Seq(R)
    <3> HIDE DEF R
    <3> QED
      BY <1>6, <2>1, SeqDef
  <2> QED
    BY <2>2 DEF IsList
<1> QED
  BY <1>2, <1>5, <1>7 DEF IsItems, u

\* A section that moved out has only its file's entries.
LEMMA JoinedToNothing == ASSUME NEW s, IsList(s) PROVE <<>> \o s = s
<1> DEFINE R == {s[i] : i \in DOMAIN s}
<1>1. s \in Seq(R)
  BY DEF IsList
<1> HIDE DEF R
<1> QED
  BY <1>1, ConcatEmptySeq

SectionsAreItems == Section \subseteq Items /\ "main" \notin Section /\ "files" \notin Section /\ "cube" \notin Section

\* Only lists move into files.
LEMMA SectionNames == SectionsAreItems
BY ItemNames DEF Section, SectionsAreItems

\* What mallard fmt writes can be read: the main file as a configuration, a section
\* file as a list of entries.
LEMMA MovedOutConfig ==
  ASSUME NEW d, IsConfig(d)
  PROVE  IsConfig(MovedOut(d)) /\ MovedOut(d).files = d.files
<1>1. \A list \in Items : IsItems(list, MovedOut(d)[list])
  <2> SUFFICES ASSUME NEW list \in Items PROVE IsItems(list, MovedOut(d)[list])
    OBVIOUS
  <2>1. list \in DOMAIN d /\ IsItems(list, d[list])
    BY ConfigParts, ItemNames DEF IsConfig
  <2>2. MovedOut(d)[list] = IF list \in d.files THEN <<>> ELSE d[list]
    BY <2>1 DEF MovedOut
  <2> QED
    BY <2>1, <2>2, NoItems
<1>2. MovedOut(d).files = d.files
  BY ConfigParts, SectionNames DEF MovedOut, IsConfig, SectionsAreItems
<1>3. MovedOut(d) = [f \in DOMAIN MovedOut(d) |-> MovedOut(d)[f]] /\ DOMAIN MovedOut(d) = DOMAIN d
  BY DEF MovedOut
<1> QED
  BY <1>1, <1>2, <1>3 DEF IsConfig

\* canonical_texts without the helper that names an intermediate value.
LEMMA CanonicalTexts ==
  ASSUME NEW c
  PROVE  canonical_texts(c) = [f \in FilesOf(deminimize(c)) |->
            IF f = "main" THEN serialize(MovedOut(deminimize(c))) ELSE ListText(f, deminimize(c)[f])]
BY DEF canonical_texts, Once

\* A loaded configuration.
IsLoaded(c) == \E b : IsConfig(b) /\ NormalOf(c, b)

\* What was loaded is a configuration, and again itself when its defaults are left out.
LEMMA LoadedParts ==
  ASSUME NEW c, IsLoaded(c)
  PROVE  /\ IsConfig(c) /\ IsConfig(deminimize(c)) /\ deminimize(c).files = c.files
         /\ normalize(deminimize(c)) = c
<1> DEFINE D == deminimize(c)
           R == normalize(D)
<1> HIDE DEF D, R
<1>1. PICK b : IsConfig(b) /\ NormalOf(c, b)
  BY DEF IsLoaded
<1>2. IsConfig(c)
  BY <1>1, NormalConfig
<1>3. MinimalOf(D, c)
  BY <1>2, MinimalFields DEF D
<1>4. IsConfig(D)
  BY <1>1, <1>3, MinimalConfig
<1>5. NormalOf(R, D)
  BY <1>4, NormalFields DEF R
<1>6. R = c
  BY <1>1, <1>3, <1>5, NormalAgain
<1>7. D.files = c.files
  BY <1>2, <1>3, ConfigParts DEF MinimalOf, DiffersIn, MainDerived
<1> QED
  BY <1>2, <1>4, <1>6, <1>7 DEF D, R

\* What a file contains when mallard fmt wrote it.
ReadableText(f, text) ==
    IF f = "main" THEN IsConfig(parse_str(text)) ELSE IsItems(f, ListRead(f, text))

\* Every text of the canonical form can be read by itself.
LEMMA CanonicalReadable ==
  ASSUME NEW c, IsLoaded(c), NEW f \in FilesOf(c)
  PROVE  f \in DOMAIN canonical_texts(c) /\ ReadableText(f, canonical_texts(c)[f])
<1> DEFINE D == deminimize(c)
<1> HIDE DEF D
<1>1. IsConfig(D) /\ D.files = c.files /\ IsConfig(c)
  BY LoadedParts DEF D
<1>2. canonical_texts(c) = [g \in FilesOf(D) |-> IF g = "main" THEN serialize(MovedOut(D)) ELSE ListText(g, D[g])]
  BY CanonicalTexts DEF D
<1>3. FilesOf(D) = FilesOf(c)
  BY <1>1 DEF FilesOf
<1>4. CASE f = "main"
  <2>1. canonical_texts(c)[f] = serialize(MovedOut(D))
    BY <1>2, <1>3, <1>4
  <2> QED
    BY <1>1, <1>2, <1>3, <1>4, <2>1, MovedOutConfig, ConfigReadBack DEF ReadableText
<1>5. CASE f # "main"
  <2>1. canonical_texts(c)[f] = ListText(f, D[f])
    BY <1>2, <1>3, <1>5
  <2>2. f \in Items
    BY <1>1, <1>5, SectionNames DEF FilesOf, IsConfig, SectionsAreItems
  <2>3. IsItems(f, D[f])
    BY <1>1, <2>2 DEF IsConfig
  <2> QED
    BY <1>2, <1>3, <1>5, <2>1, <2>2, <2>3, ItemsReadBack DEF ReadableText
<1> QED
  BY <1>4, <1>5

\* The canonical files of a configuration load as that configuration.
LEMMA CanonicalLoads ==
  ASSUME NEW c, IsLoaded(c), NEW files, \A f \in FilesOf(c) : files[f] = canonical_texts(c)[f]
  PROVE  load(files) = c
<1> DEFINE D == deminimize(c)
           M == MovedOut(D)
           merged(x) == [f \in DOMAIN x |-> IF f \in x.files THEN x[f] \o ListRead(f, files[f]) ELSE x[f]]
<1>1. load(files) = normalize(merged(parse_str(files["main"])))
  BY DEF load, Once
<1>2. IsConfig(D) /\ D.files = c.files /\ IsConfig(c) /\ normalize(D) = c
  BY LoadedParts
<1>3. canonical_texts(c) = [g \in FilesOf(D) |-> IF g = "main" THEN serialize(MovedOut(D)) ELSE ListText(g, D[g])]
  BY CanonicalTexts
<1>4. M = [f \in DOMAIN D |-> IF f \in D.files THEN <<>> ELSE D[f]]
  BY DEF MovedOut
<1> HIDE DEF D
<1>5. IsConfig(M) /\ M.files = D.files
  BY <1>2, MovedOutConfig
<1> HIDE DEF M
<1>6. FilesOf(D) = FilesOf(c) /\ "main" \in FilesOf(c) /\ D.files \subseteq FilesOf(c)
  BY <1>2 DEF FilesOf
<1>7. files["main"] = serialize(M)
  BY <1>3, <1>6 DEF M
<1>8. parse_str(files["main"]) = M
  BY <1>5, <1>7, ConfigReadBack
<1>9. ASSUME NEW f \in D.files PROVE M[f] \o ListRead(f, files[f]) = D[f]
  <2>1. f \in Items /\ f # "main" /\ f \in DOMAIN D /\ IsItems(f, D[f])
    <3>1. f \in Items /\ f # "main"
      BY <1>2, <1>9, SectionNames DEF IsConfig, SectionsAreItems
    <3> QED
      BY <1>2, <3>1, ConfigParts, ItemNames DEF IsConfig
  <2>2. files[f] = ListText(f, D[f])
    BY <1>3, <1>6, <1>9, <2>1
  <2>3. ListRead(f, files[f]) = D[f]
    BY <2>1, <2>2, ItemsReadBack
  <2>4. M[f] = <<>>
    BY <1>4, <1>9, <2>1
  <2>5. IsList(D[f])
    BY <2>1 DEF IsItems
  <2> QED
    BY <2>3, <2>4, <2>5, JoinedToNothing
<1>10. \A f \in DOMAIN D : f \notin D.files => M[f] = D[f]
  BY <1>4
<1>11. DOMAIN M = DOMAIN D /\ D = [f \in DOMAIN D |-> D[f]]
  BY <1>2, <1>4 DEF IsConfig
<1>12. merged(M) = D
  BY <1>5, <1>9, <1>10, <1>11
<1> QED
  BY <1>1, <1>2, <1>8, <1>12

\* A second mallard fmt has nothing to write.
LEMMA NothingToFormat ==
  ASSUME NEW c, IsLoaded(c), NEW files, FilesOf(c) \subseteq DOMAIN files,
         \A f \in FilesOf(c) : files[f] = canonical_texts(c)[f]
  PROVE  non_canonical(c, files) = {}
<1>1. non_canonical(c, files) = {f \in DOMAIN canonical_texts(c) : f \notin DOMAIN files \/ files[f] # canonical_texts(c)[f]}
  BY DEF non_canonical, Once
<1>2. DOMAIN canonical_texts(c) = FilesOf(c)
  <2>1. deminimize(c).files = c.files
    BY LoadedParts
  <2> QED
    BY <2>1, CanonicalTexts DEF FilesOf
<1> QED
  BY <1>1, <1>2

\* Readable files load as some configuration with the defaults filled in.
Readable(files) == \A f \in DOMAIN files \intersect (Section \union {"main"}) : ReadableText(f, files[f])

\* The files' lists put together, before what was left out is filled in.
Merged(files) ==
    LET M == parse_str(files["main"])
    IN [f \in DOMAIN M |-> IF f \in M.files THEN M[f] \o ListRead(f, files[f]) ELSE M[f]]

\* What load reads is the lists put together, filled in.
LEMMA LoadIsMerged == ASSUME NEW files PROVE load(files) = normalize(Merged(files))
BY DEF load, Once, Merged

\* Files that can be read come to a configuration, with the fact tables of the main file.
LEMMA MergedParts ==
  ASSUME NEW files, Readable(files), Loads(files)
  PROVE  /\ IsConfig(parse_str(files["main"])) /\ IsConfig(Merged(files))
         /\ parse_str(files["main"]).files \subseteq Section /\ parse_str(files["main"]).files \subseteq DOMAIN files
         /\ Merged(files).files = parse_str(files["main"]).files
         /\ Merged(files).facts = parse_str(files["main"]).facts /\ Merged(files).cube = parse_str(files["main"]).cube
         /\ \A list \in parse_str(files["main"]).files : IsItems(list, ListRead(list, files[list]))
<1> DEFINE M == parse_str(files["main"])
           b == [f \in DOMAIN M |-> IF f \in M.files THEN M[f] \o ListRead(f, files[f]) ELSE M[f]]
<1>1. Merged(files) = b
  BY DEF Merged
<1>2. IsConfig(M)
  BY DEF Readable, ReadableText, Loads
<1>3. M.files \subseteq DOMAIN files
  BY DEF Loads
<1> HIDE DEF M
<1>4. ASSUME NEW list \in M.files PROVE IsItems(list, ListRead(list, files[list]))
  <2>1. list \in Section /\ list \in DOMAIN files /\ list # "main"
    BY <1>2, <1>3, <1>4, SectionNames DEF IsConfig, SectionsAreItems
  <2> QED
    BY <2>1 DEF Readable, ReadableText
<1>5. ASSUME NEW list \in Items PROVE IsItems(list, b[list])
  <2>1. list \in DOMAIN M /\ IsItems(list, M[list])
    BY <1>2, <1>5, ConfigParts, ItemNames DEF IsConfig
  <2>2. CASE list \notin M.files
    BY <2>1, <2>2
  <2>3. CASE list \in M.files
    <3>1. b[list] = M[list] \o ListRead(list, files[list])
      BY <2>1, <2>3
    <3> QED
      BY <1>4, <2>1, <2>3, <3>1, ItemsJoined
  <2> QED
    BY <2>2, <2>3
<1>6. b.files = M.files /\ b.facts = M.facts /\ b.cube = M.cube
  BY <1>2, ConfigParts, SectionNames DEF IsConfig, SectionsAreItems, Section
<1>7. b = [f \in DOMAIN b |-> b[f]] /\ DOMAIN b = DOMAIN M
  OBVIOUS
<1> HIDE DEF b
<1>8. IsConfig(b)
  BY <1>2, <1>5, <1>6, <1>7 DEF IsConfig
<1> QED
  BY <1>1, <1>2, <1>3, <1>4, <1>6, <1>8 DEF M, IsConfig

\* Whatever loads, from files each of which can be read, is a loaded configuration.
LEMMA LoadsLoaded ==
  ASSUME NEW files, Readable(files), Loads(files)
  PROVE  IsLoaded(load(files)) /\ IsConfig(parse_str(files["main"]))
<1>1. IsConfig(parse_str(files["main"])) /\ IsConfig(Merged(files))
  BY MergedParts
<1>2. NormalOf(normalize(Merged(files)), Merged(files))
  BY <1>1, NormalFields
<1> QED
  BY <1>1, <1>2, LoadIsMerged DEF IsLoaded

------------------------------------------------------------------------------
(* The way into service.                                                      *)

\* A list that is projected entry by entry.
ProjectedList(list, s, t) ==
    t = [i \in DOMAIN t |-> t[i]] /\ DOMAIN t = DOMAIN s /\ \A i \in DOMAIN s : IsItem(list, t[i])

\* A list that is projected entry by entry is a list of entries.
LEMMA ProjectedItems ==
  ASSUME NEW list, NEW s, NEW t, IsList(s), ProjectedList(list, s, t)
  PROVE  IsItems(list, t)
<1>1. IsList(t)
  BY ListLike DEF ProjectedList
<1> QED
  BY <1>1 DEF IsItems, ProjectedList

\* The projection of a contract is a configuration.
LEMMA ProjectedConfig ==
  ASSUME NEW c, IsContract(c), NEW cube
  PROVE  IsConfig(project(c, cube))
<1> DEFINE p == project(c, cube)
<1>1. p.files = {} /\ p = [f \in DOMAIN p |-> p[f]] /\ DOMAIN MainDefaults \union {"cube"} \subseteq DOMAIN p
  BY MainNames DEF project
<1>2. ProjectedList("facts", c.grain, p.facts)
  <2>1. p.facts = [i \in DOMAIN c.grain |-> project_fact(c.grain[i])]
    BY DEF project, Each
  <2>2. ASSUME NEW x PROVE IsItem("facts", project_fact(x))
    BY DEF IsItem, MustHave, DefaultsOf, FactDefaults, project_fact
  <2> HIDE DEF p
  <2> QED
    BY <2>1, <2>2 DEF ProjectedList
<1>3. ProjectedList("dimensions", c.dimensions, p.dimensions)
  <2>1. p.dimensions = [i \in DOMAIN c.dimensions |-> project_dimension(c.dimensions[i])]
    BY DEF project, Each
  <2>2. ASSUME NEW x PROVE IsItem("dimensions", project_dimension(x))
    BY DEF IsItem, MustHave, DefaultsOf, DimensionDefaults, project_dimension
  <2> HIDE DEF p
  <2> QED
    BY <2>1, <2>2 DEF ProjectedList
<1>4. ProjectedList("measures", c.measures, p.measures)
  <2>1. p.measures = [i \in DOMAIN c.measures |-> project_measure(c, c.measures[i])]
    BY DEF project, Each
  <2>2. ASSUME NEW x PROVE IsItem("measures", project_measure(c, x))
    BY DEF IsItem, MustHave, DefaultsOf, MeasureDefaults, project_measure
  <2> HIDE DEF p
  <2> QED
    BY <2>1, <2>2 DEF ProjectedList
<1>5. ProjectedList("relationships", c.relationships, p.relationships)
  <2>1. p.relationships = [i \in DOMAIN c.relationships |-> project_relationship(c, c.relationships[i])]
    BY DEF project, Each
  <2>2. ASSUME NEW x PROVE IsItem("relationships", project_relationship(c, x))
    BY DEF IsItem, MustHave, DefaultsOf, RelationshipDefaults, project_relationship
  <2> HIDE DEF p
  <2> QED
    BY <2>1, <2>2 DEF ProjectedList
<1>6. ProjectedList("roles", c.roles, p.roles)
  <2>1. p.roles = [i \in DOMAIN c.roles |-> [name |-> c.roles[i], permission |-> "read", members |-> {}]]
    BY DEF project, Each
  <2>2. ASSUME NEW x PROVE IsItem("roles", [name |-> x, permission |-> "read", members |-> {}])
    BY DEF IsItem, MustHave, DefaultsOf, RoleDefaults
  <2> HIDE DEF p
  <2> QED
    BY <2>1, <2>2 DEF ProjectedList
<1> HIDE DEF p
<1>7. /\ IsItems("facts", p.facts) /\ IsItems("dimensions", p.dimensions) /\ IsItems("measures", p.measures)
      /\ IsItems("relationships", p.relationships) /\ IsItems("roles", p.roles)
  BY <1>2, <1>3, <1>4, <1>5, <1>6, ProjectedItems DEF IsContract
<1>8. IsConfig(p)
  BY <1>1, <1>7, ItemNames DEF IsConfig
<1> QED
  BY <1>8 DEF p

\* What mallard contract project writes can be read.
LEMMA CanonicalText ==
  ASSUME NEW c, IsConfig(c)
  PROVE  IsConfig(parse_str(canonical_text(c)))
<1>1. IsLoaded(normalize(c))
  BY NormalFields DEF IsLoaded
<1>2. IsConfig(deminimize(normalize(c)))
  BY <1>1, LoadedParts
<1> QED
  BY <1>2, ConfigReadBack DEF canonical_text

\* The file written next is one that is pending, the main file the last of them.
LEMMA NextIsPending ==
  ASSUME NEW files, files \subseteq Section \union {"main"}, files # {}
  PROVE  NextFile(files) \in files /\ (NextFile(files) = "main" => files = {"main"})
<1> DEFINE first(i) == WriteOrder[i] \in files /\ \A j \in 1..i - 1 : WriteOrder[j] \notin files
<1>1. DOMAIN WriteOrder = 1..5 /\ WriteOrder[1] = "dimensions" /\ WriteOrder[2] = "measures"
      /\ WriteOrder[3] = "relationships" /\ WriteOrder[4] = "roles" /\ WriteOrder[5] = "main"
  BY DEF WriteOrder
<1>2. \E i \in DOMAIN WriteOrder : first(i)
  <2>1. CASE "dimensions" \in files
    BY <1>1, <2>1
  <2>2. CASE "dimensions" \notin files /\ "measures" \in files
    BY <1>1, <2>2
  <2>3. CASE "dimensions" \notin files /\ "measures" \notin files /\ "relationships" \in files
    BY <1>1, <2>3
  <2>4. CASE "dimensions" \notin files /\ "measures" \notin files /\ "relationships" \notin files /\ "roles" \in files
    BY <1>1, <2>4
  <2>5. CASE files = {"main"}
    BY <1>1, <2>5
  <2> QED
    BY <2>1, <2>2, <2>3, <2>4, <2>5 DEF Section
<1>3. NextFile(files) = WriteOrder[CHOOSE i \in DOMAIN WriteOrder : first(i)]
  BY DEF NextFile
<1>4. PICK i \in DOMAIN WriteOrder : first(i) /\ NextFile(files) = WriteOrder[i]
  BY <1>2, <1>3
<1>5. ASSUME NextFile(files) = "main" PROVE files = {"main"}
  <2>1. i = 5 /\ \A j \in 1..4 : WriteOrder[j] \notin files
    <3>1. WriteOrder[i] = "main" /\ i \in 1..5
      BY <1>1, <1>4, <1>5
    <3>2. i # 1 /\ i # 2 /\ i # 3 /\ i # 4
      BY <1>1, <3>1
    <3>3. i = 5
      BY <3>1, <3>2
    <3> QED
      BY <1>4, <3>3
  <2>2. "main" \in files
    BY <1>4, <1>5
  <2>3. "dimensions" \notin files /\ "measures" \notin files /\ "relationships" \notin files /\ "roles" \notin files
    <3>1. 1 \in 1..4 /\ 2 \in 1..4 /\ 3 \in 1..4 /\ 4 \in 1..4
      OBVIOUS
    <3> QED
      BY <1>1, <2>1, <3>1
  <2> QED
    BY <2>2, <2>3 DEF Section
<1> QED
  BY <1>4, <1>5

\* What is on disk can be read; what mallard fmt has written is the canonical text of
\* what it read, and what it has not written is pending.
DiskReadable == Readable(disk)
FormatProgress ==
    /\ \A c \in meaning :
          /\ IsLoaded(c) /\ meaning = {c} /\ pending \subseteq FilesOf(c)
          /\ \A f \in FilesOf(c) \ pending : f \in DOMAIN disk /\ disk[f] = canonical_texts(c)[f]
    /\ pending # {} => meaning # {}
ContractsAreLists == upstream \subseteq Upstream /\ \A c \in contract : IsContract(c)
DeploymentInv == DiskReadable /\ FormatProgress /\ ContractsAreLists

\* Nothing is on disk at first.
LEMMA DeploymentInvInit == DeploymentInit => DeploymentInv
<1> SUFFICES ASSUME DeploymentInit PROVE DeploymentInv
  OBVIOUS
<1>1. DOMAIN disk = {} /\ meaning = {} /\ pending = {}
  BY DEF DeploymentInit, NoFiles
<1>2. ContractsAreLists
  BY ContractAssumption DEF DeploymentInit, ContractsAreLists, IsContract
<1> QED
  BY <1>1, <1>2 DEF DeploymentInv, DiskReadable, Readable, FormatProgress

\* A file is put beside readable ones.
LEMMA PutReadable ==
  ASSUME NEW file, NEW text, DiskReadable, disk' = Put(file, text),
         file \in Section \union {"main"} => ReadableText(file, text)
  PROVE  DiskReadable'
BY DEF DiskReadable, Readable, Put

\* Every step keeps the invariant, a failed write and an edit by hand included.
LEMMA StepKeeps ==
  ASSUME DeploymentInv, [DeploymentNext]_deploymentVars
  PROVE  DeploymentInv'
<1> USE DEF DeploymentInv
<1>1. CASE GenerateContract
  <2>1. ContractsAreLists'
    BY <1>1, ContractAssumption DEF GenerateContract, ContractsAreLists, IsContract
  <2> QED
    BY <1>1, <2>1 DEF GenerateContract, DiskReadable, Readable, FormatProgress
<1>2. CASE ProjectContract
  <2>1. PICK c \in contract : disk' = Put("main", canonical_text(project(c, Cube)))
    BY <1>2 DEF ProjectContract
  <2>2. IsConfig(project(c, Cube))
    BY ProjectedConfig DEF ContractsAreLists
  <2>3. ReadableText("main", canonical_text(project(c, Cube)))
    BY <2>2, CanonicalText DEF ReadableText
  <2>4. DiskReadable'
    BY <2>1, <2>3, PutReadable
  <2> QED
    BY <1>2, <2>4 DEF ProjectContract, AtRest, FormatProgress, ContractsAreLists
<1>3. CASE \E section \in Splittable : DeclareFile(section)
  <2>1. PICK section \in Splittable : DeclareFile(section)
    BY <1>3
  <2> DEFINE old == parse_str(disk["main"])
             main == [old EXCEPT !.files = @ \union {section}]
  <2>2. /\ AtRest /\ Loads(disk) /\ meaning' = {} /\ UNCHANGED <<upstream, contract, pending>>
        /\ disk' = [f \in DOMAIN disk \union {section} |->
                     IF f = "main" THEN serialize(main) ELSE IF f \in DOMAIN disk THEN disk[f] ELSE <<>>]
    BY <2>1 DEF DeclareFile
  <2>3. IsConfig(old)
    BY <2>2, LoadsLoaded DEF DiskReadable
  <2>4. section \in Section
    BY SplittableAssumption
  <2> HIDE DEF old
  <2>5. IsConfig(main)
    <3>1. main.files \subseteq Section
      BY <2>3, <2>4, ConfigParts DEF IsConfig
    <3>2. \A list \in Items : main[list] = old[list]
      BY <2>3, ConfigParts, ItemNames
    <3>3. main = [f \in DOMAIN main |-> main[f]] /\ DOMAIN main = DOMAIN old
      BY <2>3 DEF IsConfig
    <3> HIDE DEF main
    <3>4. \A list \in Items : IsItems(list, main[list])
      BY <2>3, <3>2 DEF IsConfig
    <3> QED
      BY <2>3, <3>1, <3>3, <3>4 DEF IsConfig
  <2> HIDE DEF main
  <2>6. DiskReadable'
    <3> SUFFICES ASSUME NEW f \in DOMAIN disk' \intersect (Section \union {"main"})
                 PROVE  ReadableText(f, disk'[f])
      BY DEF DiskReadable, Readable
    <3>1. CASE f = "main"
      BY <2>2, <2>5, <3>1, ConfigReadBack DEF ReadableText
    <3>2. CASE f # "main" /\ f \in DOMAIN disk
      BY <2>2, <3>2 DEF DiskReadable, Readable
    <3>3. CASE f # "main" /\ f \notin DOMAIN disk
      BY <2>2, <3>3, NoItems DEF ReadableText
    <3> QED
      BY <3>1, <3>2, <3>3
  <2> QED
    BY <2>2, <2>6 DEF AtRest, FormatProgress, ContractsAreLists
<1>4. CASE SpellOut
  <2>1. IsConfig(load(disk))
    BY <1>4, LoadsLoaded, LoadedParts DEF SpellOut, DiskReadable
  <2>2. ReadableText("main", serialize(load(disk)))
    BY <2>1, ConfigReadBack DEF ReadableText
  <2>3. disk' = [disk EXCEPT !["main"] = serialize(load(disk))]
    BY <1>4 DEF SpellOut
  <2>4. DiskReadable'
    BY <2>2, <2>3 DEF DiskReadable, Readable
  <2> QED
    BY <1>4, <2>4 DEF SpellOut, AtRest, FormatProgress, ContractsAreLists
<1>5. CASE FormatReads
  <2>1. IsLoaded(load(disk))
    BY <1>5, LoadsLoaded DEF FormatReads, DiskReadable
  <2>2. meaning' = {load(disk)} /\ pending' = FilesOf(load(disk)) /\ UNCHANGED <<upstream, contract, disk>>
    BY <1>5 DEF FormatReads
  <2>3. FormatProgress'
    BY <2>1, <2>2 DEF FormatProgress
  <2> QED
    BY <2>2, <2>3 DEF DiskReadable, Readable, ContractsAreLists
<1>6. CASE FormatWrites
  <2> DEFINE c == The(meaning)
             f == NextFile(pending)
  <2>1. pending # {} /\ meaning # {}
    BY <1>6 DEF FormatWrites, AtRest, FormatProgress
  <2>2. c \in meaning
    BY <2>1 DEF The
  <2>3. /\ disk' = Put(f, canonical_texts(c)[f]) /\ pending' = pending \ {f}
        /\ UNCHANGED <<upstream, contract, meaning>>
    BY <1>6 DEF FormatWrites
  <2> HIDE DEF c
  <2>4. /\ IsLoaded(c) /\ meaning = {c} /\ pending \subseteq FilesOf(c)
        /\ \A g \in FilesOf(c) \ pending : g \in DOMAIN disk /\ disk[g] = canonical_texts(c)[g]
    BY <2>2 DEF FormatProgress
  <2>5. FilesOf(c) \subseteq Section \union {"main"}
    BY <2>4, LoadedParts DEF FilesOf, IsConfig
  <2>6. f \in pending
    BY <2>1, <2>4, <2>5, NextIsPending
  <2> HIDE DEF f
  <2>7. ReadableText(f, canonical_texts(c)[f])
    BY <2>4, <2>6, CanonicalReadable
  <2>8. DiskReadable'
    BY <2>3, <2>7, PutReadable
  <2>9. FormatProgress'
    <3>1. \A g \in FilesOf(c) \ pending' : g \in DOMAIN disk' /\ disk'[g] = canonical_texts(c)[g]
      BY <2>3, <2>4, <2>6 DEF Put
    <3> QED
      BY <2>3, <2>4, <3>1 DEF FormatProgress
  <2> QED
    BY <2>3, <2>8, <2>9 DEF ContractsAreLists
<1>7. CASE \E cutShort \in BOOLEAN : FormatFails(cutShort)
  <2>1. /\ pending' = {} /\ meaning' = {} /\ UNCHANGED <<upstream, contract>>
        /\ \E g : disk' = [f \in DOMAIN disk \ g |-> disk[f]]
    BY <1>7 DEF FormatFails
  <2>2. DiskReadable'
    BY <2>1 DEF DiskReadable, Readable
  <2> QED
    BY <2>1, <2>2 DEF FormatProgress, ContractsAreLists
<1>8. CASE Serve \/ UNCHANGED deploymentVars
  BY <1>8 DEF Serve, deploymentVars, DiskReadable, Readable, FormatProgress, ContractsAreLists
<1> QED
  BY <1>1, <1>2, <1>3, <1>4, <1>5, <1>6, <1>7, <1>8 DEF DeploymentNext

\* mallard fmt keeps what the files mean: when its last file is written they load as what
\* was read before the first, and formatting them again would change nothing.
THEOREM FormattingIsFaithful == DeploymentSpec => []FormattingKeepsMeaning
<1>1. DeploymentInv => FormattingKeepsMeaning
  <2> SUFFICES ASSUME DeploymentInv, AtRest, NEW c \in meaning
               PROVE  {load(disk)} = meaning /\ non_canonical(load(disk), disk) = {}
    BY DEF FormattingKeepsMeaning
  <2>1. /\ IsLoaded(c) /\ meaning = {c} /\ FilesOf(c) \subseteq DOMAIN disk
        /\ \A f \in FilesOf(c) : disk[f] = canonical_texts(c)[f]
    BY DEF DeploymentInv, FormatProgress, AtRest
  <2>2. load(disk) = c
    BY <2>1, CanonicalLoads
  <2> QED
    BY <2>1, <2>2, NothingToFormat
<1> QED
  BY <1>1, DeploymentInvInit, StepKeeps, PTL DEF DeploymentSpec
------------------------------------------------------------------------------
(* What a contract declares is what its projection says.                      *)

\* A contract the importer takes, and the configuration it comes to with its defaults filled in.
Accepted(c) == IsContract(c) /\ Valid(c) /\ projects(c)
Projected(c) == normalize(project(c, Cube))

\* A place before all others of a set is its earliest.
LEMMA EarliestIs ==
  ASSUME NEW T \in SUBSET Nat, NEW k \in T, \A j \in T : ~(j < k)
  PROVE  Earliest(T) = {k}
<1>1. \A j \in T : k <= j /\ (j <= k => j = k)
  OBVIOUS
<1> QED
  BY <1>1 DEF Earliest

\* A set of places that is not empty has one earliest.
LEMMA EarliestExists ==
  ASSUME NEW T \in SUBSET Nat, T # {}
  PROVE  \E k \in T : Earliest(T) = {k} /\ \A j \in T : k <= j
<1>1. PICK k \in T : \A j \in T : k <= j
  BY LeastOf
<1>2. \A j \in T : ~(j < k)
  BY <1>1
<1> QED
  BY <1>1, <1>2, EarliestIs

\* Of places one of which is within a list, the earliest is within it too.
LEMMA EarliestWithin ==
  ASSUME NEW n \in Nat, NEW m \in Nat, NEW T \in SUBSET (1..n), NEW i \in T, i \in 1..m
  PROVE  \E k \in T : Earliest(T) = {k} /\ k \in 1..m
<1>1. T \in SUBSET Nat /\ T # {}
  OBVIOUS
<1>2. PICK k \in T : Earliest(T) = {k} /\ \A j \in T : k <= j
  BY <1>1, EarliestExists
<1> QED
  BY <1>2

\* An entry is found by its id unless one before it has the id too.
LEMMA FoundById ==
  ASSUME NEW s, NEW n \in Nat, DOMAIN s = 1..n, NEW i \in 1..n, \A j \in 1..n : j < i => s[j].id # s[i].id
  PROVE  FirstOf(s, s[i].id) = {s[i]}
<1> DEFINE T == {k \in DOMAIN s : s[k].id = s[i].id}
<1>1. T \in SUBSET Nat /\ i \in T /\ \A j \in T : ~(j < i)
  OBVIOUS
<1>2. FirstOf(s, s[i].id) = {s[k] : k \in Earliest(T)}
  BY DEF FirstOf, FirstWith
<1> HIDE DEF T
<1>3. Earliest(T) = {i}
  BY <1>1, EarliestIs
<1> QED
  BY <1>2, <1>3

\* The one element of a set of one.
LEMMA TheOne == \A x : The({x}) = x
BY DEF The

\* The lists of a contract have places 1, 2, ...
LEMMA ContractLists ==
  ASSUME NEW c, IsContract(c)
  PROVE  /\ Len(c.grain) \in Nat /\ DOMAIN c.grain = 1..Len(c.grain)
         /\ Len(c.dimensions) \in Nat /\ DOMAIN c.dimensions = 1..Len(c.dimensions)
         /\ Len(c.measures) \in Nat /\ DOMAIN c.measures = 1..Len(c.measures)
         /\ Len(c.relationships) \in Nat /\ DOMAIN c.relationships = 1..Len(c.relationships)
BY ListDomain DEF IsContract

\* The id a fact table gets from its grain.
IdOf(g) == OrElse(g.id, g.table)
LEMMA FactIds ==
  ASSUME NEW c, Accepted(c), NEW i \in DOMAIN c.grain
  PROVE  fact_id(c, c.grain[i].table) = IdOf(c.grain[i])
<1> DEFINE t == c.grain[i].table
           T == {k \in DOMAIN c.grain : c.grain[k].table = t}
<1>1. T = {i}
  BY DEF Accepted, Valid, consistency, GrainsConsistent, Distinct
<1>2. i \in Nat
  BY ContractLists DEF Accepted
<1>3. FirstWith(c.grain, LAMBDA x : x.table = t) = {c.grain[k] : k \in Earliest(T)}
  BY DEF FirstWith
<1>4. Earliest(T) = {i}
  <2> HIDE DEF T
  <2> QED
    BY <1>1, <1>2, EarliestIs
<1>5. UNION {g.id : g \in FirstWith(c.grain, LAMBDA x : x.table = t)} = c.grain[i].id
  BY <1>3, <1>4
<1>6. fact_id(c, t) = OrElse(UNION {g.id : g \in FirstWith(c.grain, LAMBDA x : x.table = t)}, t)
  BY DEF fact_id
<1> QED
  BY <1>5, <1>6 DEF IdOf

\* The lists of the projection: one entry per entry of the contract.
LEMMA ProjectionLists ==
  ASSUME NEW c, IsContract(c)
  PROVE  LET p == project(c, Cube)
             N == Projected(c)
         IN /\ IsConfig(p) /\ IsConfig(N) /\ NormalOf(N, p) /\ IsLoaded(N) /\ N.files = {}
            /\ N.facts = [i \in DOMAIN c.grain |-> DerivedFact(Filled, project_fact(c.grain[i]))]
            /\ N.dimensions = [i \in DOMAIN c.dimensions |-> DerivedDimension(Filled, project_dimension(c.dimensions[i]), i)]
            /\ N.measures = [i \in DOMAIN c.measures |->
                               WithFormat(DerivedMeasure(Filled, p, project_measure(c, c.measures[i]), i))]
            /\ N.relationships = [i \in DOMAIN c.relationships |->
                                    DerivedRelationship(Filled, p, project_relationship(c, c.relationships[i]))]
            /\ N.time = project_time_intelligence(c)
<1> DEFINE p == project(c, Cube)
           N == Projected(c)
<1>1. /\ p.facts = [i \in DOMAIN c.grain |-> project_fact(c.grain[i])]
      /\ p.dimensions = [i \in DOMAIN c.dimensions |-> project_dimension(c.dimensions[i])]
      /\ p.measures = [i \in DOMAIN c.measures |-> project_measure(c, c.measures[i])]
      /\ p.relationships = [i \in DOMAIN c.relationships |-> project_relationship(c, c.relationships[i])]
      /\ p.time = project_time_intelligence(c) /\ p.files = {}
  BY DEF project, Each
<1>2. IsConfig(p)
  BY ProjectedConfig
<1> HIDE DEF p
<1>3. NormalOf(N, p)
  BY <1>2, NormalFields DEF Projected, p
<1> HIDE DEF N
<1>4. IsConfig(N) /\ IsLoaded(N)
  BY <1>2, <1>3, NormalConfig DEF IsLoaded
<1>5. N.time = p.time /\ N.files = p.files
  BY <1>2, <1>3, ConfigParts DEF NormalOf, DiffersIn, MainDerived
<1>6. /\ N.facts = [i \in DOMAIN c.grain |-> DerivedFact(Filled, project_fact(c.grain[i]))]
      /\ N.dimensions = [i \in DOMAIN c.dimensions |-> DerivedDimension(Filled, project_dimension(c.dimensions[i]), i)]
  BY <1>1, <1>3 DEF NormalOf
<1>7. N.measures = [i \in DOMAIN c.measures |-> WithFormat(DerivedMeasure(Filled, p, project_measure(c, c.measures[i]), i))]
  BY <1>1, <1>3 DEF NormalOf
<1>8. N.relationships = [i \in DOMAIN c.relationships |-> DerivedRelationship(Filled, p, project_relationship(c, c.relationships[i]))]
  BY <1>1, <1>3 DEF NormalOf
<1> QED
  BY <1>1, <1>2, <1>3, <1>4, <1>5, <1>6, <1>7, <1>8 DEF p, N

\* A fact table of the projection: the table, the id and the group of its grain.
FactTold(x, g) == x.id = IdOf(g) /\ x.table = g.table /\ x.group = OrElse(g.group, IdOf(g))

\* project_contract says it so.
LEMMA ProjectedFact ==
  ASSUME NEW c, Accepted(c), NEW i \in DOMAIN c.grain
  PROVE  FactTold(Projected(c).facts[i], c.grain[i])
<1> DEFINE g == c.grain[i]
           x == project_fact(g)
           n == DerivedFact(Filled, x)
<1>1. Projected(c).facts[i] = n
  <2>1. Projected(c).facts = [k \in DOMAIN c.grain |-> DerivedFact(Filled, project_fact(c.grain[k]))]
    BY ProjectionLists DEF Accepted
  <2> QED
    BY <2>1
<1>2. x.id = IdOf(g) /\ x.table = g.table /\ x.group = OrElse(g.group, "")
  BY DEF project_fact, IdOf
<1>3. IsItem("facts", x) /\ {"id", "table"} \subseteq DOMAIN x
  BY DEF IsItem, MustHave, DefaultsOf, FactDefaults, project_fact
<1> HIDE DEF x
<1>4. n.id = x.id /\ n.table = x.table /\ n.group = Filled(x.group, "", x.id)
  BY <1>3, FactFields DEF FactFilled, DiffersIn
<1>5. "" \notin g.group
  BY DEF Accepted, Valid, consistency, GrainsConsistent, ToSet
<1>6. x.group # "" <=> g.group # {}
  <2>1. g.group # {} => The(g.group) \in g.group
    BY DEF The
  <2> QED
    BY <1>2, <1>5, <2>1 DEF OrElse
<1>7. n.group = OrElse(g.group, IdOf(g))
  BY <1>2, <1>4, <1>6 DEF OrElse, Filled
<1> QED
  BY <1>1, <1>2, <1>4, <1>7 DEF FactTold

\* A dimension of the projection: its attribute, and no fact table of its own.
DimensionTold(x, d) ==
    /\ {"id", "date", "fact", "shared", "field"} \subseteq DOMAIN x
    /\ x.id = d.id /\ x.field = d.attribute /\ x.fact = {} /\ x.shared = FALSE /\ x.date = d.date

\* project_contract says it so.
LEMMA ProjectedDimension ==
  ASSUME NEW c, Accepted(c), NEW i \in DOMAIN c.dimensions
  PROVE  DimensionTold(Projected(c).dimensions[i], c.dimensions[i])
<1> DEFINE d == c.dimensions[i]
           x == project_dimension(d)
           n == DerivedDimension(Filled, x, i)
<1>1. Projected(c).dimensions[i] = n
  <2>1. Projected(c).dimensions = [k \in DOMAIN c.dimensions |-> DerivedDimension(Filled, project_dimension(c.dimensions[k]), k)]
    BY ProjectionLists DEF Accepted
  <2> QED
    BY <2>1
<1>2. DimensionTold(x, d)
  BY DEF project_dimension, DimensionTold
<1>3. IsItem("dimensions", x)
  BY DEF IsItem, MustHave, DefaultsOf, DimensionDefaults, project_dimension
<1> HIDE DEF x
<1>4. DimensionFilled(n, x, i)
  BY <1>3, DimensionFields
<1>5. d.attribute # ""
  BY DEF Accepted, Valid, consistency, DimensionsConsistent, ToSet
<1> HIDE DEF n
<1>6. n.field = x.field
  BY <1>2, <1>4, <1>5 DEF DimensionFilled, DimensionTold, Filled
<1> QED
  BY <1>1, <1>2, <1>4, <1>6 DEF DimensionFilled, DimensionTold, DiffersIn, DimensionDerived

\* With one grain per id, a fact table's group is that of its grain.
LEMMA ProjectedGroup ==
  ASSUME NEW c, Accepted(c), ServedApart(c), NEW i \in DOMAIN c.grain
  PROVE  GroupOf(project(c, Cube), IdOf(c.grain[i])) = OrElse(c.grain[i].group, IdOf(c.grain[i]))
<1> DEFINE p == project(c, Cube)
           g == c.grain[i]
           named == {k \in DOMAIN p.facts : p.facts[k].id = IdOf(g)}
           latest(S) == CHOOSE k \in S : \A j \in S : j <= k
<1>1. p.facts = [k \in DOMAIN c.grain |-> project_fact(c.grain[k])]
  BY DEF project, Each
<1>2. \A k \in DOMAIN c.grain : p.facts[k].id = IdOf(c.grain[k]) /\ p.facts[k].group = OrElse(c.grain[k].group, "")
  <2> SUFFICES ASSUME NEW k \in DOMAIN c.grain
               PROVE p.facts[k].id = IdOf(c.grain[k]) /\ p.facts[k].group = OrElse(c.grain[k].group, "")
    OBVIOUS
  <2>1. p.facts[k] = project_fact(c.grain[k])
    BY <1>1
  <2>2. ASSUME NEW y PROVE project_fact(y).id = IdOf(y) /\ project_fact(y).group = OrElse(y.group, "")
    BY DEF project_fact, IdOf
  <2> HIDE DEF p
  <2> QED
    BY <2>1, <2>2
<1>3. GroupOf(p, IdOf(g)) = IF named = {} THEN p.cube ELSE Filled(p.facts[latest(named)].group, "", p.facts[latest(named)].id)
  BY DEF GroupOf
<1>4. named = {i}
  <2>1. \A k \in DOMAIN c.grain : IdOf(c.grain[k]) = IdOf(g) => k = i
    BY FactIds DEF ServedApart
  <2> QED
    BY <1>1, <1>2, <2>1
<1>5. i \in Nat
  BY ContractLists DEF Accepted
<1>6. latest({i}) = i
  BY <1>5
<1> HIDE DEF latest, named, p
<1>7. GroupOf(p, IdOf(g)) = Filled(p.facts[i].group, "", p.facts[i].id)
  BY <1>3, <1>4, <1>6
<1>8. GroupOf(p, IdOf(g)) = Filled(OrElse(g.group, ""), "", IdOf(g))
  BY <1>2, <1>7
<1>9. OrElse(g.group, "") # "" <=> g.group # {}
  <2>1. "" \notin g.group
    BY DEF Accepted, Valid, consistency, GrainsConsistent, ToSet
  <2>2. g.group # {} => The(g.group) \in g.group
    BY DEF The
  <2> QED
    BY <2>1, <2>2 DEF OrElse
<1> QED
  BY <1>8, <1>9 DEF OrElse, Filled, p

\* A measure of the projection: the expression and the windows of the declared one, over
\* the fact table and in the group of its grain.
MeasureTold(x, m, g) ==
    /\ {"id", "fact", "window"} \subseteq DOMAIN x
    /\ x.id = m.id /\ x.expr = measure_sql(m) /\ x.fact = {IdOf(g)}
    /\ x.window = {[flag |-> w.flag, role |-> {w.dimension}] : w \in m.window}
    /\ x.group = OrElse(g.group, IdOf(g)) /\ x.format = Filled(m.format, "", default_format_string)

\* project_contract says it so.
LEMMA ProjectedMeasure ==
  ASSUME NEW c, Accepted(c), ServedApart(c), NEW j \in DOMAIN c.measures, NEW i \in DOMAIN c.grain,
         c.grain[i].table = c.measures[j].table
  PROVE  MeasureTold(Projected(c).measures[j], c.measures[j], c.grain[i])
<1> DEFINE p == project(c, Cube)
           m == c.measures[j]
           g == c.grain[i]
           x == project_measure(c, m)
           n == WithFormat(DerivedMeasure(Filled, p, x, j))
<1>1. Projected(c).measures[j] = n
  <2>1. Projected(c).measures = [k \in DOMAIN c.measures |->
                                   WithFormat(DerivedMeasure(Filled, p, project_measure(c, c.measures[k]), k))]
    BY ProjectionLists DEF Accepted
  <2> QED
    BY <2>1
<1>2. /\ x.id = m.id /\ x.expr = measure_sql(m) /\ x.format = m.format /\ x.group = ""
      /\ x.window = {[flag |-> w.flag, role |-> {w.dimension}] : w \in m.window}
      /\ x.fact = {fact_id(c, m.table)} /\ {"id", "expr", "fact", "window"} \subseteq DOMAIN x
  BY DEF project_measure
<1>3. x.fact = {IdOf(g)}
  BY <1>2, FactIds
<1>4. IsItem("measures", x)
  BY DEF IsItem, MustHave, DefaultsOf, MeasureDefaults, project_measure
<1> HIDE DEF x
<1>5. MeasureFilled(n, p, x, j)
  BY <1>4, MeasureFields
<1> HIDE DEF n
<1>6. n.fact = x.fact
  BY <1>3, <1>5 DEF MeasureFilled, Filled
<1>7. FactOf(p, x) = IdOf(g)
  BY <1>3 DEF FactOf
<1>8. n.group = OrElse(g.group, IdOf(g))
  <2>1. n.group = Filled(x.group, "", GroupOf(p, FactOf(p, x)))
    BY <1>5 DEF MeasureFilled
  <2>2. GroupOf(p, IdOf(g)) = OrElse(g.group, IdOf(g))
    BY ProjectedGroup
  <2> QED
    BY <1>2, <1>7, <2>1, <2>2 DEF Filled
<1>9. n.format = Filled(m.format, "", default_format_string)
  BY <1>2, <1>5 DEF MeasureFilled
<1>10. n.id = x.id /\ n.expr = x.expr /\ n.window = x.window /\ DOMAIN n = DOMAIN x
  BY <1>2, <1>5 DEF MeasureFilled, DiffersIn, MeasureDerived
<1> QED
  BY <1>1, <1>2, <1>3, <1>6, <1>8, <1>9, <1>10 DEF MeasureTold

\* A dimension of a contract is the only one with its id.
LEMMA NamedDimension ==
  ASSUME NEW c, Accepted(c), NEW r \in ToSet(c.relationships)
  PROVE  \E e \in DOMAIN c.dimensions : /\ The(Among(c.dimensions, r.dimension)) = c.dimensions[e]
                                        /\ c.dimensions[e].id = r.dimension
<1>1. r.dimension \in ValuesOf(c.dimensions, "id")
  BY DEF Accepted, Valid, consistency, RelationshipsConsistent
<1>2. PICK e \in DOMAIN c.dimensions : c.dimensions[e].id = r.dimension
  BY <1>1 DEF ValuesOf, ToSet
<1>3. Among(c.dimensions, r.dimension) = {c.dimensions[e]}
  BY <1>2 DEF Among, ToSet, Accepted, Valid, consistency, DimensionsConsistent, Distinct
<1> QED
  BY <1>2, <1>3, TheOne

\* A join of the projection: the declared columns of the fact table and of the dimension's.
RelationshipTold(x, c, r) ==
    LET d == The(Among(c.dimensions, r.dimension))
    IN /\ x.dimension = r.dimension /\ x.table = d.table
       /\ x.column = r.columns[1] /\ x.dimColumn = r.columns[2]
       /\ \A g \in ToSet(c.grain) : g.table = r.fact /\ g.table # "" => x.fact = IdOf(g)
LEMMA ProjectedRelationship ==
  ASSUME NEW c, Accepted(c), NEW i \in DOMAIN c.relationships
  PROVE  RelationshipTold(Projected(c).relationships[i], c, c.relationships[i])
<1> DEFINE p == project(c, Cube)
           r == c.relationships[i]
           d == The(Among(c.dimensions, r.dimension))
           x == project_relationship(c, r)
           n == DerivedRelationship(Filled, p, x)
<1>1. Projected(c).relationships[i] = n
  <2>1. Projected(c).relationships = [k \in DOMAIN c.relationships |->
                                        DerivedRelationship(Filled, p, project_relationship(c, c.relationships[k]))]
    BY ProjectionLists DEF Accepted
  <2> QED
    BY <2>1
<1>2. /\ x.fact = fact_id(c, r.fact) /\ x.dimension = r.dimension /\ x.table = d.table
      /\ x.column = r.columns[1] /\ x.dimColumn = r.columns[2]
      /\ x = [f \in DOMAIN x |-> x[f]] /\ DOMAIN x = {"fact", "dimension", "table", "column", "dimColumn"}
  BY DEF project_relationship
<1>3. n = [x EXCEPT !.fact = Filled(x.fact, "", DefaultFact(p))]
  BY DEF DerivedRelationship
<1> HIDE DEF x, n, d, p
<1>4. /\ n.fact = Filled(x.fact, "", DefaultFact(p)) /\ n.dimension = x.dimension /\ n.table = x.table
      /\ n.column = x.column /\ n.dimColumn = x.dimColumn
  BY <1>2, <1>3
<1>5. ASSUME NEW g \in ToSet(c.grain), g.table = r.fact, g.table # ""
      PROVE  n.fact = IdOf(g)
  <2>1. PICK k \in DOMAIN c.grain : g = c.grain[k]
    BY DEF ToSet
  <2>2. x.fact = IdOf(g)
    BY <1>2, <1>5, <2>1, FactIds
  <2>3. "" \notin g.id
    BY DEF Accepted, Valid, consistency, GrainsConsistent
  <2>4. g.id # {} => The(g.id) \in g.id
    BY DEF The
  <2>5. IdOf(g) # ""
    BY <1>5, <2>3, <2>4 DEF IdOf, OrElse
  <2> QED
    BY <1>4, <2>2, <2>5 DEF Filled
<1>6. RelationshipTold(n, c, r)
  BY <1>2, <1>4, <1>5 DEF RelationshipTold, d
<1> QED
  BY <1>1, <1>6

\* The calendar of the projection is on the table of every date dimension.
LEMMA ProjectedTime ==
  ASSUME NEW c, Accepted(c), NEW t \in Projected(c).time
  PROVE  /\ t = [f \in DOMAIN t |-> t[f]] /\ {"dimension", "key", "table"} \subseteq DOMAIN t
         /\ \A d \in ToSet(c.dimensions) : d.date => t.table = d.table
<1>1. Projected(c).time = project_time_intelligence(c)
  BY ProjectionLists DEF Accepted
<1>2. PICK e \in DateOf(c) : /\ t.table = e.table /\ t = [f \in DOMAIN t |-> t[f]]
                             /\ {"dimension", "key", "table"} \subseteq DOMAIN t
  <2>1. \E F : project_time_intelligence(c)
                  = {[dimension |-> d.id, key |-> d.key[1], fullDate |-> d.attribute, table |-> d.table, flags |-> F[d]]
                     : d \in DateOf(c)}
    <3> DEFINE column(d, name) == OrElse({l.column : l \in FirstWith(d.levels, LAMBDA l : l.name = name)}, "")
               flags(d) == [w \in {"year", "quarter", "month", "ytd", "qtd", "mtd", "prior_year_ytd", "current_year"} |->
                              IF w \in {"year", "quarter", "month"} THEN column(d, w)
                              ELSE LET u == The(c.time) IN IF w \in DOMAIN u.flags THEN u.flags[w] ELSE ""]
    <3>1. project_time_intelligence(c)
            = {[dimension |-> d.id, key |-> d.key[1], fullDate |-> d.attribute, table |-> d.table, flags |-> flags(d)]
               : d \in DateOf(c)}
      BY DEF project_time_intelligence
    <3> HIDE DEF flags
    <3> WITNESS [d \in DateOf(c) |-> flags(d)]
    <3> QED
      BY <3>1
  <2>2. PICK F : project_time_intelligence(c)
                  = {[dimension |-> d.id, key |-> d.key[1], fullDate |-> d.attribute, table |-> d.table, flags |-> F[d]]
                     : d \in DateOf(c)}
    BY <2>1
  <2>3. PICK e \in DateOf(c) :
          t = [dimension |-> e.id, key |-> e.key[1], fullDate |-> e.attribute, table |-> e.table, flags |-> F[e]]
    BY <1>1, <2>2
  <2> QED
    BY <2>3
<1>3. \A d \in ToSet(c.dimensions) : d.date => d.table = e.table
  BY DEF Accepted, projects, Expressible
<1> QED
  BY <1>2, <1>3

------------------------------------------------------------------------------
(* What a configuration that begins with the projection makes the engine do.  *)

\* A configuration that says what the projection says before it says anything else.
Begins(s, t) == \A i \in DOMAIN s : i \in DOMAIN t /\ t[i] = s[i]

\* Section files may add entries, but they come after those of the projection.
Declares(L, N) ==
    /\ L.cube = N.cube /\ L.facts = N.facts /\ L.time = N.time
    /\ \A list \in Section : Begins(N[list], L[list])

\* A configuration with which a server answers for contract c.
Serves(L, c) == Accepted(c) /\ IsConfig(L) /\ Declares(L, Projected(c))

\* The lists of such a configuration, as far as the contract goes.
LEMMA ServedLists ==
  ASSUME NEW c, NEW L, Serves(L, c)
  PROVE  /\ DOMAIN L.facts = DOMAIN c.grain /\ \A i \in DOMAIN c.grain : FactTold(L.facts[i], c.grain[i])
         /\ FactTables(L) = L.facts
         /\ \A i \in DOMAIN c.dimensions : i \in DOMAIN L.dimensions /\ DimensionTold(L.dimensions[i], c.dimensions[i])
         /\ \A i \in DOMAIN c.measures : i \in DOMAIN L.measures /\ L.measures[i] = Projected(c).measures[i]
         /\ \A i \in DOMAIN c.relationships :
               i \in DOMAIN L.relationships /\ RelationshipTold(L.relationships[i], c, c.relationships[i])
         /\ \A list \in {"dimensions", "measures", "relationships"} : Len(L[list]) \in Nat /\ DOMAIN L[list] = 1..Len(L[list])
<1> DEFINE N == Projected(c)
<1>1. /\ DOMAIN N.facts = DOMAIN c.grain /\ DOMAIN N.dimensions = DOMAIN c.dimensions
      /\ DOMAIN N.measures = DOMAIN c.measures /\ DOMAIN N.relationships = DOMAIN c.relationships
  <2>1. DOMAIN N.facts = DOMAIN c.grain /\ DOMAIN N.dimensions = DOMAIN c.dimensions
    BY ProjectionLists DEF Serves, Accepted
  <2>2. N.measures = [i \in DOMAIN c.measures |->
                        WithFormat(DerivedMeasure(Filled, project(c, Cube), project_measure(c, c.measures[i]), i))]
    BY ProjectionLists DEF Serves, Accepted
  <2>3. N.relationships = [i \in DOMAIN c.relationships |->
                             DerivedRelationship(Filled, project(c, Cube), project_relationship(c, c.relationships[i]))]
    BY ProjectionLists DEF Serves, Accepted
  <2> QED
    BY <2>1, <2>2, <2>3
<1> HIDE DEF N
<1>2. L.facts = N.facts /\ \A list \in Section : Begins(N[list], L[list])
  BY DEF Serves, Declares, N
<1>3. \A i \in DOMAIN c.grain : FactTold(L.facts[i], c.grain[i])
  BY <1>2, ProjectedFact DEF Serves, N
<1>4. FactTables(L) = L.facts
  <2>1. c.grain # <<>>
    BY DEF Serves, Accepted, Valid, consistency, GrainsConsistent
  <2>2. 1 \in DOMAIN c.grain
    BY <2>1, ListDomain DEF Serves, Accepted, IsContract
  <2>3. L.facts # <<>>
    BY <1>1, <1>2, <2>2
  <2> QED
    BY <2>3 DEF FactTables
<1>5. Begins(N.dimensions, L.dimensions) /\ Begins(N.measures, L.measures) /\ Begins(N.relationships, L.relationships)
  BY <1>2 DEF Section
<1>6. \A i \in DOMAIN c.dimensions : i \in DOMAIN L.dimensions /\ DimensionTold(L.dimensions[i], c.dimensions[i])
  <2> SUFFICES ASSUME NEW i \in DOMAIN c.dimensions
               PROVE i \in DOMAIN L.dimensions /\ DimensionTold(L.dimensions[i], c.dimensions[i])
    OBVIOUS
  <2>1. DimensionTold(N.dimensions[i], c.dimensions[i])
    BY ProjectedDimension DEF Serves, N
  <2> QED
    BY <1>1, <1>5, <2>1 DEF Begins
<1>7. \A i \in DOMAIN c.measures : i \in DOMAIN L.measures /\ L.measures[i] = N.measures[i]
  BY <1>1, <1>5 DEF Begins
<1>8. \A i \in DOMAIN c.relationships :
         i \in DOMAIN L.relationships /\ RelationshipTold(L.relationships[i], c, c.relationships[i])
  <2> SUFFICES ASSUME NEW i \in DOMAIN c.relationships
               PROVE i \in DOMAIN L.relationships /\ RelationshipTold(L.relationships[i], c, c.relationships[i])
    OBVIOUS
  <2>1. RelationshipTold(N.relationships[i], c, c.relationships[i])
    BY ProjectedRelationship DEF Serves, N
  <2> QED
    BY <1>1, <1>5, <2>1 DEF Begins
<1>9. \A list \in {"dimensions", "measures", "relationships"} : Len(L[list]) \in Nat /\ DOMAIN L[list] = 1..Len(L[list])
  BY ConfigParts, ListDomain DEF Serves, IsItems
<1> QED
  BY <1>1, <1>2, <1>3, <1>4, <1>6, <1>7, <1>8, <1>9 DEF N

\* A measure is over the table of a grain.
LEMMA MeasuresHaveGrains ==
  ASSUME NEW c, Accepted(c), NEW j \in DOMAIN c.measures
  PROVE  c.measures[j].table # "" /\ \E i \in DOMAIN c.grain : c.grain[i].table = c.measures[j].table
<1>1. c.measures[j] \in ToSet(c.measures)
  BY DEF ToSet
<1>2. c.measures[j].table # "" /\ c.measures[j].table \in ValuesOf(c.grain, "table")
  BY <1>1 DEF Accepted, Valid, consistency, MeasuresConsistent
<1> QED
  BY <1>2 DEF ValuesOf, ToSet

\* A field that is added hides no other.
LEMMA WithFields ==
  ASSUME NEW x, NEW field, NEW value, NEW f \in DOMAIN x, f # field
  PROVE  With(x, field, value)[f] = x[f] /\ With(x, field, value)[field] = value
BY DEF With

\* The first measure of that id is the declared one, and it is read from its grain's table.
LEMMA ServedMeasure ==
  ASSUME NEW c, NEW L, Serves(L, c), ServedApart(c), NEW j \in DOMAIN c.measures, NEW i \in DOMAIN c.grain,
         c.grain[i].table = c.measures[j].table
  PROVE  \E s : /\ FirstOf(build_semantic_model(L).measures, c.measures[j].id) = {s}
                /\ MeasureTold(s, c.measures[j], c.grain[i])
                /\ fact_table_for_measure(build_semantic_model(L), s) = L.facts[i]
<1> DEFINE model == build_semantic_model(L)
           m == c.measures[j]
           g == c.grain[i]
           place(x) == OrElse(Earliest({k \in DOMAIN L.facts : L.facts[k].id \in x.fact}), 1)
           s == With(L.measures[j], "index", place(L.measures[j]))
<1>1. /\ model.facts = L.facts
      /\ model.measures = [k \in DOMAIN L.measures |-> With(L.measures[k], "index", place(L.measures[k]))]
  BY ServedLists DEF build_semantic_model
<1> HIDE DEF model
<1>2. MeasureTold(L.measures[j], m, g)
  BY ServedLists, ProjectedMeasure DEF Serves
<1>3. MeasureTold(s, m, g) /\ s.index = place(L.measures[j])
  <2> HIDE DEF place
  <2>1. {"id", "fact", "window"} \subseteq DOMAIN s
    BY <1>2 DEF MeasureTold, With
  <2>2. \A f \in DOMAIN L.measures[j] : f # "index" => s[f] = L.measures[j][f]
    BY DEF With
  <2>3. s.index = place(L.measures[j])
    BY DEF With
  <2>4. {"expr", "group", "format"} \subseteq DOMAIN L.measures[j]
    <3>1. IsItem("measures", L.measures[j])
      BY ServedLists, ConfigParts DEF Serves, IsItems
    <3> QED
      BY <3>1 DEF IsItem, DefaultsOf, MeasureDefaults
  <2> HIDE DEF s
  <2> QED
    BY <1>2, <2>1, <2>2, <2>3, <2>4 DEF MeasureTold
<1>4. place(L.measures[j]) = i
  <2> DEFINE T == {k \in DOMAIN L.facts : L.facts[k].id \in L.measures[j].fact}
  <2>1. L.measures[j].fact = {IdOf(g)}
    BY <1>2 DEF MeasureTold
  <2>2. \A k \in DOMAIN c.grain : IdOf(c.grain[k]) = IdOf(g) => k = i
    BY FactIds DEF ServedApart, Serves
  <2>3. DOMAIN L.facts = DOMAIN c.grain /\ \A k \in DOMAIN c.grain : L.facts[k].id = IdOf(c.grain[k])
    BY ServedLists DEF FactTold
  <2>4. T = {i}
    BY <2>1, <2>2, <2>3
  <2>5. i \in Nat
    BY ContractLists DEF Serves, Accepted
  <2> HIDE DEF T
  <2>6. Earliest(T) = {i}
    BY <2>4, <2>5, EarliestIs
  <2> QED
    BY <2>6, TheOne DEF OrElse, T
<1>5. FirstOf(model.measures, m.id) = {s}
  <2>1. Len(L.measures) \in Nat /\ DOMAIN L.measures = 1..Len(L.measures) /\ j \in DOMAIN L.measures
    BY ServedLists
  <2>2. ASSUME NEW k \in DOMAIN L.measures, k < j
        PROVE  model.measures[k].id # m.id
    <3>1. k \in DOMAIN c.measures /\ k # j
      BY <2>1, <2>2, ContractLists DEF Serves, Accepted
    <3>2. c.measures[k].id # m.id
      BY <3>1 DEF Serves, Accepted, Valid, consistency, MeasuresConsistent, Distinct
    <3>3. PICK q \in DOMAIN c.grain : c.grain[q].table = c.measures[k].table
      BY <3>1, MeasuresHaveGrains DEF Serves
    <3>4. MeasureTold(Projected(c).measures[k], c.measures[k], c.grain[q])
      BY <3>1, <3>3, ProjectedMeasure DEF Serves
    <3>5. L.measures[k].id = c.measures[k].id /\ "id" \in DOMAIN L.measures[k]
      <4>1. L.measures[k] = Projected(c).measures[k]
        BY <3>1, ServedLists
      <4> QED
        BY <3>4, <4>1 DEF MeasureTold
    <3>6. model.measures[k].id = L.measures[k].id
      <4> HIDE DEF place
      <4>1. model.measures[k] = With(L.measures[k], "index", place(L.measures[k]))
        BY <1>1
      <4> QED
        BY <3>5, <4>1, WithFields
    <3> QED
      BY <3>2, <3>5, <3>6
  <2> DEFINE t == model.measures
             n == Len(L.measures)
  <2>3. DOMAIN t = 1..n /\ n \in Nat /\ j \in 1..n
    BY <1>1, <2>1
  <2>4. t[j] = s
    BY <1>1, <2>1
  <2>5. t[j].id = m.id
    BY <1>3, <2>4 DEF MeasureTold
  <2> HIDE DEF t, n, s
  <2>6. \A k \in 1..n : k < j => t[k].id # t[j].id
    BY <2>1, <2>2, <2>5 DEF t, n
  <2>7. FirstOf(t, t[j].id) = {t[j]}
    BY <2>3, <2>6, FoundById
  <2> QED
    BY <2>4, <2>5, <2>7 DEF t
<1>6. fact_table_for_measure(model, s) = L.facts[i]
  BY <1>1, <1>3, <1>4 DEF fact_table_for_measure
<1> HIDE DEF s
<1> QED
  BY <1>3, <1>5, <1>6 DEF model

\* The first dimension of that id is the declared one, on the calendar's table or on none.
LEMMA ServedDimension ==
  ASSUME NEW c, NEW L, Serves(L, c), NEW e \in DOMAIN c.dimensions
  PROVE  \E s : /\ FirstOf(build_semantic_model(L).dimensions, c.dimensions[e].id) = {s}
                /\ DimensionTold(s, c.dimensions[e])
                /\ s.own = IF c.dimensions[e].date THEN {t.table : t \in L.time} ELSE {}
<1> DEFINE model == build_semantic_model(L)
           d == c.dimensions[e]
           s == With(L.dimensions[e], "own", OwnTable(L, L.dimensions[e]))
<1>1. model.dimensions = [k \in DOMAIN L.dimensions |-> With(L.dimensions[k], "own", OwnTable(L, L.dimensions[k]))]
  BY DEF build_semantic_model
<1> HIDE DEF model
<1>2. DimensionTold(L.dimensions[e], d)
  BY ServedLists
<1>3. DimensionTold(s, d) /\ s.own = OwnTable(L, L.dimensions[e])
  <2>1. /\ {"id", "date", "fact", "shared", "field"} \subseteq DOMAIN s /\ s.own = OwnTable(L, L.dimensions[e])
        /\ \A f \in DOMAIN L.dimensions[e] : f # "own" => s[f] = L.dimensions[e][f]
    BY <1>2 DEF DimensionTold, With
  <2> HIDE DEF s
  <2> QED
    BY <1>2, <2>1 DEF DimensionTold
<1>4. OwnTable(L, L.dimensions[e]) = IF d.date THEN {t.table : t \in L.time} ELSE {}
  BY <1>2 DEF OwnTable, DimensionTold
<1>5. FirstOf(model.dimensions, d.id) = {s}
  <2>1. Len(L.dimensions) \in Nat /\ DOMAIN L.dimensions = 1..Len(L.dimensions) /\ e \in DOMAIN L.dimensions
    BY ServedLists
  <2>2. ASSUME NEW k \in DOMAIN L.dimensions, k < e
        PROVE  model.dimensions[k].id # d.id
    <3>1. k \in DOMAIN c.dimensions /\ k # e
      BY <2>1, <2>2, ContractLists DEF Serves, Accepted
    <3>2. c.dimensions[k].id # d.id
      BY <3>1 DEF Serves, Accepted, Valid, consistency, DimensionsConsistent, Distinct
    <3>3. DimensionTold(L.dimensions[k], c.dimensions[k])
      BY <3>1, ServedLists
    <3>4. model.dimensions[k].id = L.dimensions[k].id
      <4>1. model.dimensions[k] = With(L.dimensions[k], "own", OwnTable(L, L.dimensions[k]))
        BY <1>1
      <4>2. "id" \in DOMAIN L.dimensions[k]
        BY <3>3 DEF DimensionTold
      <4> QED
        BY <4>1, <4>2, WithFields
    <3> QED
      BY <3>2, <3>3, <3>4 DEF DimensionTold
  <2> DEFINE t == model.dimensions
             n == Len(L.dimensions)
  <2>3. DOMAIN t = 1..n /\ n \in Nat /\ e \in 1..n
    BY <1>1, <2>1
  <2>4. t[e] = s
    BY <1>1, <2>1
  <2>5. t[e].id = d.id
    BY <1>3, <2>4 DEF DimensionTold
  <2> HIDE DEF t, n, s
  <2>6. \A k \in 1..n : k < e => t[k].id # t[e].id
    BY <2>1, <2>2, <2>5 DEF t, n
  <2>7. FirstOf(t, t[e].id) = {t[e]}
    BY <2>3, <2>6, FoundById
  <2> QED
    BY <2>4, <2>5, <2>7 DEF t
<1> HIDE DEF s
<1> QED
  BY <1>3, <1>4, <1>5 DEF model

\* Whatever the fact table, a dimension is joined on the declared columns: those of one join
\* are those of every other, and the first is a declared one.
JoinTold(x, c, r) ==
    /\ x.dimension = r.dimension /\ x.table = The(Among(c.dimensions, r.dimension)).table
    /\ x.column = r.columns[1] /\ x.dimColumn = r.columns[2]
LEMMA JoinsAgree ==
  ASSUME NEW c, NEW L, Serves(L, c), NEW i \in DOMAIN c.relationships, NEW k \in DOMAIN c.relationships,
         c.relationships[k].dimension = c.relationships[i].dimension
  PROVE  JoinTold(L.relationships[k], c, c.relationships[i])
<1> DEFINE r == c.relationships[i]
           q == c.relationships[k]
<1>1. r \in ToSet(c.relationships) /\ q \in ToSet(c.relationships)
  BY DEF ToSet
<1>2. PICK e \in DOMAIN c.dimensions : c.dimensions[e].id = r.dimension
  BY <1>1, NamedDimension DEF Serves
<1>3. c.dimensions[e] \in ToSet(c.dimensions)
  BY DEF ToSet
<1>4. r \in Joins(c, c.dimensions[e]) /\ q \in Joins(c, c.dimensions[e])
  BY <1>1, <1>2 DEF Joins, Serves, Accepted, projects, Expressible
<1>5. r.columns = q.columns
  BY <1>3, <1>4 DEF Serves, Accepted, projects, Expressible
<1>6. RelationshipTold(L.relationships[k], c, q)
  BY ServedLists
<1> QED
  BY <1>5, <1>6 DEF RelationshipTold, JoinTold

LEMMA ServedJoin ==
  ASSUME NEW c, NEW L, Serves(L, c), NEW i \in DOMAIN c.relationships
  PROVE  \E x : /\ rel_for_dimension(L, c.relationships[i].dimension) = {x}
                /\ JoinTold(x, c, c.relationships[i])
<1> DEFINE r == c.relationships[i]
           T == {k \in DOMAIN L.relationships : L.relationships[k].dimension = r.dimension}
<1>1. rel_for_dimension(L, r.dimension) = {L.relationships[k] : k \in Earliest(T)}
  BY DEF rel_for_dimension, FirstWith
<1>2. Len(L.relationships) \in Nat /\ DOMAIN L.relationships = 1..Len(L.relationships)
  BY ServedLists
<1>3. i \in T
  <2>1. i \in DOMAIN L.relationships /\ RelationshipTold(L.relationships[i], c, r)
    BY ServedLists
  <2> QED
    BY <2>1 DEF RelationshipTold
<1>4. PICK k \in T : Earliest(T) = {k} /\ k \in DOMAIN c.relationships
  <2>1. T \in SUBSET (1..Len(L.relationships))
    BY <1>2
  <2>2. Len(c.relationships) \in Nat /\ DOMAIN c.relationships = 1..Len(c.relationships)
    BY ContractLists DEF Serves, Accepted
  <2> HIDE DEF T
  <2> QED
    BY <1>2, <1>3, <2>1, <2>2, EarliestWithin
<1>5. c.relationships[k].dimension = r.dimension
  <2>1. RelationshipTold(L.relationships[k], c, c.relationships[k])
    BY <1>4, ServedLists
  <2> QED
    BY <1>4, <2>1 DEF RelationshipTold
<1>6. JoinTold(L.relationships[k], c, r)
  BY <1>4, <1>5, JoinsAgree
<1>7. rel_for_dimension(L, r.dimension) = {L.relationships[k]}
  BY <1>1, <1>4
<1> QED
  BY <1>6, <1>7

\* And the first join of the measure's own fact table is a declared one too.
OwnOf(L, id, fact) == FirstWith(L.relationships, LAMBDA y : y.dimension = id /\ y.fact = fact)
LEMMA OwnJoin ==
  ASSUME NEW c, NEW L, Serves(L, c), NEW i \in DOMAIN c.relationships, NEW q \in DOMAIN c.grain,
         c.grain[q].table = c.relationships[i].fact, c.grain[q].table # ""
  PROVE  \E x : /\ OwnOf(L, c.relationships[i].dimension, IdOf(c.grain[q])) = {x}
                /\ JoinTold(x, c, c.relationships[i])
<1> DEFINE r == c.relationships[i]
           g == c.grain[q]
           T == {k \in DOMAIN L.relationships : L.relationships[k].dimension = r.dimension /\ L.relationships[k].fact = IdOf(g)}
<1>1. OwnOf(L, r.dimension, IdOf(g)) = {L.relationships[k] : k \in Earliest(T)}
  BY DEF OwnOf, FirstWith
<1>2. Len(L.relationships) \in Nat /\ DOMAIN L.relationships = 1..Len(L.relationships)
  BY ServedLists
<1>3. i \in T
  <2>1. g \in ToSet(c.grain)
    BY DEF ToSet
  <2>2. i \in DOMAIN L.relationships /\ RelationshipTold(L.relationships[i], c, r)
    BY ServedLists
  <2> QED
    BY <2>1, <2>2 DEF RelationshipTold
<1>4. PICK k \in T : Earliest(T) = {k} /\ k \in DOMAIN c.relationships
  <2>1. T \in SUBSET (1..Len(L.relationships))
    BY <1>2
  <2>2. Len(c.relationships) \in Nat /\ DOMAIN c.relationships = 1..Len(c.relationships)
    BY ContractLists DEF Serves, Accepted
  <2> HIDE DEF T
  <2> QED
    BY <1>2, <1>3, <2>1, <2>2, EarliestWithin
<1>5. c.relationships[k].dimension = r.dimension
  <2>1. RelationshipTold(L.relationships[k], c, c.relationships[k])
    BY <1>4, ServedLists
  <2> QED
    BY <1>4, <2>1 DEF RelationshipTold
<1>6. JoinTold(L.relationships[k], c, r)
  BY <1>4, <1>5, JoinsAgree
<1>7. OwnOf(L, r.dimension, IdOf(g)) = {L.relationships[k]}
  BY <1>1, <1>4
<1> QED
  BY <1>6, <1>7

\* Each measure is what the contract declares.
LEMMA MeasureIsServed ==
  ASSUME NEW c, NEW L, Serves(L, c), ServedApart(c), NEW j \in DOMAIN c.measures
  PROVE  /\ FirstOf(build_semantic_model(L).measures, c.measures[j].id) # {}
         /\ MeasureAsDeclared(c, build_semantic_model(L), c.measures[j])
<1> DEFINE model == build_semantic_model(L)
           m == c.measures[j]
<1>1. PICK i \in DOMAIN c.grain : c.grain[i].table = m.table
  BY MeasuresHaveGrains DEF Serves
<1>2. PICK s : /\ FirstOf(model.measures, m.id) = {s} /\ MeasureTold(s, m, c.grain[i])
               /\ fact_table_for_measure(model, s) = L.facts[i]
  <2>1. \E s : /\ FirstOf(model.measures, m.id) = {s} /\ MeasureTold(s, m, c.grain[i])
               /\ fact_table_for_measure(model, s) = L.facts[i]
    BY <1>1, ServedMeasure
  <2> HIDE DEF model
  <2> QED
    BY <2>1
<1> HIDE DEF model
<1>3. ASSUME NEW g \in ToSet(c.grain), g.table = m.table
      PROVE  g = c.grain[i]
  BY <1>1, <1>3 DEF ToSet, Serves, Accepted, Valid, consistency, GrainsConsistent, Distinct
<1>4. L.facts[i].table = c.grain[i].table
  BY ServedLists DEF FactTold
<1>5. s.expr = measure_sql(m) /\ s.format = Filled(m.format, "", default_format_string)
      /\ s.group = OrElse(c.grain[i].group, OrElse(c.grain[i].id, c.grain[i].table))
  BY <1>2 DEF MeasureTold, IdOf
<1>6. MeasureAsDeclared(c, model, m)
  BY <1>2, <1>3, <1>4, <1>5 DEF MeasureAsDeclared
<1> QED
  BY <1>2, <1>6 DEF model

\* Each dimension of a measure's fact table is joined as the contract declares.
LEMMA JoinIsServed ==
  ASSUME NEW c, NEW L, Serves(L, c), ServedApart(c), NEW j \in DOMAIN c.measures, NEW i \in DOMAIN c.relationships,
         c.relationships[i].fact = c.measures[j].table
  PROVE  JoinAsDeclared(c, build_semantic_model(L), c.measures[j], c.relationships[i])
<1> DEFINE model == build_semantic_model(L)
           m == c.measures[j]
           r == c.relationships[i]
           d == The(Among(c.dimensions, r.dimension))
<1>1. r \in ToSet(c.relationships)
  BY DEF ToSet
<1>2. PICK e \in DOMAIN c.dimensions : d = c.dimensions[e] /\ d.id = r.dimension
  BY <1>1, NamedDimension DEF Serves
<1> HIDE DEF d
<1>3. model.relationships = L.relationships
  BY DEF build_semantic_model
<1>4. PICK s : /\ FirstOf(model.dimensions, d.id) = {s} /\ DimensionTold(s, d)
               /\ s.own = IF d.date THEN {t.table : t \in L.time} ELSE {}
  BY <1>2, ServedDimension
<1> HIDE DEF model
<1>5. PICK x : rel_for_dimension(L, r.dimension) = {x} /\ JoinTold(x, c, r)
  BY ServedJoin
<1>6. rel_for_dimension(model, d.id) = {x}
  BY <1>2, <1>3, <1>5 DEF rel_for_dimension, FirstWith
<1>7. x.table = d.table /\ <<x.column, x.dimColumn>> = r.columns
  <2>1. r.columns = <<r.columns[1], r.columns[2]>>
    <3>1. IsList(r.columns) /\ Len(r.columns) = 2
      BY <1>1 DEF Serves, Accepted, IsContract, Valid, consistency, RelationshipsConsistent
    <3>2. r.columns \in Seq({r.columns[k] : k \in DOMAIN r.columns})
      BY <3>1 DEF IsList
    <3> QED
      BY <3>1, <3>2
  <2> QED
    BY <1>5, <2>1 DEF JoinTold, d
<1>8. \A t \in L.time : d.date => t.table = d.table
  <2>1. d \in ToSet(c.dimensions)
    BY <1>2 DEF ToSet
  <2>2. L.time = Projected(c).time
    BY DEF Serves, Declares
  <2> QED
    BY <2>1, <2>2, ProjectedTime DEF Serves
<1>9. ASSUME NEW v \in FirstOf(model.measures, m.id)
      PROVE  dim_is_compatible_with_measure(model, d.id, v)
  BY <1>4 DEF dim_is_compatible_with_measure, DimensionTold
<1>10. resolve_group_cols(model, d.id) = [joined |-> {[table |-> d.table, on |-> r.columns]}, column |-> d.attribute]
  <2>1. The(FirstOf(model.dimensions, d.id)).field = d.attribute
    BY <1>4, TheOne DEF DimensionTold
  <2>2. {[table |-> y.table, on |-> <<y.column, y.dimColumn>>] : y \in rel_for_dimension(model, d.id)}
          = {[table |-> d.table, on |-> r.columns]}
    BY <1>6, <1>7
  <2> QED
    BY <2>1, <2>2 DEF resolve_group_cols
<1>11. dim_table_for_discovery(model, d.id) = d.table
  <2>1. The(FirstOf(model.dimensions, d.id)) = s
    BY <1>4, TheOne
  <2>2. {y.table : y \in rel_for_dimension(model, d.id)} = {d.table}
    BY <1>6, <1>7
  <2>3. OrElse({d.table}, model.facts[1].table) = d.table
    BY TheOne DEF OrElse
  <2>4. s.own = {} \/ s.own = {d.table}
    BY <1>4, <1>8
  <2> QED
    BY <2>1, <2>2, <2>3, <2>4, TheOne DEF dim_table_for_discovery, OrElse
<1> QED
  BY <1>9, <1>10, <1>11 DEF JoinAsDeclared, d, model

\* A window is on the declared flag of the calendar, joined as the measure's own grain joins it.
LEMMA WindowIsServed ==
  ASSUME NEW c, NEW L, Serves(L, c), ServedApart(c), NEW j \in DOMAIN c.measures, NEW i \in DOMAIN c.relationships,
         c.relationships[i].fact = c.measures[j].table
  PROVE  WindowAsDeclared(c, build_semantic_model(L), c.measures[j], c.relationships[i])
<1> DEFINE model == build_semantic_model(L)
           m == c.measures[j]
           r == c.relationships[i]
           d == The(Among(c.dimensions, r.dimension))
<1>1. r \in ToSet(c.relationships) /\ m \in ToSet(c.measures)
  BY DEF ToSet
<1>2. PICK e \in DOMAIN c.dimensions : d = c.dimensions[e] /\ d.id = r.dimension
  BY <1>1, NamedDimension DEF Serves
<1> HIDE DEF d
<1> SUFFICES ASSUME NEW w \in m.window, w.dimension = d.id, NEW v \in FirstOf(model.measures, m.id)
             PROVE  Windowed(model, v) = {[column |-> r.columns[1], key |-> r.columns[2], table |-> d.table, flag |-> w.flag]}
  BY DEF WindowAsDeclared, d
<1>3. PICK q \in DOMAIN c.grain : c.grain[q].table = m.table
  BY MeasuresHaveGrains DEF Serves
<1>4. c.grain[q].table # ""
  BY <1>3, MeasuresHaveGrains DEF Serves
<1>5. MeasureTold(v, m, c.grain[q]) /\ fact_table_for_measure(model, v) = L.facts[q]
  <2>1. PICK s : /\ FirstOf(model.measures, m.id) = {s} /\ MeasureTold(s, m, c.grain[q])
                 /\ fact_table_for_measure(model, s) = L.facts[q]
    BY <1>3, ServedMeasure
  <2> HIDE DEF model
  <2> QED
    BY <2>1
<1>6. m.window = {w}
  BY <1>1 DEF Serves, Accepted, IsContract
<1>7. v.window = {[flag |-> w.flag, role |-> {d.id}]}
  BY <1>5, <1>6 DEF MeasureTold
<1>8. d.date
  <2>1. \E x \in Among(c.dimensions, w.dimension) : x.date
    BY <1>1 DEF Serves, Accepted, Valid, consistency, MeasuresConsistent, WindowOfMeasure
  <2>2. PICK k \in DOMAIN c.dimensions : c.dimensions[k].date /\ c.dimensions[k].id = d.id
    BY <2>1 DEF Among, ToSet
  <2>3. k = e
    BY <1>2, <2>2 DEF Serves, Accepted, Valid, consistency, DimensionsConsistent, Distinct
  <2> QED
    BY <1>2, <2>2, <2>3
<1>9. /\ model.relationships = L.relationships /\ model.facts = L.facts
      /\ model.dates = [id \in {x.id : x \in {y \in ToSet(L.dimensions) : y.date}} |-> DateRole(L, id)]
  BY ServedLists DEF build_semantic_model
<1> HIDE DEF model
<1>10. d.id \in DOMAIN model.dates /\ model.dates[d.id] = DateRole(L, d.id)
  <2>1. e \in DOMAIN L.dimensions /\ DimensionTold(L.dimensions[e], d)
    BY <1>2, ServedLists
  <2>2. L.dimensions[e] \in ToSet(L.dimensions) /\ L.dimensions[e].date /\ L.dimensions[e].id = d.id
    BY <1>8, <2>1 DEF DimensionTold, ToSet
  <2> QED
    BY <1>9, <2>2
<1>11. PICK x : rel_for_dimension(L, r.dimension) = {x} /\ JoinTold(x, c, r)
  BY ServedJoin
<1> DEFINE date == DateRole(L, d.id)
<1>12. date.dimension = d.id /\ date.table = d.table /\ date.key = r.columns[2]
  <2> DEFINE global == OrElse(L.time, Conventional)
  <2>1. global = [f \in DOMAIN global |-> global[f]] /\ {"dimension", "key", "table"} \subseteq DOMAIN global
    <3>1. CASE L.time = {}
      BY <3>1 DEF OrElse, Conventional
    <3>2. CASE L.time # {}
      <4>1. global \in L.time
        BY <3>2 DEF OrElse, The
      <4>2. L.time = Projected(c).time
        BY DEF Serves, Declares
      <4> HIDE DEF global
      <4> QED
        BY <4>1, <4>2, ProjectedTime DEF Serves
    <3> QED
      BY <3>1, <3>2
  <2>2. {y.table : y \in rel_for_dimension(L, d.id)} = {x.table} /\ {y.dimColumn : y \in rel_for_dimension(L, d.id)} = {x.dimColumn}
    BY <1>2, <1>11
  <2>3. date = [global EXCEPT !.dimension = d.id, !.table = OrElse({x.table}, @), !.key = OrElse({x.dimColumn}, @)]
    BY <2>2 DEF DateRole
  <2>4. \A y, z : OrElse({y}, z) = y
    BY TheOne DEF OrElse
  <2>5. x.table = d.table /\ x.dimColumn = r.columns[2]
    BY <1>11 DEF JoinTold, d
  <2> HIDE DEF date, global
  <2> QED
    BY <2>1, <2>3, <2>4, <2>5
<1> HIDE DEF date
<1>13. date_dim_for_measure(model, v) = {date}
  <2> DEFINE roles == UNION {y.role : y \in v.window}
             named == roles \intersect DOMAIN model.dates
  <2>1. roles = {d.id}
    BY <1>7
  <2>2. date_dim_for_measure(model, v) = IF named # {} THEN {model.dates[The(named)]} ELSE model.date
    BY DEF date_dim_for_measure
  <2> HIDE DEF roles
  <2>3. named = {d.id}
    BY <1>10, <2>1
  <2> HIDE DEF named
  <2> QED
    BY <1>10, <2>2, <2>3, TheOne DEF date
<1> DEFINE fact == fact_table_for_measure(model, v)
           factId == The({f.id : f \in FirstWith(model.facts, LAMBDA f : f.table = fact.table)})
           own(a) == FirstWith(model.relationships, LAMBDA y : y.dimension = a.dimension /\ y.fact = factId)
           column(a) == OrElse({y.column : y \in own(a)},
                               OrElse({y.column : y \in rel_for_dimension(model, a.dimension)}, a.key))
           calendar(a) == IF a.dimension \in DOMAIN model.dates THEN {model.dates[a.dimension]} ELSE model.date
<1>14. Windowed(model, v)
         = UNION {UNION {{[column |-> column(a), key |-> cal.key, table |-> cal.table, flag |-> y.flag] : cal \in calendar(a)}
                         : a \in date_dim_for_measure(model, v)} : y \in v.window}
  BY DEF Windowed
<1>15. factId = IdOf(c.grain[q])
  <2> DEFINE T == {k \in DOMAIN L.facts : L.facts[k].table = L.facts[q].table}
  <2>1. DOMAIN L.facts = DOMAIN c.grain /\ \A k \in DOMAIN c.grain : L.facts[k].table = c.grain[k].table
    BY ServedLists DEF FactTold
  <2>2. T = {q}
    BY <2>1 DEF Serves, Accepted, Valid, consistency, GrainsConsistent, Distinct
  <2>3. q \in Nat
    BY ContractLists DEF Serves, Accepted
  <2>4. FirstWith(model.facts, LAMBDA f : f.table = fact.table) = {L.facts[k] : k \in Earliest(T)}
    BY <1>5, <1>9 DEF FirstWith
  <2>5. L.facts[q].id = IdOf(c.grain[q])
    BY ServedLists DEF FactTold
  <2> HIDE DEF T, fact
  <2>6. Earliest(T) = {q}
    BY <2>2, <2>3, EarliestIs
  <2>7. {f.id : f \in FirstWith(model.facts, LAMBDA f : f.table = fact.table)} = {IdOf(c.grain[q])}
    BY <2>4, <2>5, <2>6
  <2> QED
    BY <2>7, TheOne
<1>16. calendar(date) = {date}
  BY <1>10, <1>12 DEF date
<1> HIDE DEF factId, calendar
<1>17. column(date) = r.columns[1]
  <2>1. c.grain[q].table = c.relationships[i].fact
    BY <1>3
  <2>2. PICK z : OwnOf(L, r.dimension, IdOf(c.grain[q])) = {z} /\ JoinTold(z, c, r)
    <3>1. \E z : OwnOf(L, c.relationships[i].dimension, IdOf(c.grain[q])) = {z} /\ JoinTold(z, c, c.relationships[i])
      BY <1>4, <2>1, OwnJoin, ZenonT(60)
    <3> QED
      BY <3>1
  <2>3. own(date) = {z}
    <3>1. model.relationships = L.relationships /\ date.dimension = r.dimension /\ factId = IdOf(c.grain[q])
      BY <1>2, <1>9, <1>12, <1>15
    <3>2. own(date) = OwnOf(L, r.dimension, IdOf(c.grain[q]))
      BY <3>1 DEF OwnOf, FirstWith
    <3> QED
      BY <2>2, <3>2
  <2>4. z.column = r.columns[1]
    BY <2>2 DEF JoinTold
  <2> HIDE DEF own
  <2> QED
    BY <2>3, <2>4, TheOne DEF OrElse
<1> HIDE DEF column
<1>18. Windowed(model, v) = {[column |-> column(date), key |-> date.key, table |-> date.table, flag |-> w.flag]}
  BY <1>7, <1>13, <1>14, <1>16
<1> QED
  BY <1>12, <1>17, <1>18

------------------------------------------------------------------------------
(* The projection stays the beginning of what the files mean, whatever is     *)
(* edited, formatted or cut short.                                            *)

\* Two configurations that derive the same default fact table and the same groups.
Agree(x, y) == DefaultFact(x) = DefaultFact(y) /\ \A f : GroupOf(x, f) = GroupOf(y, f)

\* The same fact tables and the same cube agree.
LEMMA SameFactsAgree ==
  ASSUME NEW x, NEW y, x.facts = y.facts, x.cube = y.cube
  PROVE  Agree(x, y)
BY DEF Agree, DefaultFact, GroupOf

\* A configuration agrees with what normalize makes of it.
LEMMA NormalAgrees ==
  ASSUME NEW b, NEW n, IsConfig(b), NormalOf(n, b)
  PROVE  Agree(n, b)
BY NormalConfig, ConfigParts, DefaultAgrees, GroupsAgree DEF Agree

\* Entries that are alike stay alike when what was left out is filled in.
LEMMA BeginsAlike ==
  ASSUME NEW x, NEW y, NEW n, NEW m, IsConfig(x), IsConfig(y), NormalOf(n, x), NormalOf(m, y), Agree(x, y),
         NEW list \in Section, NEW s, Begins(y[list], x[list]), Begins(s, m[list])
  PROVE  Begins(s, n[list])
<1> SUFFICES ASSUME NEW i \in DOMAIN s PROVE i \in DOMAIN n[list] /\ n[list][i] = s[i]
  BY DEF Begins
<1>1. i \in DOMAIN m[list] /\ m[list][i] = s[i]
  BY DEF Begins
<1>2. (i \in DOMAIN y[list] => i \in DOMAIN x[list] /\ x[list][i] = y[list][i])
  BY DEF Begins
<1>3. CASE list = "dimensions"
  <2>1. i \in DOMAIN y.dimensions /\ i \in DOMAIN x.dimensions /\ x.dimensions[i] = y.dimensions[i]
    BY <1>1, <1>2, <1>3 DEF NormalOf
  <2>2. /\ n.dimensions[i] = DerivedDimension(Filled, x.dimensions[i], i) /\ i \in DOMAIN n.dimensions
        /\ m.dimensions[i] = DerivedDimension(Filled, y.dimensions[i], i)
    BY <2>1 DEF NormalOf
  <2> QED
    BY <1>1, <1>3, <2>1, <2>2
<1>4. CASE list = "measures"
  <2>1. i \in DOMAIN y.measures /\ i \in DOMAIN x.measures /\ x.measures[i] = y.measures[i]
    BY <1>1, <1>2, <1>4 DEF NormalOf
  <2>2. FactOf(x, x.measures[i]) = FactOf(y, x.measures[i])
    BY DEF FactOf, Agree
  <2>3. DerivedMeasure(Filled, x, x.measures[i], i) = DerivedMeasure(Filled, y, x.measures[i], i)
    BY <2>2 DEF DerivedMeasure, Agree
  <2>4. /\ n.measures[i] = WithFormat(DerivedMeasure(Filled, x, x.measures[i], i)) /\ i \in DOMAIN n.measures
        /\ m.measures[i] = WithFormat(DerivedMeasure(Filled, y, y.measures[i], i))
    BY <2>1 DEF NormalOf
  <2> QED
    BY <1>1, <1>4, <2>1, <2>3, <2>4
<1>5. CASE list = "relationships"
  <2>1. i \in DOMAIN y.relationships /\ i \in DOMAIN x.relationships /\ x.relationships[i] = y.relationships[i]
    BY <1>1, <1>2, <1>5 DEF NormalOf
  <2>2. DerivedRelationship(Filled, x, x.relationships[i]) = DerivedRelationship(Filled, y, x.relationships[i])
    BY DEF DerivedRelationship, Agree
  <2>3. /\ n.relationships[i] = DerivedRelationship(Filled, x, x.relationships[i]) /\ i \in DOMAIN n.relationships
        /\ m.relationships[i] = DerivedRelationship(Filled, y, y.relationships[i])
    BY <2>1 DEF NormalOf
  <2> QED
    BY <1>1, <1>5, <2>1, <2>2, <2>3
<1>6. CASE list = "roles"
  <2>1. n.roles = x.roles /\ m.roles = y.roles
    BY ConfigParts DEF NormalOf, DiffersIn, MainDerived
  <2> QED
    BY <1>1, <1>2, <1>6, <2>1
<1> QED
  BY <1>3, <1>4, <1>5, <1>6 DEF Section

\* What is appended comes after what was there.
LEMMA BeginsJoined ==
  ASSUME NEW s, NEW t, IsList(s), IsList(t)
  PROVE  Begins(s, s \o t) /\ Begins(s, s)
<1> DEFINE S == {s[i] : i \in DOMAIN s} \union {t[i] : i \in DOMAIN t}
<1>1. s \in Seq(S) /\ t \in Seq(S)
  <2>1. s \in Seq({s[i] : i \in DOMAIN s}) /\ t \in Seq({t[i] : i \in DOMAIN t})
    BY DEF IsList
  <2> QED
    BY <2>1
<1> HIDE DEF S
<1>2. ASSUME NEW i \in DOMAIN s PROVE i \in DOMAIN (s \o t) /\ (s \o t)[i] = s[i]
  BY <1>1, <1>2
<1> QED
  BY <1>2 DEF Begins

\* What is filled in is not filled in again: normalize changes nothing that is normal.
LEMMA FilledTwice ==
  ASSUME NEW c, NEW n, NEW m, IsConfig(c), NormalOf(n, c), NormalOf(m, n)
  PROVE  m.facts = n.facts /\ \A list \in Section : Begins(n[list], m[list])
<1>1. /\ IsConfig(n) /\ Agree(n, c)
      /\ IsItems("dimensions", c.dimensions) /\ IsItems("measures", c.measures) /\ IsItems("facts", c.facts)
      /\ IsItems("relationships", c.relationships)
  BY NormalConfig, NormalAgrees, ConfigParts
<1>2. ASSUME NEW i \in DOMAIN n.facts PROVE m.facts[i] = n.facts[i]
  <2> DEFINE d == c.facts[i]
             x == n.facts[i]
             y == m.facts[i]
  <2>1. i \in DOMAIN c.facts /\ x = DerivedFact(Filled, d) /\ y = DerivedFact(Filled, x)
    BY <1>2 DEF NormalOf
  <2>2. IsItem("facts", d)
    BY <1>1, <2>1 DEF IsItems
  <2> HIDE DEF d, x, y
  <2>3. FactFilled(x, d) /\ IsItem("facts", x)
    BY <2>2, FactFields, ItemStays, <2>1 DEF FactFilled
  <2>4. FactFilled(y, x)
    BY <2>1, <2>3, FactFields
  <2>5. {"id", "table", "source", "group"} \subseteq DOMAIN d
    BY <2>2 DEF IsItem, MustHave, DefaultsOf, FactDefaults
  <2>6. x.id = d.id /\ x.table = d.table
    BY <2>3, <2>5 DEF FactFilled, DiffersIn
  <2>7. DiffersIn(y, x, {})
    BY <2>3, <2>4, <2>6 DEF FactFilled, DiffersIn, Filled
  <2> QED
    BY <2>3, <2>7 DEF DiffersIn, FactFilled, x, y
<1>3. m.facts = n.facts
  <2>1. m.facts = [i \in DOMAIN n.facts |-> m.facts[i]] /\ n.facts = [i \in DOMAIN n.facts |-> n.facts[i]]
    BY DEF NormalOf
  <2> QED
    BY <1>2, <2>1
<1>4. ASSUME NEW i \in DOMAIN n.dimensions PROVE i \in DOMAIN m.dimensions /\ m.dimensions[i] = n.dimensions[i]
  <2> DEFINE d == c.dimensions[i]
             x == n.dimensions[i]
             y == m.dimensions[i]
  <2>1. /\ i \in DOMAIN c.dimensions /\ i \in DOMAIN m.dimensions
        /\ x = DerivedDimension(Filled, d, i) /\ y = DerivedDimension(Filled, x, i)
    BY <1>4 DEF NormalOf
  <2>2. IsItem("dimensions", d)
    BY <1>1, <2>1 DEF IsItems
  <2> HIDE DEF d, x, y
  <2>3. DimensionFilled(x, d, i) /\ IsItem("dimensions", x)
    BY <2>2, DimensionFields, ItemStays, <2>1 DEF DimensionFilled
  <2>4. DimensionFilled(y, x, i)
    BY <2>1, <2>3, DimensionFields
  <2>5. {"id", "caption"} \subseteq DOMAIN d
    BY <2>2 DEF IsItem, MustHave
  <2>6. x.id = d.id /\ x.caption = d.caption
    BY <2>3, <2>5 DEF DimensionFilled, DiffersIn, DimensionDerived
  <2>7. y.hierarchy = x.hierarchy /\ y.all = x.all /\ y.leaf = x.leaf /\ y.field = x.field /\ y.ordinal = x.ordinal
    <3> USE <2>3, <2>4, <2>6 DEF DimensionFilled, Filled
    <3>1. y.hierarchy = x.hierarchy
      OBVIOUS
    <3>2. y.all = x.all
      OBVIOUS
    <3>3. y.leaf = x.leaf
      OBVIOUS
    <3>4. y.field = x.field
      OBVIOUS
    <3>5. y.ordinal = x.ordinal
      OBVIOUS
    <3> QED
      BY <3>1, <3>2, <3>3, <3>4, <3>5
  <2>8. DiffersIn(y, x, {})
    BY <2>3, <2>4, <2>7 DEF DimensionFilled, DiffersIn, DimensionDerived
  <2> QED
    BY <2>1, <2>3, <2>8 DEF DiffersIn, DimensionFilled, x, y
<1>5. ASSUME NEW i \in DOMAIN n.measures PROVE i \in DOMAIN m.measures /\ m.measures[i] = n.measures[i]
  <2> DEFINE d == c.measures[i]
             x == n.measures[i]
             y == m.measures[i]
  <2>1. /\ i \in DOMAIN c.measures /\ i \in DOMAIN m.measures
        /\ x = WithFormat(DerivedMeasure(Filled, c, d, i)) /\ y = WithFormat(DerivedMeasure(Filled, n, x, i))
    BY <1>5 DEF NormalOf
  <2>2. IsItem("measures", d)
    BY <1>1, <2>1 DEF IsItems
  <2> HIDE DEF d, x, y
  <2>3. MeasureFilled(x, c, d, i) /\ IsItem("measures", x)
    <3>1. MeasureFilled(x, c, d, i)
      BY <2>1, <2>2, MeasureFields
    <3> QED
      BY <2>2, <3>1, ItemStays DEF MeasureFilled
  <2>4. MeasureFilled(y, n, x, i)
    BY <2>1, <2>3, MeasureFields
  <2>5. "caption" \in DOMAIN d
    BY <2>2 DEF IsItem, MustHave
  <2>6. x.caption = d.caption
    BY <2>3, <2>5 DEF MeasureFilled, DiffersIn, MeasureDerived
  <2>7. x.fact # {}
    BY <2>3 DEF MeasureFilled, Filled
  <2>8. FactOf(n, x) = FactOf(c, d)
    <3> DEFINE v == DefaultFact(c)
    <3>1. /\ FactOf(n, x) = CHOOSE f \in x.fact : TRUE
          /\ FactOf(c, d) = IF d.fact = {} THEN v ELSE CHOOSE f \in d.fact : TRUE
      BY <2>7 DEF FactOf
    <3>2. x.fact = IF d.fact = {} THEN {v} ELSE d.fact
      BY <2>3 DEF MeasureFilled, Filled
    <3> HIDE DEF v
    <3>3. (CHOOSE f \in {v} : TRUE) = v
      OBVIOUS
    <3>4. CASE d.fact = {}
      BY <3>1, <3>2, <3>3, <3>4
    <3>5. CASE d.fact # {}
      <4>1. x.fact = d.fact
        BY <3>2, <3>5
      <4> QED
        BY <3>1, <3>5, <4>1
    <3> QED
      BY <3>4, <3>5
  <2>9. y.fact = x.fact
    BY <2>4, <2>7 DEF MeasureFilled, Filled
  <2>10. y.group = x.group
    <3>1. GroupOf(n, FactOf(n, x)) = GroupOf(c, FactOf(c, d))
      BY <1>1, <2>8 DEF Agree
    <3> QED
      BY <2>3, <2>4, <3>1 DEF MeasureFilled, Filled
  <2>11. y.display = x.display /\ y.ordinal = x.ordinal
    BY <2>3, <2>4, <2>6 DEF MeasureFilled, Filled
  <2>12. y.format = x.format
    BY <2>3, <2>4 DEF MeasureFilled, Filled
  <2>13. DiffersIn(y, x, {})
    BY <2>3, <2>4, <2>9, <2>10, <2>11, <2>12 DEF MeasureFilled, DiffersIn, MeasureDerived
  <2> QED
    BY <2>1, <2>3, <2>13 DEF DiffersIn, MeasureFilled, x, y
<1>6. ASSUME NEW i \in DOMAIN n.relationships PROVE i \in DOMAIN m.relationships /\ m.relationships[i] = n.relationships[i]
  <2> DEFINE d == c.relationships[i]
             x == DerivedRelationship(Filled, c, d)
             y == DerivedRelationship(Filled, n, x)
             v == DefaultFact(c)
  <2>1. i \in DOMAIN c.relationships /\ n.relationships[i] = x /\ m.relationships[i] = y /\ i \in DOMAIN m.relationships
    BY <1>6 DEF NormalOf
  <2>2. d = [f \in DOMAIN d |-> d[f]] /\ "fact" \in DOMAIN d
    BY <1>1, <2>1 DEF IsItems, IsItem, DefaultsOf, RelationshipDefaults
  <2>3. x = [d EXCEPT !.fact = Filled(d.fact, "", v)] /\ y = [x EXCEPT !.fact = Filled(x.fact, "", v)]
    BY <1>1 DEF DerivedRelationship, Agree
  <2> HIDE DEF d, x, y, v
  <2>4. x.fact = Filled(d.fact, "", v)
    BY <2>2, <2>3
  <2>5. Filled(x.fact, "", v) = x.fact
    BY <2>4 DEF Filled
  <2>6. y = x
    BY <2>2, <2>3, <2>5
  <2> QED
    BY <2>1, <2>6
<1>7. m.roles = n.roles
  BY <1>1, ConfigParts DEF NormalOf, DiffersIn, MainDerived
<1>8. ASSUME NEW list \in Section PROVE Begins(n[list], m[list])
  BY <1>4, <1>5, <1>6, <1>7, <1>8 DEF Begins, Section
<1> QED
  BY <1>3, <1>8

\* What is said of the files: they load as a configuration that begins with the projection,
\* and so does each list of the main file whose rest is in a file, unless all of it is.
Tells(files, N) ==
    Loads(files) =>
      /\ Declares(load(files), N)
      /\ \A s \in parse_str(files["main"]).files :
            parse_str(files["main"])[s] = <<>> \/ Begins(N[s], normalize(parse_str(files["main"]))[s])

\* The parts that are no lists are those of the main file.
LEMMA LoadedRest ==
  ASSUME NEW b, NEW n, IsConfig(b), NormalOf(n, b)
  PROVE  n.cube = b.cube /\ n.time = b.time /\ n.files = b.files
BY ConfigParts DEF NormalOf, DiffersIn, MainDerived

\* Files whose lists begin as they did mean what they meant, and more.
LEMMA StillDeclares ==
  ASSUME NEW old, NEW new, NEW N, Readable(old), Loads(old), Readable(new), Loads(new), Declares(load(old), N),
         Merged(new).facts = Merged(old).facts, Merged(new).cube = Merged(old).cube, Merged(new).time = Merged(old).time,
         \A list \in Section : Begins(Merged(old)[list], Merged(new)[list]) \/ Begins(N[list], load(new)[list])
  PROVE  Declares(load(new), N)
<1> DEFINE b == Merged(old)
           a == Merged(new)
           m == load(old)
           n == load(new)
<1>1. IsConfig(a) /\ IsConfig(b)
  BY MergedParts
<1>2. NormalOf(n, a) /\ NormalOf(m, b)
  BY <1>1, LoadIsMerged, NormalFields
<1>3. Agree(a, b)
  BY SameFactsAgree
<1> HIDE DEF a, b, m, n
<1>4. n.facts = m.facts
  BY <1>2 DEF NormalOf, a, b
<1>5. n.cube = m.cube /\ n.time = m.time
  BY <1>1, <1>2, LoadedRest DEF a, b
<1>6. ASSUME NEW list \in Section PROVE Begins(N[list], n[list])
  <2>1. Begins(N[list], m[list])
    BY DEF Declares, m
  <2>2. CASE Begins(b[list], a[list])
    BY <1>1, <1>2, <1>3, <2>1, <2>2, BeginsAlike
  <2> QED
    BY <2>2 DEF a, b, n
<1> QED
  BY <1>4, <1>5, <1>6 DEF Declares, m, n

\* The same for the lists of the main file that have a file.
LEMMA StillBegins ==
  ASSUME NEW x, NEW y, NEW N, IsConfig(x), IsConfig(y), x.facts = y.facts, x.cube = y.cube,
         NEW list \in Section, Begins(y[list], x[list]), Begins(N[list], normalize(y)[list])
  PROVE  Begins(N[list], normalize(x)[list])
<1>1. NormalOf(normalize(x), x) /\ NormalOf(normalize(y), y)
  BY NormalFields
<1>2. Agree(x, y)
  BY SameFactsAgree
<1> QED
  BY <1>1, <1>2, BeginsAlike

\* A section gets a file: what follows its inline entries are entries that were there.
LEMMA FileDeclared ==
  ASSUME NEW old, NEW new, NEW N, Readable(old), Loads(old), Readable(new), Tells(old, N), NEW s \in Section,
         s \notin parse_str(old["main"]).files,
         new = [f \in DOMAIN old \union {s} |->
                  IF f = "main" THEN serialize([parse_str(old["main"]) EXCEPT !.files = @ \union {s}])
                  ELSE IF f \in DOMAIN old THEN old[f] ELSE <<>>]
  PROVE  Tells(new, N)
<1> DEFINE M == parse_str(old["main"])
           K == [M EXCEPT !.files = @ \union {s}]
           b == Merged(old)
           a == Merged(new)
<1>1. /\ IsConfig(M) /\ M.files \subseteq Section /\ M.files \subseteq DOMAIN old /\ IsConfig(b)
      /\ b.files = M.files /\ b.facts = M.facts /\ b.cube = M.cube
  BY MergedParts
<1>2. b = [f \in DOMAIN M |-> IF f \in M.files THEN M[f] \o ListRead(f, old[f]) ELSE M[f]]
  BY DEF Merged
<1>3. "main" \in DOMAIN old /\ "main" \in DOMAIN new /\ s # "main"
  BY SectionNames DEF Loads, SectionsAreItems
<1>4. new["main"] = serialize(K)
  BY <1>3
<1> HIDE DEF M, a, b
<1>5. /\ K.files = M.files \union {s} /\ K = [f \in DOMAIN K |-> K[f]] /\ DOMAIN K = DOMAIN M
      /\ \A f \in DOMAIN M : f # "files" => K[f] = M[f]
  BY <1>1, ConfigParts DEF IsConfig
<1> HIDE DEF K
<1>6. /\ \A list \in Items : list \in DOMAIN M /\ list # "files" /\ IsItems(list, M[list])
      /\ {"facts", "cube", "time"} \subseteq DOMAIN M
  BY <1>1, ConfigParts, ItemNames DEF IsConfig
<1>7. IsConfig(K)
  BY <1>1, <1>5, <1>6 DEF IsConfig
<1>8. parse_str(new["main"]) = K
  BY <1>4, <1>7, ConfigReadBack
<1>9. a = [f \in DOMAIN M |-> IF f \in K.files THEN K[f] \o ListRead(f, new[f]) ELSE K[f]]
  <2> DEFINE P == parse_str(new["main"])
  <2>1. a = [f \in DOMAIN P |-> IF f \in P.files THEN P[f] \o ListRead(f, new[f]) ELSE P[f]]
    BY DEF Merged, a
  <2> HIDE DEF P
  <2>2. P = K
    BY <1>8 DEF P
  <2> QED
    BY <1>5, <2>1, <2>2
<1>10. Loads(new)
  BY <1>1, <1>3, <1>5, <1>8 DEF Loads
<1>11. IsConfig(a) /\ \A list \in K.files : IsItems(list, ListRead(list, new[list]))
  BY <1>8, <1>10, MergedParts DEF a
<1>12. a.facts = b.facts /\ a.cube = b.cube /\ a.time = b.time
  <2>1. \A f \in {"facts", "cube", "time"} : f \in DOMAIN M /\ f # "files" /\ f \notin Section
    BY <1>6 DEF Section
  <2> QED
    BY <1>1, <1>2, <1>5, <1>9, <2>1
<1>13. ASSUME NEW list \in Section PROVE Begins(b[list], a[list])
  <2>1. list \in DOMAIN M /\ list # "files" /\ IsList(M[list]) /\ K[list] = M[list] /\ list # "main"
    BY <1>5, <1>6, SectionNames DEF SectionsAreItems, IsItems
  <2>2. CASE list = s
    <3>1. a[list] = M[list] \o ListRead(list, new[list]) /\ b[list] = M[list]
      BY <1>2, <1>5, <1>9, <2>1, <2>2 DEF M
    <3>2. IsList(ListRead(list, new[list]))
      BY <1>5, <1>11, <2>2 DEF IsItems
    <3> QED
      BY <2>1, <3>1, <3>2, BeginsJoined
  <2>3. CASE list # s
    <3>1. list \in M.files => new[list] = old[list]
      BY <1>1, <2>1
    <3>2. a[list] = b[list]
      BY <1>2, <1>5, <1>9, <2>1, <2>3, <3>1
    <3>3. IsList(b[list])
      BY <1>1, SectionNames DEF IsConfig, IsItems, SectionsAreItems
    <3> QED
      BY <3>2, <3>3, BeginsJoined
  <2> QED
    BY <2>2, <2>3
<1>14. Declares(load(old), N)
  BY DEF Tells
<1>15. Declares(load(new), N)
  BY <1>10, <1>12, <1>13, <1>14, StillDeclares DEF a, b
<1>16. ASSUME NEW list \in K.files, K[list] # <<>> PROVE Begins(N[list], normalize(K)[list])
  <2>1. list \in Section /\ IsList(M[list]) /\ K[list] = M[list] /\ K.facts = M.facts /\ K.cube = M.cube
    BY <1>1, <1>5, <1>6, <1>16, SectionNames DEF SectionsAreItems, IsItems
  <2>2. CASE list \in M.files
    <3>1. Begins(N[list], normalize(M)[list])
      BY <1>16, <2>1, <2>2 DEF Tells, M
    <3>2. Begins(M[list], K[list])
      BY <2>1, BeginsJoined
    <3> QED
      BY <1>1, <1>7, <2>1, <3>1, <3>2, StillBegins
  <2>3. CASE list \notin M.files
    <3>1. Begins(N[list], normalize(b)[list])
      BY <1>14, <2>1, LoadIsMerged DEF Declares, b
    <3>2. b[list] = K[list]
      BY <1>2, <1>6, <2>1, <2>3, SectionNames DEF SectionsAreItems
    <3>3. Begins(b[list], K[list])
      BY <2>1, <3>2, BeginsJoined
    <3> QED
      BY <1>1, <1>7, <2>1, <3>1, <3>3, StillBegins
  <2> QED
    BY <2>2, <2>3
<1> QED
  BY <1>8, <1>15, <1>16 DEF Tells

\* mallard fmt writes a section file: its list is the one that was read, after whatever
\* of it is still in the main file.
LEMMA SectionWritten ==
  ASSUME NEW old, NEW new, NEW N, Readable(old), Loads(old), Readable(new), Tells(old, N), NEW s \in Section,
         NEW m, IsLoaded(m), Declares(m, N),
         new = [f \in DOMAIN old \union {s} |-> IF f = s THEN ListText(s, deminimize(m)[s]) ELSE old[f]]
  PROVE  Loads(new) /\ Tells(new, N)
<1> DEFINE M == parse_str(old["main"])
           D == deminimize(m)
           b == Merged(old)
           a == Merged(new)
<1>1. /\ IsConfig(M) /\ M.files \subseteq Section /\ M.files \subseteq DOMAIN old /\ IsConfig(b)
      /\ b.files = M.files /\ b.facts = M.facts /\ b.cube = M.cube
      /\ \A list \in M.files : IsItems(list, ListRead(list, old[list]))
  BY MergedParts
<1>2. b = [f \in DOMAIN M |-> IF f \in M.files THEN M[f] \o ListRead(f, old[f]) ELSE M[f]]
  BY DEF Merged
<1>3. "main" \in DOMAIN old /\ "main" \in DOMAIN new /\ s # "main"
  BY SectionNames DEF Loads, SectionsAreItems
<1>4. new["main"] = old["main"] /\ new[s] = ListText(s, D[s]) /\ \A f \in DOMAIN old : f # s => new[f] = old[f]
  BY <1>3
<1>5. IsConfig(D) /\ IsConfig(m) /\ normalize(D) = m /\ NormalOf(m, D)
  BY LoadedParts, NormalFields
<1>6. Loads(new)
  BY <1>1, <1>3, <1>4 DEF Loads
<1>7. a = [f \in DOMAIN M |-> IF f \in M.files THEN M[f] \o ListRead(f, new[f]) ELSE M[f]]
  BY <1>4 DEF Merged
<1>8. IsConfig(a) /\ \A list \in M.files : IsItems(list, ListRead(list, new[list]))
  BY <1>4, <1>6, MergedParts
<1> HIDE DEF M, D, a, b
<1>9. /\ \A list \in Items : list \in DOMAIN M /\ list # "files" /\ IsItems(list, M[list])
      /\ {"facts", "cube", "time"} \subseteq DOMAIN M
  BY <1>1, ConfigParts, ItemNames DEF IsConfig
<1>10. a.facts = M.facts /\ b.facts = M.facts /\ a.cube = M.cube /\ a.time = b.time
  <2>1. \A f \in {"facts", "cube", "time"} : f \in DOMAIN M /\ f \notin Section
    BY <1>9 DEF Section
  <2> QED
    BY <1>1, <1>2, <1>7, <2>1
<1>11. Declares(load(old), N)
  BY DEF Tells
<1>12. NormalOf(load(new), a) /\ NormalOf(load(old), b)
  BY <1>1, <1>8, LoadIsMerged, NormalFields DEF a, b
<1>13. ASSUME NEW list \in Section PROVE Begins(b[list], a[list]) \/ Begins(N[list], load(new)[list])
  <2>1. list \in DOMAIN M /\ IsList(M[list]) /\ IsItems(list, D[list]) /\ list # "main"
    BY <1>5, <1>9, SectionNames DEF SectionsAreItems, IsItems, IsConfig
  <2>2. CASE list # s \/ list \notin M.files
    <3>1. list \in M.files => new[list] = old[list]
      BY <1>1, <1>4, <2>2
    <3>2. a[list] = b[list]
      BY <1>2, <1>7, <2>1, <3>1
    <3>3. IsList(b[list])
      BY <1>1, SectionNames DEF IsConfig, IsItems, SectionsAreItems
    <3> QED
      BY <3>2, <3>3, BeginsJoined
  <2>3. CASE list = s /\ list \in M.files /\ M[list] = <<>>
    <3>1. ListRead(list, new[list]) = D[list]
      BY <1>4, <2>1, <2>3, ItemsReadBack, SectionNames DEF SectionsAreItems
    <3>2. a[list] = D[list] /\ IsList(D[list])
      BY <1>7, <2>1, <2>3, <3>1, JoinedToNothing DEF IsItems
    <3>3. Agree(a, D)
      <4>1. Agree(b, load(old)) /\ Agree(D, m)
        BY <1>1, <1>5, <1>12, NormalAgrees DEF Agree
      <4>2. Agree(load(old), m)
        BY <1>11, SameFactsAgree DEF Declares
      <4>3. Agree(a, b)
        BY <1>1, <1>10, SameFactsAgree
      <4> QED
        BY <4>1, <4>2, <4>3 DEF Agree
    <3>4. Begins(D[list], a[list]) /\ Begins(N[list], m[list])
      BY <3>2, BeginsJoined DEF Declares
    <3> QED
      BY <1>5, <1>8, <1>12, <3>3, <3>4, BeginsAlike
  <2>4. CASE list = s /\ list \in M.files /\ M[list] # <<>>
    <3>1. Begins(N[list], normalize(M)[list])
      BY <2>4 DEF Tells, M
    <3>2. a[list] = M[list] \o ListRead(list, new[list])
      BY <1>7, <2>1, <2>4
    <3>3. Begins(M[list], a[list])
      BY <1>8, <2>1, <2>4, <3>2, BeginsJoined DEF IsItems
    <3>4. Begins(N[list], normalize(a)[list])
      BY <1>1, <1>8, <1>10, <3>1, <3>3, StillBegins
    <3> QED
      BY <3>4, LoadIsMerged DEF a
  <2> QED
    BY <2>2, <2>3, <2>4
<1>14. Declares(load(new), N)
  BY <1>1, <1>6, <1>10, <1>11, <1>13, StillDeclares DEF a, b
<1> QED
  BY <1>4, <1>6, <1>14 DEF Tells

\* Every list begins with itself.
LEMMA BeginsItself == \A s : Begins(s, s)
BY DEF Begins

\* A configuration says what it says.
LEMMA DeclaresItself == \A N : Declares(N, N)
BY BeginsItself DEF Declares

\* A main file without section files means what is in it.
LEMMA OneFile ==
  ASSUME NEW files, NEW x, "main" \in DOMAIN files, parse_str(files["main"]) = x, IsConfig(x), x.files = {}
  PROVE  Loads(files) /\ Merged(files) = x
<1>1. Merged(files) = [f \in DOMAIN x |-> IF f \in x.files THEN x[f] \o ListRead(f, files[f]) ELSE x[f]]
  BY DEF Merged
<1>2. Merged(files) = [f \in DOMAIN x |-> x[f]]
  BY <1>1
<1>3. x = [f \in DOMAIN x |-> x[f]]
  BY DEF IsConfig
<1> QED
  BY <1>2, <1>3 DEF Loads

\* What was left out is written out.
LEMMA SpelledOut ==
  ASSUME NEW old, NEW new, NEW N, Readable(old), Loads(old), Tells(old, N), parse_str(old["main"]).files = {},
         "main" \in DOMAIN new, new["main"] = serialize(load(old))
  PROVE  Tells(new, N)
<1> DEFINE x == load(old)
<1>1. IsConfig(Merged(old)) /\ Merged(old).files = {}
  BY MergedParts
<1>2. NormalOf(x, Merged(old))
  BY <1>1, LoadIsMerged, NormalFields
<1> HIDE DEF x
<1>3. IsConfig(x) /\ x.files = {}
  BY <1>1, <1>2, NormalConfig, LoadedRest
<1>4. parse_str(new["main"]) = x
  BY <1>3, ConfigReadBack DEF x
<1>5. load(new) = normalize(x)
  BY <1>3, <1>4, OneFile, LoadIsMerged
<1>6. NormalOf(load(new), x)
  BY <1>3, <1>5, NormalFields
<1>7. load(new).facts = x.facts /\ \A list \in Section : Begins(x[list], load(new)[list])
  BY <1>1, <1>2, <1>6, FilledTwice
<1>8. load(new).cube = x.cube /\ load(new).time = x.time
  BY <1>3, <1>6, LoadedRest
<1>9. Declares(x, N)
  BY DEF Tells, x
<1>10. ASSUME NEW list \in Section PROVE Begins(N[list], load(new)[list])
  BY <1>7, <1>9 DEF Declares, Begins
<1> QED
  BY <1>3, <1>4, <1>7, <1>8, <1>9, <1>10 DEF Tells, Declares

\* Without some of the files the configuration does not load, or means what it meant.
LEMMA FilesLost ==
  ASSUME NEW old, NEW new, NEW N, NEW lost, Tells(old, N), new = [f \in DOMAIN old \ lost |-> old[f]]
  PROVE  Tells(new, N)
<1> SUFFICES ASSUME Loads(new) PROVE Loads(old) /\ load(new) = load(old) /\ new["main"] = old["main"]
  BY DEF Tells
<1> DEFINE M == parse_str(old["main"])
<1>1. "main" \in DOMAIN new /\ new["main"] = old["main"]
  BY DEF Loads
<1>2. M.files \subseteq DOMAIN new
  BY <1>1 DEF Loads
<1>3. Loads(old)
  BY <1>1, <1>2 DEF Loads
<1>4. Merged(new) = [f \in DOMAIN M |-> IF f \in M.files THEN M[f] \o ListRead(f, new[f]) ELSE M[f]]
  BY <1>1 DEF Merged
<1>5. Merged(old) = [f \in DOMAIN M |-> IF f \in M.files THEN M[f] \o ListRead(f, old[f]) ELSE M[f]]
  BY DEF Merged
<1> HIDE DEF M
<1>6. \A f \in M.files : new[f] = old[f]
  BY <1>2
<1>7. Merged(new) = Merged(old)
  BY <1>4, <1>5, <1>6
<1> QED
  BY <1>1, <1>3, <1>7, LoadIsMerged

\* The projection is written, whatever other files are still there.
LEMMA ProjectionWritten ==
  ASSUME NEW c, IsContract(c), NEW files, "main" \in DOMAIN files, files["main"] = canonical_text(project(c, Cube))
  PROVE  Tells(files, Projected(c))
<1> DEFINE N == Projected(c)
           D == deminimize(N)
<1>1. IsLoaded(N) /\ N.files = {}
  BY ProjectionLists
<1>2. files["main"] = serialize(D)
  BY DEF canonical_text, Projected
<1> HIDE DEF N
<1>3. IsConfig(D) /\ D.files = {} /\ normalize(D) = N
  BY <1>1, LoadedParts
<1> HIDE DEF D
<1>4. parse_str(files["main"]) = D
  BY <1>2, <1>3, ConfigReadBack
<1>5. load(files) = N
  BY <1>3, <1>4, OneFile, LoadIsMerged
<1> QED
  BY <1>3, <1>4, <1>5, DeclaresItself DEF Tells, N

\* The last file is written: all of them are the canonical ones.
LEMMA MainWritten ==
  ASSUME NEW m, IsLoaded(m), NEW N, Declares(m, N), NEW files, FilesOf(m) \subseteq DOMAIN files,
         \A f \in FilesOf(m) : files[f] = canonical_texts(m)[f]
  PROVE  Tells(files, N)
<1> DEFINE D == deminimize(m)
           K == MovedOut(D)
<1>1. load(files) = m
  BY CanonicalLoads
<1>2. IsConfig(D) /\ D.files = m.files
  BY LoadedParts
<1>3. canonical_texts(m) = [f \in FilesOf(D) |-> IF f = "main" THEN serialize(K) ELSE ListText(f, D[f])]
  BY CanonicalTexts
<1> HIDE DEF D
<1>4. IsConfig(K) /\ K.files = D.files
  BY <1>2, MovedOutConfig
<1>5. \A f \in D.files : f \in DOMAIN D
  BY <1>2, ConfigParts, SectionNames, ItemNames DEF IsConfig, SectionsAreItems
<1>6. \A f \in K.files : K[f] = <<>>
  BY <1>4, <1>5 DEF MovedOut
<1> HIDE DEF K
<1>7. files["main"] = serialize(K)
  BY <1>2, <1>3 DEF FilesOf
<1>8. parse_str(files["main"]) = K
  BY <1>4, <1>7, ConfigReadBack
<1> QED
  BY <1>1, <1>6, <1>8 DEF Tells

------------------------------------------------------------------------------
(* The way into service, with the contract in mind.                           *)

\* What the contract declares is in everything that came of it: in the files, in what mallard
\* fmt read, and in what a server was started with.
ContractTold(c) ==
    /\ "main" \in DOMAIN disk => Accepted(c) /\ Tells(disk, Projected(c))
    /\ \A m \in meaning : Declares(m, Projected(c))
    /\ \A model \in served : \E L : Serves(L, c) /\ model = build_semantic_model(L)

\* There is at most one contract, nothing is written before it is accepted, and the main file,
\* which says what the other files add to, is pending as long as anything is.
DeclaredSoFar ==
    /\ \A c, d \in contract : c = d
    /\ contract = {} => "main" \notin DOMAIN disk /\ meaning = {} /\ served = {}
    /\ pending # {} => Loads(disk) /\ "main" \in pending
    /\ \A c \in contract : ContractTold(c)

\* Nothing is written at first.
LEMMA DeclaredInit == DeploymentInit => DeclaredSoFar
<1> SUFFICES ASSUME DeploymentInit PROVE DeclaredSoFar
  OBVIOUS
<1>1. DOMAIN disk = {} /\ meaning = {} /\ pending = {} /\ served = {} /\ \A c, d \in contract : c = d
  BY DEF DeploymentInit, NoFiles
<1> QED
  BY <1>1 DEF DeclaredSoFar, ContractTold

\* Files that say the same still do when a step leaves contract and server alone.
LEMMA StillTold ==
  ASSUME DeclaredSoFar, UNCHANGED <<contract, served>>, contract # {}, "main" \in DOMAIN disk,
         pending' # {} => Loads(disk)' /\ "main" \in pending',
         \A c \in contract : Tells(disk, Projected(c)) => Tells(disk', Projected(c)),
         \A c \in contract : \A m \in meaning' : Declares(m, Projected(c))
  PROVE  DeclaredSoFar'
BY DEF DeclaredSoFar, ContractTold

\* A step of mallard fmt writes what was read.
LEMMA DeclaredWhileFormatting ==
  ASSUME DeploymentInv, DeploymentInv', DeclaredSoFar, FormatWrites
  PROVE  DeclaredSoFar'
<1> DEFINE m == The(meaning)
           f == NextFile(pending)
<1>1. pending # {} /\ meaning # {}
  BY DEF FormatWrites, AtRest, DeploymentInv, FormatProgress
<1>2. m \in meaning
  BY <1>1 DEF The
<1>3. /\ disk' = Put(f, canonical_texts(m)[f]) /\ pending' = pending \ {f}
      /\ UNCHANGED <<upstream, contract, meaning, served>>
  BY DEF FormatWrites
<1> HIDE DEF m
<1>4. /\ IsLoaded(m) /\ meaning = {m} /\ pending \subseteq FilesOf(m)
      /\ \A g \in FilesOf(m) \ pending : g \in DOMAIN disk /\ disk[g] = canonical_texts(m)[g]
  BY <1>2 DEF DeploymentInv, FormatProgress
<1>5. FilesOf(m) \subseteq Section \union {"main"}
  BY <1>4, LoadedParts DEF FilesOf, IsConfig
<1>6. f \in pending
  BY <1>1, <1>4, <1>5, NextIsPending
<1>7. Loads(disk) /\ "main" \in pending /\ contract # {} /\ "main" \in DOMAIN disk
  BY <1>1 DEF DeclaredSoFar, Loads
<1>8. \A c \in contract : Declares(m, Projected(c))
  BY <1>2 DEF DeclaredSoFar, ContractTold
<1>9. Readable(disk) /\ Readable(disk')
  BY DEF DeploymentInv, DiskReadable
<1>10. CASE f = "main"
  <2>1. pending = {"main"}
    BY <1>1, <1>4, <1>5, <1>10, NextIsPending
  <2>2. FilesOf(m) \subseteq DOMAIN disk' /\ \A g \in FilesOf(m) : disk'[g] = canonical_texts(m)[g]
    BY <1>3, <1>4, <1>10, <2>1 DEF Put
  <2>3. \A c \in contract : Tells(disk', Projected(c))
    BY <1>4, <1>8, <2>2, MainWritten
  <2>4. pending' = {}
    BY <1>3, <1>10, <2>1
  <2> QED
    BY <1>3, <1>4, <1>7, <1>8, <2>3, <2>4, StillTold
<1>11. CASE f # "main"
  <2>1. f \in Section
    BY <1>4, <1>5, <1>6, <1>11
  <2>2. canonical_texts(m)[f] = ListText(f, deminimize(m)[f])
    <3>1. deminimize(m).files = m.files
      BY <1>4, LoadedParts
    <3>2. FilesOf(deminimize(m)) = FilesOf(m)
      BY <3>1 DEF FilesOf
    <3>3. f \in FilesOf(deminimize(m))
      BY <1>4, <1>6, <3>2
    <3> QED
      BY <1>11, <3>3, CanonicalTexts
  <2> HIDE DEF f
  <2>3. disk' = [g \in DOMAIN disk \union {f} |-> IF g = f THEN ListText(f, deminimize(m)[f]) ELSE disk[g]]
    BY <1>3, <2>2 DEF Put
  <2>4. ASSUME NEW c \in contract PROVE Loads(disk') /\ Tells(disk', Projected(c))
    <3>1. Tells(disk, Projected(c))
      BY <1>7 DEF DeclaredSoFar, ContractTold
    <3> QED
      BY <1>4, <1>7, <1>8, <1>9, <2>1, <2>3, <3>1, SectionWritten
  <2>5. Loads(disk)' /\ "main" \in pending'
    BY <1>3, <1>7, <1>11, <2>4
  <2> QED
    BY <1>3, <1>4, <1>7, <1>8, <2>4, <2>5, StillTold
<1> QED
  BY <1>10, <1>11

\* Every step keeps what the contract declares.
LEMMA DeclaredStep ==
  ASSUME DeploymentInv, DeploymentInv', DeclaredSoFar, [DeploymentNext]_deploymentVars
  PROVE  DeclaredSoFar'
<1>1. CASE GenerateContract
  <2>1. contract = {} /\ contract' # {} /\ UNCHANGED <<disk, pending, meaning, served>>
    BY <1>1 DEF GenerateContract
  <2>2. \A c, d \in contract' : c = d
    <3>1. PICK u \in upstream : contract' = generate(u.project, u.overlay)
      BY <1>1 DEF GenerateContract
    <3> QED
      BY <3>1 DEF generate
  <2> QED
    BY <2>1, <2>2 DEF DeclaredSoFar, ContractTold
<1>2. CASE ProjectContract
  <2>1. PICK c \in contract : /\ Valid(c) /\ projects(c)
                              /\ disk' = Put("main", canonical_text(project(c, Cube)))
    BY <1>2 DEF ProjectContract
  <2>2. pending = {} /\ meaning' = {} /\ UNCHANGED <<contract, pending, served>>
    BY <1>2 DEF ProjectContract, AtRest
  <2>3. IsContract(c)
    BY DEF DeploymentInv, ContractsAreLists
  <2>4. Accepted(c)
    BY <2>1, <2>3 DEF Accepted
  <2>5. "main" \in DOMAIN disk' /\ disk'["main"] = canonical_text(project(c, Cube))
    BY <2>1 DEF Put
  <2>6. Tells(disk', Projected(c))
    BY <2>3, <2>5, ProjectionWritten
  <2>7. \A d \in contract : d = c
    BY DEF DeclaredSoFar
  <2> QED
    BY <2>2, <2>4, <2>6, <2>7 DEF DeclaredSoFar, ContractTold
<1>3. CASE \E section \in Splittable : DeclareFile(section)
  <2>1. PICK s \in Splittable : DeclareFile(s)
    BY <1>3
  <2>2. /\ pending = {} /\ Loads(disk) /\ s \notin parse_str(disk["main"]).files /\ meaning' = {}
        /\ UNCHANGED <<contract, pending, served>>
        /\ disk' = [f \in DOMAIN disk \union {s} |->
                     IF f = "main" THEN serialize([parse_str(disk["main"]) EXCEPT !.files = @ \union {s}])
                     ELSE IF f \in DOMAIN disk THEN disk[f] ELSE <<>>]
    BY <2>1 DEF DeclareFile, AtRest
  <2>3. s \in Section
    BY SplittableAssumption
  <2>4. "main" \in DOMAIN disk /\ contract # {}
    BY <2>2 DEF Loads, DeclaredSoFar
  <2>5. Readable(disk) /\ Readable(disk')
    BY DEF DeploymentInv, DiskReadable
  <2>6. \A c \in contract : Tells(disk, Projected(c)) => Tells(disk', Projected(c))
    BY <2>2, <2>3, <2>5, FileDeclared
  <2> QED
    BY <2>2, <2>4, <2>6, StillTold
<1>4. CASE SpellOut
  <2>1. /\ pending = {} /\ Loads(disk) /\ parse_str(disk["main"]).files = {} /\ meaning' = {}
        /\ UNCHANGED <<contract, pending, served>>
        /\ disk' = [disk EXCEPT !["main"] = serialize(load(disk))]
    BY <1>4 DEF SpellOut, AtRest
  <2>2. "main" \in DOMAIN disk /\ contract # {}
    BY <2>1 DEF Loads, DeclaredSoFar
  <2>3. "main" \in DOMAIN disk' /\ disk'["main"] = serialize(load(disk))
    BY <2>1, <2>2
  <2>4. Readable(disk)
    BY DEF DeploymentInv, DiskReadable
  <2>5. \A c \in contract : Tells(disk, Projected(c)) => Tells(disk', Projected(c))
    BY <2>1, <2>3, <2>4, SpelledOut
  <2> QED
    BY <2>1, <2>2, <2>5, StillTold
<1>5. CASE FormatReads
  <2>1. /\ Loads(disk) /\ meaning' = {load(disk)} /\ pending' = FilesOf(load(disk))
        /\ UNCHANGED <<contract, disk, served>>
    BY <1>5 DEF FormatReads
  <2>2. "main" \in DOMAIN disk /\ contract # {}
    BY <2>1 DEF Loads, DeclaredSoFar
  <2>3. \A c \in contract : Declares(load(disk), Projected(c))
    BY <2>1, <2>2 DEF DeclaredSoFar, ContractTold, Tells
  <2>4. Loads(disk)' /\ "main" \in pending'
    BY <2>1 DEF FilesOf
  <2> QED
    BY <2>1, <2>2, <2>3, <2>4, StillTold
<1>6. CASE FormatWrites
  BY <1>6, DeclaredWhileFormatting
<1>7. CASE \E cutShort \in BOOLEAN : FormatFails(cutShort)
  <2>1. PICK cutShort \in BOOLEAN : FormatFails(cutShort)
    BY <1>7
  <2>2. /\ pending # {} /\ pending' = {} /\ meaning' = {} /\ UNCHANGED <<contract, served>>
        /\ \E lost : disk' = [f \in DOMAIN disk \ lost |-> disk[f]]
    BY <2>1 DEF FormatFails, AtRest
  <2>3. "main" \in DOMAIN disk /\ contract # {}
    BY <2>2 DEF Loads, DeclaredSoFar
  <2>4. \A c \in contract : Tells(disk, Projected(c)) => Tells(disk', Projected(c))
    BY <2>2, FilesLost
  <2> QED
    BY <2>2, <2>3, <2>4, StillTold
<1>8. CASE Serve
  <2>1. Loads(disk) /\ served' = {build_semantic_model(load(disk))} /\ UNCHANGED <<contract, disk, pending, meaning>>
    BY <1>8 DEF Serve
  <2>2. "main" \in DOMAIN disk /\ contract # {}
    BY <2>1 DEF Loads, DeclaredSoFar
  <2>3. IsConfig(load(disk))
    BY <2>1, LoadsLoaded, LoadedParts DEF DeploymentInv, DiskReadable
  <2>4. ASSUME NEW c \in contract PROVE Serves(load(disk), c)
    BY <2>1, <2>2, <2>3 DEF DeclaredSoFar, ContractTold, Tells, Serves
  <2>5. ASSUME NEW c \in contract PROVE \A model \in served' : \E L : Serves(L, c) /\ model = build_semantic_model(L)
    BY <2>1, <2>4
  <2> QED
    BY <2>1, <2>2, <2>5 DEF DeclaredSoFar, ContractTold
<1>9. CASE UNCHANGED deploymentVars
  BY <1>9 DEF deploymentVars, DeclaredSoFar, ContractTold
<1> QED
  BY <1>1, <1>2, <1>3, <1>4, <1>5, <1>6, <1>7, <1>8, <1>9 DEF DeploymentNext

\* What is served is what the contract declares: every measure from its grain's table, by its
\* expression and in its group, every dimension joined on the declared columns, every window
\* by the declared flag, whatever was edited, formatted or cut short before the server started.
THEOREM ServedIsDeclared == DeploymentSpec => []ServedAsDeclared
<1>1. DeclaredSoFar => ServedAsDeclared
  <2> SUFFICES ASSUME DeclaredSoFar, NEW c \in contract, NEW model \in served, ServedApart(c), NEW m \in ToSet(c.measures)
               PROVE  /\ FirstOf(model.measures, m.id) # {} /\ MeasureAsDeclared(c, model, m)
                      /\ \A r \in {x \in ToSet(c.relationships) : x.fact = m.table} :
                            JoinAsDeclared(c, model, m, r) /\ WindowAsDeclared(c, model, m, r)
    BY DEF ServedAsDeclared
  <2>1. PICK L : Serves(L, c) /\ model = build_semantic_model(L)
    BY DEF DeclaredSoFar, ContractTold
  <2>2. PICK j \in DOMAIN c.measures : m = c.measures[j]
    BY DEF ToSet
  <2>3. FirstOf(model.measures, m.id) # {} /\ MeasureAsDeclared(c, model, m)
    BY <2>1, <2>2, MeasureIsServed
  <2>4. ASSUME NEW r \in {x \in ToSet(c.relationships) : x.fact = m.table}
        PROVE  JoinAsDeclared(c, model, m, r) /\ WindowAsDeclared(c, model, m, r)
    <3>1. PICK i \in DOMAIN c.relationships : r = c.relationships[i]
      BY DEF ToSet
    <3> QED
      BY <2>1, <2>2, <2>4, <3>1, JoinIsServed, WindowIsServed
  <2> QED
    BY <2>3, <2>4
<1> QED
  BY <1>1, DeploymentInvInit, StepKeeps, DeclaredInit, DeclaredStep, PTL DEF DeploymentSpec
==============================================================================
