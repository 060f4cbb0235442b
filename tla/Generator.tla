------------------------------ MODULE Generator ------------------------------
(* A contract generated from a SQLMesh project and a hand-written overlay       *)
(* (tools/contract_generate.rs).  The files are taken as parsed: a model is     *)
(* [name, grain, unique, columns, audits], its name <<schema, table>>, a metric  *)
(* an expression of one of the shapes classify tells apart.  What is ambiguous  *)
(* is refused; findings are reduced to whether there is one.                    *)
EXTENDS Contracts

TableOf(name) == Last(name)
ModelNames(p) == ValuesOf(p.models, "name")
ModelNamed(p, name) == CHOOSE m \in ToSet(p.models) : m.name = name
DeclaresColumn(m, column) == m.columns = {} \/ column \in m.columns

\* The declared grain, or the unique_combination_of_columns audit; <<>> is none.
grain_or_audit(m) == IF m.grain # <<>> THEN m.grain ELSE m.unique

Served(p, o, m) == m.name \notin o.exclude
\* The relationships audits of the models that are not excluded.
References(p, o) ==
    LET of(m) == [i \in DOMAIN m.audits |-> [fact |-> m.name] @@ m.audits[i]]
    IN FlattenSeq([i \in DOMAIN p.models |-> IF Served(p, o, p.models[i]) THEN of(p.models[i]) ELSE <<>>])
Complete(r) == {"column", "model", "reference"} \subseteq DOMAIN r
DimensionModels(p, o) == ValuesOf(References(p, o), "model")

\* What is checked before anything is built: no name that is unknown, nothing twice.
OverlayIsSound(p, o) ==
    /\ ValuesOf(o.grain, "model") \union ValuesOf(o.dimensions, "model") \union o.exclude \subseteq ModelNames(p)
    /\ Distinct(o.measures, "metric") /\ Distinct(o.grain, "model")
    /\ ValuesOf(o.measures, "metric") \subseteq ValuesOf(p.metrics, "name")
    /\ \A m \in ToSet(o.measures) : m.aggregation = {} <=> m.source = {}
ReferencesAreSound(p, o) ==
    /\ References(p, o) # <<>>
    /\ \A r \in ToSet(References(p, o)) :
          /\ Complete(r) /\ r.model \in ModelNames(p) \ o.exclude
          /\ DeclaresColumn(ModelNamed(p, r.fact), r.column)
    /\ DimensionModels(p, o) \subseteq ValuesOf(o.dimensions, "model")
    /\ ValuesOf(o.grain, "model") \intersect DimensionModels(p, o) = {}

------------------------------------------------------------------------------
ReferencesTo(p, o, model) == SelectSeq(References(p, o), LAMBDA r : r.model = model)

\* The join key comes from the relationships, which have to agree on both
\* columns; a dimension's columns must be declared.
DimensionIsSound(p, o, d) ==
    LET refs == ReferencesTo(p, o, d.model)
    IN /\ refs # <<>>
       /\ \A r \in ToSet(refs) : r.column = refs[1].column /\ r.reference = refs[1].reference
       /\ {d.attribute, refs[1].reference} \union ValuesOf(d.levels, "column") \subseteq ModelNamed(p, d.model).columns
build_dimension(p, o, d) ==
    [id |-> d.id, table |-> TableOf(d.model), key |-> <<ReferencesTo(p, o, d.model)[1].reference>>,
     attribute |-> d.attribute, hierarchy |-> d.hierarchy, date |-> d.date, caption |-> Filled(d.caption, "", d.id),
     ordinal |-> d.ordinal, visible |-> d.visible, levels |-> d.levels]

\* Facts: the models that are neither referenced nor excluded.
FactModels(p, o) == SelectSeq(p.models, LAMBDA m : Served(p, o, m) /\ m.name \notin DimensionModels(p, o))
OverlayGrain(o, m) == {g \in ToSet(o.grain) : g.model = m.name}
OverlayKey(o, m) == UNION {g.key : g \in OverlayGrain(o, m)}
GrainKey(o, m) == IF grain_or_audit(m) # <<>> THEN grain_or_audit(m) ELSE OrElse(OverlayKey(o, m), <<>>)
GrainIsSound(o, m) ==
    /\ grain_or_audit(m) # <<>> \/ OverlayKey(o, m) # {}
    /\ grain_or_audit(m) # <<>> => OverlayKey(o, m) \subseteq {grain_or_audit(m)}
    /\ \A column \in ToSet(GrainKey(o, m)) : DeclaresColumn(m, column)
build_grain(o, m) ==
    [table |-> TableOf(m.name), key |-> GrainKey(o, m),
     id |-> UNION {g.id : g \in OverlayGrain(o, m)}, group |-> UNION {g.group : g \in OverlayGrain(o, m)}]

\* Mutant: the audit is looked up by the model it refers to, whatever the fact.
build_relationships_of_any(p, o) ==
    LET one(f, d) ==
            << [fact |-> TableOf(f.name), dimension |-> d.id, active |-> TRUE,
                columns |-> <<ReferencesTo(p, o, d.model)[1].column, ReferencesTo(p, o, d.model)[1].reference>>] >>
        of(f) == FlattenSeq([i \in DOMAIN o.dimensions |-> one(f, o.dimensions[i])])
    IN FlattenSeq([i \in DOMAIN FactModels(p, o) |-> of(FactModels(p, o)[i])])

\* Fact-major, the dimensions in overlay order.
build_relationships(p, o) ==
    LET between(f, d) == SelectSeq(ReferencesTo(p, o, d.model), LAMBDA r : r.fact = f.name)
        one(f, d) ==
            IF between(f, d) = <<>> THEN <<>>
            ELSE << [fact |-> TableOf(f.name), dimension |-> d.id, active |-> TRUE,
                     columns |-> <<between(f, d)[1].column, between(f, d)[1].reference>>] >>
        of(f) == FlattenSeq([i \in DOMAIN o.dimensions |-> one(f, o.dimensions[i])])
    IN FlattenSeq([i \in DOMAIN FactModels(p, o) |-> of(FactModels(p, o)[i])])

------------------------------------------------------------------------------
(* Measures.                                                                   *)

\* An aggregate of one column, or a ratio of sums over one model that is known.
classify(p, e) ==
    CASE e.shape = "aggregate" -> {[aggregation |-> e.f, model |-> e.model, column |-> {e.column}]}
      [] e.shape = "ratio" /\ Cardinality(e.models \intersect ModelNames(p)) = 1 ->
           {[aggregation |-> "ratio", model |-> The(e.models \intersect ModelNames(p)), column |-> {}]}
      [] OTHER -> {}   \* an aggregate of *, which names no model, a ratio over several, anything else

\* The full name, or a bare table name that only one model carries.
resolve_source(p, name) ==
    LET bare == {m \in ModelNames(p) : <<TableOf(m)>> = name}
    IN IF name \in ModelNames(p) THEN {name} ELSE IF Cardinality(bare) = 1 THEN bare ELSE {}

EntryOf(o, metric) == {e \in ToSet(o.measures) : e.metric = metric.name}
DeclaredByOverlay(o, metric) == \E e \in EntryOf(o, metric) : e.aggregation # {} /\ e.source # {}
\* [aggregation, model, column, reference] of a metric: the overlay's, or by its shape.
SourceOf(p, o, metric) ==
    IF DeclaredByOverlay(o, metric)
    THEN LET e == The(EntryOf(o, metric))
             s == The(e.source)
         IN {[aggregation |-> The(e.aggregation), model |-> m, column |-> s.column, reference |-> s.reference]
             : m \in resolve_source(p, s.table)}
    ELSE {c @@ [reference |-> {}] : c \in {x \in classify(p, metric.expression) : x.model \in ModelNames(p)}}
MeasureIsSound(p, o, metric) ==
    /\ SourceOf(p, o, metric) # {}
    /\ \A s \in SourceOf(p, o, metric), column \in UNION {x.column : x \in SourceOf(p, o, metric)} :
          DeclaresColumn(ModelNamed(p, s.model), column)

build_measure(p, o, metric) ==
    LET s == The(SourceOf(p, o, metric))
        own(field) == UNION {e[field] : e \in EntryOf(o, metric)}
        id == OrElse(own("id"), metric.name)
        whole == {build_grain(o, f).key : f \in {x \in ToSet(FactModels(p, o)) : TableOf(x.name) = TableOf(s.model)}}
        ratio == IF s.aggregation = "ratio" THEN {metric.expression.text} ELSE {}
        declared == DeclaredByOverlay(o, metric)
    IN [id |-> id, caption |-> OrElse(own("caption"), id), format |-> OrElse(own("format"), ""), ordinal |-> own("ordinal"),
        visible |-> \A e \in EntryOf(o, metric) : e.visible,
        table |-> TableOf(s.model), column |-> s.column, reference |-> s.reference, aggregation |-> s.aggregation,
        expression |-> IF declared THEN own("expression") ELSE ratio,
        window |-> own("window"),
        validGrain |-> IF declared \/ own("validGrain") # {} \/ s.aggregation \notin {"min", "max"} \/ whole = {}
                       THEN own("validGrain") ELSE {The(whole)}]

------------------------------------------------------------------------------
builds(p, o) ==
    /\ OverlayIsSound(p, o) /\ ReferencesAreSound(p, o)
    /\ \A d \in ToSet(o.dimensions) : DimensionIsSound(p, o, d)
    /\ \A m \in ToSet(FactModels(p, o)) : GrainIsSound(o, m)
    /\ \A metric \in ToSet(p.metrics) : MeasureIsSound(p, o, metric)
build(p, o) ==
    [name |-> o.name, generator |-> "mallard-contract", version |-> <<0, 1, 0>>, roles |-> o.roles,
     grain |-> Each(LAMBDA m : build_grain(o, m), FactModels(p, o)),
     dimensions |-> Each(LAMBDA d : build_dimension(p, o, d), o.dimensions),
     relationships |-> build_relationships(p, o),
     measures |-> Each(LAMBDA metric : build_measure(p, o, metric), p.metrics),
     time |-> o.time]

\* generate: what was built has to pass the gate of a hand-written contract.
generate(p, o) == IF builds(p, o) THEN {c \in {build(p, o)} : Valid(c)} ELSE {}
=============================================================================
