-------------------------------- MODULE Answers --------------------------------
(* Serving a statement (execute/runtime.rs): refuse it, plan it, take its rows *)
(* from the result cache or from the engine, let the engine evaluate the (All) *)
(* members, and render. One request after another over a cache that keeps what *)
(* it is given, within one data epoch.                                        *)
EXTENDS Cellset

CONSTANTS Question,     \* the statements
          MaxAnswers    \* bound: how many are asked

VARIABLES
    stage,              \* of the request being served
    asker, question,    \* whose and what it is
    result,             \* the rows
    totals,             \* drilldown_all_values: the engine's value of (All), by measure
    dimensionValues,    \* dimension_values: its value of each member of each axis dimension
    cellset,            \* what was answered
    kept,               \* the result cache: rows by plan key and user
    asked

answerVars == <<stage, asker, question, result, totals, dimensionValues, cellset, kept, asked>>

\* What a statement asks about its rows: the filters it has, the drill's own, and those
\* of its tuples; each names a member.
ConditionsOf(q) ==
    AllFilters(q) \union UNION {KnownCells(q)[i].filters : i \in DOMAIN KnownCells(q)}
IsCondition(f) ==
    /\ f = [dim |-> f.dim, level |-> f.level, form |-> f.form, members |-> f.members]
    /\ f.form \in {"members", "range"} /\ f.members # {}
ASSUME QuestionAssumption == \A q \in Question : \A f \in ConditionsOf(SemanticQuery(q)) : IsCondition(f)
\* No dimension has two filters of one member each, as a slicer and a drill on it would be
\* (PlainColumn).
ASSUME SingleParentAssumption ==
    \A q \in Question : \A d \in Dimension : Cardinality(SingleParent(d, AllFilters(SemanticQuery(q)))) <= 1
\* Text with a comma has something on either side of it, if only the empty label.
ASSUME ListsAssumption == \A x \in DOMAIN Lists : Lists[x] # {}

Nothing == [form |-> "none"]
CacheKey(q, u) == <<PlanKey(PlanFor(q, u)), u>>

\* unknown_measure_fault, plan_hidden_dimension: what is refused before anything is read.
UnknownMeasure(q) == References(q) \ Measure # {}
Refused(q, u) == UnknownMeasure(q) \/ PlanHiddenDimension(PlanFor(q, u), u)

Ask(u, q) ==
    /\ stage \in {"idle", "refused", "fault", "answered"} /\ asked < MaxAnswers
    /\ asked' = asked + 1 /\ asker' = u /\ question' = SemanticQuery(q)
    /\ stage' = IF Refused(q, u) THEN "refused" ELSE "planned"
    /\ result' = Nothing /\ totals' = <<>> /\ dimensionValues' = {}
    /\ cellset' = Unreachable
    /\ UNCHANGED kept

\* Rows of a failed query are not kept.
Take(key, rows) ==
    \/ /\ key \in DOMAIN kept
       /\ result' = kept[key] /\ stage' = "fetched"
       /\ UNCHANGED kept
    \/ /\ key \notin DOMAIN kept /\ rows.form = "failed"
       /\ stage' = "fault"
       /\ UNCHANGED <<result, kept>>
    \/ /\ key \notin DOMAIN kept /\ rows.form # "failed"
       /\ result' = rows /\ stage' = "fetched"
       /\ kept' = [k \in DOMAIN kept \union {key} |-> IF k = key THEN rows ELSE kept[k]]
Fetch ==
    /\ stage = "planned"
    /\ Take(CacheKey(question, asker), Execute(PlanFor(question, asker), asker))
    /\ UNCHANGED <<asker, question, totals, dimensionValues, cellset, asked>>

------------------------------------------------------------------------------
\* The measures an (All) is asked for: those selected, else the one the renderer shows.
InjectedMeasures(q) ==
    IF SelectedMeasures(q) # <<>> THEN ToSet(Measures(q)) ELSE {MeasureForQuery(q)}
\* Mutant: the drill's own filter constrains (All).
AllValuesOfDrilled(q, u) ==
    [m \in InjectedMeasures(q) |-> ScalarOf(m, FiltersWithTimeFlag(m, AllFilters(q)), u)]

\* The drill's own filter does not constrain the input set.
DrilldownAllValues(q, u) ==
    [m \in InjectedMeasures(q) |-> ScalarOf(m, FiltersWithTimeFlag(m, SlicerFilters(q)), u)]
\* Each axis measure by each axis dimension, at the grain of the dimension's key.
DimensionValues(q, u) ==
    LET byDimension(d, m) ==
            LET rows == GroupRows(m, <<d>>, <<0>>, FiltersWithTimeFlag(m, AllFilters(q)), u)
            IN {[dim |-> d, label |-> row.keys[1], measure |-> m, value |-> row.values[1]] :
                  row \in ToSet(rows)}
    IN UNION {byDimension(d, m) : d \in ToSet(AxisDims(q)), m \in InjectedMeasures(q)}

CrossTabShaped(q) == Len(AxisDims(q)) >= 2
Injects(q, u) ==
    /\ PlanFor(q, u) # Empty /\ q.setOp = NoSetOp
    /\ Drills(q) \/ CrossTabShaped(q)
    /\ ~(q.drag /\ ~CrossTabShaped(q))
Inject ==
    /\ stage = "fetched"
    /\ totals' = IF Injects(question, asker) THEN DrilldownAllValues(question, asker) ELSE <<>>
    /\ dimensionValues' = IF Injects(question, asker) /\ CrossTabShaped(question)
                          THEN DimensionValues(question, asker) ELSE {}
    /\ stage' = "evaluated"
    /\ UNCHANGED <<asker, question, result, cellset, kept, asked>>

Render ==
    /\ stage = "evaluated"
    /\ cellset' = Dispatch(question, result, totals, dimensionValues)
    /\ stage' = "answered"
    /\ UNCHANGED <<asker, question, result, totals, dimensionValues, kept, asked>>

AnswersInit ==
    /\ stage = "idle"
    /\ asker = (CHOOSE u \in Reader : TRUE) /\ question = SemanticQuery(CHOOSE q \in Question : TRUE)
    /\ result = Nothing /\ totals = <<>> /\ dimensionValues = {}
    /\ cellset = Unreachable /\ kept = <<>> /\ asked = 0
AnswersNext ==
    \/ \E u \in Reader, q \in Question : Ask(u, q)
    \/ Fetch \/ Inject \/ Render
AnswersSpec == AnswersInit /\ [][AnswersNext]_answerVars
=============================================================================
