---------------------------- MODULE Configuration ----------------------------
(* The proxy's configuration (project/config.rs, project/config_io.rs): what   *)
(* may be omitted and what an omission means, the text of a configuration in a *)
(* main file and section files, and its canonical form (mallard fmt).          *)
(*                                                                             *)
(* An omitted string is "", an omitted number 0, an option a set of at most    *)
(* one value.  A text is what is written: a record of the fields that are not  *)
(* left out.  Catalog, dialect and database path are not in the model.         *)
EXTENDS Integers, Sequences, FiniteSets, TLC, Once

Section == {"dimensions", "measures", "relationships", "roles"}

\* What a field has when the text leaves it out; a field that has it is left out.
DimensionDefaults ==
    [field |-> "", hierarchy |-> "", all |-> "", leaf |-> "", ordinal |-> 0, visible |-> TRUE,
     fact |-> {}, shared |-> FALSE, date |-> FALSE, levels |-> <<>>]
default_format_string == "#,##0.00"
MeasureDefaults ==
    [expr |-> {}, display |-> "", format |-> default_format_string, ordinal |-> 0, visible |-> TRUE,
     fact |-> {}, group |-> "", window |-> {}]
FactDefaults == [source |-> "", group |-> ""]
RelationshipDefaults == [fact |-> ""]
RoleDefaults == [permission |-> "read", members |-> {}]
MainDefaults ==
    [source |-> "", table |-> "", facts |-> <<>>, relationships |-> <<>>, roles |-> <<>>, time |-> {},
     dimensions |-> <<>>, measures |-> <<>>, files |-> {}]

Each(F(_), s) == [i \in DOMAIN s |-> F(s[i])]
\* serde: fields equal to their default are skipped, missing ones get it.
Written(x, defaults) == [f \in {g \in DOMAIN x : g \notin DOMAIN defaults \/ x[g] # defaults[g]} |-> x[f]]
Read(text, defaults) ==
    [f \in DOMAIN text \union DOMAIN defaults |-> IF f \in DOMAIN text THEN text[f] ELSE defaults[f]]

DefaultsOf ==
    [dimensions |-> DimensionDefaults, measures |-> MeasureDefaults, facts |-> FactDefaults,
     relationships |-> RelationshipDefaults, roles |-> RoleDefaults]
Items == DOMAIN DefaultsOf

\* A list as it stands in a section file, and the main file with its lists inside.
ListText(list, items) == Each(LAMBDA x : Written(x, DefaultsOf[list]), items)
ListRead(list, text) == Each(LAMBDA x : Read(x, DefaultsOf[list]), text)
serialize(config) ==
    Written([f \in DOMAIN config |-> IF f \in Items THEN ListText(f, config[f]) ELSE config[f]], MainDefaults)
parse_str(text) ==
    Once(LAMBDA c : [f \in DOMAIN c |-> IF f \in Items THEN ListRead(f, c[f]) ELSE c[f]], Read(text, MainDefaults))

------------------------------------------------------------------------------
(* Derived defaults: filled when a configuration is loaded, left out again     *)
(* when it is written.                                                         *)

Filled(x, omitted, derived) == IF x = omitted THEN derived ELSE x
Cleared(x, omitted, derived) == IF x = derived THEN omitted ELSE x

DefaultFact(c) == IF c.facts = <<>> THEN "default" ELSE c.facts[1].id
\* A HashMap of the fact tables: of two with one id the last counts.
GroupOf(c, fact) ==
    LET named == {i \in DOMAIN c.facts : c.facts[i].id = fact}
        last == c.facts[CHOOSE i \in named : \A j \in named : j <= i]
    IN IF named = {} THEN c.cube ELSE Filled(last.group, "", last.id)
FactOf(c, m) == IF m.fact = {} THEN DefaultFact(c) ELSE CHOOSE f \in m.fact : TRUE

\* Fills with Filled, or empties with Cleared: the same fields, the same values.
DerivedDimension(Op(_, _, _), d, i) ==
    [d EXCEPT !.hierarchy = Op(@, "", d.caption), !.all = Op(@, "", "(All)"), !.leaf = Op(@, "", d.caption),
              !.field = Op(@, "", d.id), !.ordinal = Op(@, 0, i)]
DerivedMeasure(Op(_, _, _), c, m, i) ==
    [m EXCEPT !.display = Op(@, "", m.caption), !.ordinal = Op(@, 0, i),
              !.group = Op(@, "", GroupOf(c, FactOf(c, m))), !.fact = Op(@, {}, {DefaultFact(c)})]
DerivedFact(Op(_, _, _), f) == [f EXCEPT !.source = Op(@, "", f.table), !.group = Op(@, "", f.id)]
DerivedRelationship(Op(_, _, _), c, r) == [r EXCEPT !.fact = Op(@, "", DefaultFact(c))]
Derived(Op(_, _, _), c) ==
    [c EXCEPT
       !.source = Op(@, "", c.table),
       !.dimensions = [i \in DOMAIN @ |-> DerivedDimension(Op, @[i], i)],
       !.measures = [i \in DOMAIN @ |-> DerivedMeasure(Op, c, @[i], i)],
       !.facts = [i \in DOMAIN @ |-> DerivedFact(Op, @[i])],
       !.relationships = [i \in DOMAIN @ |-> DerivedRelationship(Op, c, @[i])]]

\* Only normalize touches the format: an empty one is the default one.
WithFormat(m) == [m EXCEPT !.format = Filled(@, "", default_format_string)]
normalize(c) == [Derived(Filled, c) EXCEPT !.measures = [i \in DOMAIN @ |-> WithFormat(@[i])]]
deminimize(c) == Derived(Cleared, c)

------------------------------------------------------------------------------
(* Files.  A section that declares a file moves into it as a whole; when a     *)
(* configuration is loaded the inline entries come before the file's.          *)

\* The files of the canonical form, and the order in which they are written.
FilesOf(c) == c.files \union {"main"}
WriteOrder == <<"dimensions", "measures", "relationships", "roles", "main">>
NextFile(files) ==
    WriteOrder[CHOOSE i \in DOMAIN WriteOrder : WriteOrder[i] \in files /\ \A j \in 1..i - 1 : WriteOrder[j] \notin files]

\* Mutant: a section that has a file stays in the main file too.
canonical_texts_copied(c) ==
    Once(LAMBDA d : [f \in FilesOf(d) |-> IF f = "main" THEN serialize(d) ELSE ListText(f, d[f])], deminimize(c))
MovedOut(c) == [f \in DOMAIN c |-> IF f \in c.files THEN <<>> ELSE c[f]]
canonical_texts(c) ==
    Once(LAMBDA d : [f \in FilesOf(d) |-> IF f = "main" THEN serialize(MovedOut(d)) ELSE ListText(f, d[f])], deminimize(c))

\* A section file that is declared and missing is an error, as is an unreadable main file.
Loads(disk) == "main" \in DOMAIN disk /\ parse_str(disk["main"]).files \subseteq DOMAIN disk
load(disk) ==
    LET merged(c) == [f \in DOMAIN c |-> IF f \in c.files THEN c[f] \o ListRead(f, disk[f]) ELSE c[f]]
    IN normalize(Once(merged, parse_str(disk["main"])))

non_canonical(c, disk) ==
    Once(LAMBDA texts : {f \in DOMAIN texts : f \notin DOMAIN disk \/ disk[f] # texts[f]}, canonical_texts(c))
=============================================================================
