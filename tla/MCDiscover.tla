------------------------------ MODULE MCDiscover ------------------------------
(* A date dimension with a second hierarchy of its days, one with dates above  *)
(* the leaf, one with a separator in a key, and a flat one that is not shown;  *)
(* two fact tables; the metadata requests a client makes of them.             *)
EXTENDS Discover

Dim(name, visible, levels, date, table) ==
    [name |-> name, visible |-> visible, hierarchy |-> IF levels = <<>> THEN name ELSE "Tree", levels |-> levels,
     leaf |-> "Leaf", date |-> date, table |-> table, keyHint |-> 9]
MCDims ==
    << Dim("Date", TRUE, <<"Year", "Month", "Day">>, TRUE, "DimDate"),
       Dim("Week", TRUE, <<"Monday", "Day">>, TRUE, "DimWeek"),
       Dim("Place", TRUE, <<"Land", "Town">>, FALSE, "DimPlace"),
       Dim("Item", FALSE, <<>>, FALSE, "DimItem") >>
Row(keys) == [i \in DOMAIN keys |-> <<keys[i]>>]
MCDimRow ==
    [Date |-> {Row(<<1, 11, 101>>), Row(<<1, 11, 102>>), Row(<<1, 12, 103>>), Row(<<2, 21, 104>>), Row(<<2, 11, 105>>)},
     Week |-> {Row(<<101, 101>>), Row(<<101, 102>>)},
     Place |-> {Row(<<31, 32>>), << <<31>>, <<32, 33>> >>, Row(<<34, 32>>)},
     Item |-> {Row(<<41>>), Row(<<42>>)}]
MCIsoDate == 101..105
MCStamp == [p \in 1..105 |-> IF p \in MCIsoDate THEN p + 1000 ELSE p]
MCFacts == << [table |-> "Sales", group |-> "Sales"], [table |-> "Stock", group |-> "Stock"] >>
MCMeasures ==
    << [name |-> "rev", fact |-> 1, group |-> "Sales", visible |-> TRUE],
       [name |-> "cost", fact |-> 1, group |-> "Cost", visible |-> FALSE],
       [name |-> "count", fact |-> 2, group |-> "Stock", visible |-> TRUE] >>
MCRelationships == {[fact |-> 1, table |-> t] : t \in {"DimDate", "DimPlace", "DimWeek"}}
                     \union {[fact |-> 2, table |-> t] : t \in {"DimDate", "DimItem"}}

Tables == {"Sales", "Stock", "DimDate", "DimWeek", "DimPlace", "DimItem"}
Hide == <<[hide |-> TRUE, filter |-> <<>>, dax |-> FALSE]>>
Only(col, keys) == <<[hide |-> FALSE, filter |-> <<{[col |-> col, vals |-> {<<k>> : k \in keys}]}>>, dax |-> FALSE]>>
Reader(entries) ==
    [admin |-> FALSE, roles |-> <<[permission |-> "read", tables |-> entries @@ [t \in Tables |-> <<>>]]>>]
MCCaller ==
    {[admin |-> TRUE, roles |-> <<>>], [admin |-> FALSE, roles |-> <<>>],
     Reader("Sales" :> Hide), Reader("Sales" :> Hide @@ "Stock" :> Hide @@ "DimPlace" :> Hide),
     Reader("DimDate" :> Hide @@ "DimItem" :> Hide), Reader("DimDate" :> Only(2, {11, 21}) @@ "DimItem" :> Only(1, {42}))}

------------------------------------------------------------------------------
Whole == [dim |-> {}, hier |-> {}, level |-> {}, type |-> {}, group |-> {}, visibility |-> {}, property |-> {}, exact |-> TRUE]
Tree == <<"Date", "Tree">>
Days == <<"Date", "Day">>
Narrowed ==
    {[Whole EXCEPT !.dim = {"Date"}], [Whole EXCEPT !.hier = {Tree}], [Whole EXCEPT !.hier = {Days}],
     [Whole EXCEPT !.level = {Append(Tree, "Month")}], [Whole EXCEPT !.level = {AllLevel(Days)}],
     [Whole EXCEPT !.level = {Append(Days, "Day")}], [Whole EXCEPT !.type = {1}], [Whole EXCEPT !.type = {2}],
     [Whole EXCEPT !.dim = {"Item"}, !.level = {<<"Item", "Item", "Leaf">>}]}
MCRestriction ==
    {Whole} \union Narrowed
      \union {[Whole EXCEPT !.visibility = {v}] : v \in {-1, 0, 1, 2, 3, 4}}
      \union {[Whole EXCEPT !.property = {p}] : p \in {2, 5}}
      \union {[Whole EXCEPT !.dim = {"Date"}, !.exact = FALSE], [Whole EXCEPT !.group = {"Stock"}],
              [Whole EXCEPT !.dim = {"Measures"}], [Whole EXCEPT !.level = {MeasuresLevel}]}

Few == {MemberName(Tree, <<1, 11>>), MemberName(Days, <<1102>>)}
Names == Few \union {MemberName(Tree, k) : k \in {<<>>, <<2>>, <<1, 11, 1101>>, <<1, 99>>}}
           \union {MemberName(Days, <<>>), MemberName(<<"Item", "Item">>, <<42>>), MemberName(MeasuresHierarchy, <<"count">>),
                   MemberName(<<"Place", "Tree">>, <<31>>)}
Flags == {"self", "parent", "siblings", "children", "descendants", "ancestors"}
TreeOps == {{}, {{}}, {Flags}, {{"self", "ancestors"}}} \union {{{f}} : f \in Flags}
Request(r, member, treeOp) ==
    [restrictions |-> r, member |-> member, treeOp |-> treeOp, catalog |-> "own", inScope |-> TRUE]
MCMemberRequest ==
    {Request(r, {}, {}) : r \in {Whole} \union Narrowed}
      \union {Request(Whole, {name}, op) : name \in Names, op \in TreeOps}
      \union {Request(r, {name}, op) : r \in Narrowed, name \in Few, op \in {{{"ancestors"}}, {{"self", "descendants"}}, {{"siblings"}}}}
      \union {[Request(Whole, {}, {}) EXCEPT !.catalog = "foreign"], [Request(Whole, {}, {}) EXCEPT !.inScope = FALSE]}
=============================================================================
