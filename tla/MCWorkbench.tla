----------------------------- MODULE MCWorkbench -----------------------------
(* What goes on around the answering of statements: the sessions of clients,   *)
(* their metadata requests, a contract's way into service, a parent-child      *)
(* dimension's way into its table, and the conversion of a Tabular model.  The *)
(* five share no state: a behaviour is one of them, and the others stay at one *)
(* initial state.                                                              *)
EXTENDS SessionRegistry, MCDiscover, MCDeployment, ParentChild, Migration

\* Four requests on two threads, and room for two of three sessions.
CONSTANTS r1, r2, r3, r4, t1, t2
MCReq == {r1, r2, r3, r4}
MCThread == {t1, t2}
Symmetry == Permutations(MCReq) \union Permutations(MCThread)

\* Chains, trees, forests, a self parent, a parent that is no key, cycles of rows no
\* root leads to, two rows with one key, and a row with none.
Parents(own, above) == [r \in RowId |-> [key |-> own[r], parent |-> above[r]]]
Chain == Parents(<<1, 2, 3, 4>>, <<Null, 1, 2, 3>>)
MCTable ==
    {Parents(<<1, 2, 3, 4>>, p) : p \in
       {<<Null, 1, 2, 3>>, <<Null, 1, 2, 2>>, <<Null, 1, 1, 3>>, <<Null, Null, 2, 1>>, <<Null, Null, 1, Null>>,
        <<1, 1, 2, 2>>, <<Null, 9, 1, 2>>, <<Null, 1, 4, 3>>, <<2, 1, Null, 3>>, <<2, Null, 2, 3>>}}
      \union {Parents(<<1, 2, 2, 3>>, <<Null, 1, 1, 2>>), Parents(<<1, 2, 3, Null>>, <<Null, 1, 2, 1>>)}

------------------------------------------------------------------------------
\* The names of the exports, and those that are one name in lower case or as an
\* identifier.
MCAlphabet ==
    <<"", "Amount", "Area", "Calendar", "Calls", "City", "Clerk", "Cost", "Customer", "Customer ID", "CustomerID", "Date", "DateKey",
      "Derived", "East", "Geography", "Main", "Month", "MonthNo", "Net Sales", "Net-Sales", "Order Date", "Orders", "Price",
      "Product", "ProductID", "Region", "Returns", "Revenue", "Sales", "Share", "Shop", "ShopID", "Units", "YTD", "Year",
      "YearNo", "current_year_flag", "customerid", "date", "full_date", "fulldate", "month", "mtd_flag",
      "prior_year_ytd_flag", "qtd_flag", "quarter", "unknown", "year", "ytd_flag">>
Capitals == "CustomerID" :> "customerid" @@ "Date" :> "date" @@ "Month" :> "month" @@ "Year" :> "year"
MCLower == Capitals @@ [n \in ToSet(MCAlphabet) |-> n]
MCBare == "Customer ID" :> "customerid" @@ MCLower
MCIdent ==
    "Net Sales" :> "net_sales" @@ "Net-Sales" :> "net_sales" @@ "Order Date" :> "order_date" @@ "Customer ID" :> "customer_id" @@ MCLower

Column(name, source, type) == [name |-> name, source |-> source, type |-> type, hidden |-> FALSE, numbers |-> ""]
Dax(form) == [form |-> form, func |-> "", column |-> "", tables |-> {}, period |-> "", operands |-> <<>>, filter |-> "", other |-> ""]
Sum(c) == [Dax("aggregate") EXCEPT !.func = "SUM", !.column = c]
Median == [Sum("Amount") EXCEPT !.form = "median"]
Iterated == [Median EXCEPT !.form = "iterated", !.filter = "Amount", !.tables = {"Customer"}, !.other = "City"]
Over(form, period, table) ==
    [Sum("Amount") EXCEPT !.form = form, !.period = period, !.tables = {table}]
Of(form, operands) == [Dax(form) EXCEPT !.operands = operands]
DaxMeasure(name, dax) == [name |-> name, dax |-> dax]
ModelTable(name, look, columns) ==
    [name |-> name, title |-> name, look |-> look, columns |-> columns, measures |-> <<>>, hierarchies |-> <<>>, partitions |-> <<>>]
Partition(kind, query, source) == [kind |-> kind, query |-> query, source |-> source]
Loaded(calls, host, base, item) == [calls |-> calls, server |-> host, database |-> base, item |-> item]
SqlTable(base, item) == Partition("m", {Loaded({"Sql.Database"}, "East", base, {item})}, {})
DaxLevel(name, of, word) == [name |-> name, column |-> of, ordinal |-> {}, part |-> word]
Leads(from, own, to, key) == [from_table |-> from, from_column |-> own, to_table |-> to, to_column |-> key]

\* Sales of customers over a calendar, two of its names spelled otherwise elsewhere.
BaseExport ==
    [format |-> "bim", sources |-> <<>>, roles |-> <<[name |-> "Clerk", table |-> "Customer", filter |-> {"Region = East"}]>>,
     relationships |-> <<Leads("Sales", "Customer ID", "Customer", "Customer ID"), Leads("Sales", "Order Date", "Calendar", "DateKey")>>,
     tables |->
       <<[ModelTable("Sales", "fact", <<Column("Customer ID", "CustomerID", "int64"), Column("Order Date", "", "int64"),
                                     Column("Amount", "", "double"), Column("Net Sales", "", "double")>>) EXCEPT
            !.measures = <<DaxMeasure("Revenue", Sum("Amount")), DaxMeasure("YTD", Over("to_date", "ytd", "Calendar")),
                           DaxMeasure("Units", Dax("rows"))>>,
            !.partitions = <<SqlTable("Main", "Sales")>>],
         [ModelTable("Customer", "dimension", <<Column("Region", "", "string"), Column("City", "", "string"),
                                             Column("Customer ID", "customerid", "int64")>>) EXCEPT
            !.hierarchies = <<[name |-> "Geography", levels |-> <<DaxLevel("", "Region", ""), DaxLevel("City", "City", "")>>]>>,
            !.partitions = <<SqlTable("Main", "Customer")>>],
         [ModelTable("Calendar", "calendar", <<Column("DateKey", "", "int64"), Column("Date", "", "dateTime"),
                                            [Column("YearNo", "", "int64") EXCEPT !.numbers = "year"],
                                            Column("ytd_flag", "", "int64")>>) EXCEPT
            !.hierarchies = <<[name |-> "Date", levels |-> <<DaxLevel("Year", "YearNo", "year"), DaxLevel("Date", "Date", "")>>]>>]>>]

\* Its measures: every form, names that are one identifier, and operands that are
\* bridges, each other, or not there.
Measured ==
    {[BaseExport EXCEPT !.tables[1].measures = m] : m \in
       {<<DaxMeasure("Share", Dax(form))>> : form \in {"constant", "rows", "filtered", "iterated", "datatable", "lookup", "other"}}
       \union {<<DaxMeasure("Share", [Sum(c) EXCEPT !.form = form, !.filter = f])>> :
                 form \in {"median", "filtered"}, c \in {"Amount", "Order Date", "Customer ID", "Net Sales"}, f \in {"", "Amount"}}
       \union {<<DaxMeasure("Share", [Sum("Amount") EXCEPT !.form = form, !.filter = f, !.tables = {t}, !.other = o])>> :
                 form \in {"iterated", "running"}, f \in {"Amount", "Customer ID"}, t \in {"Customer", "Calendar"}, o \in {"City", "ytd_flag"}}
       \union {<<DaxMeasure("Revenue", Sum(c))>> : c \in {"Order Date", "customerid", "Net Sales", "Price"}}
       \union {<<DaxMeasure("YTD", Over(form, period, table))>> :
                 form \in {"to_date", "prior_year"}, period \in {"ytd", "qtd", "prior_year"}, table \in {"Calendar", "Customer"}}
       \union {<<DaxMeasure("Share", Of(form, o)), DaxMeasure("Revenue", Sum("Amount")), DaxMeasure("Calls", Median),
                 DaxMeasure("Units", Of("divide", <<"Share", "Calls">>))>> :
                 form \in {"divide", "difference"}, o \in 
                 {<<"Calls", "Calls">>, <<"Calls", "Revenue">>, <<"Units", "Calls">>, <<"Calls", "Price">>, <<"Calls", "Calls", "Units">>}}
       \union {<<DaxMeasure("Net Sales", Median), DaxMeasure("Net-Sales", Dax("running"))>>,
               <<DaxMeasure("Share", [Sum("Amount") EXCEPT !.form = "compound"]), DaxMeasure("Calls", Dax("lookup"))>>}}
    \union {[BaseExport EXCEPT !.tables[1].measures = <<DaxMeasure("Share", Iterated)>>, !.tables[1].columns[1].source = "customerid",
                               !.tables[1].columns[4].name = n, !.tables[1].columns[4].source = "Amount",
                               !.tables[1].columns[1].name = "CustomerID", !.tables[2].columns[3].name = "CustomerID",
                               !.relationships = r \o <<Leads("Sales", "CustomerID", "Customer", "CustomerID")>>] :
              n \in {"City", "Cost"}, r \in {<<>>, <<Leads("Sales", "Order Date", "Customer", "CustomerID")>>, <<Leads("Calendar", "ytd_flag", "Customer", "CustomerID")>>}}
    \union {[BaseExport EXCEPT !.tables[1].measures = <<DaxMeasure("Share", Iterated)>>, !.relationships = Tail(@)]}
    \union {[BaseExport EXCEPT !.tables[2].measures = <<DaxMeasure("Calls", dax)>>] : dax \in {Sum("Amount"), Median, Over("to_date", "ytd", "Calendar")}}

\* What its tables look like: facts of equal rank, none, only lookups, calculated
\* tables and groups, and a table more.
Lookup == ModelTable("Product", "plain", <<Column("ProductID", "", "int64"), Column("Price", "", "double")>>)
SecondFact == [ModelTable("Returns", "fact", <<Column("Customer ID", "", "int64"), Column("Amount", "", "double")>>) EXCEPT
                 !.measures = <<DaxMeasure("Cost", Sum("Amount"))>>]
Looking ==
    {[BaseExport EXCEPT !.tables[1].look = a, !.tables[2].look = b] : a \in {"plain", "dimension"}, b \in {"plain", "dimension", "fact"}}
    \union {[BaseExport EXCEPT !.tables[3].look = "plain"], [BaseExport EXCEPT !.tables = <<@[3]>>], [BaseExport EXCEPT !.tables = <<>>, !.relationships = <<>>],
            [BaseExport EXCEPT !.tables[1].measures = [i \in 1..6 |-> DaxMeasure(<<"Calls", "Cost", "Orders", "Share", "Units", "YTD">>[i], Median)],
                               !.tables[1].look = "plain"],
            [BaseExport EXCEPT !.tables[1].look = "plain", !.tables[3].look = "plain", !.tables = Append(@, Lookup),
                               !.relationships = @ \o <<Leads("Product", "ProductID", "Sales", "Amount"), Leads("Product", "Price", "Customer", "Customer ID")>>]}
    \union {[BaseExport EXCEPT !.tables = Append(@, t)] : t \in
              {Lookup, SecondFact, [SecondFact EXCEPT !.measures = [i \in 1..4 |-> DaxMeasure(<<"Calls", "Cost", "Orders", "Share">>[i], Sum("Amount"))]],
               [Lookup EXCEPT !.partitions = <<Partition("calculated", {}, {})>>, !.measures = <<DaxMeasure("Calls", Median)>>],
               [Lookup EXCEPT !.columns = <<>>]}}
    \union {[BaseExport EXCEPT !.tables = Append(@, [Lookup EXCEPT !.partitions = <<Partition("calculationGroup", {}, {})>>]),
                               !.relationships[1] = Leads("Sales", "Customer ID", "Product", "ProductID")],
            [BaseExport EXCEPT !.tables = Append(@, [Lookup EXCEPT !.name = "Area"]),
                               !.relationships = Append(@, Leads("Sales", "Order Date", "Area", "ProductID"))],
            [BaseExport EXCEPT !.tables = Append(@, [Lookup EXCEPT !.columns[2] = Column("Amount", "Price", "double")]),
                               !.relationships = Append(@, Leads("Product", "Amount", "Calendar", "DateKey"))]}

\* Its relationships and columns: none, doubled, from elsewhere, to a calculated
\* table, over text, days or a name that is not there.
Connected ==
    {[BaseExport EXCEPT !.relationships = r] : r \in
       {<<>>, Reverse(BaseExport.relationships), Append(BaseExport.relationships, Leads("Sales", "Order Date", "Customer", "Customer ID")),
        Append(BaseExport.relationships, Leads("Sales", "Customer ID", "Calendar", "DateKey")),
        Append(BaseExport.relationships, Leads("Customer", "Region", "Calendar", "DateKey")),
        <<Leads("Sales", "Customer ID", "Product", "ProductID")>> \o BaseExport.relationships,
        <<Leads("Customer", "Customer ID", "Sales", "Customer ID")>>, <<Leads("Sales", "Price", "Customer", "Customer ID")>>,
        <<Leads("Sales", "Customer ID", "Customer", "Price")>>,
        <<Leads("", "Amount", "Customer", "Customer ID")>>}}
    \union {[BaseExport EXCEPT !.tables[1].columns[1].type = a, !.tables[2].columns[3].type = b] :
              a \in {"string", "dateTime", "double", "boolean"}, b \in {"int64", "string", "double"}}
    \union {[BaseExport EXCEPT !.tables[3].columns[i].name = name, !.tables[3].columns[i].source = name] :
              i \in {2, 3, 4}, name \in {"Year", "Month", "qtd_flag", "full_date"}}
    \union {[BaseExport EXCEPT !.tables[2].hierarchies = h] : h \in
              {<<>>, <<[name |-> "Main", levels |-> <<>>]>> \o BaseExport.tables[2].hierarchies, <<[name |-> "Geography", levels |-> <<DaxLevel("", "", "")>>]>>,
               <<[name |-> "Geography", levels |-> <<DaxLevel("City", "City", ""), [DaxLevel("Region", "Region", "") EXCEPT !.ordinal = {0}]>>]>>,
               BaseExport.tables[2].hierarchies \o <<[name |-> "East", levels |-> <<DaxLevel("City", "City", "")>>]>>,
               <<[name |-> "Geography", levels |-> <<DaxLevel("Shop", "Shop", ""), DaxLevel("City", "City", "")>>]>>}}
    \union {[BaseExport EXCEPT !.tables[2].columns[1].hidden = TRUE, !.tables[2].columns[2].hidden = h] : h \in BOOLEAN}

\* Where its tables are loaded from, and the other two formats.
Loading(p, q) == [BaseExport EXCEPT !.tables[1].partitions = p, !.tables[2].partitions = q]
FromSource(name, kind, base) == Partition(kind, {Loaded({"Sql.Database"}, "East", base, {"Sales"})}, {name})
Sources == <<[name |-> "Shop", server |-> "East", database |-> "Main"], [name |-> "Orders", server |-> "East", database |-> "Units"]>>
Sourced ==
    {Loading(<<SqlTable("Main", "Sales")>>, <<p>>) : p \in
       {SqlTable("Units", "Customer"), Partition("m", {}, {}), Partition("query", {Loaded({}, "", "", {"Customer"})}, {}),
        Partition("entity", {}, {}), Partition("m", {Loaded({"Sql.Database"}, "East", "Main", {})}, {})}
       \union {Partition("m", {Loaded(calls, "", "", {"Customer"})}, {}) : calls \in
                 {{}, {"#"}, {"Csv.Document", "File.Contents"}, {"Csv.Document", "Web.Contents"}, {"Csv.Document"},
                  {"PostgreSQL.Database"}, {"MySQL.Database"}}}}
    \union {[Loading(<<Partition("m", {}, {}), SqlTable("Main", "Sales"), SqlTable("Main", "Orders")>>, <<>>) EXCEPT !.format = f] :
              f \in {"bim", "folder"}}
    \union {[Loading(<<FromSource(a, "m", "Main")>>, <<FromSource(b, kind, "Units")>>) EXCEPT !.format = f, !.sources = Sources] :
              a \in {"Shop", "Main"}, b \in {"Shop", "Orders", "Main"}, kind \in {"m", "query"}, f \in {"folder", "tmdl"}}
Formatted == UNION {{[e EXCEPT !.format = f] : e \in Measured \union Connected \union {BaseExport}} : f \in {"folder", "tmdl"}}

MCExport == {BaseExport} \union Measured \union Looking \union Connected \union Sourced \union Formatted
\* Exports whose partitions name data sources, one of them not described.
MCNamedSource == {e \in Sourced : e.sources # <<>>}
\* A revised export has another measure, column or relationship, or lost one.
MCRevised(e) ==
    IF e # BaseExport THEN {}
    ELSE {[e EXCEPT !.tables[1].measures = <<DaxMeasure("Share", Median)>>],
          [e EXCEPT !.tables[2].columns[2].name = "Shop", !.tables[2].columns[2].source = "Shop"],
          [e EXCEPT !.relationships = Tail(@)]}

------------------------------------------------------------------------------
VARIABLE part
partVars == <<vars, discoverVars, deploymentVars, treeVars, migrationVars, part>>

PartInit ==
    /\ part \in {"sessions", "rowsets", "deployment", "tree", "migration"}
    /\ Init
    /\ IF part = "rowsets" THEN DiscoverInit ELSE caller = [admin |-> TRUE, roles |-> <<>>] /\ DiscoverInit
    /\ IF part = "deployment" THEN DeploymentInit ELSE contract = {Base} /\ DeploymentInit
    /\ IF part = "tree" THEN TreeInit ELSE rows = Chain /\ TreeInit
    /\ IF part = "migration" THEN MigrationInit ELSE export = BaseExport /\ MigrationInit
PartNext ==
    \/ part = "sessions" /\ Next /\ UNCHANGED <<discoverVars, deploymentVars, treeVars, migrationVars, part>>
    \/ part = "rowsets" /\ DiscoverNext /\ UNCHANGED <<vars, deploymentVars, treeVars, migrationVars, part>>
    \/ part = "deployment" /\ DeploymentNext /\ UNCHANGED <<vars, discoverVars, treeVars, migrationVars, part>>
    \/ part = "tree" /\ TreeNext /\ UNCHANGED <<vars, discoverVars, deploymentVars, migrationVars, part>>
    \/ part = "migration" /\ MigrationNext /\ UNCHANGED <<vars, discoverVars, deploymentVars, treeVars, part>>
PartSpec == PartInit /\ [][PartNext]_partVars

\* Conversions alone.
ConversionSpec == PartInit /\ part = "migration" /\ [][PartNext]_partVars
=============================================================================
