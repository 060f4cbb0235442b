-------------------------- MODULE MCRollupService ----------------------------
(* A small warehouse: a date of four levels, a ship date of two and a region  *)
(* column; three loads of the fact table, the last with an unknown date.      *)
EXTENDS RollupService

MCDims == << "Date", "Region", "Ship" >>
MCRelated == {"Date", "Ship"}

Level(name, column) == [name |-> name, column |-> column]
DateLevels == << Level("year", "year"), Level("quarter", "quarter"),
                 Level("month", "month"), Level("day", "day") >>
MCLevels == [Date |-> DateLevels,
             Region |-> << >>,
             Ship |-> << Level("ship_year", "year"), Level("ship_day", "day") >>]

Date(y, q, m, d) == [year |-> y, quarter |-> q, month |-> m, day |-> d]
MCDimRow == [Date |-> << Date(2024, 1, 1, 1), Date(2024, 1, 2, 1),
                         Date(2024, 2, 4, 1), Date(2025, 1, 1, 1) >>,
             Ship |-> << [year |-> 2024, day |-> 1], [year |-> 2025, day |-> 1] >>]

\* The regions north and south.
N == 1
S == 2

Row(date, region, ship, amount) ==
    [key |-> [Date |-> date, Region |-> region, Ship |-> ship, Amount |-> amount],
     amount |-> amount]
Load1 == {Row(1, N, 1, 1), Row(2, S, 1, 2), Row(3, N, 2, 4), Row(4, S, 2, 8)}
Load2 == Load1 \union {Row(4, N, 1, 16)}
MCFact == << Load1, Load2, Load2 \union {Row(9, S, 1, 32)} >>

------------------------------------------------------------------------------
(* Plans.                                                                     *)

Listed(d, l, keys) == [dim |-> d, level |-> l, kind |-> "members", keys |-> keys, scope |-> {}]
Selected(d, l, kind, scope) == [dim |-> d, level |-> l, kind |-> kind, keys |-> {}, scope |-> scope]

North == Listed("Region", 0, {<< N >>})
AllRegions == Listed("Region", 0, {<< N >>, << S >>})
Shipped2025 == Listed("Ship", 1, {<< 2025 >>})
BothYears == Listed("Date", 1, {<< 2024 >>, << 2025 >>})
FirstDays == Listed("Date", 4, {<< 1 >>})
Year2024 == Listed("Date", 1, {<< 2024 >>})
FirstQuarter == Listed("Date", 2, {<< 1 >>})
FirstQuarterOf2024 == Listed("Date", 2, {<< 2024, 1 >>})
\* YTD(&[2024]&[1]&[2]): the dates of 2024 up to the end of that month.
YearToDate == Selected("Date", 3, "scope", {1, 2})
BeginsWithN == Selected("Region", 0, "scope", {N})
YtdFlag == Selected("Date", 0, "flag", {1, 2})

Filterings == {{}, {North}, {Year2024}, {FirstQuarter}, {North, Year2024}, {North, FirstQuarter},
               {AllRegions, BothYears}, {Shipped2025}, {Shipped2025, Year2024}, {FirstDays}, {YtdFlag}}
Windows == {{FirstQuarterOf2024}, {YearToDate}, {BeginsWithN}}

Groupings == {<< <<"Date">>, <<1>> >>, << <<"Date">>, <<2>> >>, << <<"Date">>, <<3>> >>,
              << <<"Region">>, <<0>> >>, << <<"Date", "Region">>, <<1, 0>> >>,
              << <<"Date", "Region">>, <<2, 0>> >>, << <<"Region", "Date">>, <<0, 1>> >>,
              << <<"Ship">>, <<1>> >>}

TotalPlans(filterings, additive) ==
    {[grouped |-> FALSE, group_by |-> << >>, levels |-> << >>, filters |-> f, additive |-> additive] :
        f \in filterings}
GroupPlans(filterings) ==
    {[grouped |-> TRUE, group_by |-> g[1], levels |-> g[2], filters |-> f, additive |-> TRUE] :
        g \in Groupings, f \in filterings}

MCPlan == TotalPlans(Filterings \union Windows, TRUE) \union TotalPlans({{}}, FALSE)
            \union GroupPlans(Filterings)
MCTotals == TotalPlans(Filterings, TRUE)
MCWindows == TotalPlans(Windows, TRUE)

------------------------------------------------------------------------------
(* Users.                                                                     *)

Is(dim, col, vals) == [dim |-> dim, col |-> col, vals |-> vals]
Filter(text) == << [hide |-> FALSE, filter |-> text, dax |-> FALSE] >>
Role(name, permission, fact, date) ==
    [members |-> {name}, permission |-> permission,
     tables |-> [fact |-> fact, Date |-> date, Ship |-> << >>]]

InNorth == << {Is("Region", "Region", {N})} >>
InSouth == << {Is("Region", "Region", {S})} >>
In2024 == << {Is("Date", "year", {2024})} >>
InMonth1 == << {Is("Date", "month", {1})} >>
IsBig == << {Is("Amount", "Amount", {4, 8, 16, 32})} >>

Config == << Role("north", "read", Filter(InNorth), << >>),
             Role("south", "read", Filter(InSouth), << >>),
             Role("north2024", "read", Filter(InNorth), Filter(In2024)),
             Role("month1", "read", << >>, Filter(InMonth1)),
             Role("big", "read", Filter(IsBig), << >>),
             Role("either", "read", Filter(InNorth \o InSouth), << >>),
             Role("hidden", "read", << [hide |-> TRUE, filter |-> << >>, dax |-> FALSE] >>, << >>),
             Role("dax", "read", << [hide |-> FALSE, filter |-> << >>, dax |-> TRUE] >>, << >>),
             Role("denied", "none", << >>, << >>),
             Role("boss", "administrator", << >>, << >>) >>

Known(names) == resolve_user_context(Config, TRUE, names)
Anyone == resolve_user_context(Config, FALSE, {})

MCUser == {Anyone} \union
          {Known(n) : n \in {{}, {"boss"}, {"denied"}, {"hidden"}, {"dax"}, {"big"}, {"north"},
                             {"month1"}, {"north2024"}, {"either"}, {"north", "south"}, {"north", "hidden"},
                             {"north", "month1"}, {"north", "denied"}}}
MCUnion == {Known({"north", "south"})}
MCAnyone == {Anyone}

------------------------------------------------------------------------------
(* The sidecar of this model.                                                 *)

ASSUME LossesAssumption == LossesShow

MCAgg == Rollup
MCDesign == design_aggregations
MCTable == {TableName(a) : a \in MCAgg}
MCTableOf == [a \in MCAgg |-> TableName(a)]
MCValid == [t \in MCTable |-> [v \in 1..MaxVersion |-> SumsAgree(Holder(t), Fact[v])]]
=============================================================================
