----------------------------- MODULE MCDeployment -----------------------------
(* A contract with two grains, a calendar and two dimensions, and what its     *)
(* authors may have changed in it: some is refused, some projected otherwise.  *)
EXTENDS Deployment

Grain(table, key, id, group) == [table |-> table, key |-> key, id |-> id, group |-> group]
Dimension(id, table, key, attribute) ==
    [id |-> id, table |-> table, key |-> key, attribute |-> attribute, hierarchy |-> {}, date |-> FALSE,
     caption |-> "", ordinal |-> {}, visible |-> TRUE, levels |-> <<>>]
Calendar(id, table, attribute) ==
    [Dimension(id, table, <<"day_key">>, attribute) EXCEPT
       !.date = TRUE, !.hierarchy = {"Calendar"},
       !.levels = <<[name |-> "year", column |-> "y"], [name |-> "day", column |-> attribute]>>]
Related(fact, dimension, columns) == [fact |-> fact, dimension |-> dimension, columns |-> columns, active |-> TRUE]
Measure(id, table, aggregation, column) ==
    [id |-> id, caption |-> "", format |-> "", ordinal |-> {}, visible |-> TRUE, table |-> table, column |-> column,
     reference |-> {}, aggregation |-> aggregation, expression |-> {}, window |-> {}, validGrain |-> {}]

Base ==
    [name |-> "shop", generator |-> "hand", version |-> <<0, 1, 0>>, roles |-> <<"reader">>,
     grain |-> <<Grain("sales", <<"id">>, {}, {"Sales"}), Grain("stock", <<"day", "item">>, {"Stock"}, {})>>,
     dimensions |-> <<Calendar("Date", "dim_date", "day"), Dimension("Item", "dim_item", <<"item_key">>, "item_name"),
                      Dimension("Shop", "dim_shop", <<"shop", "branch">>, "branch_name")>>,
     relationships |-> <<Related("sales", "Date", <<"day_ref", "day_key">>), Related("stock", "Date", <<"day_ref", "day_key">>),
                         Related("sales", "Item", <<"item_ref", "item_key">>), Related("stock", "Shop", <<"branch", "branch">>)>>,
     measures |-> <<Measure("revenue", "sales", "sum", {"amount"}),
                    [Measure("revenue ytd", "sales", "time_window", {"amount"}) EXCEPT
                       !.window = {[dimension |-> "Date", flag |-> "is_ytd"]}],
                    [Measure("level", "stock", "max", {"pieces"}) EXCEPT !.validGrain = {<<"item">>}]>>,
     time |-> {[dimension |-> "Date", flags |-> [ytd |-> "is_ytd"]]}]

\* Accepted, and projected otherwise.
Told ==
    {[Base EXCEPT !.grain = Reverse(@)],
     [Base EXCEPT !.grain[1].id = {"Sales"}, !.grain[1].group = {}],
     [Base EXCEPT !.grain[2].group = {"Stock"}, !.measures[3].caption = "Level", !.measures[3].format = "0"],
     [Base EXCEPT !.dimensions[2].ordinal = {2}, !.dimensions[3].ordinal = {2}, !.dimensions[3].visible = FALSE],
     [Base EXCEPT !.dimensions[2].caption = "Article", !.dimensions[2].hierarchy = {"Article"}, !.dimensions[3].hierarchy = {"Item"}],
     [Base EXCEPT !.measures[1].ordinal = {3}, !.measures[2].ordinal = {2}, !.measures[3].ordinal = {2}],
     [Base EXCEPT !.measures = Reverse(@), !.dimensions = Reverse(@), !.relationships = Reverse(@)],
     [Base EXCEPT !.dimensions = Append(@, Calendar("Shipped", "dim_date", "day")),
                  !.relationships = <<Related("sales", "Shipped", <<"ship_ref", "day_key">>)>> \o @],
     [Base EXCEPT !.time = {}, !.measures = SubSeq(@, 3, 3)],
     [Base EXCEPT !.measures[1] = [Measure("share", "sales", "ratio", {}) EXCEPT !.expression = {"a / b"}]],
     [Base EXCEPT !.measures[1] = Measure("rows", "stock", "count", {})],
     [Base EXCEPT !.measures[1].aggregation = "distinct_count"],
     [Base EXCEPT !.roles = <<>>, !.time = {[dimension |-> "Date", flags |-> [ytd |-> "is_ytd", mtd |-> "is_mtd"]]}],
     \* accepted, though the engine takes the two for one
     [Base EXCEPT !.grain[1].id = {"Stock"}], [Base EXCEPT !.grain[1].id = {"stock"}, !.grain[2].id = {}]}

\* Accepted, and refused by the projection.
Inexpressible ==
    {[Base EXCEPT !.relationships[2].columns = <<"stock_day", "day_key">>],
     [Base EXCEPT !.relationships[3].active = FALSE],
     [Base EXCEPT !.relationships = SubSeq(@, 1, 3)],
     [Base EXCEPT !.dimensions = Append(@, Calendar("Shipped", "dim_shipped", "day")),
                  !.relationships = <<Related("sales", "Shipped", <<"ship_ref", "day_key">>)>> \o @],
     [Base EXCEPT !.dimensions = Append(@, Calendar("Shipped", "dim_date", "shipped")),
                  !.relationships = <<Related("sales", "Shipped", <<"ship_ref", "day_key">>)>> \o @],
     [Base EXCEPT !.dimensions[1].key = <<"y", "day_key">>],
     [Base EXCEPT !.measures[1].reference = {"mart.revenue"}]}

\* Not accepted.
Invalid ==
    {[Base EXCEPT !.version = <<0, 2, 0>>], [Base EXCEPT !.version = <<1, 1, 0>>], [Base EXCEPT !.generator = ""],
     [Base EXCEPT !.grain = Append(@, Base.grain[1])], [Base EXCEPT !.grain[1].key = <<>>],
     [Base EXCEPT !.dimensions = Append(@, Base.dimensions[2])], [Base EXCEPT !.dimensions[1].levels = <<>>],
     [Base EXCEPT !.dimensions[1].attribute = "y"], [Base EXCEPT !.dimensions[3].table = "dim_item"],
     [Base EXCEPT !.relationships[1].dimension = "Nobody"], [Base EXCEPT !.relationships[1].fact = "Nobody"],
     [Base EXCEPT !.relationships[3].columns = <<"item_ref", "item_name">>],
     [Base EXCEPT !.measures = Append(@, Base.measures[1])], [Base EXCEPT !.measures[1].table = "Nobody"],
     [Base EXCEPT !.measures[1].aggregation = "ratio"], [Base EXCEPT !.measures[1].column = {}],
     [Base EXCEPT !.measures[1].validGrain = {<<"id">>}], [Base EXCEPT !.measures[3].validGrain = {<<"shop">>}],
     [Base EXCEPT !.measures[2].window = {}], [Base EXCEPT !.measures[2].window = {[dimension |-> "Item", flag |-> "is_ytd"]}],
     [Base EXCEPT !.measures[2].window = {[dimension |-> "Date", flag |-> "is_qtd"]}],
     [Base EXCEPT !.time = {}], [Base EXCEPT !.time = {[dimension |-> "Item", flags |-> [ytd |-> "is_ytd"]]}]}

MCContract == {Base} \union Told \union Inexpressible \union Invalid

------------------------------------------------------------------------------
(* The same shop as a SQLMesh project and an overlay.                          *)
Sql(table, grain, unique, columns, audits) ==
    [name |-> <<"mart", table>>, grain |-> grain, unique |-> unique, columns |-> columns, audits |-> audits]
Audit(column, table, reference) == [column |-> column, model |-> <<"mart", table>>, reference |-> reference]
Aggregate(name, f, table, column) ==
    [name |-> name, expression |-> [shape |-> "aggregate", f |-> f, model |-> <<"mart", table>>, column |-> column]]
Ratio(name, tables) ==
    [name |-> name, expression |-> [shape |-> "ratio", models |-> {<<"mart", t>> : t \in tables}, text |-> "SUM(a) / SUM(b)"]]
OverlayDimension(d, table) ==
    [f \in DOMAIN d \ {"table", "key"} |-> d[f]] @@ [model |-> <<"mart", table>>]
OverlayMeasure(metric) ==
    [metric |-> metric, id |-> {}, caption |-> {}, format |-> {}, ordinal |-> {}, visible |-> TRUE, aggregation |-> {},
     source |-> {}, expression |-> {}, window |-> {}, validGrain |-> {}]
From(table, column) == {[table |-> table, column |-> column, reference |-> {}]}

Sales == Sql("sales", <<"id">>, <<>>, {"id", "day_ref", "item_ref", "amount"},
             <<Audit("day_ref", "dim_date", "day_key"), Audit("item_ref", "dim_item", "item_key")>>)
Stock == Sql("stock", <<>>, <<"day", "item">>, {}, <<Audit("day_ref", "dim_date", "day_key")>>)
DimDate == Sql("dim_date", <<"day_key">>, <<>>, {"day_key", "day", "y", "is_ytd"}, <<>>)
DimItem == Sql("dim_item", <<>>, <<>>, {"item_key", "item_name"}, <<>>)
Upstreamed ==
    [project |-> [models |-> <<DimDate, DimItem, Sales, Stock>>,
                  metrics |-> <<Aggregate("revenue", "sum", "sales", "amount"), Ratio("margin", {"sales", "gone"}),
                                Aggregate("level", "max", "stock", "pieces"), Ratio("revenue ytd", {"sales"})>>],
     overlay |-> [name |-> "shop", roles |-> <<>>, exclude |-> {},
                  grain |-> <<[model |-> <<"mart", "stock">>, key |-> {}, id |-> {"Stock"}, group |-> {}]>>,
                  dimensions |-> <<OverlayDimension(Calendar("Date", "", "day"), "dim_date"),
                                   OverlayDimension(Dimension("Item", "", <<>>, "item_name"), "dim_item")>>,
                  measures |-> <<[OverlayMeasure("level") EXCEPT !.caption = {"Level"}],
                                 [OverlayMeasure("revenue ytd") EXCEPT !.aggregation = {"time_window"}, !.source = From(<<"sales">>, {"amount"}),
                                    !.window = {[dimension |-> "Date", flag |-> "is_ytd"]}]>>,
                  time |-> {[dimension |-> "Date", flags |-> [ytd |-> "is_ytd"]]}]]
Shared(u) == [u EXCEPT !.project.models = <<[Sales EXCEPT !.name = <<"staging", "sales">>]>> \o @]

\* Generated, and the ways a project or an overlay may differ.
Generates ==
    {Upstreamed, Shared([Upstreamed EXCEPT !.overlay.exclude = {<<"staging", "sales">>}, !.overlay.measures[2].source = From(<<"mart", "sales">>, {"amount"})]),
     [Upstreamed EXCEPT !.overlay.exclude = {<<"mart", "stock">>}, !.overlay.grain = <<>>, !.project.metrics = SubSeq(@, 1, 2), !.overlay.measures = <<>>],
     [Upstreamed EXCEPT !.project.models[4].unique = <<>>, !.overlay.grain[1].key = {<<"item">>}],
     [Upstreamed EXCEPT !.overlay.dimensions = Append(@, OverlayDimension(Calendar("Booked", "", "day"), "dim_date"))],
     [Upstreamed EXCEPT !.project.models[2].audits = <<Audit("item_name", "dim_date", "day")>>,
                        !.project.models[3].audits = SubSeq(@, 2, 2), !.project.models[4].audits = <<>>, !.overlay.time = {}, !.overlay.measures = <<>>]}
GeneratesNothing ==
    {Shared(Upstreamed), Shared([Upstreamed EXCEPT !.overlay.exclude = {<<"staging", "sales">>}]),
     [Upstreamed EXCEPT !.overlay.exclude = {<<"mart", "dim_item">>}], [Upstreamed EXCEPT !.overlay.exclude = {<<"mart", "nobody">>}],
     [Upstreamed EXCEPT !.project.models[4].audits[1].column = "stock_day"],
     [Upstreamed EXCEPT !.project.models[3].audits[1].column = "nobody"],
     [Upstreamed EXCEPT !.project.models[3].audits[1] = [column |-> "day_ref"]],
     [Upstreamed EXCEPT !.project.models[3].audits[2].model = <<"mart", "nobody">>],
     [Upstreamed EXCEPT !.overlay.dimensions = SubSeq(@, 1, 1)], [Upstreamed EXCEPT !.overlay.dimensions[2].attribute = "nobody"],
     [Upstreamed EXCEPT !.overlay.measures = Append(@, @[1])], [Upstreamed EXCEPT !.overlay.measures[1].aggregation = {"sum"}],
     [Upstreamed EXCEPT !.project.models[4].unique = <<>>], [Upstreamed EXCEPT !.overlay.grain[1].key = {<<"item">>}],
     [Upstreamed EXCEPT !.overlay.grain = Append(@, @[1])], [Upstreamed EXCEPT !.project.metrics[2] = Ratio("margin", {"sales", "stock"})],
     [Upstreamed EXCEPT !.project.metrics[1] = Aggregate("revenue", "sum", "sales", "nobody")],
     [Upstreamed EXCEPT !.project.metrics[1].expression = [shape |-> "other"]],
     [Upstreamed EXCEPT !.overlay.time = {}]}
MCUpstream == Generates \union GeneratesNothing
=============================================================================
