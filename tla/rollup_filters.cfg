\* Slicers with a path of keys or a date window, for an unrestricted user.
SPECIFICATION ServiceSpec
CONSTANTS
    Dims <- MCDims
    Related <- MCRelated
    Levels <- MCLevels
    DimRow <- MCDimRow
    Fact <- MCFact
    Agg <- MCAgg
    Design <- MCDesign
    Table <- MCTable
    TableOf <- MCTableOf
    Valid <- MCValid
    Plan <- MCWindows
    User <- MCAnyone
    MaxVersion = 3
INVARIANTS
    RollupAnswersAsFact
