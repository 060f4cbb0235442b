\* The filters of two roles, joined by OR, beside a slicer.
SPECIFICATION ServiceSpec
CONSTANTS
    Dims <- MCDims
    Related <- MCRelated
    Levels <- MCLevels
    DimRow <- MCDimRow
    Fact <- MCFact
    Agg <- MCAgg
    Design <- MCDesign
    Table <- MCTable
    TableOf <- MCTableOf
    Valid <- MCValid
    Plan <- MCTotals
    User <- MCUnion
    MaxVersion = 3
INVARIANTS
    RollupAnswersAsFact
