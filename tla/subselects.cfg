\* Statements with a slicer and a subselect.
SPECIFICATION SubselectSpec
CONSTANTS
    k1 = k1
    k2 = k2
    k3 = k3
    small = small
    wide = wide
    huge = huge
    Absent = Absent
    Key <- MCKey
    Value <- MCValue
    SizeOf <- MCSizeOf
    Ttl = 2
    Capacity = 2
    MaxBytes = 3
    MaxTime = 3
    MaxCount = 2
    Dimension <- MCDimension
    Depth <- MCDepth
    Member <- MCMember
    OwnTable <- MCOwnTable
    DateDimension = "Date"
    Lists <- MCLists
    Measure <- MCMeasure
    DefaultMeasure = "rev"
    TableOf <- MCTableOf
    Aggregation <- MCAggregation
    DefaultFor <- MCDefaultFor
    TimeFlagged <- MCTimeFlagged
    Fact <- MCFact
    Reader <- MCReader
    Permitted <- MCPermitted
    Sees <- MCSees
    HiddenTable <- MCHiddenTable
    HiddenDimension <- MCHiddenDimension
    Question <- MCQuestion
    LevelName <- MCLevelName
    Matching <- MCMatching
    MaxAnswers = 2
    NumberText <- MCNumberText
    Document <- MCDocument
    Spelling <- MCSpelling
    BreaksOff <- MCBreaksOff
INVARIANTS
    SubselectsRestrict
CHECK_DEADLOCK FALSE
