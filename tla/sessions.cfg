\* Sessions on shared threads, metadata requests, contracts on their way into service,
\* and a parent-child dimension written to its table.
SPECIFICATION PartSpec
CONSTANTS
    r1 = r1
    r2 = r2
    r3 = r3
    r4 = r4
    t1 = t1
    t2 = t2
    Nobody = Nobody
    Req <- MCReq
    Thread <- MCThread
    Capacity = 2
    Ttl = 1
    MaxTime = 2
    MaxId = 3
    Dims <- MCDims
    DimRow <- MCDimRow
    Facts <- MCFacts
    Measures <- MCMeasures
    Relationships <- MCRelationships
    IsoDate <- MCIsoDate
    Stamp <- MCStamp
    Caller <- MCCaller
    MemberRequest <- MCMemberRequest
    Restriction <- MCRestriction
    ChunkRows = 3
    MaxMembers = 33
    Contract <- MCContract
    Upstream <- MCUpstream
    Splittable = {"dimensions", "measures"}
    MaxFailures = 1
    RowId = {1, 2, 3, 4}
    Null = 0
    Table <- MCTable
    MaxDepth = 3
    MaxChanges = 2
    MaxCrashes = 1
    Alphabet <- MCAlphabet
    Lower <- MCLower
    Bare <- MCBare
    Ident <- MCIdent
    MeasuresOfAFact = 5
    Export <- MCExport
    Revised <- MCRevised
    FactRows = 6
    DimRows = 4
    YearDays = 3
    KeyDays = 4
    MaxConversions = 2
    MaxLoads = 2
SYMMETRY Symmetry
INVARIANTS
    ReplyIsOwn
    ClientReceivesTheTree
    RowsetsAgree
    FormattingKeepsMeaning
    ServedAsDeclared
    GeneratedCarriesAll
    QualifiedTreesAreServed
    ConvertedAsReported
    RelatedRowsAreFound
    LoadedFromDescribedSource
PROPERTIES
    AcceptsOnlyLive
    RefusesOnlyDead
CHECK_DEADLOCK FALSE
