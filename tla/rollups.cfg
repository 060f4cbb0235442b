\* Plans and users over a sidecar that is built, stamped, lost and reused.
SPECIFICATION PartSpec
CONSTANTS
    Dims <- MCDims
    Related <- MCRelated
    Levels <- MCLevels
    DimRow <- MCDimRow
    Fact <- MCFact
    Agg <- MCAgg
    Design <- MCDesign
    Table <- MCTable
    TableOf <- MCTableOf
    Valid <- MCValid
    Plan <- MCPlan
    User <- MCUser
    MaxVersion = 3
    Caller <- MCCaller
    Kid <- MCKid
    FirstKeys <- MCFirstKeys
    Credential <- MCCredential
    Deployment <- MCDeployment
    ContextOf <- MCContextOf
    Workers = 2
    MaxRotations = 2
INVARIANTS
    CurrentSidecarIsWhole
    RollupIsCurrent
    TranslatedAnswersAsFact
    SingleRefresh
    UnknownWasUnpublished
    AnonymousAsReported
PROPERTIES
    DoorAnswers
