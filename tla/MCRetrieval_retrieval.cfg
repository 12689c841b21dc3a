SPECIFICATION RetrievalSpec
CONSTANTS
    Doc = {1, 2}
    Text = {1, 2}
    Provider = {1}
    Required = {}
    Calls <- Callees
    MaxGens = 3
    MaxEdits = 2
    MaxOverruns = 1
    GenKey <- HashOrder
    RowLimit = 1
    PageLimit = 1
    RecordLimits = {1, 3}
    Scenarios <- Everything
    Path = {1, 2, 3}
    Content = {1, 2, 3}
    Stores <- TwoStores
    MaxWrites = 2
    Names <- SomeNames
    Limit = 2
    Depths = {0, 1, 2}
    MaxRecords = 4
    Requests <- SomeRequests
    Plans <- IngestPlans
    Texts <- DocumentTexts
    Scip <- ScipSymbol
    MaxDocuments = 2
    MaxOccurrences = 5
    MaxSymbols = 2
    MaxRelationships = 3
    LastGeneration = 2
CONSTRAINT MCEdits
INVARIANTS
    ProjectionIsWhole
    AnswersAreTruth
    DeltasExplain
    FindReachesEveryPath
    InspectIsOneRevision
    TraceFlagsAreHonest
    VerifiedWasThere
    PacketsAreHonest
    EvidenceIsBacked
PROPERTIES
    RecordsAreFinal
CHECK_DEADLOCK FALSE
