SPECIFICATION Spec
CONSTANTS
    Requests = {r1, r2}
    Queries = {q1, q2, q3, q4}
    MetaQueries = {q1}
    MetadataQueries = {q2}
    ClearQueries = {q3}
    LlmRoutes = {"LOOKUP", "GLOBAL"}
    QueryCacheSize = 1
    SubQueries = {s1, s2, s3, s4}
    MaxSubQueries = 2
    MaxUnits = 1
    MaxHopUsage = 1
    RecursionLimit = 3
    MaxCostUnits = 3
    Askers = {a1, a2}
    Totals = {0, 1, 8}
    BatchSize = 2
    GuardSize = 2
    MaxDocuments = 7
    DecidedRoutes = {"LOOKUP", "GLOBAL"}
    SpeculativeRoute = "LOOKUP"
    MaxCancels = 2
    SectionCounts = {1, 2, 3, 4, 5}
    SummaryBatchSize = 2
    SummaryConcurrency = 2
    Turns = {t1, t2, t3}
INVARIANTS
    RoutesAreRight
    HopsAreRight
    SummariesAreTrue
    RunIsClean
    SummaryIsRight
    MessagesAreRight
PROPERTIES
    RequestsAreRouted
    HopsAreKept
    SummariesAreAnswered
    DocumentsAreSummarized
\* A turn, a summary, a run of the executor ends.
CHECK_DEADLOCK FALSE
