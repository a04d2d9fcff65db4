SPECIFICATION Spec
CONSTANTS
    NumDocs = 1
    Workers = {w1, w2, w3}
    MaxAttempts = 3
    MaxChunks = 1
    Faults = {"crash", "slow", "db", "ambiguous", "cleanup"}
SYMMETRY WorkerSymmetry
INVARIANTS
    TypeOK
    TokensFence
    ErrorsExplain
PROPERTIES
    FinishedIsFinal
    SummaryIsKept
    OnlyHolderFinishes
    ImplementsLifecycle
