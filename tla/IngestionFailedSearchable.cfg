SPECIFICATION Spec
CONSTANTS
    NumDocs = 1
    Workers = {w1}
    MaxAttempts = 1
    MaxChunks = 1
    Faults = {"crash"}
INVARIANT FailedNotSearchable
