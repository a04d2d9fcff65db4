SPECIFICATION Spec
CONSTANTS
    NumDocs = 1
    Workers = {w1, w2, w3}
    MaxAttempts = 3
    MaxChunks = 2
    Faults = {"crash", "db", "cleanup"}
SYMMETRY WorkerSymmetry
INVARIANT IndexedIsSearchable
