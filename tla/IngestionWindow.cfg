SPECIFICATION RegimeSpec
CONSTANTS
    NumDocs = 2
    Workers = {w1, w2}
    MaxAttempts = 3
    MaxChunks = 3
    Faults = {"db", "ambiguous"}
SYMMETRY WorkerSymmetry
INVARIANTS
    SearchableWindow
    QuietWakeups
