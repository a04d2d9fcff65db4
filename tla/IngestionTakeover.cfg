SPECIFICATION FairSpec
CONSTANTS
    NumDocs = 1
    Workers = {w1, w2}
    MaxAttempts = 2
    MaxChunks = 1
    Faults = {"crash", "slow", "db", "ambiguous", "cleanup"}
PROPERTY EventuallyFinished
