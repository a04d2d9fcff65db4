SPECIFICATION ThreadSpec
CONSTANTS
    Clients = {c1}
    Strategies = {"SEARCH"}
    MaxToolCalls = 1
    MaxTokens = 1
    MaxRequests = 2
    MaxUsage = 1
    BranchUsage = {5}
    MaxTurns = 2
INVARIANTS
    HistoryAccepted
\* Nothing happens after the last turn.
CHECK_DEADLOCK FALSE
