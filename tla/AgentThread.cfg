SPECIFICATION ThreadSpec
CONSTANTS
    Clients = {c1, c2}
    Strategies = {"SEARCH", "ROUTED"}
    MaxToolCalls = 1
    MaxTokens = 1
    MaxRequests = 2
    MaxUsage = 1
    BranchUsage = {5}
    MaxTurns = 3
SYMMETRY ClientSymmetry
INVARIANTS
    TypeOK
    ToolBudget
    TokenBudget
    TurnBounded
    RoutedHistoryIsAccepted
    AnswerRecorded
PROPERTY ThreadRemembersTurns
\* Nothing happens after the last turn.
CHECK_DEADLOCK FALSE
