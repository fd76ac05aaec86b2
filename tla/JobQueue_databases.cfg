SPECIFICATION MCSpec
CONSTANTS
    Jobs = {1, 2, 3, 4}
    Workers = {w1, w2}
    None = None
    Priority <- MCPriority
    MaxAttempts <- MCMaxAttempts
    Discovery = {1}
    Poison = {4}
    Cancellable = {2}
    SkipLocked = TRUE
    MaxFaults = 2
INVARIANTS
    TypeOK
    ClaimIsCurrent
    RetryBudget
PROPERTIES
    SettledStays
    Implements
    JobsSettle
CHECK_DEADLOCK FALSE
