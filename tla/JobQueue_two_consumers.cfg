SPECIFICATION Spec
CONSTANTS
    Jobs = {1, 2}
    Workers = {w1, w2}
    None = None
    Priority <- MCPriority
    MaxAttempts <- MCMaxAttempts
    Discovery = {}
    Poison = {}
    Cancellable = {}
    SkipLocked = FALSE
    MaxFaults = 0
INVARIANT
    RetryBudget
CHECK_DEADLOCK FALSE
