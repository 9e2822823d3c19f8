\* One operator, three kinds of request, two attempts of the fallback, one
\* delete, two failing store operations and one restart.
CONSTANTS
    Operators = {op1}
    Asks = {"window", "none", "zero"}
    RetryAttempts = 2
    MaxDeletes = 1
    MaxFaults = 2
    MaxRestarts = 1
SPECIFICATION SceneSpec
INVARIANTS CancelSettles RequestIsKept
PROPERTY ResponseNeverReplaced
CHECK_DEADLOCK FALSE
