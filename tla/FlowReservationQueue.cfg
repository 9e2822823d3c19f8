\* A request with a window, two attempts of the fallback, one delete, one
\* failing store operation and one restart.
CONSTANTS
    Operators = {}
    Asks = {"window"}
    RetryAttempts = 2
    MaxDeletes = 1
    MaxFaults = 1
    MaxRestarts = 1
SPECIFICATION FairSpec
PROPERTY EveryRequestAnswered
CHECK_DEADLOCK FALSE
