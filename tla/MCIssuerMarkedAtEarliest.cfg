CONSTANTS
    Scopes = {1}
    Callers = {p}
    p = p
    Batches <- SequenceBatches
    StartLead = 3
    MaxTime = 1
    MaxEvents = 3
    MaxFaults = 0
    MaxCrashes = 0
SPECIFICATION IssuerSpec
INVARIANTS
    MarkedAtEarliest
CHECK_DEADLOCK FALSE
