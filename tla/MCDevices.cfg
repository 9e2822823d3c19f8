\* Three identities over four store keys, one operator, up to four requests, one
\* or two failing store writes and a restart; two devices, two subscriptions, two
\* requests at once, one worker and a queue of one.
CONSTANTS
    agg = agg
    dev = dev
    twin = twin
    d1 = d1
    d2 = d2
    r1 = r1
    r2 = r2
    w1 = w1
    NoOne = NoOne
    LFDI = {agg, dev, twin}
    Sfdi <- Shared
    Prefix <- Prefixes
    Provisioned = {agg}
    MaxKey = 4
    Budgets <- Counts
    Operators = {op}
    NewKinds = {"device"}
    Clients = {agg, dev, twin}
    Added = {agg}
    Written = {"frq", "log"}
    InBandOff = FALSE
    MaxRestarts = 1
    None = None
    Devices = {d1, d2}
    Ids = {1, 2}
    Requests = {r1, r2}
    Workers = {w1}
    QueueSize = 1
    SubBudgets <- FiveBudgets
    MaxGen = 2
SPECIFICATION Spec
INVARIANT SubscriptionsKept
PROPERTIES RegistryIsTrue ShutdownEnds
CHECK_DEADLOCK FALSE
