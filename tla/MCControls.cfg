\* Two devices, up to three controls, two callers, two faults and a crash at
\* the issuer; two controls, two operators and two fleets at the desk; two
\* devices under two aggregators on the timeline; three readings of six legs, two
\* viewers of two charts.
CONSTANTS
    p = p
    q = q
    o1 = o1
    o2 = o2
    f1 = f1
    f2 = f2
    k1 = k1
    k2 = k2
    v1 = v1
    v2 = v2
    NoEntry = NoEntry
    Scopes = {1, 2}
    Callers = {p, q}
    Batches <- TheBatches
    StartLead = 2
    MaxTime = 2
    MaxEvents = 3
    MaxFaults = 2
    MaxCrashes = 1
    Controls = {"c1", "c3"}
    FsaControls = {"c3"}
    Operators = {o1, o2}
    Fleets = {f1, f2}
    Named = {"n1"}
    RspSets <- ControlSets
    CtlBudgets <- TheCtlBudgets
    TlDevices = {"d1", "d2"}
    TlAggregators <- TheAggregators
    TlStarts <- TheTlStarts
    TlBudgets <- TheTlBudgets
    CacheKeys = {k1, k2}
    Viewers = {v1, v2}
    CacheTTL = 1
    MaxCacheTime = 1
    Legs <- SixLegs
    Samples <- FewSamples
    HoldFor = 2
    ChartBounds <- TwoBuckets
    MaxSamples = 3
    Unmapped = Unmapped
SPECIFICATION Spec
SYMMETRY Interchangeable
INVARIANTS UndoIsWhole IssuerIsOrderly ControlsAccounted TimelineIsTrue FiguresAreTrue
PROPERTY CancelStays
CHECK_DEADLOCK FALSE
