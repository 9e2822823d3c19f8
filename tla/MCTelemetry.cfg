\* Two devices, one mirror, two readings series, a cap of one reading; two
\* metered devices over six ticks; six denials of two callers; four log lines of
\* one actor, a file of two; two connections and three exchanges, a queue of
\* two, four records over three units of disk or two of the index.
CONSTANTS
    d1 = d1
    d2 = d2
    m1 = m1
    s1 = s1
    s2 = s2
    r1 = r1
    r2 = r2
    e1 = e1
    e2 = e2
    k1 = k1
    NoMirror = NoMirror
    MirrorDevices = {d1, d2}
    MirrorMRIDs = {m1}
    ReadingMRIDs = {s1, s2}
    MirrorRequests = {r1, r2}
    MaxPerSeries = 1
    MaxAge = 1
    HoldReach = 1
    MirrorBudgets <- MirrorScenarios
    PowerDevices = {e1, e2}
    Hold = 1
    Lead = 2
    Retained = 4
    ChunkBuckets = 2
    PowerBudgets <- PowerScenarios
    DenialCallers = {d1, d2}
    PerCaller = 2
    LineLimit = 3
    DenialWindow = 2
    MaxDenials = 6
    MaxDenialTime = 5
    a1 = a1
    c1 = c1
    c2 = c2
    x1 = x1
    Actors = {a1}
    LogQueueSize = 2
    ParkCap = 3
    FileLines = 2
    MaxOpenFiles = 1
    PageLimit = 1
    ReadSkew = 3
    LogBudgets <- LogScenarios
    NoFile = NoFile
    CapConns = {c1, c2}
    CapAddrs = {x1}
    SinkQueue = 2
    RecBudgets <- RecScenarios
    NoEx = NoEx
    StoreIds = {1, 2, 3, 4}
    WriteQueue = 2
    CapUnits = 3
    SegUnits = 2
    SubBuffer = 1
    Streams = {k1}
    StoreBudgets <- StoreScenarios
    NoSeg = NoSeg
    Peers = {p1, p2}
    ListenFaults = 1
SPECIFICATION Spec
SYMMETRY Interchangeable
INVARIANTS ReadingsKept LogsAreWhole TrafficIsWhole
PROPERTY PowerIsKept
CHECK_DEADLOCK FALSE
