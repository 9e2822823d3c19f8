\* Two readings of one mirror, or one each of two, with a fault and a crash;
\* two parents, ids, mRIDs and writers of a snapshot store; two FSAs, devices,
\* templates and mRIDs; two DERs.
CONSTANTS
    Keys <- TheKeys
    MaxTime = 2
    MaxLines = 4
    MaxFaults = 1
    MaxCrashes = 1
    SnapParents = {1, 2}
    SnapIds = {a, b}
    SnapMRIDs = {m, n}
    SnapWriters = {w1, w2}
    SnapBudgets <- TheSnapBudgets
    NoRec = NoRec
    Fsas = {f1, f2}
    FsaDevices = {d1, d2}
    Aggregators = {a1}
    ProgramHrefs = {p1}
    TemplateIds = {t1, t2}
    ControlIds = {c1}
    MRIDs = {m1, m2}
    FsaBudgets <- TheFsaBudgets
    DerKeys <- TheDerKeys
    Contents <- TheContents
    PollRate = 1
    MaxSeconds = 3
    SinceBudgets <- TheSinceBudgets
SPECIFICATION Spec
SYMMETRY Interchangeable
INVARIANTS SnapshotKeeps SinceIsTrue
PROPERTIES JournalKeeps FsaStoreKept
CHECK_DEADLOCK FALSE
