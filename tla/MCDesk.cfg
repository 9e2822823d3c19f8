SPECIFICATION Spec
CONSTANTS
    g1 = g1
    g2 = g2
    v1 = v1
    v2 = v2
    CopyDevices = {"d1", "d2"}
    CopyTemplates = {"t1"}
    OwnPrograms = {"p1"}
    OnlyPrograms = {"q1"}
    ProgramBodies = {"x", "y"}
    IntMax = 5
    DurMax = 3
    MaxMultiplier = 3
    Asked <- TheAsked
    Bodies <- TheBodies
    Targets <- TheTargets
    Spans <- TheSpans
    Fleet = "f"
    MaxExecs = 3
    Bases = {1, 2}
    CopyBudgets <- TheCopyBudgets
    Aggregators = {g1, g2}
    GridDevices = {v1, v2}
    ShareIds = {1, 2, 3, 4}
    Slots <- TheSlots
    MaxRows = 2
    MaxEvents = 2
    LastTick = 2
    DeskBudgets <- TheDeskBudgets
    NoFleet = NoFleet
    o1 = o1
    o2 = o2
    Requests = {"q1"}
    Callers = {o1, o2}
    MaxRevs = 2
    Ends = {1, 2}
    Grace = 1
    MaxNow = 3
    MaxCancelPasses = 2
    ResvBudgets <- TheResvBudgets
SYMMETRY Interchangeable
INVARIANTS CopiesAccounted DecisionsFit
PROPERTIES GridIsOrderly ReservationsAccounted
CHECK_DEADLOCK FALSE
