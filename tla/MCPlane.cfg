\* The federate: two topics, two goroutines that step and two that close.
\* One panel, two requests; two streams over one slot and a queue of one
\* event; two column sources and two pages at once; two callers of the plane.
CONSTANTS
    p1 = p1
    r1 = r1
    r2 = r2
    s1 = s1
    s2 = s2
    t1 = t1
    t2 = t2
    c1 = c1
    c2 = c2
    Topics = {t1, t2}
    Steppers = {s1, s2}
    Closers = {c1, c2}
    FedBudgets <- TheFedBudgets
    Panels = {p1}
    PanelShapes <- ThePanelShapes
    Fields = {"f"}
    Requests = {r1, r2}
    ActionBurst = 2
    PanelBudgets <- ThePanelBudgets
    Streams = {s1, s2}
    MaxOpen = 1
    QueueEvents = 1
    EventIds = 3
    StreamBudgets <- TheStreamBudgets
    Sources = 2
    Pages = {p1, r1}
    ColumnLists <- TheColumnLists
    MaxSourceCalls = 2
    MaxPages = 3
    MaxSourceFaults = 1
    Callers = {c1, c2}
    Scenarios <- TheScenarios
    PlaneConfigs <- ThePlaneConfigs
    MaxSessions = 1
    SessionIdle = 2
    SessionAbs = 3
    TicketTTL = 1
    MaxClock = 3
    MaxIssued = 2
SPECIFICATION Spec
SYMMETRY Interchangeable
INVARIANTS FederateIsOrderly PanelsAccounted ColumnsKeepUp AccessIsBounded
CHECK_DEADLOCK FALSE
