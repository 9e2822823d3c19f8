\* Thirty-odd settings, two requests of devices and one of the admin plane,
\* one failing step; two fixture devices and a stranger, two edits and three
\* boots; three starters of one key file and two faults; one device and one
\* manager, two requests at once, seven wirings of the router.
CONSTANTS
    d1 = d1
    d2 = d2
    a1 = a1
    s1 = s1
    s2 = s2
    s3 = s3
    q1 = q1
    q2 = q2
    Settings <- TheSettings
    DeviceRequests = {q1, q2}
    AdminRequests = {a1}
    MaxBootFaults = 1
    Ids = {d1, d2}
    Stranger = s1
    MaxEdits = 2
    MaxBoots = 3
    Starters = {s1, s2, s3}
    FoundFiles <- TheFiles
    MaxKeyFaults = 2
    Devices = {"d1"}
    Managers = {"m1"}
    Calls = {q1, q2}
    Wirings <- TheWirings
    RouteBudgets <- TheRouteBudgets
SPECIFICATION Spec
INVARIANTS ServesWhole FixtureIsKept OneAdminKey RoutesAreTrue
PROPERTY SignalEnds
CHECK_DEADLOCK FALSE
