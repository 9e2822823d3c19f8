\* The most any scene needs: two requests, two controls, two revisers, chains
\* of three responses, four responses in all, two passes of a cancel, two
\* failing store operations and one crash.
CONSTANTS
  q1 = q1
  q2 = q2
  c1 = c1
  c2 = c2
  Requests = {q1, q2}
  Revisable = {q1}
  Controls = {c1, c2}
  Windows <- TwoSlots
  Revisions <- TwoSlotsOrDenial
  Revisers = {"reviser", "reviser2"}
  MaxIds = 3
  MaxMRIDs = 4
  MaxPasses = 2
  MaxFaults = 2
  MaxCrashes = 1
SPECIFICATION SceneSpec
SYMMETRY Interchangeable
INVARIANTS NeverDoubleBooked ExecutionsHaveLiveGrant ChainsAreOrderly
PROPERTIES KeepsCalendar RecoveryCancelsWithdrawn
CHECK_DEADLOCK FALSE
