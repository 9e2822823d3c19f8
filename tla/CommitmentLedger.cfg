\* One request, one control and one reviser, chains of two responses, two
\* failing store operations and one crash.
CONSTANTS
  Requests = {q1}
  Revisable = {q1}
  Controls = {c1}
  Windows = {{1}, {1, 2}}
  Revisions = {{}, {1}, {1, 2}}
  Revisers = {"reviser"}
  MaxIds = 2
  MaxMRIDs = 3
  MaxPasses = 2
  MaxFaults = 2
  MaxCrashes = 1
SPECIFICATION FairSpec
PROPERTY EveryCallEnds
CHECK_DEADLOCK FALSE
