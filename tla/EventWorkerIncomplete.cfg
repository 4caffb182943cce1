SPECIFICATION Spec
CONSTANTS
  e1 = e1
  e2 = e2
  Events = {e1}
  Envelopes <- Requests
  Incomplete = {e1}
  Realtime = {}
  RuleOutcomes <- Clean
  RuleWorkers = {r1}
  Reviewers = {v1}
  Admins = {}
  Nobody = nobody
  QueueLimit = 4
  FaultPoints = {}
  MaxFaults = 0
  MaxCrashes = 1
INVARIANTS
  IncompleteNotCleared
\* Every event may be settled, with no retry to make.
CHECK_DEADLOCK FALSE
