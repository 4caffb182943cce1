SPECIFICATION Spec
CONSTANTS
  e1 = e1
  e2 = e2
  Events = {e1}
  Envelopes <- Requests
  Incomplete = {}
  Realtime = {}
  RuleOutcomes <- Clean
  RuleWorkers = {r1}
  Reviewers = {v1}
  Admins = {a1}
  Nobody = nobody
  QueueLimit = 4
  FaultPoints = {"read"}
  MaxFaults = 3
  MaxCrashes = 1
INVARIANTS
  PendingIsDue
\* Every event may be settled, with no retry to make.
CHECK_DEADLOCK FALSE
