SPECIFICATION LiveSpec
CONSTANTS
  e1 = e1
  e2 = e2
  Events = {e1}
  Envelopes <- Requests
  Incomplete = {}
  Realtime = {}
  RuleOutcomes <- Clean
  RuleWorkers = {r1}
  Reviewers = {v1}
  Admins = {}
  Nobody = nobody
  QueueLimit = 4
  FaultPoints = {"read", "handler"}
  MaxFaults = 1
  MaxCrashes = 0
PROPERTIES
  Settles
\* Every event may be settled, with no retry to make.
CHECK_DEADLOCK FALSE
