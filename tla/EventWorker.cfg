SPECIFICATION LiveSpec
CONSTANTS
  e1 = e1
  e2 = e2
  Events = {e1, e2}
  Envelopes <- All
  Incomplete = {e2}
  Realtime = {e1}
  RuleOutcomes <- Mixed
  RuleWorkers = {r1, r2}
  Reviewers = {v1}
  Admins = {a1}
  Nobody = nobody
  QueueLimit = 1
  FaultPoints = {"lookup", "read", "evaluate", "review", "commit", "delete"}
  MaxFaults = 3
  MaxCrashes = 1
INVARIANTS
  TypeOK
  HitAlerted
  BodyKept
  CompletedIsReviewed
  OneWorker
  LateRequestLinked
PROPERTIES
  CompletedForGood
  RulesOnce
  Settles
\* Every event may be settled, with no retry to make.
CHECK_DEADLOCK FALSE
