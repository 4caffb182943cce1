SPECIFICATION LiveSpec
CONSTANTS
  c1 = c1
  c2 = c2
  c3 = c3
  Calls = {c1, c2, c3}
  Analysable = {c1, c3}
  Size <- Sizes
  MaxEvents = 2
  MaxBytes = 3
  Nothing = nothing
  MaxFaults = 2
INVARIANTS
  TypeOK
  LossReported
  LoopSurvives
  OrphanLast
PROPERTIES
  AwaitEnds
\* Every call may be over and the gateway stopped.
CHECK_DEADLOCK FALSE
