SPECIFICATION Spec
CONSTANTS
  e1 = e1
  e2 = e2
  body = body
  answer = answer
  Events = {e1, e2}
  Envelopes <- Sharing
  RuleOutcomes <- Mixed
INVARIANTS
  RuleLevelKept
\* Every event may be done, with no alert left to dispose of.
CHECK_DEADLOCK FALSE
