SPECIFICATION LiveSpec
CONSTANTS
  c1 = c1
  c2 = c2
  Calls = {c1, c2}
  Ways = {"event", "gateway", "engine"}
  Inputs <- MCInputs
  Reviewed <- MCReviewed
  NoCall = NoCall
  MaxTrouble = 2
INVARIANTS
  CountersMatch
  EscalationAlerted
  SessionAlertKept
  ProjectionComplete
  RetoldOnlyIfMoved
PROPERTY
  VerdictSettles
CHECK_DEADLOCK FALSE
