SPECIFICATION Spec
CONSTANTS
  opener = opener
  blue = blue
  red = red
  other = other
  secret = secret
  S1 = S1
  S2 = S2
  MaxTraces = 3
  Clients <- MCClients
  ExternalIds = {S1, S2}
  Secrets = {secret}
  Redacted = Redacted
  Standing = {blue, red}
  Window = 2
  NoId = NoId
  NoBody = NoBody
  NoRow = NoRow
  NoSession = NoSession
  MaxCalls = 2
  MaxOrphans = 1
  MaxBackfills = 0
INVARIANT DivergentApart
SYMMETRY Symmetry
CHECK_DEADLOCK FALSE
