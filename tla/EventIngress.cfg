SPECIFICATION LiveSpec
CONSTANTS
  small = small
  large = large
  huge = huge
  Keys = {k1, k2}
  Contents = {small, large, huge}
  Ids = {i1, i2}
  HttpHandlers = {h1, h2}
  ProxyLoop = {proxy}
  Size <- MCSize
  MaxEventBytes = 2
  MaxBufferBytes = 3
  MaxFaults = 2
  MaxCrashes = 2
INVARIANTS
  TypeOK
  AnsweredIsDurable
  RowsMatchFiles
  BufferAccounted
PROPERTIES
  ImplementsInbox
  ReservationResolved
  BodyReleased
