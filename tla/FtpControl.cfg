SPECIFICATION ControlSpec
CONSTANTS
  LineSize = 5
  NameSize = 3
  MaxStream = 6
  Dir = {d1, d2}
  Rel = rel
  None = none
  LongDir = {d2}
  Name = {"a", "ab"}
  Place <- MCPlace
  Root <- MCRoot
  PathMax = 9
  MaxDepth = 2
  MaxParts = 3
INVARIANTS
  LinesAreExact
  NoSocketLeak
  ReadyMeansIdle
  
  PendingUsedOnce
  
