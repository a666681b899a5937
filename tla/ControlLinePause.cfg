SPECIFICATION LineSpec
CONSTANTS
  LineSize = 5
  NameSize = 3
  MaxStream = 4
INVARIANT LineIsComplete
