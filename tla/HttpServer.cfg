SPECIFICATION Spec
CONSTANTS
  NSlots = 2
  NFds = 2
  Cap = 3
  Chunk = 2
  Request <- MCRequest
INVARIANTS
  
  ClosesOwn
  PoolAccounts
  
 
