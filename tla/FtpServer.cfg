SPECIFICATION FairSpec
CONSTANTS
  NConns = 3
  NSlots = 2
  CounterMod = 8
INVARIANTS
  DrainedMissesOne
  
  ApartExclusive
  NoLeak

  
