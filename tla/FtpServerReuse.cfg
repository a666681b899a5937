SPECIFICATION Spec
CONSTANTS
  NConns = 2
  NSlots = 2
  CounterMod = 8
INVARIANT SlotExclusive
