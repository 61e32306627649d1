SPECIFICATION Spec
CONSTANTS
  Capacity = 2
  MaxPop = 2
  MaxEvents = 5
INVARIANT NoEventTwice
