CONSTANTS
  NTHREAD = 6
  NPROCESS = 4
  NSTACK = 4
  MaxExec = 1
  None = None

SPECIFICATION StacksSpec

INVARIANTS
  SelfChecksHold
  OwnStack
  OwnAddressSpace
  GsByParity
  IInv
  StacksOwned

PROPERTIES
  RoundRobin
  LeftForGood
  ImplementsLifecycle
  StacksSuffice
