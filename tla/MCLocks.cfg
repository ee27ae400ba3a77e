CONSTANTS
  NTHREAD = 3
  MaxFrames = 3

SPECIFICATION LocksFairSpec

INVARIANTS
  LocksInv
  KnownDeadlocks

PROPERTIES
  BootEnds
  HeapComesFree

\* A handler that spins on a lock spins for ever.
CHECK_DEADLOCK FALSE
