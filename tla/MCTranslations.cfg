CONSTANTS
  NPROCESS = 3
  NFRAME = 16
  PageSize = 2
  TableSpan = 2
  NPAGE = 6
  ImagePages = 2
  MaxSbrk = 4
  Nobody = Nobody

SPECIFICATION TransSpec

INVARIANTS
  MemoryInv
  StaleAfterShrinkOnly

PROPERTIES
  LostByCopiesOnly
  GrowsWhollyOrNot

VIEW TransShape

\* An overflow in sbrk stops the kernel.
CHECK_DEADLOCK FALSE
