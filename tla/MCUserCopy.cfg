CONSTANTS
  PageSize = 2
  NPAGE = 6
  UserTop = 3
  StatusBytes = 2
  PrintLimit = 3
  NCHILD = 2
  Text <- MCText

SPECIFICATION Spec

INVARIANTS
  CopyInv

PROPERTIES
  StatusToldOrLost
  WritesStatusOnly
  PrintsOwnText

\* The kernel may stop.
CHECK_DEADLOCK FALSE
