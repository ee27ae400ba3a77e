CONSTANTS
  PageSize = 2
  TableSpan = 3
  NPAGE = 54
  StackPages = 2
  FileSize = 3
  MaxHeaders = 2
  MaxSbrk = 5
  Headers <- MCHeaders

SPECIFICATION Spec

INVARIANTS
  ImageIsFile
  ImageInv
  HeapIsOpen
