CONSTANTS
  HeapSize = 8
  BlockSizes <- MCBlockSizes
  Layouts <- MCLayouts

SPECIFICATION Spec

INVARIANTS
  IInv
  NoSpareBlocks

PROPERTIES
  ImplementsHeap
