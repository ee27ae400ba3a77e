CONSTANTS
  MaxArgc = 3
  MaxArgLen = 8
  ExecMaxArgc = 3
  ExecMaxArgLen = 8
  StackTop = 160
  StackBytes = 128
  Char <- MCChar
  Requests <- MCRequests

SPECIFICATION Spec

INVARIANTS
  ArgsArrive
  PanicsAtLimit
  IInv

CHECK_DEADLOCK FALSE
