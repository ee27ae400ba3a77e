CONSTANTS
  TASK_MAX = 4
  QueueMax = 3

SPECIFICATION FairSpec

INVARIANTS
  SleepsOnlyWhenIdle
  IInv

PROPERTIES
  QuietDrains

\* A panic stops the kernel.
CHECK_DEADLOCK FALSE
