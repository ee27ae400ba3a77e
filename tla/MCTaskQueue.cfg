CONSTANTS
  TASK_MAX = 4
  QueueMax = 3

SPECIFICATION Spec

INVARIANT TaskQueueHasRoom

\* A panic stops the kernel.
CHECK_DEADLOCK FALSE
