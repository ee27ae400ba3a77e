CONSTANTS
  NTHREAD = 4
  NPROCESS = 4
  MaxExec = 0
  None = None

SPECIFICATION Spec

INVARIANT SchedulerGsIsUser
