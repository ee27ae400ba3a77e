CONSTANTS
  NTHREAD = 4
  NPROCESS = 4
  MaxExec = 1
  None = None

SPECIFICATION FairSpec

PROPERTIES
  RunnableRuns
  WaitReturns
  KilledDies
