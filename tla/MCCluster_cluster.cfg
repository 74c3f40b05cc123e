SPECIFICATION FairSpec
CONSTANTS
  j1 = j1
  j2 = j2
  Job = {j1, j2}
  n1 = n1
  n2 = n2
  Node = {n1, n2}
  NoBatch = NoBatch
  NoRead = NoRead
  MaxAttempts <- MCMaxAttempts
  Attempts = 2
  AttemptCap = 4
  BatchMax = 2
  Budgets <- MCBudgets
INVARIANTS TypeOK SharedBudget RunningIsHeld OneResult
PROPERTIES SuccessIsFinal EveryJobEnds
CHECK_DEADLOCK FALSE
