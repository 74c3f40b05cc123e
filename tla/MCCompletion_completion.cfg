SPECIFICATION FairSpec
CONSTANTS
  j1 = j1
  Job = {j1}
  c1 = c1
  c2 = c2
  c3 = c3
  Client = {c1, c2, c3}
  Kind <- MCKind
  Workers = {c1}
  h1 = h1
  h2 = h2
  h3 = h3
  h4 = h4
  Handle = {h1, h2, h3}
  ClientOf <- MCClientOf
  JobOf <- MCJobOf
  Gone = Gone
  MaxAttempts <- MCMaxAttempts
  Attempts = 2
  AttemptCap = 4
  BatchMax = 2
  Budgets <- MCBudgets
  Combinations = {{"break", "cancel"}, {"crash"}, {"takeback", "db"}, {"break", "retry"}, {"again", "timeout"}}
INVARIANTS TypeOK NoForgottenSubscriber ToldWasTrue
PROPERTY EveryCallReturns
CHECK_DEADLOCK FALSE
