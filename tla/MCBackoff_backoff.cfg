SPECIFICATION Spec
CONSTANTS
  Id = {i1}
  Caller = {c1}
  Key = {k1}
  NoKey = NoKey
  NoId = NoId
  NoRow = NoRow
  NoRaw = NoRaw
  Asked <- MCAsked
  Default <- MCDefault
  Settings = {"sqlite"}
  Bits = 10
  Second = 10
  NoDelay = NoDelay
  Builds = {"release"}
  Budgets <- MCBudgets

PROPERTY FailedIsRetried
CHECK_DEADLOCK FALSE
