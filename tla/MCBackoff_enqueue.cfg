SPECIFICATION FairSpec
CONSTANTS
  Id = {i1, i2, i3}
  Caller = {c1, c2}
  Key = {k1}
  NoKey = NoKey
  NoId = NoId
  NoRow = NoRow
  NoRaw = NoRaw
  Asked <- MCAsked
  Default <- MCDefault
  Settings = {"sqlite", "postgres"}
  Bits = 10
  Second = 10
  NoDelay = NoDelay
  Builds = {"debug", "release"}
  Budgets <- MCBudgets
INVARIANTS TypeOK OneJobPerKey MadeOnce DelayAsPromised ProcessorSurvives
PROPERTY KeyedIsAnswered
CHECK_DEADLOCK FALSE
