SPECIFICATION FairSpec
CONSTANTS
  n1 = n1
  n2 = n2
  Schedule = {s1}
  CronExpr <- MCCronExpr
  NextCronTime <- MCNextCronTime
  Node = {n1, n2}
  NoNode = NoNode
  Request = {r1}
  PollInterval = 2
  TriggerMax = 1
  Horizon = 4
  Settings <- MCSettings
INVARIANTS TypeOK LockedStaysDue OneJobPerOccurrence NeverEarly LatenessBounded
PROPERTIES PausedIsQuiet DeletedForGood DueIsTriggered
