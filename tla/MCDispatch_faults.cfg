SPECIFICATION Spec
CONSTANTS
  j1 = j1
  j2 = j2
  Job = {j1}
  Worker = {w1, w2}
  NoWorker = NoWorker
  MaxStreams = 2
  MaxAttempts <- MCMaxAttempts
  Attempts = 1
  Attempts1 = 1
  w1 = w1
  Concurrency = {1}
  Concurrency1 = {1}
  AttemptCap = 2
  BatchMax = 2
  ChannelSize = 1
  ClaimBatch = 2
  ReuseIds = TRUE
  Offers <- MCOffers
  Limit <- MCLimit
  Breaks = 2
  Crashes = 1
  DbErrors = 1
  AckErrors = 1
  Retries = 1
  Cancels = 0
  Updates = 0
SYMMETRY WorkerSymmetric
INVARIANTS TypeOK RunningIsTracked AttemptBudget NoZombieRegistration
CHECK_DEADLOCK FALSE
