SPECIFICATION Spec
CONSTANTS
  j1 = j1
  j2 = j2
  Job = {j1, j2}
  Worker = {w1, w2}
  NoWorker = NoWorker
  MaxStreams = 2
  MaxAttempts <- MCMaxAttempts
  Attempts = 2
  Attempts1 = 2
  w1 = w1
  Concurrency = {1, 2}
  Concurrency1 = {1}
  AttemptCap = 3
  BatchMax = 2
  ChannelSize = 1
  ClaimBatch = 2
  ReuseIds = FALSE
  Offers <- MCOffers
  Limit <- MCLimit
  Breaks = 0
  Crashes = 0
  DbErrors = 1
  AckErrors = 0
  Retries = 1
  Cancels = 1
  Updates = 1
SYMMETRY JobSymmetric
INVARIANTS ExactlyOneCopy SlotsMatchWork ConcurrencyRespected
PROPERTY ImplementsLifecycle
