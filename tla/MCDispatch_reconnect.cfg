SPECIFICATION FairSpec
CONSTANTS
  j1 = j1
  j2 = j2
  Job = {j1}
  Worker = {w1}
  NoWorker = NoWorker
  MaxStreams = 2
  MaxAttempts <- MCMaxAttempts
  Attempts = 1
  Attempts1 = 2
  w1 = w1
  Concurrency = {1}
  Concurrency1 = {1}
  AttemptCap = 6
  BatchMax = 2
  ChannelSize = 2
  ClaimBatch = 2
  ReuseIds = TRUE
  Offers <- MCOffers
  Limit <- MCLimit
  Breaks = 1
  Crashes = 0
  DbErrors = 0
  AckErrors = 0
  Retries = 0
  Cancels = 0
  Updates = 0
PROPERTY EventuallySettled
CHECK_DEADLOCK FALSE
