SPECIFICATION FairSpec
CONSTANTS
  Workers = {w1, w2}
  Partitions = {p1}
  p1 = p1
  p2 = p2
  NoWorker = NoWorker
  LogLength = 2
  TierDelays <- MCTiers
  Payload <- MCMixed
  RetryCount <- MCRetryCount
  RetryablePartitions = {p1}
  SubscribesToFailed = FALSE
  DeliveryMayFail = TRUE
  MaxFaults = 1
INVARIANTS OnlyDeliveryLoses
PROPERTIES EveryMessageSettles
CHECK_DEADLOCK FALSE
