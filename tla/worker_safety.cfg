SPECIFICATION Spec
CONSTANTS
  Workers = {w1, w2}
  Partitions = {p1, p2}
  p1 = p1
  p2 = p2
  NoWorker = NoWorker
  LogLength = 2
  TierDelays <- MCTiers
  Payload <- MCMixed
  RetryCount <- MCRetryCount
  RetryablePartitions = {p1}
  SubscribesToFailed = FALSE
  DeliveryMayFail = FALSE
  MaxFaults = 1
INVARIANTS TypeOK NoLoss NothingSkipped DeadLettersAnnounced
PROPERTIES ImplementsAtLeastOnce
SYMMETRY WorkersAlike
CHECK_DEADLOCK FALSE
