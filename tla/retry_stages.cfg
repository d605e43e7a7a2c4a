SPECIFICATION FairSpec
CONSTANTS
  Events <- MCEvents
  Occurred <- MCOccurred
  Laddered <- MCLaddered
  Readers <- MCReaders
  Outcomes <- MCOutcomes
  TierDelays <- MCTiers
  Requested = Requested
  Probed = Probed
  Completed = Completed
  Repeated = Repeated
  Failed = Failed
  NoCopy = NoCopy
  Workers = {w1, w2}
  Thumbnailers = {t1, t2}
  StaleAfter = 2
  MaxBacklog = 1
  MaxWork = 2
  MaxFaults = 2
  MaxTime = 5
INVARIANTS AnnouncedIsThere OneEncoderAtATime LadderOutlastsTheClaim ThumbnailsAreThere OutageOutlasted
PROPERTIES LadderEmptiesInTime AnnouncedInTheEnd ThumbnailsInTheEnd EveryOutcomeTold
CHECK_DEADLOCK FALSE
