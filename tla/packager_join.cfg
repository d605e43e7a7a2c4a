SPECIFICATION FairSpec
CONSTANTS
  Workers = {w1, w2}
  Renditions = {r1, r2}
  Probed = probed
  MayBeLegacy = {r1}
  Tiers = 1
  MaxErrors = 1
  MaxRedeliveries = 1
  MaxKills = 1
  MaxStale = 1
INVARIANTS CopyFindsItsUpload
PROPERTIES ImplementsFanIn AnnouncedInTheEnd
CHECK_DEADLOCK FALSE
