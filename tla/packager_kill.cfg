SPECIFICATION Spec
CONSTANTS
  Workers = {w1, w2}
  Renditions = {r1, r2}
  Probed = probed
  MayBeLegacy = {}
  Tiers = 1
  MaxErrors = 0
  MaxRedeliveries = 0
  MaxKills = 1
  MaxStale = 1
INVARIANTS KillRecovered
CHECK_DEADLOCK FALSE
