SPECIFICATION FairSpec
CONSTANTS
  Ladder = {r360, r720}
  NoRendition = NoRendition
  MaxLag = 1
  MaxFaults = 1
INVARIANTS MasterIsWhole RowIsFilledIn
PROPERTY OutcomeIsVisible
CHECK_DEADLOCK FALSE
