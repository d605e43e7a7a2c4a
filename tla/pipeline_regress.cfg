SPECIFICATION Spec
CONSTANTS
  Ladder = {r360}
  NoRendition = NoRendition
  MaxLag = 1
  MaxFaults = 0
PROPERTY CompletedStays
CHECK_DEADLOCK FALSE
