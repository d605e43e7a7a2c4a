SPECIFICATION Spec
CONSTANTS
  Renditions = {r1}
  r1 = r1
  NoRendition = NoRendition
  Fields = {}
  Log <- MCLog
  MaxFaults = 0
INVARIANT NothingLost
CHECK_DEADLOCK FALSE
