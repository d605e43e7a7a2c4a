SPECIFICATION FairSpec
CONSTANTS
  Renditions = {r1}
  r1 = r1
  NoRendition = NoRendition
  Fields = {}
  Log <- MCLog
  MaxFaults = 1
INVARIANTS DeltasHaveNoGap EndIsCovered FinishedPageShowsTheEnd
PROPERTIES EveryDeltaArrives PageComesToRest
CHECK_DEADLOCK FALSE
