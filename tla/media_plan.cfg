SPECIFICATION Spec
CONSTANTS
  Files <- MCFiles
  NoDuration = NoDuration
  Malformed = Malformed
  OtherLadders <- MCOtherLadders
INVARIANTS LadderSuitsTheViewer CuesTileTheClip MasterIsByBandwidth
CHECK_DEADLOCK FALSE
