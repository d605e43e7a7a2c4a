SPECIFICATION Spec
CONSTANTS
  Workers = {w1, w2}
  NoWorker = NoWorker
  Renditions = {r1}
  r1 = r1
  NoRendition = NoRendition
  Fields = {poster, master}
  poster = poster
  master = master
  Log <- MCLog
  MaxCrashes = 2
  MaxEvictions = 2
INVARIANTS OffsetsAreProjected RowReflectsLogs
PROPERTIES IdsAppearInOrder ImplementsReadModel
CHECK_DEADLOCK FALSE
