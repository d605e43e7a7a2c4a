SPECIFICATION MCFairSpec
CONSTANTS
  Videos = {v1, v2}
  NoVideo = NoVideo
  Requests = {r1, r2}
  Sizes = {"declared", "oversize"}
  MaxInFlight = 1
  MaxAborts = 1
  Streams = {s1, s2, s3}
  MaxStreams = 2
INVARIANTS PublishedRowStays OnePublisher PublishedUnlessAborted PublishedObjectIsThere SlotsAreHeld
PROPERTIES DeadUploadsLeave
CHECK_DEADLOCK FALSE
