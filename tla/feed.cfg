CONSTANTS
  Viewers = {v}
  Guests = {v}
  PollLoop = PollLoop
  ZoneEdits = {z}
  Requests = {q}
  Nobody = Nobody
  MaxStamp = 1
  MaxRequests = 1
SPECIFICATION FairSpec
INVARIANTS
  FeedTypeOK
  FramesInStoreOrder
  LoopFollowsViewers
PROPERTIES
  ViewersCatchUp
  PollingStops
  StreamsEnd
  ShutdownCompletes
CHECK_DEADLOCK FALSE
