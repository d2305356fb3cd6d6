\* Two viewers come and go while three laps are sent; Redis answers, or fails anywhere.
CONSTANTS
  v1 = v1
  v2 = v2
  b1 = b1
  b2 = b2
  None = None
  Viewers <- TwoViewers
  Broadcasters <- TwoBroadcasters
  MaxLaps = 3
SPECIFICATION FairSpec
INVARIANTS ViewersAreRegistered OneListener NoLapSkipped
PROPERTIES EveryViewerIsSent
CHECK_DEADLOCK FALSE
