\* Two peers talk at once; liveness.
CONSTANTS
  p1 = p1
  p2 = p2
  p3 = p3
  Peers <- TwoPeers
  Starter = starter
  MsgLimit <- OneEach
  MaxChunks = 2
  MaxStarts = 1
  MaxCrashes = 0
SPECIFICATION FairSpec
PROPERTIES
  Delivery
  StopReturns
CHECK_DEADLOCK FALSE
