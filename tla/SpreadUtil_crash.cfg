\* Two peers talk at once and a third one listens; one of those who talk is
\* killed and started again, and START is sent twice.
CONSTANTS
  p1 = p1
  p2 = p2
  p3 = p3
  Peers <- ThreePeers
  Starter = starter
  MsgLimit <- TwoAndOne
  MaxChunks = 2
  MaxStarts = 2
  MaxCrashes = 1
SPECIFICATION Spec
CONSTRAINTS
  OneListens
  OneCrashes
INVARIANTS
  TypeOK
  DeliveredExactly
PROPERTIES
  WholeMessages
CHECK_DEADLOCK FALSE
