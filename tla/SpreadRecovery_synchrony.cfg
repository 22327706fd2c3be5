SPECIFICATION Spec
CONSTANTS
  NumDaemons = 3
  Packets <- MCPackets
  Ahead = {}
  MaxAttempts = 2
  MaxRequests = 1
INVARIANT VirtualSynchrony
CHECK_DEADLOCK FALSE
