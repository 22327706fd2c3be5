SPECIFICATION Spec
CONSTANTS
  NumDaemons = 3
  Packets <- MCPackets
  Ahead = {2}
  MaxAttempts = 2
  MaxRequests = 1
INVARIANTS
  CountedNoAlarm
  CountedSynchrony
  CountedSafe
  SelfDelivery
  CountedCausal
  InstalledTogether
CHECK_DEADLOCK FALSE
