SPECIFICATION FairSpec
CONSTANTS
  NumDaemons = 3
  Waiting <- MCWaiting
  Late <- MCLate
  LateServices = {"fifo", "reliable"}
  NumSlots = 1
  SeqGap = 0
  Window = 1
  PersonalWindow = 1
  Accelerated = TRUE
  MaxRequests = 1
  ArqMod = 3
  OldAru = 9
  MaxFaults = 1
INVARIANTS
  NoAlarm
  DiscardedByAll
  WindowKept
PROPERTIES
  DeliverySpec
  AllDelivered
CHECK_DEADLOCK FALSE
