CONSTANTS
  c1 = c1
  c2 = c2
  c3 = c3
  Daemons <- Three
  Clients = {c1, c2, c3}
  Home <- MCHome
  Rings0 <- TwoAndOne
  Joined0 = {c1, c3}
  Calls <- SomeCalls
  Parts = 1
  MaxRings = 4
  MaxEvents = 1
  MayCrash = {1}
SPECIFICATION Spec
INVARIANTS
  NoGroupsAlarm
  Agreement
  SyncedSets
  OwnVsSet
  Concludes
CHECK_DEADLOCK FALSE
