\* Three peers, three rounds.
CONSTANTS
  Peers = {p1, p2, p3}
  NumRounds = 3
SPECIFICATION FairSpec
INVARIANTS
  RoundAligned
  QueueBounded
  QueueDrained
PROPERTIES
  Lockstep
  Termination
CHECK_DEADLOCK FALSE
