\* The actor may end at any point; an environment that resets by itself, and a
\* time limit at which it is reset by command.
CONSTANTS
  LocalSteps = 3
  TimestepLimit = 4
  Autoreset = TRUE
  MaxObs = 9
  MaxStale = 3
  MayCrash = TRUE
SPECIFICATION FairSpec
INVARIANTS
  Paired
  TakingTurns
PROPERTIES
  KeepsPlaying
  OrphanEnds
CHECK_DEADLOCK FALSE
