\* Two actors, a queue of one rollout of up to two steps.
CONSTANTS
  Actors = {a1, a2}
  QueueSize = 1
  LocalSteps = 2
  NumGlobalSteps = 4
  MaxProduced = 3
SPECIFICATION Spec
SYMMETRY Symmetry
INVARIANTS
  TrainedInOrder
  LastEndsBatch
CHECK_DEADLOCK FALSE
