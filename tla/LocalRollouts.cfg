\* A queue of two rollouts of up to two steps; the time limit cuts episodes in
\* the middle of a rollout.
CONSTANTS
  QueueSize = 2
  LocalSteps = 2
  NumGlobalSteps = 6
  TimestepLimit = 3
  MaxProduced = 7
SPECIFICATION FairSpec
INVARIANTS
  EachStepOnce
  Bootstrapped
  PolicyLag
PROPERTIES
  TerminalIsTrained
CHECK_DEADLOCK FALSE
