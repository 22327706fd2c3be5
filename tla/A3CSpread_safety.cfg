\* Three workers, a sync at every second step, up to the second sync.
CONSTANTS
  Workers = {w0, w1, w2}
  Leader = w0
  SyncFrequency = 2
  MaxSteps = 5
SPECIFICATION Spec
INVARIANTS
  CommonStart
  DiffsAligned
  DriftBounded
  DiffsTile
CHECK_DEADLOCK FALSE
