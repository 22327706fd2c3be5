\* Does the wait for the messages of the others end?
CONSTANTS
  Workers = {w0, w1}
  Leader = w0
  SyncFrequency = 1
  MaxSteps = 3
SPECIFICATION FairSpec
PROPERTIES
  MessagesHandled
CHECK_DEADLOCK FALSE
