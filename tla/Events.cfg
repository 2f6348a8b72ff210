SPECIFICATION FairSpec
CONSTANTS
  w1 = w1
  w2 = w2
  Writers <- MCWriters
  Agent = Agent
  MaxEvents <- MCEvents
  Outputs <- MCOutputs
  QueueCap = 1
  MaxRetries = 1
  MaxConflicts = 2
  MaxFaults = 1
INVARIANTS EventsTypeOK LogInOrder SuccessMeansRecorded StreamIsComplete
PROPERTIES EverythingSettles
CHECK_DEADLOCK FALSE
