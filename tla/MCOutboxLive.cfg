SPECIFICATION FairSpec
CONSTANTS
  F1 = F1
  F2 = F2
  Ok = Ok
  Done = Done
  Stop = Stop
  Fail = Fail
  W1 = W1
  W2 = W2
  None = None
  Emissions = {Stop, Fail}
  Workers = {W1, W2}
  Kind <- MCKind
  Tool <- MCTool
  BatchSize = 1
  Lease = 1
  Retry = 1
  MaxAttempts = 2
  MaxFaults = 1
  MaxStalls = 2
  MaxOwn = 1
CHECK_DEADLOCK FALSE
INVARIANTS
  OneDebtPerEvent
PROPERTIES
  SettledIsFinal
  KeepsPromise
