SPECIFICATION Spec
CONSTANTS
  F1 = F1
  F2 = F2
  Ok = Ok
  Done = Done
  Stop = Stop
  Fail = Fail
  W1 = W1
  W2 = W2
  None = None
  Emissions = {F1, F2, Ok, Done}
  Workers = {W1, W2}
  Kind <- MCKind
  Tool <- MCTool
  BatchSize = 2
  Lease = 1
  Retry = 1
  MaxAttempts = 2
  MaxFaults = 1
  MaxStalls = 1
  MaxOwn = 0
SYMMETRY Symmetry
CHECK_DEADLOCK FALSE
INVARIANTS
  SettledForAReason
  SettlesPerDelivery
  InOrder
