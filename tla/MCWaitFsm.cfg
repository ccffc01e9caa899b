SPECIFICATION Spec
CONSTANTS
  Waits = {w1, w2}
  None = None
  Requested = {1, 9}
  MinWait = 2
  MaxWait = 4
  Fallback = 3
  Tolerance = 1
  AnchorSlack = 2
  MaxNow = 7
  MaxFaults = 2
SYMMETRY Symmetry
CHECK_DEADLOCK FALSE
INVARIANTS
  AnchorReplayedOnce
  UnqueuedWaitIsShort
PROPERTIES
  NeverCutShort
