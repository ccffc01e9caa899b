SPECIFICATION Spec
CONSTANTS
  Msgs = {m1, m2}
  Edits = {}
  Jobs = {j1, j2, j3}
  Defers = {}
  None = None
  Gone = Gone
  ExecLock = TRUE
  MaxReplays = 0
  MaxFaults = 0
SYMMETRY Symmetry
CHECK_DEADLOCK FALSE
INVARIANTS
  NoLostWakeup
