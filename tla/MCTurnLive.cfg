SPECIFICATION LiveSpec
CONSTANTS
  Msgs = {m1, m2}
  Edits = {m2}
  First = m1
  Jobs = {j1, j2}
  Defers = {}
  None = None
  Gone = Gone
  ExecLock = TRUE
  MaxReplays = 0
  MaxFaults = 1
CHECK_DEADLOCK FALSE
PROPERTIES
  ComesToRest
  RescuedByNextMessage
