SPECIFICATION Spec
CONSTANTS
  Msgs = {m1, m2}
  Edits = {m2}
  Jobs = {j1, j2, j3}
  Defers = {d1}
  None = None
  Gone = Gone
  ExecLock = TRUE
  MaxReplays = 1
  MaxFaults = 1
CONSTRAINT AloneOrPlain
SYMMETRY Symmetry
CHECK_DEADLOCK FALSE
PROPERTIES
  ImplementsEntryPath
INVARIANTS
  StrandedIsMarked
  LeaseExclusion
  EntriesInOnePlace
