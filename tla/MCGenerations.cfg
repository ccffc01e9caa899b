SPECIFICATION Spec
CONSTANTS
  Msgs = {m1, m2, m3}
  Direct = {m1}
  Edits = {m1}
  Commands = {m3}
  Flows = {f1, f2}
  Follow = {w}
  None = None
  Cap = 1
  MaxReplans = 1
  MaxReplays = 1
SYMMETRY Symmetry
CHECK_DEADLOCK FALSE
INVARIANTS
  TypeOK
  RegistryExact
  ShutdownReachesAll
  EntriesKept
  AnsweredOnce
  StormBounded
