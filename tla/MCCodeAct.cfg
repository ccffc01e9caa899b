SPECIFICATION Spec
CONSTANTS
  Tasks = {t1, f1}
  Direct = {f1}
  Msgs = {m1}
  MaxSegments = 2
  MaxFaults = 1
  LastFaulty = 0
  None = None
CHECK_DEADLOCK FALSE
INVARIANTS
  InOnePlace
  RunsAlone
  StuckByIdOnly
PROPERTIES
  StaysOver
