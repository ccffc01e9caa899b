SPECIFICATION BurstSpec
CONSTANTS
  Ann = Ann
  Bob = Bob
  Entries <- MCEntries
  MaxTurnBurst = 2
  KeptDirects = 1
  MultiAnchor = TRUE
  MultiAnchorMax = 1
  PerPerson = TRUE
  MaxPending = 4
SYMMETRY Symmetry
CHECK_DEADLOCK FALSE
INVARIANTS
  OneAnswerEach
  AddressedIsHeard
  OnlyWaitersAreSilent
