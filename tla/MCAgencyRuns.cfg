SPECIFICATION FairSpec
CONSTANTS
  Reply = Reply
  Legacy = Legacy
  None = None
  Keys = {Reply, Legacy}
  Observed = {Legacy}
  Expiring = {Reply}
  Calls = {c1, c2, c3}
  MaxCrashes = 1
CHECK_DEADLOCK FALSE
INVARIANTS
  ReceiptsAgree
PROPERTIES
  KeepsLedger
  ClaimedIsSettled
