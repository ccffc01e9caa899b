SPECIFICATION FairSpec
CONSTANTS
  MaxUpdates = 1
  Conns = {c1, c2}
  Loop = Loop
  CanWebhook = TRUE
  MaxFaults = 1
  MaxStops = 1
INVARIANTS
  HandledOnce
  NoSilentLoss
PROPERTIES
  EveryUpdateSettles
  PollingRetried
