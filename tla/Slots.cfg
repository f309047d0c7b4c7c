SPECIFICATION FairSpec
CONSTANTS
  Versions = {v1, v2, bad}
  Base = v1
  Healthy = {v1, v2}
  NoVersion = NoVersion
  Partial = Partial
  NoProc = NoProc
  Torn = Torn
  MaxUpdates = 3
  MaxCrashes = 2
INVARIANTS RunningSlotIntact ActiveSlotHealthy
PROPERTIES ActiveStaysComplete RollbackRestoresService
