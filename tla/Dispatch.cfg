SPECIFICATION FairSpec
CONSTANTS
  Devices = {d1}
  Addrs = {a1, a2}
  RequestIds = {r1}
  NoRequest = NoRequest
  NoAddr = NoAddr
  NoFrame = NoFrame
  NoExpiry = NoExpiry
  Lifetimes <- ThreeLifetimes
  SessionTtl = 1
  ResendInterval = 1
  MaxUnackedAttempts = 2
  SeqMax = 2
  MaxCommands = 2
INVARIANTS TypeOK OneOutcome AckedNeverFailed NoSilentLoss BoundedAttempts
PROPERTIES AckReachesItsCommand MovedDeviceKeepsSession Contract EveryCommandDecided
