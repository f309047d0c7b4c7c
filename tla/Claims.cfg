SPECIFICATION FairSpec
CONSTANTS
  Devices = {u1, u2}
  BackendStates = {"updated", "attached"}
  Ttl = 1
  Visitors = {u1}
  MaxClaims = 2
INVARIANTS OfferedClaimIsDevices
PROPERTIES AttachedStays OldestClaimAttaches ExpiredClaimsSettle
