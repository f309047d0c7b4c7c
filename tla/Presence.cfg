SPECIFICATION FairSpec
CONSTANTS
  Gateways = {g1, g2}
  Devices = {u1}
  NoGateway = NoGateway
  Deniers = {g1}
  ControlStale = 1
  AttachWindow = 1
  PruneAfter = 1
  MaxMoves = 1
  MaxReplies = 1
INVARIANTS ConnectedIsTimed
PROPERTIES ConnectsOnlyWhenChosen OneHomeEventually DeniedGoesOffline QuietTimedDevicesDropped
