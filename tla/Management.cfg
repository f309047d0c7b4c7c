SPECIFICATION Spec
CONSTANTS
  Ids = {gw}
  NoId = NoId
  Servers = {production, local}
  Production = production
  Devices = {d}
  Workers = {1, 2}
  Main = 0
  FirstConfigs <- SomeConfigs
  WebRequests <- SomeWebRequests
  RemoteRequests <- SomeRemoteRequests
  MaxCalls = 2
  MaxFailures = 1
INVARIANTS EnabledNamesGateway AgreeAtRest NoCallForgotten
PROPERTIES KeepsOtherSettings DeferredAfterReply
CHECK_DEADLOCK FALSE
