---------------------------- MODULE MCManagement ----------------------------
(* Management with a few requests of every kind, and a Gateway that is set  *)
(* up or was never set up.                                                  *)
EXTENDS Management
OneId == CHOOSE i \in Ids : TRUE
SetUp == [DEFAULT_CONFIG EXCEPT !.enabled = TRUE, !.id = OneId]
SomeConfigs == {DEFAULT_CONFIG, SetUp}
Form(i, e) == [id |-> i, server |-> Production, enabled |-> e]
SomeWebRequests ==
  Request("settings", {Form(OneId, TRUE), Form(NoId, FALSE), Form(NoId, TRUE),
                       Updated(Form(OneId, TRUE), [remote |-> TRUE]),
                       Updated(Form(OneId, FALSE), [remote |-> FALSE])})
    \cup Request("channel", [channel : {"stable"}])
    \cup Request("allow", [device : Devices])
SomeRemoteRequests ==
  Request("settings", [id : Ids] \cup [server : Servers \ {Production}])
    \cup Request("channel", [channel : {"beta"}]) \cup Request("deny", [device : Devices])
    \cup Request("reset", {<<>>}) \cup Request("other", {<<>>})
=============================================================================
