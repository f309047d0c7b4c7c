----------------------------- MODULE Management -----------------------------
(***************************************************************************)
(* The Gateway's settings and the calls that change them: config_store.py, *)
(* operations.py, remote_commands.py and main.apply_runtime_config.        *)
(*                                                                         *)
(* A call runs in a thread of its own, a request of the web page or a      *)
(* gateway_command of the Desktop.  It reads the configuration, changes    *)
(* it, writes it to the file and configures the running parts after it,    *)
(* all without a lock, so that other calls come between any two steps.     *)
(* The main thread configures the parts once, when the Gateway starts.     *)
(*                                                                         *)
(* Of a configuration only the settings that calls change are kept; a      *)
(* server is the pair of target_mode and manual_url, and an id that does   *)
(* not match GATEWAY_ID_PATTERN is cleared like an empty one (NoId).       *)
(***************************************************************************)
EXTENDS Naturals, Sequences

CONSTANTS
  Ids, NoId,
  Servers, Production,
  Devices,
  Workers, Main,      \* threads that serve calls, and the main thread
  FirstConfigs,       \* configurations the Gateway may be installed with
  WebRequests, RemoteRequests,
  MaxCalls,           \* bound of the model: calls
  MaxFailures         \* bound of the model: failing writes and binds, and
                      \* ends of the process

ASSUME ManagementAssumption ==
  /\ NoId \notin Ids /\ Production \in Servers /\ Main \notin Workers
  /\ {MaxCalls, MaxFailures} \subseteq Nat /\ Workers \subseteq Nat

VARIABLES
  mem,          \* GatewayConfigStore.config
  file,         \* gateway_config.json
  effective,    \* what upstream, update manager and discovery were told
  parts,        \* the parts that run
  started,      \* runtime_started
  calls,        \* thread -> the call it is working on
  open,         \* calls that have not been answered
  mixed,        \* history: what overlapping calls may have left unequal
  issued, failures

vars == <<mem, file, effective, parts, started, calls, open, mixed,
          issued, failures>>

settings == <<mem, file>>
runtime == <<effective, parts, started>>
bounds == <<issued, failures>>

Threads == Workers \cup {Main}
Channels == {"stable", "beta"}
Config == [enabled : BOOLEAN, remote : BOOLEAN, id : Ids \cup {NoId},
           server : Servers, channel : Channels, denied : SUBSET Devices]
Fields == {"enabled", "remote", "id", "server", "channel", "denied"}

DEFAULT_CONFIG ==
  [enabled |-> FALSE, remote |-> TRUE, id |-> NoId, server |-> Production,
   channel |-> "stable", denied |-> {}]

\* dict.update: what the patch names, and the rest as it was.
Updated(c, patch) ==
  [f \in DOMAIN c \cup DOMAIN patch |->
     IF f \in DOMAIN patch THEN patch[f] ELSE c[f]]

Parts == <<"upstream", "udp", "discovery">>         \* in the order of start
AllParts == {Parts[k] : k \in 1..3}

\* What apply_runtime_config hands to the parts.
Applied(c) == [id |-> c.id, server |-> c.server, channel |-> c.channel]

-----------------------------------------------------------------------------
(* Requests.  A body is a function from the settings it names to values.   *)
(* The web page names all settings of its form, though the setup wizard    *)
(* leaves remote out; the Desktop any of the id and the server.            *)

Request(op, bodies) == {[op |-> op, body |-> b] : b \in bodies}

WebSettings ==
  LET Form == [id : Ids \cup {NoId}, server : Servers, enabled : BOOLEAN] IN
  Form \cup {Updated(b, [remote |-> r]) : b \in Form, r \in BOOLEAN}

RemoteSettings ==
  [id : Ids \cup {NoId}] \cup [server : Servers]
    \cup [id : Ids \cup {NoId}, server : Servers]

Shared ==
  Request("channel", [channel : Channels])
    \cup Request("deny", [device : Devices]) \cup Request("allow", [device : Devices])

\* "other" stands for the commands that leave the configuration alone.
ASSUME RequestAssumption ==
  /\ WebRequests \subseteq Request("settings", WebSettings) \cup Shared
  /\ RemoteRequests \subseteq
       Request("settings", RemoteSettings) \cup Shared
         \cup Request("reset", {<<>>}) \cup Request("other", {<<>>})

-----------------------------------------------------------------------------
(* Calls *)

Off == [at |-> "off", n |-> 0, from |-> "none", op |-> "none", about |-> {},
        patch |-> <<>>, deferred |-> FALSE, lone |-> TRUE, part |-> 1]

At(t, place) == calls[t].at = place
Becomes(t, call) == calls' = [calls EXCEPT ![t] = call]
Moves(t, place) == Becomes(t, [calls[t] EXCEPT !.at = place])
Carries(t, place, patch) ==
  Becomes(t, [calls[t] EXCEPT !.at = place, !.patch = patch])

\* A call at work on the configuration or the parts.
Busy(t) == calls[t].at \notin {"off", "gate", "reply", "op"}

\* A call that is done, or raises, has still to be answered, unless its
\* answer left before its effect; nobody waits for the main thread.
Finished(t) ==
  IF t = Main \/ calls[t].deferred THEN Off
  ELSE [calls[t] EXCEPT !.at = "reply"]

FailedSilently(t) == Off                          \* fault: nothing caught
Failed(t) == Finished(t)

\* The settings a request is about.
About(r) ==
  CASE r.op = "settings" -> DOMAIN r.body
    [] r.op = "channel" -> {"channel"}
    [] r.op \in {"deny", "allow"} -> {"denied"}
    [] r.op = "reset" -> Fields
    [] OTHER -> {}

\* Threads are alike: a new one takes the first place that is free.
Issue(t, from, r) ==
  /\ At(t, "off") /\ \A u \in Workers : u < t => ~At(u, "off")
  /\ issued < MaxCalls
  /\ issued' = issued + 1
  /\ Becomes(t, [Off EXCEPT !.at = IF from = "web" THEN "op" ELSE "gate",
                            !.n = issued + 1, !.from = from, !.op = r.op,
                            !.about = About(r), !.patch = r.body])
  /\ open' = open \cup {issued + 1}
  /\ UNCHANGED <<settings, runtime, mixed, failures>>

-----------------------------------------------------------------------------
(* remote_commands._handle *)

\* The body kept for later is the request's.
DeferredPreview(body) == Updated(Applied(mem), body)     \* fault: the preview kept
DeferredBody(body) == body

DefersNone(op) == FALSE                            \* fault: acts at once
Defers(op) == op \in {"settings", "reset"}

\* The command is refused, or it has been answered for another module, or it
\* is promised and comes later, or it runs before its answer.
Gate(t) ==
  LET call == calls[t] IN
  /\ At(t, "gate")
  /\ \/ /\ ~mem.remote \/ call.op \in {"other", "settings"}
        /\ Moves(t, "reply")
     \/ /\ mem.remote /\ Defers(call.op)
        /\ call.op = "settings" => Updated(mem, call.patch).id # NoId
        /\ Becomes(t, [call EXCEPT !.at = "reply", !.deferred = TRUE,
                                   !.patch = DeferredBody(@)])
     \/ /\ mem.remote /\ ~Defers(call.op) /\ call.op # "other"
        /\ Moves(t, "op")
  /\ UNCHANGED <<settings, runtime, open, mixed, bounds>>

\* _send_result, or the HTTP response.
Answer(t) ==
  /\ At(t, "reply")
  /\ open' = open \ {calls[t].n}
  /\ IF calls[t].deferred THEN Moves(t, "op") ELSE Becomes(t, Off)
  /\ UNCHANGED <<settings, runtime, mixed, bounds>>

-----------------------------------------------------------------------------
(* operations.py *)

\* What save_settings saves: settings that are not named keep their values,
\* and what only the web page may change is left out for the Desktop.
SettingsPatch(call) ==
  LET local == IF call.from = "web" THEN {"enabled"} ELSE {}
  IN Updated([f \in {"id", "server"} \cup local |-> mem[f]], call.patch)

Patch(call) ==
  CASE call.op = "settings" -> SettingsPatch(call)
    [] call.op = "deny" -> [denied |-> mem.denied \cup {call.patch.device}]
    [] call.op = "allow" -> [denied |-> mem.denied \ {call.patch.device}]
    [] call.op = "channel" -> call.patch
    [] call.op = "reset" -> DEFAULT_CONFIG

NamelessNever(c) == FALSE                 \* fault: validate_gateway_id empty
Nameless(c) == c.enabled /\ c.id = NoId

\* A required update refuses calls, and so do values that do not exist; a
\* channel and a reset are never locked.
MayBeRefused(call) == call.op # "reset"

\* From here on the call overlaps with those at work.
Begin(t) ==
  LET call == calls[t]
      patch == Patch(call)
      others == {u \in Threads \ {t} : Busy(u)}
      Joined(u) == IF u \in others THEN [calls[u] EXCEPT !.lone = FALSE]
                   ELSE calls[u]
  IN
  /\ At(t, "op")
  /\ ~(call.op = "settings" /\ Nameless(Updated(mem, patch)))
  /\ calls' = [[u \in Threads |-> Joined(u)] EXCEPT
                 ![t] = [call EXCEPT !.at = "save", !.patch = patch,
                                     !.lone = others = {}]]
  /\ mixed' = IF others = {} THEN mixed ELSE {"file", "applied", "parts"}
  /\ UNCHANGED <<settings, runtime, open, bounds>>

Refuse(t) ==
  /\ At(t, "op")
  /\ \/ MayBeRefused(calls[t])
     \/ calls[t].op = "settings" /\ Nameless(Updated(mem, Patch(calls[t])))
  /\ Becomes(t, Failed(t))
  /\ UNCHANGED <<settings, runtime, open, mixed, bounds>>

-----------------------------------------------------------------------------
(* config_store.save *)

Merge(t) ==
  LET next == Updated(mem, calls[t].patch) IN
  /\ At(t, "save")
  /\ IF Nameless(next) THEN Becomes(t, Failed(t)) ELSE Carries(t, "assign", next)
  /\ UNCHANGED <<settings, runtime, open, mixed, bounds>>

Assign(t) ==
  /\ At(t, "assign")
  /\ mem' = calls[t].patch
  /\ Moves(t, "dump")
  /\ UNCHANGED <<file, runtime, open, mixed, bounds>>

\* What is written is the configuration of the moment, not this call's.
Dump(t) ==
  /\ At(t, "dump")
  /\ Carries(t, "replace", mem)
  /\ UNCHANGED <<settings, runtime, open, mixed, bounds>>

\* No room on the disk: the file stays, the memory has changed.
WriteFails(t) ==
  /\ At(t, "dump") /\ failures < MaxFailures
  /\ failures' = failures + 1
  /\ Becomes(t, Failed(t))
  /\ mixed' = mixed \cup {"file", "applied", "parts"}
  /\ UNCHANGED <<settings, runtime, open, issued>>

Settles(t, what) == mixed' = IF calls[t].lone THEN mixed \ {what} ELSE mixed

\* os.replace; deny and allow configure nothing.
CommitsNotReset(op) == op \notin {"deny", "allow", "reset"}    \* fault
Commits(op) == op \notin {"deny", "allow"}

Replace(t) ==
  /\ At(t, "replace")
  /\ file' = calls[t].patch
  /\ IF Commits(calls[t].op) THEN Carries(t, "apply", mem)
     ELSE Becomes(t, Finished(t))
  /\ Settles(t, "file")
  /\ UNCHANGED <<mem, runtime, open, bounds>>

-----------------------------------------------------------------------------
(* main.apply_runtime_config *)

\* The parts are told their settings, which ends the connection to the backend
\* (update_server), and runtime_started says if they are to start or stop.
Apply(t) ==
  LET enabled == calls[t].patch.enabled IN
  /\ At(t, "apply")
  /\ effective' = Applied(calls[t].patch)
  /\ IF enabled = started THEN Becomes(t, Finished(t))
     ELSE Moves(t, IF enabled THEN "starting" ELSE "stopping")
  /\ Settles(t, "applied")
  /\ UNCHANGED <<settings, parts, started, open, bounds>>

\* One part after the other, then the flag.  A part that runs is not started
\* again.
NextPart(t) == Becomes(t, [calls[t] EXCEPT !.part = @ + 1])

StartPart(t) ==
  /\ At(t, "starting") /\ calls[t].part <= 3
  /\ parts' = parts \cup {Parts[calls[t].part]}
  /\ NextPart(t)
  /\ UNCHANGED <<settings, effective, started, open, mixed, bounds>>

StopPart(t) ==
  /\ At(t, "stopping") /\ calls[t].part <= 3
  /\ parts' = parts \ {Parts[4 - calls[t].part]}
  /\ NextPart(t)
  /\ UNCHANGED <<settings, effective, started, open, mixed, bounds>>

FlagKept(t) == started                        \* fault: the flag forgotten
Flag(t) == At(t, "starting")

SetFlag(t) ==
  /\ calls[t].at \in {"starting", "stopping"} /\ calls[t].part = 4
  /\ started' = Flag(t)
  /\ Becomes(t, Finished(t))
  /\ UNCHANGED <<settings, effective, parts, open, mixed, bounds>>

\* The port is taken.
BindFails(t) ==
  /\ At(t, "starting") /\ calls[t].part \in {2, 3} /\ t # Main
  /\ Parts[calls[t].part] \notin parts /\ failures < MaxFailures
  /\ failures' = failures + 1
  /\ Becomes(t, Failed(t))
  /\ mixed' = mixed \cup {"parts"}
  /\ UNCHANGED <<settings, runtime, open, issued>>

-----------------------------------------------------------------------------
(* The process *)

ASSUME FirstAssumption == FirstConfigs \subseteq {c \in Config : c.enabled => c.id # NoId}

\* The first pass of a process: the file is loaded, and the main thread has
\* what it read applied while the web page already takes calls.
Booting(c) ==
  [t \in Threads |->
     IF t = Main THEN [Off EXCEPT !.at = "apply", !.patch = c, !.from = "main"]
     ELSE Off]

\* The process ends between any two steps, also when the main thread cannot
\* bind a port, and is started again.
Restart ==
  /\ failures < MaxFailures
  /\ failures' = failures + 1
  /\ mem' = file
  /\ effective' = Applied(file) /\ parts' = {} /\ started' = FALSE
  /\ calls' = Booting(file)
  /\ open' = {}
  /\ mixed' = {}
  /\ UNCHANGED <<file, issued>>

Init ==
  /\ file \in FirstConfigs
  /\ mem = file
  /\ effective = Applied(file) /\ parts = {} /\ started = FALSE
  /\ calls = Booting(file)
  /\ open = {}
  /\ mixed = {}
  /\ issued = 0 /\ failures = 0

Runs(t) ==
  \/ Gate(t) \/ Answer(t) \/ Begin(t) \/ Refuse(t)
  \/ Merge(t) \/ Assign(t) \/ Dump(t) \/ WriteFails(t) \/ Replace(t)
  \/ Apply(t) \/ StartPart(t) \/ StopPart(t) \/ SetFlag(t)
  \/ BindFails(t)

Next ==
  \/ \E t \in Workers : \/ \E r \in WebRequests : Issue(t, "web", r)
                        \/ \E r \in RemoteRequests : Issue(t, "remote", r)
  \/ \E t \in Threads : Runs(t)
  \/ Restart

Spec == Init /\ [][Next]_vars

-----------------------------------------------------------------------------
(* Properties *)

TypeOK ==
  /\ {mem, file} \subseteq Config
  /\ effective \in [id : Ids \cup {NoId}, server : Servers, channel : Channels]
  /\ parts \subseteq AllParts /\ started \in BOOLEAN
  /\ \A t \in Threads : calls[t].about \subseteq Fields /\ calls[t].part \in 1..4
  /\ open \subseteq 1..issued
  /\ mixed \subseteq {"file", "applied", "parts"}

\* However calls overlap and whenever the process ends, an enabled Gateway
\* has an id, in memory and in the file it will start from: save() checks
\* what it stores, not only what it was given.
EnabledNamesGateway == \A c \in {mem, file} : c.enabled => c.id # NoId

\* Memory, file and running parts agree whenever no call is at work, but for
\* what calls that overlapped or failed half way have left; one call after
\* them, alone, repairs the file, and one that configures the parts what they
\* were told.
AgreeAtRest ==
  (\A t \in Threads : ~Busy(t)) =>
    /\ "file" \in mixed \/ file = mem
    /\ "applied" \in mixed \/ effective = Applied(mem)
    /\ "parts" \in mixed \/ parts = IF mem.enabled THEN AllParts ELSE {}

\* A call that overlaps with no other changes only the settings it is about,
\* also when it acts long after it was asked for.
KeepsOtherSettings ==
  [][\A t \in Workers, f \in Fields :
       Assign(t) /\ calls[t].lone /\ mem'[f] # mem[f]
         => f \in calls[t].about]_vars

\* remote_commands.py: a call that cuts the connection replies first.  The
\* code keeps this for all commands but the channel.
DeferredAfterReply ==
  [][\A t \in Workers :
       Apply(t) /\ calls[t].from = "remote"
         => calls[t].n \notin open \/ calls[t].op = "channel"]_vars

\* "Never leave the Desktop waiting": no thread ends, whatever failed on the
\* way, without having answered its call, unless the process ends with it.
NoCallForgotten ==
  \A n \in open : \E t \in Workers : calls[t].n = n

-----------------------------------------------------------------------------
(* Statements of the documents that the code does not keep; README.md,     *)
(* section 5, says how each fails.                                         *)

\* remote_commands.py: "Anything that cuts the connection (set_config,
\* restart, factory_reset, apply_update) replies first".
RepliesBeforeCutting ==
  [][\A t \in Workers :
       Apply(t) /\ calls[t].from = "remote"
         => calls[t].n \notin open]_vars

\* src/README.md: "When Enabled is off, only the Gateway WebUI runs."
OffIsOff ==
  (\A t \in Threads : ~Busy(t)) /\ ~mem.enabled => parts = {}

\* src/README.md on "Accept remote management": "Only this local page can
\* change it."
OnlyTheWebPageReopens ==
  [][\A t \in Workers : Assign(t) /\ calls[t].from = "remote"
       => ~(mem'.remote /\ ~mem.remote)]_vars
=============================================================================
