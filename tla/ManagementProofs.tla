--------------------------- MODULE ManagementProofs ---------------------------
(***************************************************************************)
(* Theorems about the Gateway's settings and the calls that change them,   *)
(* for any number of threads, calls, failing writes and binds and ends of  *)
(* the process, and whatever the calls ask for.                            *)
(***************************************************************************)
EXTENDS Management, TLAPS

-----------------------------------------------------------------------------
(* Configurations and patches *)

\* What a setting may be set to; a device is what deny and allow name.
FieldType ==
  [enabled |-> BOOLEAN, remote |-> BOOLEAN, id |-> Ids \cup {NoId},
   server |-> Servers, channel |-> Channels, denied |-> SUBSET Devices,
   device |-> Devices]

Names == Fields \cup {"device"}
Values == UNION {FieldType[f] : f \in Names}

\* What a call carries along: some settings, each with a value of its kind.
Patches ==
  {p \in UNION {[D -> Values] : D \in SUBSET Names} :
     \A f \in DOMAIN p : p[f] \in FieldType[f]}

\* An enabled Gateway has an id.
Named(c) == c.enabled => c.id # NoId

LEMMA FieldTypes ==
  /\ FieldType["enabled"] = BOOLEAN /\ FieldType["remote"] = BOOLEAN
  /\ FieldType["id"] = Ids \cup {NoId} /\ FieldType["server"] = Servers
  /\ FieldType["channel"] = Channels /\ FieldType["denied"] = SUBSET Devices
  /\ FieldType["device"] = Devices
BY DEF FieldType

LEMMA PatchIntro ==
  ASSUME NEW D \in SUBSET Names, NEW p, p = [f \in D |-> p[f]],
         \A f \in D : p[f] \in FieldType[f]
  PROVE  p \in Patches /\ DOMAIN p = D
<1>1. \A f \in D : p[f] \in Values
  BY DEF Values
<1> DEFINE F(f) == p[f]
<1>2. p = [f \in D |-> F(f)] /\ \A f \in D : F(f) \in Values
  BY <1>1
<1> HIDE DEF F
<1>3. p \in [D -> Values] /\ DOMAIN p = D
  BY <1>2
<1>4. QED
  BY <1>3 DEF Patches

LEMMA PatchElim ==
  ASSUME NEW p \in Patches
  PROVE  /\ DOMAIN p \in SUBSET Names /\ p = [f \in DOMAIN p |-> p[f]]
         /\ \A f \in DOMAIN p : p[f] \in FieldType[f]
<1>1. PICK D \in SUBSET Names : p \in [D -> Values]
  BY DEF Patches
<1>2. QED
  BY <1>1 DEF Patches

LEMMA ConfigElim ==
  ASSUME NEW c \in Config
  PROVE  c \in Patches /\ DOMAIN c = Fields
<1>1. DOMAIN c = Fields /\ c = [f \in Fields |-> c[f]]
  BY DEF Config, Fields
<1>2. ASSUME NEW f \in Fields
      PROVE  c[f] \in FieldType[f]
  BY FieldTypes DEF Config, Fields
<1>3. QED
  BY <1>1, <1>2, PatchIntro DEF Names

LEMMA ConfigIntro ==
  ASSUME NEW p \in Patches, DOMAIN p = Fields
  PROVE  p \in Config
<1>1. p = [f \in DOMAIN p |-> p[f]] /\ \A f \in Fields : p[f] \in FieldType[f]
  BY PatchElim
<1>2. DOMAIN p = {"enabled", "remote", "id", "server", "channel", "denied"}
  BY DEF Fields
<1>3. /\ p.enabled \in BOOLEAN /\ p.remote \in BOOLEAN
      /\ p.id \in Ids \cup {NoId} /\ p.server \in Servers
      /\ p.channel \in Channels /\ p.denied \in SUBSET Devices
  BY <1>1, FieldTypes DEF Fields
<1>4. QED
  BY <1>1, <1>2, <1>3 DEF Config

\* dict.update of one patch by another.
LEMMA UpdatedPatch ==
  ASSUME NEW c \in Patches, NEW p \in Patches
  PROVE  /\ Updated(c, p) \in Patches
         /\ DOMAIN Updated(c, p) = DOMAIN c \cup DOMAIN p
         /\ \A f \in DOMAIN p : Updated(c, p)[f] = p[f]
         /\ \A f \in DOMAIN c \ DOMAIN p : Updated(c, p)[f] = c[f]
<1> DEFINE D == DOMAIN c \cup DOMAIN p
           u == Updated(c, p)
<1>1. D \in SUBSET Names
  BY PatchElim
<1>2. u = [f \in D |-> u[f]] /\ \A f \in D : u[f] = IF f \in DOMAIN p THEN p[f] ELSE c[f]
  BY DEF Updated
<1>3. \A f \in D : u[f] \in FieldType[f]
  BY <1>2, PatchElim
<1> HIDE DEF u
<1>4. u \in Patches /\ DOMAIN u = D
  BY <1>1, <1>2, <1>3, PatchIntro
<1>5. QED
  BY <1>2, <1>4 DEF u

LEMMA UpdatedConfig ==
  ASSUME NEW c \in Config, NEW p \in Patches, DOMAIN p \subseteq Fields
  PROVE  Updated(c, p) \in Config
BY ConfigElim, ConfigIntro, UpdatedPatch

LEMMA DefaultConfig == DEFAULT_CONFIG \in Config /\ Named(DEFAULT_CONFIG)
BY ManagementAssumption
   DEF DEFAULT_CONFIG, Config, Channels, Named, ManagementAssumption

LEMMA AppliedConfig ==
  ASSUME NEW c \in Config
  PROVE  Applied(c) \in [id : Ids \cup {NoId}, server : Servers, channel : Channels]
BY DEF Applied, Config

-----------------------------------------------------------------------------
(* Requests *)

\* What a call that has not begun carries: the body of its request.
Asked(c) ==
  /\ c.op = "settings" => DOMAIN c.patch \subseteq Fields /\ c.about = DOMAIN c.patch
  /\ c.op = "channel" => DOMAIN c.patch = {"channel"} /\ c.about = {"channel"}
  /\ c.op \in {"deny", "allow"} => DOMAIN c.patch = {"device"} /\ c.about = {"denied"}
  /\ c.op = "reset" => c.about = Fields

WebOps == {"settings", "channel", "deny", "allow"}
RemoteOps == WebOps \cup {"reset", "other"}

\* A patch with one setting.
LEMMA OneSetting ==
  ASSUME NEW f \in Names, NEW v \in FieldType[f], NEW p, p = [g \in {f} |-> v]
  PROVE  p \in Patches /\ DOMAIN p = {f}
BY PatchIntro

LEMMA EmptyPatch == <<>> \in Patches /\ DOMAIN <<>> = {}
BY PatchIntro, DOMAIN <<>> = {}, <<>> = [f \in {} |-> <<>>[f]]

LEMMA WebSettingsBodies ==
  ASSUME NEW b \in WebSettings
  PROVE  b \in Patches /\ DOMAIN b \subseteq Fields
<1> DEFINE Form == [id : Ids \cup {NoId}, server : Servers, enabled : BOOLEAN]
<1>1. ASSUME NEW c \in Form
      PROVE  c \in Patches /\ DOMAIN c \subseteq Fields
  <2>1. DOMAIN c = {"id", "server", "enabled"}
    OBVIOUS
  <2>2. c = [f \in {"id", "server", "enabled"} |-> c[f]]
    OBVIOUS
  <2>3. c["id"] \in FieldType["id"] /\ c["server"] \in FieldType["server"]
          /\ c["enabled"] \in FieldType["enabled"]
    BY FieldTypes
  <2>4. {"id", "server", "enabled"} \in SUBSET Names /\ {"id", "server", "enabled"} \subseteq Fields
    BY DEF Names, Fields
  <2> HIDE DEF Form
  <2>5. QED
    BY <2>1, <2>2, <2>3, <2>4, PatchIntro
<1>2. ASSUME NEW r \in BOOLEAN
      PROVE  [remote |-> r] \in Patches /\ DOMAIN [remote |-> r] = {"remote"}
  BY OneSetting, FieldTypes, [remote |-> r] = [f \in {"remote"} |-> r] DEF Names, Fields
<1>3. CASE b \in Form
  BY <1>1, <1>3
<1>4. CASE \E c \in Form, r \in BOOLEAN : b = Updated(c, [remote |-> r])
  <2>1. PICK c \in Form, r \in BOOLEAN : b = Updated(c, [remote |-> r])
    BY <1>4
  <2> HIDE DEF Form
  <2>2. b \in Patches /\ DOMAIN b = DOMAIN c \cup {"remote"}
    BY <1>1, <1>2, <2>1, UpdatedPatch
  <2>3. QED
    BY <1>1, <2>1, <2>2 DEF Fields
<1>5. QED
  BY <1>3, <1>4 DEF WebSettings

LEMMA RemoteSettingsBodies ==
  ASSUME NEW b \in RemoteSettings
  PROVE  b \in Patches /\ DOMAIN b \subseteq Fields
<1>1. \A i \in Ids \cup {NoId} : i \in FieldType["id"]
  BY FieldTypes
<1>2. \A i \in Servers : i \in FieldType["server"]
  BY FieldTypes
<1>3. {"id"} \subseteq Fields /\ {"server"} \subseteq Fields /\ Fields \subseteq Names
  BY DEF Names, Fields
<1>4. CASE b \in [id : Ids \cup {NoId}]
  <2>1. b = [f \in {"id"} |-> b.id] /\ b.id \in Ids \cup {NoId}
    BY <1>4
  <2>2. QED
    BY <1>1, <1>3, <2>1, OneSetting
<1>5. CASE b \in [server : Servers]
  <2>1. b = [f \in {"server"} |-> b.server] /\ b.server \in Servers
    BY <1>5
  <2>2. QED
    BY <1>2, <1>3, <2>1, OneSetting
<1>6. CASE b \in [id : Ids \cup {NoId}, server : Servers]
  <2>1. DOMAIN b = {"id", "server"} /\ b = [f \in {"id", "server"} |-> b[f]]
          /\ b["id"] \in Ids \cup {NoId} /\ b["server"] \in Servers
    BY <1>6
  <2>2. {"id", "server"} \in SUBSET Names
    BY <1>3
  <2>3. QED
    BY <1>1, <1>2, <1>3, <2>1, <2>2, PatchIntro
<1>7. QED
  BY <1>4, <1>5, <1>6 DEF RemoteSettings

\* Who asks for what.
MayAsk(from, r) ==
  \/ from = "web" /\ r \in WebRequests
  \/ from = "remote" /\ r \in RemoteRequests

\* Whoever asks, what is asked for is well formed.
LEMMA RequestIsAsked ==
  ASSUME NEW from, NEW r,
         MayAsk(from, r)
  PROVE  /\ r.op \in RemoteOps /\ (from = "web" => r.op \in WebOps)
         /\ r.body \in Patches /\ About(r) \subseteq Fields
         /\ r.op = "settings" => DOMAIN r.body \subseteq Fields /\ About(r) = DOMAIN r.body
         /\ r.op = "channel" => DOMAIN r.body = {"channel"} /\ About(r) = {"channel"}
         /\ r.op \in {"deny", "allow"} => DOMAIN r.body = {"device"} /\ About(r) = {"denied"}
         /\ r.op = "reset" => About(r) = Fields
<1>1. \/ r \in Request("settings", WebSettings) \cup Request("settings", RemoteSettings)
      \/ r \in Shared
      \/ from = "remote" /\ r \in Request("reset", {<<>>}) \cup Request("other", {<<>>})
  BY RequestAssumption DEF RequestAssumption, MayAsk
<1>2. CASE r \in Request("settings", WebSettings) \cup Request("settings", RemoteSettings)
  <2>1. PICK b \in WebSettings \cup RemoteSettings : r = [op |-> "settings", body |-> b]
    BY <1>2 DEF Request
  <2>2. b \in Patches /\ DOMAIN b \subseteq Fields
    BY WebSettingsBodies, RemoteSettingsBodies
  <2>3. QED
    BY <2>1, <2>2 DEF About, RemoteOps, WebOps
<1>3. CASE r \in Request("channel", [channel : Channels])
  <2>1. PICK b \in [channel : Channels] : r = [op |-> "channel", body |-> b]
    BY <1>3 DEF Request
  <2>2. b = [f \in {"channel"} |-> b.channel] /\ b.channel \in FieldType["channel"]
    BY FieldTypes
  <2>3. b \in Patches /\ DOMAIN b = {"channel"}
    BY <2>2, OneSetting DEF Names, Fields
  <2>4. QED
    BY <2>1, <2>3 DEF About, RemoteOps, WebOps, Fields
<1>4. CASE r \in Request("deny", [device : Devices]) \cup Request("allow", [device : Devices])
  <2>1. PICK b \in [device : Devices] : r.op \in {"deny", "allow"} /\ r.body = b
    BY <1>4 DEF Request
  <2>2. b = [f \in {"device"} |-> b.device] /\ b.device \in FieldType["device"]
    BY FieldTypes
  <2>3. b \in Patches /\ DOMAIN b = {"device"}
    BY <2>2, OneSetting DEF Names
  <2>4. QED
    BY <2>1, <2>3 DEF About, RemoteOps, WebOps, Fields
<1>5. CASE from = "remote" /\ r \in Request("reset", {<<>>}) \cup Request("other", {<<>>})
  <2>1. r.op \in {"reset", "other"} /\ r.body = <<>>
    BY <1>5 DEF Request
  <2>2. QED
    BY <1>5, <2>1, EmptyPatch DEF About, RemoteOps, Fields
<1>6. QED
  BY <1>1, <1>2, <1>3, <1>4, <1>5 DEF Shared

-----------------------------------------------------------------------------
(* What a call saves *)

\* It is well formed, deny and allow change the list of devices only, and
\* what a call is not about is saved as it is.
LEMMA PatchSaved ==
  ASSUME mem \in Config, NEW call, call.patch \in Patches, Asked(call),
         call.op \in RemoteOps, call.op # "other"
  PROVE  /\ Patch(call) \in Patches /\ DOMAIN Patch(call) \subseteq Fields
         /\ call.op \in {"deny", "allow"} => DOMAIN Patch(call) = {"denied"}
         /\ \A f \in DOMAIN Patch(call) \ call.about : Patch(call)[f] = mem[f]
<1>1. mem \in Patches /\ DOMAIN mem = Fields
  BY ConfigElim
<1>2. CASE call.op = "settings"
  <2> DEFINE D == {"id", "server"} \cup (IF call.from = "web" THEN {"enabled"} ELSE {})
             kept == [f \in D |-> mem[f]]
  <2>1. D \in SUBSET Names /\ D \subseteq Fields
    BY DEF Names, Fields
  <2>2. \A f \in D : mem[f] \in FieldType[f]
    BY <1>1, <2>1, PatchElim
  <2> HIDE DEF D
  <2>3. DOMAIN kept = D /\ \A f \in D : kept[f] = mem[f]
    OBVIOUS
  <2>4. kept = [f \in D |-> kept[f]]
    BY <2>3
  <2>5. Patch(call) = Updated(kept, call.patch)
    BY <1>2 DEF Patch, SettingsPatch, D
  <2> HIDE DEF kept
  <2>6. kept \in Patches
    BY <2>1, <2>2, <2>3, <2>4, PatchIntro
  <2> DEFINE u == Updated(kept, call.patch)
  <2>7. /\ u \in Patches /\ DOMAIN u = DOMAIN kept \cup DOMAIN call.patch
        /\ \A f \in DOMAIN kept \ DOMAIN call.patch : u[f] = kept[f]
    BY <2>6, UpdatedPatch
  <2> HIDE DEF u
  <2>8. u = Patch(call)
    BY <2>5 DEF u
  <2>9. /\ DOMAIN u \subseteq Fields
        /\ \A f \in DOMAIN u \ call.about : u[f] = mem[f]
    BY <1>2, <2>1, <2>3, <2>7 DEF Asked
  <2>10. QED
    BY <1>2, <2>7, <2>8, <2>9
<1>3. CASE call.op \in {"deny", "allow"}
  <2>1. call.patch.device \in Devices /\ mem.denied \in SUBSET Devices
    BY <1>3, PatchElim, FieldTypes DEF Asked, Config
  <2>2. PICK v \in SUBSET Devices : Patch(call) = [denied |-> v]
    <3>1. CASE call.op = "deny"
      <4>1. Patch(call) = [denied |-> mem.denied \cup {call.patch.device}]
        BY <3>1 DEF Patch
      <4>2. mem.denied \cup {call.patch.device} \in SUBSET Devices
        BY <2>1
      <4>3. QED
        BY <4>1, <4>2
    <3>2. CASE call.op = "allow"
      <4>1. Patch(call) = [denied |-> mem.denied \ {call.patch.device}]
        BY <3>2 DEF Patch
      <4>2. mem.denied \ {call.patch.device} \in SUBSET Devices
        BY <2>1
      <4>3. QED
        BY <4>1, <4>2
    <3>3. QED
      BY <1>3, <3>1, <3>2
  <2>3. [denied |-> v] = [f \in {"denied"} |-> v] /\ v \in FieldType["denied"]
    BY FieldTypes
  <2>4. Patch(call) \in Patches /\ DOMAIN Patch(call) = {"denied"}
    BY <2>2, <2>3, OneSetting DEF Names, Fields
  <2>5. QED
    BY <1>3, <2>4 DEF Asked, Fields
<1>4. CASE call.op = "channel"
  BY <1>4 DEF Patch, Asked, Fields
<1>5. CASE call.op = "reset"
  BY <1>5, DefaultConfig, ConfigElim DEF Patch, Asked
<1>6. QED
  BY <1>2, <1>3, <1>4, <1>5 DEF RemoteOps, WebOps

-----------------------------------------------------------------------------
(* What a step does to the calls *)

Working == {"save", "assign", "dump", "replace", "apply", "starting", "stopping"}
Places == {"off", "gate", "reply", "op"} \cup Working

Call ==
  [at : Places, n : Nat, from : {"none", "web", "remote", "main"},
   op : {"none"} \cup RemoteOps, about : SUBSET Fields, patch : Patches,
   deferred : BOOLEAN, lone : BOOLEAN, part : 1..4]

\* Nothing about a call changed but its place, what it carries, whether it is
\* alone and how far it is with the parts.
Alike(c, d) ==
  /\ d.n = c.n /\ d.from = c.from /\ d.op = c.op
  /\ d.about = c.about /\ d.deferred = c.deferred

LEMMA OffCall == Off \in Call
BY EmptyPatch DEF Off, Call, Places, RemoteOps

LEMMA MovedCall ==
  ASSUME NEW c \in Call, NEW p \in Places
  PROVE  LET d == [c EXCEPT !.at = p] IN
         /\ d \in Call /\ Alike(c, d) /\ d.at = p
         /\ d.patch = c.patch /\ d.lone = c.lone /\ d.part = c.part
BY DEF Call, Alike

LEMMA PatchedCall ==
  ASSUME NEW c \in Call, NEW q \in Patches
  PROVE  LET d == [c EXCEPT !.patch = q] IN
         /\ d \in Call /\ Alike(c, d) /\ d.at = c.at
         /\ d.patch = q /\ d.lone = c.lone /\ d.part = c.part
BY DEF Call, Alike

LEMMA LoneCall ==
  ASSUME NEW c \in Call, NEW l \in BOOLEAN
  PROVE  LET d == [c EXCEPT !.lone = l] IN
         /\ d \in Call /\ Alike(c, d) /\ d.at = c.at
         /\ d.patch = c.patch /\ d.lone = l /\ d.part = c.part
BY DEF Call, Alike

Carrying(c, p, q) == [c EXCEPT !.at = p, !.patch = q]
Begun(c, q, l) == [c EXCEPT !.at = "save", !.patch = q, !.lone = l]
New(c, p, n, from, op, about, q) ==
  [c EXCEPT !.at = p, !.n = n, !.from = from, !.op = op, !.about = about, !.patch = q]

LEMMA CarryingCall ==
  ASSUME NEW c \in Call, NEW p \in Places, NEW q \in Patches
  PROVE  LET d == Carrying(c, p, q) IN
         /\ d \in Call /\ Alike(c, d) /\ d.at = p
         /\ d.patch = q /\ d.lone = c.lone /\ d.part = c.part
BY DEF Call, Alike, Carrying

LEMMA BegunCall ==
  ASSUME NEW c \in Call, NEW q \in Patches, NEW l \in BOOLEAN
  PROVE  LET d == Begun(c, q, l) IN
         /\ d \in Call /\ Alike(c, d) /\ d.at = "save"
         /\ d.patch = q /\ d.lone = l /\ d.part = c.part
BY DEF Call, Alike, Begun, Places, Working

LEMMA NextPartCall ==
  ASSUME NEW c \in Call, c.part <= 3
  PROVE  LET d == [c EXCEPT !.part = @ + 1] IN
         /\ d \in Call /\ Alike(c, d) /\ d.at = c.at
         /\ d.patch = c.patch /\ d.lone = c.lone /\ d.part = c.part + 1
BY DEF Call, Alike

\* A command that is promised for later.
LEMMA DeferredCall ==
  ASSUME NEW c \in Call
  PROVE  LET d == [c EXCEPT !.at = "reply", !.deferred = TRUE, !.patch = DeferredBody(@)] IN
         /\ d \in Call /\ d.at = "reply" /\ d.deferred
         /\ d.n = c.n /\ d.from = c.from /\ d.op = c.op /\ d.about = c.about
         /\ d.patch = c.patch /\ d.lone = c.lone /\ d.part = c.part
BY DEF Call, DeferredBody, Places

\* A call that is issued.
LEMMA NewCall ==
  ASSUME NEW c \in Call, NEW p \in Places, NEW n \in Nat, NEW from \in {"web", "remote"},
         NEW op \in RemoteOps, NEW about \in SUBSET Fields, NEW q \in Patches
  PROVE  LET d == New(c, p, n, from, op, about, q) IN
         /\ d \in Call /\ d.at = p /\ d.n = n /\ d.from = from /\ d.op = op
         /\ d.about = about /\ d.patch = q
         /\ d.deferred = c.deferred /\ d.lone = c.lone /\ d.part = c.part
BY DEF Call, New

\* The main thread's, when the process starts.
LEMMA BootingCall ==
  ASSUME NEW q \in Patches
  PROVE  LET d == [Off EXCEPT !.at = "apply", !.patch = q, !.from = "main"] IN
         /\ d \in Call /\ d.at = "apply" /\ d.n = 0 /\ d.from = "main"
         /\ d.op = "none" /\ d.patch = q /\ d.deferred = FALSE
         /\ d.lone = TRUE /\ d.part = 1
<1>1. ASSUME NEW c \in Call
      PROVE  LET d == [c EXCEPT !.at = "apply", !.patch = q, !.from = "main"] IN
             /\ d \in Call /\ d.at = "apply" /\ d.n = c.n /\ d.from = "main"
             /\ d.op = c.op /\ d.patch = q /\ d.deferred = c.deferred
             /\ d.lone = c.lone /\ d.part = c.part
  BY DEF Call, Places, Working
<1>2. Off.n = 0 /\ Off.op = "none" /\ Off.deferred = FALSE /\ Off.lone = TRUE /\ Off.part = 1
  BY DEF Off
<1>3. QED
  BY <1>1, <1>2, OffCall

LEMMA FinishedCall ==
  ASSUME NEW t, calls[t] \in Call
  PROVE  /\ Finished(t) \in Call
         /\ \/ Finished(t) = Off /\ (t = Main \/ calls[t].deferred)
            \/ /\ t # Main /\ ~calls[t].deferred
               /\ Alike(calls[t], Finished(t)) /\ Finished(t).at = "reply"
               /\ Finished(t).part = calls[t].part
BY OffCall, MovedCall DEF Finished, Places

\* One thread's call is changed.
LEMMA OneCall ==
  ASSUME calls \in [Threads -> Call], NEW t \in Threads, NEW d \in Call, Becomes(t, d)
  PROVE  /\ calls' \in [Threads -> Call] /\ calls'[t] = d
         /\ \A u \in Threads \ {t} : calls'[u] = calls[u]
BY DEF Becomes

-----------------------------------------------------------------------------
(* The shape of the calls *)

\* What a call carries, and how far it is with the parts, at each place of
\* its way: the body of its request until it begins, then what it will save,
\* then a whole configuration.
Shape(c) ==
  /\ c.at \in {"gate", "op"} \/ (c.at = "reply" /\ c.deferred) =>
       Asked(c) /\ c.op \in RemoteOps
  /\ c.at = "op" => c.op # "other"
  /\ c.at \in {"op"} \cup Working /\ c.from = "remote" => c.op \in RemoteOps \ {"other"}
  /\ c.deferred => c.op \in {"settings", "reset"}
  /\ c.from = "remote" /\ c.at \in {"op"} \cup Working /\ c.op \in {"settings", "reset"} =>
       c.deferred
  /\ c.at = "save" => DOMAIN c.patch \subseteq Fields
                        /\ (c.op \in {"deny", "allow"} => DOMAIN c.patch = {"denied"})
  /\ c.at \in {"assign", "replace", "apply"} => c.patch \in Config /\ Named(c.patch)
  /\ c.at \in {"apply", "starting", "stopping"} => Commits(c.op)
  /\ c.at \notin {"off", "starting", "stopping"} /\ (c.at = "reply" => c.deferred) =>
       c.part = 1

\* The main thread only applies a configuration.
MainPlace(c) == c.at \in {"off", "apply", "starting", "stopping"} /\ c.n = 0

CallsSound ==
  /\ calls \in [Threads -> Call]
  /\ \A t \in Threads : Shape(calls[t])
  /\ MainPlace(calls[Main])

SettingsSound ==
  /\ mem \in Config /\ Named(mem)
  /\ file \in Config /\ Named(file)

LEMMA OneCallSound ==
  ASSUME CallsSound, NEW t \in Threads, NEW d \in Call, Becomes(t, d),
         Shape(d), t = Main => MainPlace(d)
  PROVE  CallsSound'
<1>1. /\ calls' \in [Threads -> Call] /\ calls'[t] = d
      /\ \A u \in Threads \ {t} : calls'[u] = calls[u]
  BY OneCall DEF CallsSound
<1>2. Main \in Threads
  BY DEF Threads
<1>3. \A u \in Threads : Shape(calls'[u])
  BY <1>1 DEF CallsSound
<1>4. MainPlace(calls'[Main])
  BY <1>1, <1>2 DEF CallsSound
<1>5. QED
  BY <1>1, <1>3, <1>4 DEF CallsSound

LEMMA OffShape == Shape(Off) /\ MainPlace(Off)
BY DEF Off, Shape, MainPlace, Working

LEMMA FinishedShape ==
  ASSUME CallsSound, NEW t \in Threads
  PROVE  /\ Finished(t) \in Call /\ Shape(Finished(t))
         /\ t = Main => MainPlace(Finished(t))
<1> DEFINE c == calls[t]
           d == Finished(t)
<1>1. c \in Call /\ Shape(c)
  BY DEF CallsSound
<1>2. /\ d \in Call
      /\ \/ d = Off
         \/ t # Main /\ ~c.deferred /\ Alike(c, d) /\ d.at = "reply"
  BY <1>1, FinishedCall
<1> HIDE DEF c, d
<1>3. CASE d = Off
  BY <1>2, <1>3, OffShape DEF d
<1>4. CASE t # Main /\ ~c.deferred /\ Alike(c, d) /\ d.at = "reply"
  <2>1. ~d.deferred
    BY <1>4 DEF Alike
  <2>2. Shape(d)
    BY <1>4, <2>1 DEF Shape, Working
  <2>3. QED
    BY <1>2, <1>4, <2>2 DEF d
<1>5. QED
  BY <1>2, <1>3, <1>4

\* A thread that works on a call is not idle.
LEMMA ThreadPlace ==
  ASSUME CallsSound, NEW t \in Threads
  PROVE  /\ calls[t] \in Call /\ Shape(calls[t])
         /\ t = Main => MainPlace(calls[t])
         /\ calls[t].at \in {"gate", "reply", "op", "save", "assign", "dump", "replace"} =>
              t # Main /\ t \in Workers
BY DEF CallsSound, MainPlace, Threads

LEMMA IssueSound ==
  ASSUME CallsSound, issued \in Nat, NEW t \in Workers, NEW from, NEW r, Issue(t, from, r),
         MayAsk(from, r)
  PROVE  CallsSound'
<1> DEFINE place == IF from = "web" THEN "op" ELSE "gate"
           about == About(r)
<1>1. /\ r.op \in RemoteOps /\ (from = "web" => r.op \in WebOps)
      /\ r.body \in Patches /\ about \in SUBSET Fields
      /\ r.op = "settings" => DOMAIN r.body \subseteq Fields /\ about = DOMAIN r.body
      /\ r.op = "channel" => DOMAIN r.body = {"channel"} /\ about = {"channel"}
      /\ r.op \in {"deny", "allow"} => DOMAIN r.body = {"device"} /\ about = {"denied"}
      /\ r.op = "reset" => about = Fields
  BY RequestIsAsked
<1>2. place \in {"op", "gate"} /\ place \in Places /\ (place = "op" <=> from = "web")
  BY DEF Places
<1> DEFINE d == New(Off, place, issued + 1, from, r.op, about, r.body)
<1>3. Becomes(t, d)
  BY DEF Issue, New
<1> HIDE DEF place, about
<1>4. /\ d \in Call /\ d.at = place /\ d.from = from /\ d.op = r.op
      /\ d.about = about /\ d.patch = r.body
      /\ d.deferred = Off.deferred /\ d.part = Off.part
  <2>1. issued + 1 \in Nat /\ from \in {"web", "remote"}
    BY DEF MayAsk
  <2>2. QED
    BY <1>1, <1>2, <2>1, NewCall, OffCall
<1>5. d.deferred = FALSE /\ d.part = 1
  BY <1>4 DEF Off
<1> HIDE DEF d
<1>6. Asked(d)
  BY <1>1, <1>4 DEF Asked
<1>7. d.at = "op" => d.op # "other" /\ d.from # "remote"
  BY <1>1, <1>2, <1>4 DEF WebOps
<1>8. Shape(d)
  BY <1>1, <1>2, <1>4, <1>5, <1>6, <1>7 DEF Shape, Working
<1>9. t \in Threads /\ t # Main
  BY ManagementAssumption DEF Threads, ManagementAssumption
<1>10. QED
  BY <1>3, <1>4, <1>8, <1>9, OneCallSound

LEMMA GateSound ==
  ASSUME CallsSound, NEW t \in Threads, Gate(t)
  PROVE  CallsSound'
<1> DEFINE c == calls[t]
<1>1. c \in Call /\ Shape(c) /\ c.at = "gate" /\ t # Main
  BY ThreadPlace DEF Gate, At
<1>2. Asked(c) /\ c.op \in RemoteOps /\ c.part = 1
  BY <1>1 DEF Shape
<1>3. CASE Moves(t, "reply") /\ (~mem.remote \/ c.op \in {"other", "settings"})
  <2> DEFINE d == [c EXCEPT !.at = "reply"]
  <2>1. /\ d \in Call /\ Alike(c, d) /\ d.at = "reply"
        /\ d.patch = c.patch /\ d.part = c.part
    BY <1>1, MovedCall DEF Places
  <2>2. Becomes(t, d)
    BY <1>3 DEF Moves
  <2> HIDE DEF c, d
  <2>3. Shape(d)
    BY <1>1, <1>2, <2>1 DEF Shape, Alike, Asked, Working
  <2>4. QED
    BY <1>1, <2>1, <2>2, <2>3, OneCallSound
<1>4. CASE /\ Defers(c.op)
           /\ Becomes(t, [c EXCEPT !.at = "reply", !.deferred = TRUE,
                                   !.patch = DeferredBody(@)])
  <2> DEFINE d == [c EXCEPT !.at = "reply", !.deferred = TRUE, !.patch = DeferredBody(@)]
  <2>1. /\ d \in Call /\ d.at = "reply" /\ d.deferred
        /\ d.op = c.op /\ d.about = c.about /\ d.from = c.from
        /\ d.patch = c.patch /\ d.part = c.part
    BY <1>1, DeferredCall
  <2>2. Becomes(t, d) /\ c.op \in {"settings", "reset"}
    BY <1>4 DEF Defers
  <2> HIDE DEF c, d
  <2>3. Shape(d)
    BY <1>1, <1>2, <2>1, <2>2 DEF Shape, Asked, Working
  <2>4. QED
    BY <1>1, <2>1, <2>2, <2>3, OneCallSound
<1>5. CASE Moves(t, "op") /\ ~Defers(c.op) /\ c.op # "other"
  <2> DEFINE d == [c EXCEPT !.at = "op"]
  <2>1. /\ d \in Call /\ Alike(c, d) /\ d.at = "op"
        /\ d.patch = c.patch /\ d.part = c.part
    BY <1>1, MovedCall DEF Places
  <2>2. Becomes(t, d) /\ c.op \notin {"settings", "reset", "other"}
    BY <1>5 DEF Moves, Defers
  <2> HIDE DEF c, d
  <2>3. Shape(d)
    BY <1>1, <1>2, <2>1, <2>2 DEF Shape, Alike, Asked, Working
  <2>4. QED
    BY <1>1, <2>1, <2>2, <2>3, OneCallSound
<1>6. QED
  BY <1>3, <1>4, <1>5 DEF Gate

LEMMA AnswerSound ==
  ASSUME CallsSound, NEW t \in Threads, Answer(t)
  PROVE  CallsSound'
<1> DEFINE c == calls[t]
<1>1. c \in Call /\ Shape(c) /\ c.at = "reply" /\ t # Main
  BY ThreadPlace DEF Answer, At
<1>2. CASE c.deferred
  <2> DEFINE d == [c EXCEPT !.at = "op"]
  <2>1. /\ d \in Call /\ Alike(c, d) /\ d.at = "op"
        /\ d.patch = c.patch /\ d.part = c.part
    BY <1>1, MovedCall DEF Places
  <2>2. Becomes(t, d)
    BY <1>2 DEF Answer, Moves
  <2> HIDE DEF c, d
  <2>3. Shape(d)
    BY <1>1, <1>2, <2>1 DEF Shape, Alike, Asked, Working
  <2>4. QED
    BY <1>1, <2>1, <2>2, <2>3, OneCallSound
<1>3. CASE ~c.deferred
  BY <1>3, OffCall, OffShape, OneCallSound DEF Answer
<1>4. QED
  BY <1>2, <1>3

\* A call that begins takes its place among those at work; nothing about
\* the others changes, but that they are no longer alone.
LEMMA BeginCalls ==
  ASSUME CallsSound, mem \in Config, NEW t \in Threads, Begin(t)
  PROVE  LET lone == \A u \in Threads \ {t} : ~Busy(u) IN
         /\ calls' \in [Threads -> Call]
         /\ \A u \in Threads : Alike(calls[u], calls'[u]) /\ calls'[u].part = calls[u].part
         /\ calls'[t].at = "save" /\ calls'[t].patch = Patch(calls[t])
         /\ calls'[t].lone <=> lone
         /\ \A u \in Threads \ {t} :
              /\ calls'[u].at = calls[u].at /\ calls'[u].patch = calls[u].patch
              /\ calls'[u].lone <=> (calls[u].lone /\ ~Busy(u))
         /\ mixed' = IF lone THEN mixed ELSE {"file", "applied", "parts"}
<1> DEFINE c == calls[t]
           patch == Patch(c)
           others == {u \in Threads \ {t} : Busy(u)}
           alone == others = {}
           d == Begun(c, patch, alone)
           Joined(u) == IF u \in others THEN [calls[u] EXCEPT !.lone = FALSE] ELSE calls[u]
           joined == [u \in Threads |-> Joined(u)]
<1>1. /\ calls' = [joined EXCEPT ![t] = d]
      /\ mixed' = IF alone THEN mixed ELSE {"file", "applied", "parts"}
      /\ c.at = "op"
  BY DEF Begin, At, Begun
<1>2. c \in Call /\ Asked(c) /\ c.op \in RemoteOps \ {"other"}
  BY <1>1, ThreadPlace DEF Shape
<1>3. patch \in Patches
  BY <1>2, PatchSaved DEF Call
<1>4. alone \in BOOLEAN /\ (alone <=> \A u \in Threads \ {t} : ~Busy(u))
  OBVIOUS
<1> HIDE DEF patch, alone
<1>5. d \in Call /\ Alike(c, d) /\ d.at = "save" /\ d.patch = patch
        /\ d.lone = alone /\ d.part = c.part
  BY <1>2, <1>3, <1>4, BegunCall
<1>6. ASSUME NEW u \in Threads \ {t}
      PROVE  /\ Joined(u) \in Call /\ Alike(calls[u], Joined(u))
             /\ Joined(u).at = calls[u].at /\ Joined(u).patch = calls[u].patch
             /\ Joined(u).part = calls[u].part
             /\ Joined(u).lone <=> (calls[u].lone /\ ~Busy(u))
  <2>1. calls[u] \in Call
    BY ThreadPlace
  <2>2. CASE Busy(u)
    <3>1. Joined(u) = [calls[u] EXCEPT !.lone = FALSE]
      BY <2>2
    <3>2. QED
      BY <2>1, <2>2, <3>1, LoneCall
  <2>3. CASE ~Busy(u)
    <3>1. Joined(u) = calls[u]
      BY <2>3
    <3>2. QED
      BY <2>1, <2>3, <3>1 DEF Alike
  <2>4. QED
    BY <2>2, <2>3
<1> HIDE DEF d, Joined
<1>7. /\ calls'[t] = d /\ \A u \in Threads \ {t} : calls'[u] = Joined(u)
      /\ calls' = [u \in Threads |-> IF u = t THEN d ELSE Joined(u)]
  BY <1>1
<1>8. calls' \in [Threads -> Call]
  BY <1>5, <1>6, <1>7
<1>9. QED
  BY <1>1, <1>4, <1>5, <1>6, <1>7, <1>8 DEF patch

LEMMA BeginSound ==
  ASSUME CallsSound, mem \in Config, NEW t \in Threads, Begin(t)
  PROVE  CallsSound'
<1> DEFINE c == calls[t]
           d == calls'[t]
<1>1. c \in Call /\ Shape(c) /\ c.at = "op" /\ t # Main
  BY ThreadPlace DEF Begin, At
<1>2. Asked(c) /\ c.op \in RemoteOps \ {"other"} /\ c.part = 1 /\ c.patch \in Patches
  BY <1>1 DEF Shape, Call
<1>3. /\ DOMAIN Patch(c) \subseteq Fields
      /\ c.op \in {"deny", "allow"} => DOMAIN Patch(c) = {"denied"}
  BY <1>2, PatchSaved
<1>4. Alike(c, d) /\ d.part = c.part /\ d.at = "save" /\ d.patch = Patch(c)
  BY BeginCalls
<1> HIDE DEF c, d
<1>5. Shape(d)
  BY <1>1, <1>2, <1>3, <1>4 DEF Shape, Alike, Working
<1>6. ASSUME NEW u \in Threads \ {t}
      PROVE  Shape(calls'[u]) /\ (u = Main => MainPlace(calls'[u]))
  <2> DEFINE e == calls[u]
             f == calls'[u]
  <2>1. Alike(e, f) /\ f.part = e.part /\ f.at = e.at /\ f.patch = e.patch
    BY BeginCalls
  <2>2. Shape(e) /\ (u = Main => MainPlace(e))
    BY ThreadPlace
  <2> HIDE DEF e, f
  <2>3. Shape(f) /\ (u = Main => MainPlace(f))
    BY <2>1, <2>2 DEF Shape, Alike, Asked, MainPlace
  <2>4. QED
    BY <2>3 DEF f
<1>7. calls' \in [Threads -> Call]
  BY BeginCalls
<1>8. QED
  BY <1>1, <1>5, <1>6, <1>7 DEF CallsSound, d, Threads

\* The steps that end a call.
LEMMA EndSound ==
  ASSUME CallsSound, NEW t \in Threads,
         Refuse(t) \/ WriteFails(t) \/ SetFlag(t) \/ BindFails(t)
  PROVE  CallsSound'
BY FinishedShape, OneCallSound DEF Refuse, WriteFails, SetFlag, BindFails, Failed

\* config_store.save
LEMMA SaveSound ==
  ASSUME CallsSound, SettingsSound, NEW t \in Threads,
         Merge(t) \/ Assign(t) \/ Dump(t) \/ Replace(t)
  PROVE  CallsSound'
<1> DEFINE c == calls[t]
<1>1. c \in Call /\ Shape(c) /\ t # Main /\ c.part = 1
  <2>1. c.at \in {"save", "assign", "dump", "replace"}
    BY DEF Merge, Assign, Dump, Replace, At
  <2>2. QED
    BY <2>1, ThreadPlace DEF Shape
<1>2. CASE Becomes(t, Failed(t)) \/ Becomes(t, Finished(t))
  BY <1>2, FinishedShape, OneCallSound DEF Failed
<1>3. ASSUME NEW p \in {"assign", "dump", "replace", "apply"}, NEW q \in Patches,
             Carries(t, p, q), c.at \in Working,
             p # "dump" => q \in Config /\ Named(q), p = "apply" => Commits(c.op)
      PROVE  CallsSound'
  <2> DEFINE d == Carrying(c, p, q)
  <2>1. /\ d \in Call /\ Alike(c, d) /\ d.at = p
        /\ d.patch = q /\ d.part = c.part
    <3>1. c \in Call /\ p \in Places
      BY <1>1 DEF Places, Working
    <3>2. QED
      BY <3>1, CarryingCall
  <2>2. Becomes(t, d)
    BY <1>3 DEF Carries, Carrying
  <2> HIDE DEF c, d
  <2>3. Shape(d)
    BY <1>1, <1>3, <2>1 DEF Shape, Alike, Working
  <2>4. QED
    BY <1>1, <2>1, <2>2, <2>3, OneCallSound
<1>4. CASE Merge(t) /\ ~Becomes(t, Failed(t))
  <2> DEFINE next == Updated(mem, c.patch)
  <2>1. ~Nameless(next) /\ Carries(t, "assign", next) /\ c.at = "save"
    BY <1>4 DEF Merge, At
  <2>2. c.patch \in Patches /\ DOMAIN c.patch \subseteq Fields
    BY <1>1, <2>1 DEF Shape, Call
  <2>3. next \in Config
    BY <2>2, UpdatedConfig DEF SettingsSound
  <2> HIDE DEF next
  <2>4. next \in Patches /\ Named(next)
    BY <2>1, <2>3, ConfigElim DEF Nameless, Named, Config
  <2>5. QED
    BY <1>3, <2>1, <2>3, <2>4 DEF Working
<1>5. CASE Assign(t)
  <2> DEFINE d == [c EXCEPT !.at = "dump"]
  <2>1. /\ d \in Call /\ Alike(c, d) /\ d.at = "dump" /\ d.part = c.part
    BY <1>1, MovedCall DEF Places, Working
  <2>2. Becomes(t, d) /\ c.at = "assign"
    BY <1>5 DEF Assign, Moves, At
  <2> HIDE DEF c, d
  <2>3. Shape(d)
    BY <1>1, <2>1, <2>2 DEF Shape, Alike, Working
  <2>4. QED
    BY <1>1, <2>1, <2>2, <2>3, OneCallSound
<1>6. CASE Dump(t)
  <2>1. Carries(t, "replace", mem) /\ c.at = "dump"
    BY <1>6 DEF Dump, At
  <2>2. QED
    BY <1>3, <2>1, ConfigElim DEF SettingsSound, Working
<1>7. CASE Replace(t) /\ Commits(c.op)
  <2>1. Carries(t, "apply", mem) /\ c.at = "replace"
    BY <1>7 DEF Replace, At
  <2>2. QED
    BY <1>3, <1>7, <2>1, ConfigElim DEF SettingsSound, Working
<1>8. CASE Replace(t) /\ ~Commits(c.op)
  BY <1>2, <1>8 DEF Replace
<1>9. QED
  BY <1>2, <1>4, <1>5, <1>6, <1>7, <1>8

\* main.apply_runtime_config
LEMMA ApplySound ==
  ASSUME CallsSound, NEW t \in Threads, Apply(t) \/ StartPart(t) \/ StopPart(t)
  PROVE  CallsSound'
<1> DEFINE c == calls[t]
<1>1. c \in Call /\ Shape(c) /\ (t = Main => MainPlace(c))
        /\ c.at \in {"apply", "starting", "stopping"}
  BY ThreadPlace DEF Apply, StartPart, StopPart, At
<1>2. CASE Becomes(t, Finished(t))
  BY <1>2, FinishedShape, OneCallSound
<1>3. CASE Moves(t, "starting") \/ Moves(t, "stopping")
  <2>1. PICK p \in {"starting", "stopping"} : Moves(t, p)
    BY <1>3
  <2> DEFINE d == [c EXCEPT !.at = p]
  <2>2. d \in Call /\ Alike(c, d) /\ d.at = p
    BY <1>1, MovedCall DEF Places, Working
  <2>3. Becomes(t, d)
    BY <2>1 DEF Moves
  <2> HIDE DEF c, d
  <2>4. Shape(d) /\ (t = Main => MainPlace(d))
    BY <1>1, <2>2 DEF Shape, Alike, Working, MainPlace
  <2>5. QED
    BY <2>2, <2>3, <2>4, OneCallSound
<1>4. CASE NextPart(t) /\ c.part <= 3 /\ c.at # "apply"
  <2> DEFINE d == [c EXCEPT !.part = @ + 1]
  <2>1. d \in Call /\ Alike(c, d) /\ d.at = c.at
    BY <1>1, <1>4, NextPartCall
  <2>2. Becomes(t, d)
    BY <1>4 DEF NextPart
  <2> HIDE DEF c, d
  <2>3. Shape(d) /\ (t = Main => MainPlace(d))
    BY <1>1, <1>4, <2>1 DEF Shape, Alike, Working, MainPlace
  <2>4. QED
    BY <2>1, <2>2, <2>3, OneCallSound
<1>5. QED
  BY <1>1, <1>2, <1>3, <1>4 DEF Apply, StartPart, StopPart, At

\* The calls of a process that has just been started.
LEMMA BootingSound ==
  ASSUME NEW q \in Config, Named(q)
  PROVE  /\ Booting(q) \in [Threads -> Call]
         /\ \A t \in Threads :
              /\ Shape(Booting(q)[t]) /\ Booting(q)[t].n = 0
              /\ Booting(q)[t].lone /\ ~Booting(q)[t].deferred
              /\ t # Main => Booting(q)[t].at = "off"
         /\ Booting(q)[Main].at = "apply" /\ Booting(q)[Main].patch = q
         /\ Booting(q)[Main].part = 1 /\ Booting(q)[Main].op = "none"
<1> DEFINE d == [Off EXCEPT !.at = "apply", !.patch = q, !.from = "main"]
<1>1. /\ d \in Call /\ d.at = "apply" /\ d.n = 0 /\ d.from = "main"
      /\ d.op = "none" /\ d.patch = q /\ d.deferred = FALSE
      /\ d.lone = TRUE /\ d.part = 1
  BY BootingCall, ConfigElim
<1>2. Booting(q) = [t \in Threads |-> IF t = Main THEN d ELSE Off]
  BY DEF Booting
<1> HIDE DEF d
<1>3. Shape(d)
  BY <1>1 DEF Shape, Commits, Working
<1>4. Off.n = 0 /\ Off.lone = TRUE /\ Off.deferred = FALSE /\ Off.at = "off"
  BY DEF Off
<1>5. QED
  BY <1>1, <1>2, <1>3, <1>4, OffCall, OffShape DEF Threads

-----------------------------------------------------------------------------
(* Type correctness, and the id of an enabled Gateway *)

Sound == TypeOK /\ issued \in Nat /\ CallsSound /\ SettingsSound

LEMMA SoundInit ==
  ASSUME Init
  PROVE  Sound
<1>1. file \in Config /\ Named(file) /\ mem = file
  BY FirstAssumption DEF Init, FirstAssumption, Named
<1>2. CallsSound
  BY <1>1, BootingSound DEF Init, CallsSound, MainPlace, Threads
<1>3. effective \in [id : Ids \cup {NoId}, server : Servers, channel : Channels]
  BY <1>1, AppliedConfig DEF Init
<1>4. \A t \in Threads : calls[t].about \subseteq Fields /\ calls[t].part \in 1..4
  BY <1>2 DEF CallsSound, Call
<1>5. QED
  BY <1>1, <1>2, <1>3, <1>4 DEF Init, Sound, TypeOK, SettingsSound

\* The settings change in three steps: a call assigns them, a call replaces
\* the file, a process loads the file.
LEMMA SettingsStep ==
  ASSUME Sound, [Next]_vars
  PROVE  \/ UNCHANGED <<mem, file>>
         \/ \E t \in Workers : Assign(t) /\ mem' = calls[t].patch /\ file' = file
                                 /\ calls[t].patch \in Config /\ Named(calls[t].patch)
         \/ \E t \in Workers : Replace(t) /\ file' = calls[t].patch /\ mem' = mem
                                 /\ calls[t].patch \in Config /\ Named(calls[t].patch)
         \/ Restart /\ mem' = file /\ file' = file
<1>1. CASE \E t \in Threads : Assign(t)
  <2>1. PICK t \in Threads : Assign(t)
    BY <1>1
  <2>2. t \in Workers /\ calls[t].patch \in Config /\ Named(calls[t].patch)
    BY <2>1, ThreadPlace DEF Assign, At, Shape, Sound
  <2>3. QED
    BY <2>1, <2>2 DEF Assign
<1>2. CASE \E t \in Threads : Replace(t)
  <2>1. PICK t \in Threads : Replace(t)
    BY <1>2
  <2>2. t \in Workers /\ calls[t].patch \in Config /\ Named(calls[t].patch)
    BY <2>1, ThreadPlace DEF Replace, At, Shape, Sound
  <2>3. QED
    BY <2>1, <2>2 DEF Replace
<1>3. CASE Restart
  BY <1>3 DEF Restart
<1>4. CASE UNCHANGED <<mem, file>>
  BY <1>4
<1>5. QED
  BY <1>1, <1>2, <1>3, <1>4
     DEF Next, Runs, Issue, Gate, Answer, Begin, Refuse, Merge, Dump, WriteFails,
         Apply, StartPart, StopPart, SetFlag, BindFails, vars, settings

LEMMA CallsStep ==
  ASSUME Sound, [Next]_vars
  PROVE  CallsSound'
<1>1. CallsSound /\ SettingsSound /\ mem \in Config /\ issued \in Nat
  BY DEF Sound, SettingsSound
<1>2. CASE \E t \in Workers : \/ \E r \in WebRequests : Issue(t, "web", r)
                              \/ \E r \in RemoteRequests : Issue(t, "remote", r)
  <2>1. ASSUME NEW t \in Workers, NEW r \in WebRequests, Issue(t, "web", r)
        PROVE  CallsSound'
    <3>1. MayAsk("web", r)
      BY DEF MayAsk
    <3>2. QED
      BY <1>1, <2>1, <3>1, IssueSound
  <2>2. ASSUME NEW t \in Workers, NEW r \in RemoteRequests, Issue(t, "remote", r)
        PROVE  CallsSound'
    <3>1. MayAsk("remote", r)
      BY DEF MayAsk
    <3>2. QED
      BY <1>1, <2>2, <3>1, IssueSound
  <2>3. QED
    BY <1>2, <2>1, <2>2
<1>3. CASE \E t \in Threads : Gate(t) \/ Answer(t) \/ Begin(t)
  BY <1>1, <1>3, GateSound, AnswerSound, BeginSound
<1>4. CASE \E t \in Threads : Refuse(t) \/ WriteFails(t) \/ SetFlag(t) \/ BindFails(t)
  BY <1>1, <1>4, EndSound
<1>5. CASE \E t \in Threads : Merge(t) \/ Assign(t) \/ Dump(t) \/ Replace(t)
  BY <1>1, <1>5, SaveSound
<1>6. CASE \E t \in Threads : Apply(t) \/ StartPart(t) \/ StopPart(t)
  BY <1>1, <1>6, ApplySound
<1>7. CASE Restart
  <2>1. calls' = Booting(file)
    BY <1>7 DEF Restart
  <2>2. QED
    BY <1>1, <2>1, BootingSound DEF CallsSound, SettingsSound, MainPlace, Threads
<1>8. CASE UNCHANGED vars
  BY <1>1, <1>8 DEF CallsSound, vars
<1>9. QED
  BY <1>2, <1>3, <1>4, <1>5, <1>6, <1>7, <1>8 DEF Next, Runs

LEMMA SoundStep ==
  ASSUME Sound, [Next]_vars
  PROVE  Sound'
<1>1. CallsSound'
  BY CallsStep
<1>2. SettingsSound'
  BY SettingsStep DEF Sound, SettingsSound
<1>3. effective' \in [id : Ids \cup {NoId}, server : Servers, channel : Channels]
  <2>1. CASE \E t \in Threads : Apply(t)
    <3>1. PICK t \in Threads : Apply(t)
      BY <2>1
    <3>2. calls[t].patch \in Config
      BY <3>1, ThreadPlace DEF Apply, At, Shape, Sound
    <3>3. QED
      BY <3>1, <3>2, AppliedConfig DEF Apply
  <2>2. CASE Restart
    BY <2>2, AppliedConfig DEF Restart, Sound, SettingsSound
  <2>3. CASE effective' = effective
    BY <2>3 DEF Sound, TypeOK
  <2>4. QED
    BY <2>1, <2>2, <2>3
       DEF Next, Runs, Issue, Gate, Answer, Begin, Refuse, Merge, Assign, Dump,
           WriteFails, Replace, StartPart, StopPart, SetFlag, BindFails, vars, runtime
<1>4. parts' \subseteq AllParts /\ started' \in BOOLEAN
  <2>1. CASE \E t \in Threads : StartPart(t)
    <3>1. PICK t \in Threads : StartPart(t)
      BY <2>1
    <3>2. calls[t].part \in 1..3
      BY <3>1 DEF StartPart, Sound, TypeOK
    <3>3. QED
      BY <3>1, <3>2 DEF StartPart, Sound, TypeOK, AllParts
  <2>2. CASE \E t \in Threads : StopPart(t)
    BY <2>2 DEF StopPart, Sound, TypeOK
  <2>3. CASE \E t \in Threads : SetFlag(t)
    BY <2>3 DEF SetFlag, Flag, At, Sound, TypeOK
  <2>4. CASE Restart
    BY <2>4 DEF Restart
  <2>5. CASE UNCHANGED <<parts, started>>
    BY <2>5 DEF Sound, TypeOK
  <2>6. QED
    BY <2>1, <2>2, <2>3, <2>4, <2>5
       DEF Next, Runs, Issue, Gate, Answer, Begin, Refuse, Merge, Assign, Dump,
           WriteFails, Replace, Apply, BindFails, vars, runtime
<1>5. issued' \in Nat /\ open' \subseteq 1..issued'
  <2>1. open \subseteq 1..issued /\ issued \in Nat
    BY DEF Sound, TypeOK
  <2>2. CASE open' = open \cup {issued + 1} /\ issued' = issued + 1
    BY <2>1, <2>2
  <2>3. CASE open' \subseteq open /\ issued' = issued
    BY <2>1, <2>3
  <2>4. QED
    BY <2>2, <2>3
       DEF Next, Runs, Issue, Gate, Answer, Begin, Refuse, Merge, Assign, Dump,
           WriteFails, Replace, Apply, StartPart, StopPart, SetFlag, BindFails, Restart,
           vars, bounds
<1>6. mixed' \subseteq {"file", "applied", "parts"}
  <2>1. mixed \subseteq {"file", "applied", "parts"}
    BY DEF Sound, TypeOK
  <2>2. CASE mixed' \subseteq mixed
    BY <2>1, <2>2
  <2>3. CASE mixed' \subseteq mixed \cup {"file", "applied", "parts"}
    BY <2>1, <2>3
  <2>4. QED
    BY <2>2, <2>3
       DEF Next, Runs, Issue, Gate, Answer, Begin, Refuse, Merge, Assign, Dump,
           WriteFails, Replace, Apply, StartPart, StopPart, SetFlag, BindFails, Restart,
           Settles, vars
<1>7. \A t \in Threads : calls'[t].about \subseteq Fields /\ calls'[t].part \in 1..4
  BY <1>1 DEF CallsSound, Call
<1>8. QED
  BY <1>1, <1>2, <1>3, <1>4, <1>5, <1>6, <1>7 DEF Sound, TypeOK, SettingsSound

LEMMA SoundAlways == Spec => []Sound
<1>1. Init => Sound
  BY SoundInit
<1>2. Sound /\ [Next]_vars => Sound'
  BY SoundStep
<1>3. QED
  BY <1>1, <1>2, PTL DEF Spec

\* The variables always have the shape TypeOK gives them: whatever bodies the
\* calls bring and however they overlap, memory and file hold configurations.
THEOREM TypeCorrect == Spec => []TypeOK
<1>1. Sound => TypeOK
  BY DEF Sound
<1>2. QED
  BY <1>1, SoundAlways, PTL

\* However calls overlap and whenever the process ends, an enabled Gateway
\* has an id, in memory and in the file it will start from.
THEOREM EnabledNamesGatewayAlways == Spec => []EnabledNamesGateway
<1>1. Sound => EnabledNamesGateway
  BY DEF Sound, SettingsSound, Named, EnabledNamesGateway
<1>2. QED
  BY <1>1, SoundAlways, PTL

-----------------------------------------------------------------------------
(* What each kind of step does, for the theorems that follow calls along   *)
(* their way                                                               *)

Others(t) == \A u \in Threads \ {t} : calls'[u] = calls[u]

LEMMA MovesEffect ==
  ASSUME CallsSound, NEW t \in Threads, NEW p \in Places, Moves(t, p)
  PROVE  /\ Others(t) /\ Alike(calls[t], calls'[t]) /\ calls'[t].at = p
         /\ calls'[t].patch = calls[t].patch /\ calls'[t].lone = calls[t].lone
         /\ calls'[t].part = calls[t].part
<1> DEFINE d == [calls[t] EXCEPT !.at = p]
<1>1. /\ d \in Call /\ Alike(calls[t], d) /\ d.at = p
      /\ d.patch = calls[t].patch /\ d.lone = calls[t].lone /\ d.part = calls[t].part
  BY ThreadPlace, MovedCall
<1>2. Becomes(t, d)
  BY DEF Moves
<1> HIDE DEF d
<1>3. calls'[t] = d /\ Others(t)
  BY <1>1, <1>2, OneCall DEF CallsSound, Others
<1>4. QED
  BY <1>1, <1>3

LEMMA CarriesEffect ==
  ASSUME CallsSound, NEW t \in Threads, NEW p \in Places, NEW q \in Patches, Carries(t, p, q)
  PROVE  /\ Others(t) /\ Alike(calls[t], calls'[t]) /\ calls'[t].at = p
         /\ calls'[t].patch = q /\ calls'[t].lone = calls[t].lone
         /\ calls'[t].part = calls[t].part
<1> DEFINE d == Carrying(calls[t], p, q)
<1>1. /\ d \in Call /\ Alike(calls[t], d) /\ d.at = p
      /\ d.patch = q /\ d.lone = calls[t].lone /\ d.part = calls[t].part
  BY ThreadPlace, CarryingCall
<1>2. Becomes(t, d)
  BY DEF Carries, Carrying
<1> HIDE DEF d
<1>3. calls'[t] = d /\ Others(t)
  BY <1>1, <1>2, OneCall DEF CallsSound, Others
<1>4. QED
  BY <1>1, <1>3

LEMMA NextPartEffect ==
  ASSUME CallsSound, NEW t \in Threads, calls[t].part <= 3, NextPart(t)
  PROVE  /\ Others(t) /\ Alike(calls[t], calls'[t]) /\ calls'[t].at = calls[t].at
         /\ calls'[t].lone = calls[t].lone /\ calls'[t].part = calls[t].part + 1
<1> DEFINE d == [calls[t] EXCEPT !.part = @ + 1]
<1>1. /\ d \in Call /\ Alike(calls[t], d) /\ d.at = calls[t].at
      /\ d.lone = calls[t].lone /\ d.part = calls[t].part + 1
  BY ThreadPlace, NextPartCall
<1>2. Becomes(t, d)
  BY DEF NextPart
<1> HIDE DEF d
<1>3. calls'[t] = d /\ Others(t)
  BY <1>1, <1>2, OneCall DEF CallsSound, Others
<1>4. QED
  BY <1>1, <1>3

LEMMA FinishedEffect ==
  ASSUME CallsSound, NEW t \in Threads, Becomes(t, Finished(t))
  PROVE  /\ Others(t)
         /\ \/ calls'[t] = Off /\ (t = Main \/ calls[t].deferred)
            \/ /\ t # Main /\ ~calls[t].deferred
               /\ Alike(calls[t], calls'[t]) /\ calls'[t].at = "reply"
<1> DEFINE d == Finished(t)
<1>1. /\ d \in Call
      /\ \/ d = Off /\ (t = Main \/ calls[t].deferred)
         \/ /\ t # Main /\ ~calls[t].deferred
            /\ Alike(calls[t], d) /\ d.at = "reply"
  BY ThreadPlace, FinishedCall
<1>2. Becomes(t, d)
  OBVIOUS
<1> HIDE DEF d
<1>3. calls'[t] = d /\ Others(t)
  BY <1>1, <1>2, OneCall DEF CallsSound, Others
<1>4. QED
  BY <1>1, <1>3

LEMMA GateEffect ==
  ASSUME CallsSound, NEW t \in Threads, Gate(t)
  PROVE  /\ Others(t) /\ t # Main /\ calls[t].at = "gate" /\ calls'[t].at \in {"reply", "op"}
         /\ calls'[t].n = calls[t].n
         /\ calls'[t].deferred => calls'[t].at = "reply"
<1> DEFINE c == calls[t]
<1>1. c \in Call /\ Shape(c) /\ c.at = "gate" /\ t # Main
  BY ThreadPlace DEF Gate, At
<1>2. CASE Moves(t, "reply")
  BY <1>1, <1>2, MovesEffect DEF Alike, Places
<1>3. CASE Becomes(t, [c EXCEPT !.at = "reply", !.deferred = TRUE, !.patch = DeferredBody(@)])
  <2> DEFINE d == [c EXCEPT !.at = "reply", !.deferred = TRUE, !.patch = DeferredBody(@)]
  <2>1. d \in Call /\ d.at = "reply" /\ d.n = c.n
    BY <1>1, DeferredCall
  <2>2. Becomes(t, d)
    BY <1>3
  <2> HIDE DEF d
  <2>3. calls'[t] = d /\ Others(t)
    BY <2>1, <2>2, OneCall DEF CallsSound, Others
  <2>4. QED
    BY <1>1, <2>1, <2>3
<1>4. CASE Moves(t, "op") /\ ~Defers(c.op)
  <2>1. Others(t) /\ Alike(c, calls'[t]) /\ calls'[t].at = "op"
    BY <1>1, <1>4, MovesEffect DEF Places
  <2>2. ~c.deferred
    BY <1>1, <1>4 DEF Shape, Defers
  <2>3. QED
    BY <1>1, <2>1, <2>2 DEF Alike
<1>5. QED
  BY <1>2, <1>3, <1>4 DEF Gate

LEMMA IssueEffect ==
  ASSUME CallsSound, issued \in Nat, NEW t \in Workers, NEW from, NEW r,
         MayAsk(from, r), Issue(t, from, r)
  PROVE  /\ Others(t) /\ calls[t].at = "off" /\ calls'[t].at \in {"op", "gate"}
         /\ calls'[t].n = issued + 1 /\ calls'[t].deferred = FALSE
<1> DEFINE place == IF from = "web" THEN "op" ELSE "gate"
           about == About(r)
           d == New(Off, place, issued + 1, from, r.op, about, r.body)
<1>1. /\ r.op \in RemoteOps /\ r.body \in Patches /\ about \in SUBSET Fields
      /\ issued + 1 \in Nat /\ from \in {"web", "remote"}
  BY RequestIsAsked DEF MayAsk
<1>2. place \in {"op", "gate"} /\ place \in Places
  BY DEF Places
<1>3. Becomes(t, d) /\ calls[t].at = "off"
  BY DEF Issue, New, At
<1> HIDE DEF place, about
<1>4. d \in Call /\ d.at = place /\ d.n = issued + 1 /\ d.deferred = Off.deferred
  BY <1>1, <1>2, NewCall, OffCall
<1>5. Off.deferred = FALSE
  BY DEF Off
<1> HIDE DEF d
<1>6. t \in Threads
  BY DEF Threads
<1>7. calls'[t] = d /\ Others(t)
  BY <1>3, <1>4, <1>6, OneCall DEF CallsSound, Others
<1>8. QED
  BY <1>2, <1>3, <1>4, <1>5, <1>7

-----------------------------------------------------------------------------
(* Every call is answered *)

\* The calls are numbered; one whose answer left before its effect is no
\* longer open when it goes to work, and an idle thread holds no number.
Numbered ==
  \A t \in Threads :
    /\ calls[t].n <= issued
    /\ calls[t].at = "off" => calls[t].n = 0
    /\ calls[t].deferred /\ calls[t].at # "reply" => calls[t].n \notin open

\* A call goes on, or it ends and nobody waits for it.
GoesOn(c, d) ==
  /\ d.n = c.n /\ (d.at = "off" => c.at = "off")
  /\ d.deferred /\ d.at # "reply" => c.deferred /\ c.at # "reply"
EndsUnawaited(t) ==
  /\ calls'[t] = Off
  /\ t = Main \/ (calls[t].deferred /\ calls[t].at # "reply")

LEMMA HistoryStep ==
  ASSUME Sound, [Next]_vars, ~Restart
  PROVE  \/ \E t \in Workers :
              /\ Others(t) /\ calls[t].at = "off" /\ calls'[t].at # "off"
              /\ calls'[t].n = issued + 1 /\ ~calls'[t].deferred
              /\ open' = open \cup {issued + 1} /\ issued' = issued + 1
         \/ \E t \in Workers :
              /\ Others(t) /\ open' = open \ {calls[t].n} /\ issued' = issued
              /\ \/ calls'[t] = Off
                 \/ calls'[t].n = calls[t].n /\ calls'[t].at # "off"
         \/ /\ UNCHANGED <<open, issued>>
            /\ \A u \in Threads : GoesOn(calls[u], calls'[u]) \/ EndsUnawaited(u)
<1> DEFINE Goal == \/ \E t \in Workers :
                        /\ Others(t) /\ calls[t].at = "off" /\ calls'[t].at # "off"
                        /\ calls'[t].n = issued + 1 /\ ~calls'[t].deferred
                        /\ open' = open \cup {issued + 1} /\ issued' = issued + 1
                   \/ \E t \in Workers :
                        /\ Others(t) /\ open' = open \ {calls[t].n} /\ issued' = issued
                        /\ \/ calls'[t] = Off
                           \/ calls'[t].n = calls[t].n /\ calls'[t].at # "off"
                   \/ /\ UNCHANGED <<open, issued>>
                      /\ \A u \in Threads : GoesOn(calls[u], calls'[u]) \/ EndsUnawaited(u)
<1>1. CallsSound /\ SettingsSound /\ issued \in Nat /\ mem \in Config
  BY DEF Sound, SettingsSound
<1>2. \A u \in Threads : GoesOn(calls[u], calls[u])
  BY DEF GoesOn
<1>3. ASSUME NEW t \in Threads, Others(t), UNCHANGED <<open, issued>>,
             GoesOn(calls[t], calls'[t]) \/ EndsUnawaited(t)
      PROVE  Goal
  <2>1. \A u \in Threads : GoesOn(calls[u], calls'[u]) \/ EndsUnawaited(u)
    BY <1>2, <1>3 DEF Others
  <2>2. QED
    BY <1>3, <2>1
<1> HIDE DEF Goal
<1>4. ASSUME NEW t \in Workers, NEW from, NEW r, MayAsk(from, r), Issue(t, from, r)
      PROVE  Goal
  <2>1. /\ Others(t) /\ calls[t].at = "off" /\ calls'[t].at \in {"op", "gate"}
        /\ calls'[t].n = issued + 1 /\ calls'[t].deferred = FALSE
    BY <1>1, <1>4, IssueEffect
  <2>2. open' = open \cup {issued + 1} /\ issued' = issued + 1
    BY <1>4 DEF Issue
  <2>3. QED
    BY <2>1, <2>2 DEF Goal
<1>5. ASSUME NEW t \in Threads, Gate(t)
      PROVE  Goal
  <2>1. UNCHANGED <<open, issued>>
    BY <1>5 DEF Gate, bounds
  <2>2. QED
    BY <1>1, <1>3, <1>5, <2>1, GateEffect DEF GoesOn
<1>6. ASSUME NEW t \in Threads, Answer(t)
      PROVE  Goal
  <2>1. t \in Workers /\ calls[t].at = "reply" /\ calls[t] \in Call
    BY <1>1, <1>6, ThreadPlace DEF Answer, At
  <2>2. open' = open \ {calls[t].n} /\ issued' = issued
    BY <1>6 DEF Answer, bounds
  <2>3. CASE Moves(t, "op")
    <3>1. Others(t) /\ Alike(calls[t], calls'[t]) /\ calls'[t].at = "op"
      BY <1>1, <2>3, MovesEffect DEF Places
    <3>2. QED
      BY <2>1, <2>2, <3>1 DEF Goal, Alike
  <2>4. CASE Becomes(t, Off)
    <3>1. calls'[t] = Off /\ Others(t)
      BY <1>1, <2>4, OneCall, OffCall DEF CallsSound, Others
    <3>2. QED
      BY <2>1, <2>2, <3>1 DEF Goal
  <2>5. QED
    BY <1>6, <2>3, <2>4 DEF Answer
<1>7. ASSUME NEW t \in Threads, Begin(t)
      PROVE  Goal
  <2>1. \A u \in Threads \ {t} : Alike(calls[u], calls'[u]) /\ calls'[u].at = calls[u].at
    BY <1>1, <1>7, BeginCalls
  <2>2. Alike(calls[t], calls'[t]) /\ calls'[t].at = "save" /\ calls[t].at = "op"
    BY <1>1, <1>7, BeginCalls DEF Begin, At
  <2>3. \A u \in Threads : GoesOn(calls[u], calls'[u])
    BY <2>1, <2>2 DEF GoesOn, Alike
  <2>4. UNCHANGED <<open, issued>>
    BY <1>7 DEF Begin, bounds
  <2>5. QED
    BY <2>3, <2>4 DEF Goal
<1>8. ASSUME NEW t \in Threads, UNCHANGED <<open, issued>>, calls[t].at # "reply",
             Becomes(t, Finished(t))
      PROVE  Goal
  <2>1. \/ calls'[t] = Off /\ (t = Main \/ calls[t].deferred)
        \/ ~calls[t].deferred /\ Alike(calls[t], calls'[t]) /\ calls'[t].at = "reply"
    BY <1>1, <1>8, FinishedEffect
  <2>2. GoesOn(calls[t], calls'[t]) \/ EndsUnawaited(t)
    BY <1>8, <2>1 DEF GoesOn, EndsUnawaited, Alike
  <2>3. QED
    BY <1>1, <1>3, <1>8, <2>2, FinishedEffect
<1>9. ASSUME NEW t \in Threads, UNCHANGED <<open, issued>>, calls[t].at \in Working,
             Others(t), Alike(calls[t], calls'[t]), calls'[t].at \in Working
      PROVE  Goal
  <2>1. GoesOn(calls[t], calls'[t])
    BY <1>9 DEF GoesOn, Alike, Working
  <2>2. QED
    BY <1>3, <1>9, <2>1
<1>10. ASSUME NEW t \in Threads,
              Refuse(t) \/ WriteFails(t) \/ SetFlag(t) \/ BindFails(t)
       PROVE  Goal
  BY <1>8, <1>10 DEF Refuse, WriteFails, SetFlag, BindFails, Failed, At, bounds
<1>11. ASSUME NEW t \in Threads, Merge(t) \/ Assign(t) \/ Dump(t) \/ Replace(t)
       PROVE  Goal
  <2>1. UNCHANGED <<open, issued>> /\ calls[t].at \in {"save", "assign", "dump", "replace"}
    BY <1>11 DEF Merge, Assign, Dump, Replace, bounds, At
  <2>2. calls[t] \in Call /\ Shape(calls[t])
    BY <1>1, ThreadPlace
  <2>3. CASE Becomes(t, Finished(t))
    BY <1>8, <2>1, <2>3
  <2>4. CASE Moves(t, "dump")
    BY <1>1, <1>9, <2>1, <2>4, MovesEffect DEF Places, Working
  <2>5. ASSUME NEW p \in {"assign", "replace", "apply"}, NEW q \in Patches, Carries(t, p, q)
        PROVE  Goal
    <3>1. p \in Places /\ p \in Working /\ calls[t].at \in Working
      BY <2>1 DEF Places, Working
    <3>2. Others(t) /\ Alike(calls[t], calls'[t]) /\ calls'[t].at = p
      BY <1>1, <2>5, <3>1, CarriesEffect
    <3>3. QED
      BY <1>9, <2>1, <3>1, <3>2
  <2>6. CASE Merge(t)
    <3>1. calls[t].patch \in Patches /\ DOMAIN calls[t].patch \subseteq Fields
      BY <2>2, <2>6 DEF Merge, At, Shape, Call
    <3>2. Updated(mem, calls[t].patch) \in Patches
      BY <1>1, <3>1, UpdatedConfig, ConfigElim
    <3>3. QED
      BY <2>3, <2>5, <2>6, <3>2 DEF Merge, Failed
  <2>7. CASE Assign(t)
    BY <2>4, <2>7 DEF Assign
  <2>8. mem \in Patches
    BY <1>1, ConfigElim
  <2>9. CASE Dump(t) \/ Replace(t)
    BY <2>3, <2>5, <2>8, <2>9 DEF Dump, Replace
  <2>10. QED
    BY <1>11, <2>6, <2>7, <2>9
<1>12. ASSUME NEW t \in Threads, Apply(t) \/ StartPart(t) \/ StopPart(t)
       PROVE  Goal
  <2>1. UNCHANGED <<open, issued>> /\ calls[t].at \in {"apply", "starting", "stopping"}
    BY <1>12 DEF Apply, StartPart, StopPart, bounds, At
  <2>2. CASE Becomes(t, Finished(t))
    BY <1>8, <2>1, <2>2
  <2>3. CASE Moves(t, "starting") \/ Moves(t, "stopping")
    BY <1>1, <1>9, <2>1, <2>3, MovesEffect DEF Places, Working
  <2>4. CASE NextPart(t) /\ calls[t].part <= 3
    BY <1>1, <1>9, <2>1, <2>4, NextPartEffect DEF Working
  <2>5. QED
    BY <1>12, <2>2, <2>3, <2>4 DEF Apply, StartPart, StopPart
<1>13. ASSUME UNCHANGED vars
       PROVE  Goal
  BY <1>2, <1>13 DEF Goal, vars
<1>14. ASSUME NEW t \in Workers,
              \/ \E r \in WebRequests : Issue(t, "web", r)
              \/ \E r \in RemoteRequests : Issue(t, "remote", r)
       PROVE  Goal
  <2>1. (\A r \in WebRequests : MayAsk("web", r))
          /\ (\A r \in RemoteRequests : MayAsk("remote", r))
    BY DEF MayAsk
  <2>2. QED
    BY <1>4, <1>14, <2>1
<1>15. ASSUME NEW t \in Threads, Runs(t)
       PROVE  Goal
  BY <1>5, <1>6, <1>7, <1>10, <1>11, <1>12, <1>15 DEF Runs
<1>16. Goal
  BY <1>13, <1>14, <1>15 DEF Next
<1>17. QED
  BY <1>16 DEF Goal

LEMMA NumberedStep ==
  ASSUME Sound, Numbered, NoCallForgotten, [Next]_vars
  PROVE  Numbered' /\ NoCallForgotten'
<1>1. /\ issued \in Nat /\ open \subseteq 1..issued /\ CallsSound
      /\ \A t \in Threads : calls[t].n \in Nat
  BY ThreadPlace DEF Sound, TypeOK, Call
<1>2. Workers \subseteq Threads /\ Off.n = 0 /\ Off.at = "off" /\ ~Off.deferred
        /\ (\A t \in Threads : t = Main => calls[t].n = 0)
  BY <1>1 DEF Threads, Off, CallsSound, MainPlace
<1>3. CASE Restart
  <2>1. open' = {} /\ calls' = Booting(file) /\ issued' = issued
    BY <1>3 DEF Restart
  <2>2. file \in Config /\ Named(file)
    BY DEF Sound, SettingsSound
  <2>3. \A t \in Threads : calls'[t].n = 0
    BY <2>1, <2>2, BootingSound
  <2>4. QED
    BY <1>1, <2>1, <2>3 DEF Numbered, NoCallForgotten
<1>4. CASE \E t \in Workers :
             /\ Others(t) /\ calls[t].at = "off" /\ calls'[t].at # "off"
             /\ calls'[t].n = issued + 1 /\ ~calls'[t].deferred
             /\ open' = open \cup {issued + 1} /\ issued' = issued + 1
  <2>1. PICK t \in Workers :
             /\ Others(t) /\ calls[t].at = "off" /\ calls'[t].at # "off"
             /\ calls'[t].n = issued + 1 /\ ~calls'[t].deferred
             /\ open' = open \cup {issued + 1} /\ issued' = issued + 1
    BY <1>4
  <2>2. \A u \in Threads \ {t} : calls'[u] = calls[u]
    BY <2>1 DEF Others
  <2>3. ASSUME NEW u \in Threads
        PROVE  /\ calls'[u].n <= issued'
               /\ calls'[u].at = "off" => calls'[u].n = 0
               /\ calls'[u].deferred /\ calls'[u].at # "reply" => calls'[u].n \notin open'
    <3>1. CASE u = t
      BY <1>1, <2>1, <3>1
    <3>2. CASE u # t
      BY <1>1, <2>1, <2>2, <3>2 DEF Numbered
    <3>3. QED
      BY <3>1, <3>2
  <2>4. ASSUME NEW n \in open'
        PROVE  \E u \in Workers : calls'[u].n = n
    <3>1. CASE n = issued + 1
      BY <2>1, <3>1
    <3>2. CASE n \in open
      <4>1. PICK u \in Workers : calls[u].n = n
        BY <3>2 DEF NoCallForgotten
      <4>2. u # t
        BY <1>1, <1>2, <2>1, <3>2, <4>1 DEF Numbered
      <4>3. QED
        BY <1>2, <2>2, <4>1, <4>2
    <3>3. QED
      BY <2>1, <3>1, <3>2
  <2>5. QED
    BY <2>3, <2>4 DEF Numbered, NoCallForgotten
<1>5. CASE \E t \in Workers :
             /\ Others(t) /\ open' = open \ {calls[t].n} /\ issued' = issued
             /\ \/ calls'[t] = Off
                \/ calls'[t].n = calls[t].n /\ calls'[t].at # "off"
  <2>1. PICK t \in Workers :
             /\ Others(t) /\ open' = open \ {calls[t].n} /\ issued' = issued
             /\ \/ calls'[t] = Off
                \/ calls'[t].n = calls[t].n /\ calls'[t].at # "off"
    BY <1>5
  <2>2. \A u \in Threads \ {t} : calls'[u] = calls[u]
    BY <2>1 DEF Others
  <2>3. ASSUME NEW u \in Threads
        PROVE  /\ calls'[u].n <= issued'
               /\ calls'[u].at = "off" => calls'[u].n = 0
               /\ calls'[u].deferred /\ calls'[u].at # "reply" => calls'[u].n \notin open'
    <3>1. CASE u = t
      BY <1>1, <1>2, <2>1, <3>1 DEF Numbered
    <3>2. CASE u # t
      BY <2>1, <2>2, <3>2 DEF Numbered
    <3>3. QED
      BY <3>1, <3>2
  <2>4. ASSUME NEW n \in open'
        PROVE  \E u \in Workers : calls'[u].n = n
    <3>1. PICK u \in Workers : calls[u].n = n
      BY <2>1 DEF NoCallForgotten
    <3>2. u # t
      BY <2>1, <3>1
    <3>3. QED
      BY <1>2, <2>2, <3>1, <3>2
  <2>5. QED
    BY <2>3, <2>4 DEF Numbered, NoCallForgotten
<1>6. CASE /\ UNCHANGED <<open, issued>>
           /\ \A u \in Threads : GoesOn(calls[u], calls'[u]) \/ EndsUnawaited(u)
  <2>1. ASSUME NEW u \in Threads
        PROVE  /\ calls'[u].n <= issued'
               /\ calls'[u].at = "off" => calls'[u].n = 0
               /\ calls'[u].deferred /\ calls'[u].at # "reply" => calls'[u].n \notin open'
    BY <1>1, <1>2, <1>6 DEF Numbered, GoesOn, EndsUnawaited
  <2>2. ASSUME NEW n \in open'
        PROVE  \E u \in Workers : calls'[u].n = n
    <3>1. PICK u \in Workers : calls[u].n = n
      BY <1>6 DEF NoCallForgotten
    <3>2. ~EndsUnawaited(u)
      BY <1>1, <1>2, <1>6, <3>1 DEF Numbered, EndsUnawaited
    <3>3. QED
      BY <1>2, <1>6, <3>1, <3>2 DEF GoesOn
  <2>3. QED
    BY <2>1, <2>2 DEF Numbered, NoCallForgotten
<1>7. QED
  BY <1>3, <1>4, <1>5, <1>6, HistoryStep

LEMMA NumberedAlways == Spec => [](Sound /\ Numbered /\ NoCallForgotten)
<1>1. Init => Sound /\ Numbered /\ NoCallForgotten
  <2>1. ASSUME Init
        PROVE  Numbered /\ NoCallForgotten
    <3>1. file \in Config /\ Named(file)
      BY <2>1, SoundInit DEF Sound, SettingsSound
    <3>2. \A t \in Threads : calls[t].n = 0
      BY <2>1, <3>1, BootingSound DEF Init
    <3>3. QED
      BY <2>1, <3>2 DEF Init, Numbered, NoCallForgotten
  <2>2. QED
    BY <2>1, SoundInit
<1>2. Sound /\ Numbered /\ NoCallForgotten /\ [Next]_vars
        => Sound' /\ Numbered' /\ NoCallForgotten'
  BY SoundStep, NumberedStep
<1>3. QED
  BY <1>1, <1>2, PTL DEF Spec

\* "Never leave the Desktop waiting": whatever failed on the way, no thread
\* ends without having answered its call, unless the process ends with it.
THEOREM NoCallForgottenAlways == Spec => []NoCallForgotten
BY NumberedAlways, PTL

\* A call of the Desktop that cuts the connection replies first, for every
\* command but the channel.
THEOREM DeferredAfterReplyAlways == Spec => DeferredAfterReply
<1>1. ASSUME Sound, Numbered, NEW t \in Workers, Apply(t), calls[t].from = "remote"
      PROVE  calls[t].n \notin open \/ calls[t].op = "channel"
  <2>1. t \in Threads /\ calls[t].at = "apply" /\ Shape(calls[t]) /\ calls[t] \in Call
    BY <1>1, ThreadPlace DEF Apply, At, Threads, Sound
  <2>2. /\ calls[t].op \in RemoteOps \ {"other", "deny", "allow"}
        /\ calls[t].op \in {"settings", "reset"} => calls[t].deferred
    BY <1>1, <2>1 DEF Shape, Working, Commits
  <2>3. calls[t].deferred => calls[t].n \notin open
    BY <1>1, <2>1 DEF Numbered
  <2>4. QED
    BY <2>2, <2>3 DEF RemoteOps, WebOps
<1>2. Sound /\ Numbered /\ NoCallForgotten /\ [Next]_vars =>
        [\A t \in Workers :
           Apply(t) /\ calls[t].from = "remote"
             => calls[t].n \notin open \/ calls[t].op = "channel"]_vars
  BY <1>1
<1>3. QED
  BY <1>2, NumberedAlways, PTL DEF Spec, DeferredAfterReply

-----------------------------------------------------------------------------
(* Memory, file and running parts agree                                    *)

Everything == {"file", "applied", "parts"}
Running(enabled) == IF enabled THEN AllParts ELSE {}
FirstParts(k) == {Parts[i] : i \in 1..k}

FileAgrees == "file" \in mixed \/ file = mem
ToldAgrees == "applied" \in mixed \/ effective = Applied(mem)
PartsAgree == "parts" \in mixed \/ parts = Running(started)
FlagAgrees == "parts" \in mixed \/ started = mem.enabled
Settled == FileAgrees /\ ToldAgrees /\ PartsAgree /\ FlagAgrees

\* What a call that overlaps with no other has done so far, and what it has
\* not touched yet.
Tidy(c) ==
  /\ c.at \in {"save", "assign"} => Settled
  /\ c.at \in {"save", "assign"} /\ ~Commits(c.op) => c.about = {"denied"}
  /\ c.at = "save" => \A f \in DOMAIN c.patch \ c.about : c.patch[f] = mem[f]
  /\ c.at = "assign" => \A f \in Fields \ c.about : c.patch[f] = mem[f]
  /\ c.at \in {"dump", "replace", "apply"} => PartsAgree
  /\ c.at \in {"dump", "replace"} /\ ~Commits(c.op) => ToldAgrees /\ FlagAgrees
  /\ c.at \in {"replace", "apply"} => c.patch = mem
  /\ c.at \in {"apply", "starting", "stopping"} => file = mem
  /\ c.at \in {"starting", "stopping"} => effective = Applied(mem)
  /\ c.at = "starting" => mem.enabled /\ ("parts" \in mixed \/ parts = FirstParts(c.part - 1))
  /\ c.at = "stopping" => ~mem.enabled /\ ("parts" \in mixed \/ parts = FirstParts(4 - c.part))

\* A call at work is alone, or everything may be left unequal.
Overlap ==
  \A t \in Threads :
    Busy(t) => IF calls[t].lone THEN \A u \in Threads \ {t} : ~Busy(u)
               ELSE mixed = Everything

AtRest == (\A t \in Threads : ~Busy(t)) => Settled
AtWork == \A t \in Threads : Busy(t) /\ calls[t].lone => Tidy(calls[t])

Agreement == Overlap /\ AtRest /\ AtWork

LEMMA FirstPartsFacts ==
  /\ FirstParts(0) = {} /\ FirstParts(3) = AllParts
  /\ \A k \in 1..3 : /\ FirstParts(k - 1) \cup {Parts[k]} = FirstParts(k)
                     /\ FirstParts(4 - k) \ {Parts[4 - k]} = FirstParts(4 - (k + 1))
<1>1. Parts[1] = "upstream" /\ Parts[2] = "udp" /\ Parts[3] = "discovery"
  BY DEF Parts
<1>2. /\ FirstParts(0) = {} /\ FirstParts(1) = {Parts[1]}
      /\ FirstParts(2) = {Parts[1], Parts[2]} /\ FirstParts(3) = {Parts[1], Parts[2], Parts[3]}
  BY DEF FirstParts
<1>3. AllParts = {Parts[1], Parts[2], Parts[3]}
  BY DEF AllParts
<1>4. ASSUME NEW k \in 1..3
      PROVE  /\ FirstParts(k - 1) \cup {Parts[k]} = FirstParts(k)
             /\ FirstParts(4 - k) \ {Parts[4 - k]} = FirstParts(4 - (k + 1))
  <2>1. CASE k = 1
    BY <1>1, <1>2, <2>1
  <2>2. CASE k = 2
    BY <1>1, <1>2, <2>2
  <2>3. CASE k = 3
    BY <1>1, <1>2, <2>3
  <2>4. QED
    BY <2>1, <2>2, <2>3
<1>5. QED
  BY <1>2, <1>3, <1>4

\* A call that is not at work before or after a step leaves things as they are.
LEMMA QuietStep ==
  ASSUME Agreement, NEW t \in Threads, Others(t), ~Busy(t), ~Busy(t)',
         UNCHANGED <<mem, file, effective, parts, started, mixed>>
  PROVE  Agreement'
<1>1. \A u \in Threads : Busy(u)' <=> Busy(u)
  BY DEF Others, Busy
<1>2. \A u \in Threads : Busy(u) => calls'[u] = calls[u]
  BY DEF Others
<1>3. Settled' <=> Settled
  BY DEF Settled, FileAgrees, ToldAgrees, PartsAgree, FlagAgrees, Running, Applied
<1>4. Overlap' /\ AtRest'
  BY <1>1, <1>2, <1>3 DEF Agreement, Overlap, AtRest
<1>5. ASSUME NEW u \in Threads, Busy(u)', calls'[u].lone
      PROVE  Tidy(calls[u])'
  <2>1. Busy(u) /\ calls'[u] = calls[u] /\ Tidy(calls[u])
    BY <1>1, <1>2, <1>5 DEF Agreement, AtWork
  <2>2. QED
    BY <1>3, <2>1 DEF Tidy, FileAgrees, ToldAgrees, PartsAgree, FlagAgrees, Running, Applied
<1>6. QED
  BY <1>4, <1>5 DEF Agreement, AtWork

\* A step of a call that is alone.
LEMMA LoneStep ==
  ASSUME Agreement, NEW t \in Threads, Others(t), Busy(t), calls[t].lone,
         Busy(t)' => calls'[t].lone /\ Tidy(calls[t])',
         ~Busy(t)' => Settled'
  PROVE  Agreement'
<1>1. \A u \in Threads \ {t} : ~Busy(u) /\ ~Busy(u)'
  BY DEF Agreement, Overlap, Others, Busy
<1>2. Overlap' /\ AtRest' /\ AtWork'
  BY <1>1 DEF Overlap, AtRest, AtWork
<1>3. QED
  BY <1>2 DEF Agreement

\* A step of a call that overlaps.
LEMMA OverlapStep ==
  ASSUME Agreement, NEW t \in Threads, Others(t), Busy(t), ~calls[t].lone,
         mixed' = mixed, Busy(t)' => ~calls'[t].lone
  PROVE  Agreement'
<1>1. mixed = Everything /\ mixed' = Everything
  BY DEF Agreement, Overlap
<1>2. \A u \in Threads : Busy(u) => ~calls[u].lone
  BY DEF Agreement, Overlap
<1>3. \A u \in Threads : Busy(u)' => ~calls'[u].lone
  BY <1>2 DEF Others, Busy
<1>4. Settled'
  BY <1>1 DEF Everything, Settled, FileAgrees, ToldAgrees, PartsAgree, FlagAgrees
<1>5. QED
  BY <1>1, <1>3, <1>4 DEF Agreement, Overlap, AtRest, AtWork

LEMMA BeginAgrees ==
  ASSUME Sound, Agreement, NEW t \in Threads, Begin(t)
  PROVE  Agreement'
<1>1. CallsSound /\ mem \in Config
  BY DEF Sound, SettingsSound
<1> DEFINE lone == \A u \in Threads \ {t} : ~Busy(u)
           c == calls[t]
           d == calls'[t]
<1>2. /\ \A u \in Threads : Alike(calls[u], calls'[u])
      /\ d.at = "save" /\ d.patch = Patch(c) /\ (d.lone <=> lone)
      /\ \A u \in Threads \ {t} :
           /\ calls'[u].at = calls[u].at
           /\ calls'[u].lone <=> (calls[u].lone /\ ~Busy(u))
      /\ mixed' = IF lone THEN mixed ELSE Everything
  BY <1>1, BeginCalls DEF Everything
<1>3. UNCHANGED <<mem, file, effective, parts, started>>
  BY DEF Begin, settings, runtime
<1>4. c \in Call /\ Shape(c) /\ c.at = "op"
  BY <1>1, ThreadPlace DEF Begin, At
<1>5. \A u \in Threads \ {t} : Busy(u)' <=> Busy(u)
  BY <1>2 DEF Busy
<1>6. CASE lone
  <2>1. mixed' = mixed /\ d.lone
    BY <1>2, <1>6
  <2>2. Settled
    BY <1>4, <1>6 DEF Agreement, AtRest, Busy
  <2>3. Settled'
    BY <1>3, <2>1, <2>2
       DEF Settled, FileAgrees, ToldAgrees, PartsAgree, FlagAgrees, Running, Applied
  <2>4. /\ \A f \in DOMAIN Patch(c) \ c.about : Patch(c)[f] = mem[f]
        /\ ~Commits(c.op) => c.about = {"denied"}
    <3>1. Asked(c) /\ c.op \in RemoteOps /\ c.op # "other" /\ c.patch \in Patches
      BY <1>4 DEF Shape, Call
    <3>2. QED
      BY <1>1, <3>1, PatchSaved DEF Asked, Commits
  <2>5. d.op = c.op /\ d.about = c.about
    BY <1>2 DEF Alike
  <2>6. Tidy(calls[t])'
    BY <1>2, <1>3, <2>3, <2>4, <2>5 DEF Tidy
  <2>7. Overlap' /\ AtRest'
    BY <1>2, <1>5, <1>6, <2>3 DEF Overlap, AtRest
  <2>8. AtWork'
    BY <1>5, <1>6, <2>6 DEF AtWork
  <2>9. QED
    BY <2>7, <2>8 DEF Agreement
<1>7. CASE ~lone
  <2>1. mixed' = Everything
    BY <1>2, <1>7
  <2>2. \A u \in Threads : Busy(u)' => ~calls'[u].lone
    BY <1>2, <1>5, <1>7
  <2>3. Settled'
    BY <2>1 DEF Everything, Settled, FileAgrees, ToldAgrees, PartsAgree, FlagAgrees
  <2>4. QED
    BY <2>1, <2>2, <2>3 DEF Agreement, Overlap, AtRest, AtWork
<1>8. QED
  BY <1>6, <1>7

\* Calls that are not at work.
LEMMA IdleAgrees ==
  ASSUME Sound, Agreement, NEW t \in Threads, Gate(t) \/ Answer(t) \/ Refuse(t)
  PROVE  Agreement'
<1>1. CallsSound
  BY DEF Sound
<1>2. ~Busy(t) /\ UNCHANGED <<mem, file, effective, parts, started, mixed>>
  BY DEF Gate, Answer, Refuse, At, Busy, settings, runtime
<1>3. Others(t) /\ ~Busy(t)'
  <2>1. CASE Gate(t)
    BY <1>1, <2>1, GateEffect DEF Busy
  <2>2. CASE Answer(t)
    <3>1. CASE Moves(t, "op")
      BY <1>1, <3>1, MovesEffect DEF Places, Busy
    <3>2. CASE Becomes(t, Off)
      <4>1. calls'[t] = Off /\ Others(t)
        BY <1>1, <3>2, OneCall, OffCall DEF CallsSound, Others
      <4>2. QED
        BY <4>1 DEF Off, Busy
    <3>3. QED
      BY <2>2, <3>1, <3>2 DEF Answer
  <2>3. CASE Refuse(t)
    BY <1>1, <2>3, FinishedEffect DEF Refuse, Failed, Off, Busy
  <2>4. QED
    BY <2>1, <2>2, <2>3
<1>4. QED
  BY <1>2, <1>3, QuietStep

\* A call that ends is not at work any longer.
LEMMA EndsIdle ==
  ASSUME CallsSound, NEW t \in Threads, Becomes(t, Finished(t))
  PROVE  Others(t) /\ ~Busy(t)'
BY FinishedEffect DEF Off, Busy

LEMMA SaveAgrees ==
  ASSUME Sound, Agreement, NEW t \in Threads,
         Merge(t) \/ Assign(t) \/ Dump(t) \/ WriteFails(t) \/ Replace(t)
  PROVE  Agreement'
<1> DEFINE c == calls[t]
<1>1. CallsSound /\ mem \in Config /\ mixed \subseteq Everything
  BY DEF Sound, SettingsSound, TypeOK, Everything
<1>2. c \in Call /\ Shape(c) /\ c.at \in {"save", "assign", "dump", "replace"} /\ Busy(t)
  <2>1. c.at \in {"save", "assign", "dump", "replace"}
    BY DEF Merge, Assign, Dump, WriteFails, Replace, At
  <2>2. QED
    BY <1>1, <2>1, ThreadPlace DEF Busy
<1>3. UNCHANGED <<effective, parts, started>>
  BY DEF Merge, Assign, Dump, WriteFails, Replace, runtime
\* Where the call is after the step.
<1>4. \/ Becomes(t, Finished(t))
      \/ Assign(t) /\ Moves(t, "dump")
      \/ \E p \in {"assign", "replace", "apply"}, q \in Patches : Carries(t, p, q)
  <2>1. CASE Merge(t)
    <3>1. c.patch \in Patches /\ (c.at = "save" => DOMAIN c.patch \subseteq Fields)
      BY <1>2 DEF Call, Shape
    <3>2. c.at = "save"
      BY <2>1 DEF Merge, At
    <3>3. Updated(mem, c.patch) \in Patches
      BY <1>1, <3>1, <3>2, UpdatedConfig, ConfigElim
    <3>4. QED
      BY <2>1, <3>3 DEF Merge, Failed
  <2>2. CASE Assign(t)
    BY <2>2 DEF Assign
  <2>3. CASE Dump(t) \/ WriteFails(t) \/ Replace(t)
    BY <1>1, <2>3, ConfigElim DEF Dump, WriteFails, Replace, Failed
  <2>4. QED
    BY <2>1, <2>2, <2>3
<1>5. Others(t) /\ (Busy(t)' => calls'[t].lone = c.lone)
  <2>1. CASE Becomes(t, Finished(t))
    BY <1>1, <2>1, EndsIdle
  <2>2. CASE Moves(t, "dump")
    BY <1>1, <2>2, MovesEffect DEF Places, Working
  <2>3. CASE \E p \in {"assign", "replace", "apply"}, q \in Patches : Carries(t, p, q)
    <3>1. PICK p \in {"assign", "replace", "apply"}, q \in Patches : Carries(t, p, q)
      BY <2>3
    <3>2. p \in Places
      BY DEF Places, Working
    <3>3. QED
      BY <1>1, <3>1, <3>2, CarriesEffect
  <2>4. QED
    BY <1>4, <2>1, <2>2, <2>3
<1>6. CASE ~c.lone
  <2>1. mixed' = mixed
    <3>1. mixed = Everything
      BY <1>2, <1>6 DEF Agreement, Overlap
    <3>2. QED
      BY <1>6, <3>1 DEF Merge, Assign, Dump, WriteFails, Replace, Settles, Everything
  <2>2. QED
    BY <1>2, <1>5, <1>6, <2>1, OverlapStep
<1>7. CASE c.lone
  <2>1. Tidy(c)
    BY <1>2, <1>7 DEF Agreement, AtWork
  <2>2. SUFFICES /\ Busy(t)' => Tidy(calls[t])'
                 /\ ~Busy(t)' => Settled'
    BY <1>2, <1>5, <1>7, LoneStep
  <2>3. CASE Merge(t)
    <3> DEFINE next == Updated(mem, c.patch)
    <3>1. c.at = "save" /\ UNCHANGED <<mem, file, mixed>>
      BY <2>3 DEF Merge, At, settings
    <3>2. Settled /\ \A f \in DOMAIN c.patch \ c.about : c.patch[f] = mem[f]
      BY <2>1, <3>1 DEF Tidy
    <3>3. Settled'
      BY <1>3, <3>1, <3>2
         DEF Settled, FileAgrees, ToldAgrees, PartsAgree, FlagAgrees, Running, Applied
    <3>4. CASE Becomes(t, Finished(t))
      BY <1>1, <3>3, <3>4, EndsIdle
    <3>5. CASE Carries(t, "assign", next)
      <4>1. c.patch \in Patches /\ DOMAIN c.patch \subseteq Fields
        BY <1>2, <3>1 DEF Call, Shape
      <4>2. mem \in Patches /\ DOMAIN mem = Fields
        BY <1>1, ConfigElim
      <4>3. next \in Patches /\ \A f \in Fields \ c.about : next[f] = mem[f]
        BY <3>2, <4>1, <4>2, UpdatedPatch
      <4>4. Alike(c, calls'[t]) /\ calls'[t].at = "assign" /\ calls'[t].patch = next
        BY <1>1, <3>5, <4>3, CarriesEffect DEF Places, Working
      <4>5. ~Commits(c.op) => c.about = {"denied"}
        BY <2>1, <3>1 DEF Tidy
      <4> HIDE DEF next
      <4>6. Tidy(calls[t])' /\ Busy(t)'
        BY <3>1, <3>3, <4>3, <4>4, <4>5 DEF Tidy, Alike, Busy
      <4>7. QED
        BY <4>6
    <3>6. QED
      BY <2>3, <3>4, <3>5 DEF Merge, Failed
  <2>4. CASE Assign(t)
    <3>1. /\ c.at = "assign" /\ UNCHANGED <<file, mixed>> /\ mem' = c.patch
          /\ Moves(t, "dump")
      BY <2>4 DEF Assign, At
    <3>2. Alike(c, calls'[t]) /\ calls'[t].at = "dump"
      BY <1>1, <3>1, MovesEffect DEF Places, Working
    <3>3. /\ Settled /\ \A f \in Fields \ c.about : c.patch[f] = mem[f]
          /\ ~Commits(c.op) => c.about = {"denied"}
      BY <2>1, <3>1 DEF Tidy
    <3>4. PartsAgree'
      BY <1>3, <3>1, <3>3 DEF Settled, PartsAgree, Running
    <3>5. ASSUME ~Commits(c.op)
          PROVE  ToldAgrees' /\ FlagAgrees'
      <4>1. /\ c.patch.id = mem.id /\ c.patch.server = mem.server
            /\ c.patch.channel = mem.channel /\ c.patch.enabled = mem.enabled
        BY <3>3, <3>5 DEF Fields
      <4>2. Applied(mem)' = Applied(mem) /\ mem'.enabled = mem.enabled
        BY <3>1, <4>1 DEF Applied
      <4>3. QED
        BY <1>3, <3>1, <3>3, <4>2 DEF Settled, ToldAgrees, FlagAgrees
    <3>6. Tidy(calls[t])' /\ Busy(t)'
      BY <3>2, <3>4, <3>5 DEF Tidy, Alike, Busy
    <3>7. QED
      BY <3>6
  <2>5. CASE Dump(t)
    <3>1. /\ c.at = "dump" /\ UNCHANGED <<mem, file, mixed>> /\ Carries(t, "replace", mem)
      BY <2>5 DEF Dump, At, settings
    <3>2. Alike(c, calls'[t]) /\ calls'[t].at = "replace" /\ calls'[t].patch = mem
      BY <1>1, <3>1, CarriesEffect, ConfigElim DEF Places, Working
    <3>3. PartsAgree /\ (~Commits(c.op) => ToldAgrees /\ FlagAgrees)
      BY <2>1, <3>1 DEF Tidy
    <3>4. PartsAgree' /\ (~Commits(c.op) => ToldAgrees' /\ FlagAgrees')
      BY <1>3, <3>1, <3>3 DEF ToldAgrees, PartsAgree, FlagAgrees, Running, Applied
    <3>5. Tidy(calls[t])' /\ Busy(t)'
      BY <3>1, <3>2, <3>4 DEF Tidy, Alike, Busy
    <3>6. QED
      BY <3>5
  <2>6. CASE WriteFails(t)
    <3>1. Becomes(t, Finished(t)) /\ Everything \subseteq mixed'
      BY <2>6 DEF WriteFails, Failed, Everything
    <3>2. Settled'
      BY <3>1 DEF Everything, Settled, FileAgrees, ToldAgrees, PartsAgree, FlagAgrees
    <3>3. QED
      BY <1>1, <3>1, <3>2, EndsIdle
  <2>7. CASE Replace(t)
    <3>1. /\ c.at = "replace" /\ mem' = mem /\ file' = c.patch
          /\ mixed' = mixed \ {"file"}
      BY <1>7, <2>7 DEF Replace, At, Settles
    <3>2. /\ PartsAgree /\ c.patch = mem
          /\ ~Commits(c.op) => ToldAgrees /\ FlagAgrees
      BY <2>1, <3>1 DEF Tidy
    <3>3. PartsAgree' /\ file' = mem'
      BY <1>3, <3>1, <3>2 DEF PartsAgree, Running
    <3>4. CASE Commits(c.op)
      <4>1. Carries(t, "apply", mem)
        BY <2>7, <3>4 DEF Replace
      <4>2. calls'[t].at = "apply" /\ calls'[t].patch = mem
        BY <1>1, <4>1, CarriesEffect, ConfigElim DEF Places, Working
      <4>3. Tidy(calls[t])' /\ Busy(t)'
        BY <3>1, <3>3, <4>2 DEF Tidy, Busy
      <4>4. QED
        BY <4>3
    <3>5. CASE ~Commits(c.op)
      <4>1. Becomes(t, Finished(t))
        BY <2>7, <3>5 DEF Replace
      <4>2. ToldAgrees' /\ FlagAgrees'
        BY <1>3, <3>1, <3>2, <3>5 DEF ToldAgrees, FlagAgrees, Applied
      <4>3. Settled'
        BY <3>3, <4>2 DEF Settled, FileAgrees
      <4>4. QED
        BY <1>1, <4>1, <4>3, EndsIdle
    <3>6. QED
      BY <3>4, <3>5
  <2>8. QED
    BY <2>3, <2>4, <2>5, <2>6, <2>7
<1>8. QED
  BY <1>6, <1>7

LEMMA ApplyAgrees ==
  ASSUME Sound, Agreement, NEW t \in Threads,
         Apply(t) \/ StartPart(t) \/ StopPart(t) \/ SetFlag(t) \/ BindFails(t)
  PROVE  Agreement'
<1> DEFINE c == calls[t]
<1>1. CallsSound /\ mem \in Config /\ mixed \subseteq Everything /\ started \in BOOLEAN
  BY DEF Sound, SettingsSound, TypeOK, Everything
<1>2. c \in Call /\ Shape(c) /\ c.at \in {"apply", "starting", "stopping"} /\ Busy(t)
  <2>1. c.at \in {"apply", "starting", "stopping"}
    BY DEF Apply, StartPart, StopPart, SetFlag, BindFails, At
  <2>2. QED
    BY <1>1, <2>1, ThreadPlace DEF Busy
<1>3. UNCHANGED <<mem, file>>
  BY DEF Apply, StartPart, StopPart, SetFlag, BindFails, settings
<1>4. \/ Becomes(t, Finished(t))
      \/ Moves(t, "starting") \/ Moves(t, "stopping")
      \/ NextPart(t) /\ c.part <= 3
  BY DEF Apply, StartPart, StopPart, SetFlag, BindFails, Failed
<1>5. Others(t) /\ (Busy(t)' => calls'[t].lone = c.lone)
  <2>1. CASE Becomes(t, Finished(t))
    BY <1>1, <2>1, EndsIdle
  <2>2. CASE Moves(t, "starting") \/ Moves(t, "stopping")
    BY <1>1, <2>2, MovesEffect DEF Places, Working
  <2>3. CASE NextPart(t) /\ c.part <= 3
    BY <1>1, <2>3, NextPartEffect
  <2>4. QED
    BY <1>4, <2>1, <2>2, <2>3
<1>6. CASE ~c.lone
  <2>1. mixed' = mixed
    <3>1. mixed = Everything
      BY <1>2, <1>6 DEF Agreement, Overlap
    <3>2. QED
      BY <1>6, <3>1 DEF Apply, StartPart, StopPart, SetFlag, BindFails, Settles, Everything
  <2>2. QED
    BY <1>2, <1>5, <1>6, <2>1, OverlapStep
<1>7. CASE c.lone
  <2>1. Tidy(c)
    BY <1>2, <1>7 DEF Agreement, AtWork
  <2>2. SUFFICES /\ Busy(t)' => Tidy(calls[t])'
                 /\ ~Busy(t)' => Settled'
    BY <1>2, <1>5, <1>7, LoneStep
  <2>3. CASE Apply(t)
    <3>1. /\ c.at = "apply" /\ effective' = Applied(c.patch)
          /\ UNCHANGED <<parts, started>> /\ mixed' = mixed \ {"applied"}
      BY <1>7, <2>3 DEF Apply, At, Settles
    <3>2. PartsAgree /\ c.patch = mem /\ file = mem /\ c.part = 1
      BY <1>2, <2>1, <3>1 DEF Tidy, Shape, Working
    <3>3. /\ effective' = Applied(mem') /\ file' = mem' /\ PartsAgree'
          /\ mem'.enabled \in BOOLEAN
      BY <1>1, <1>3, <3>1, <3>2 DEF PartsAgree, Running, Config
    <3>4. CASE mem.enabled = started
      <4>1. Becomes(t, Finished(t))
        BY <2>3, <3>2, <3>4 DEF Apply
      <4>2. Settled'
        BY <1>3, <3>1, <3>3, <3>4 DEF Settled, FileAgrees, ToldAgrees, FlagAgrees
      <4>3. QED
        BY <1>1, <4>1, <4>2, EndsIdle
    <3>5. CASE mem.enabled # started /\ mem.enabled
      <4>1. Moves(t, "starting") /\ started = FALSE
        BY <1>1, <2>3, <3>2, <3>5 DEF Apply
      <4>2. calls'[t].at = "starting" /\ calls'[t].part = 1
        BY <1>1, <3>2, <4>1, MovesEffect DEF Places, Working
      <4>3. "parts" \in mixed' \/ parts' = FirstParts(0)
        BY <3>1, <3>2, <4>1, FirstPartsFacts DEF PartsAgree, Running
      <4>4. calls'[t].part - 1 = 0 /\ mem'.enabled
        BY <1>3, <3>5, <4>2
      <4>5. Tidy(calls[t])' /\ Busy(t)'
        BY <3>3, <4>2, <4>3, <4>4 DEF Tidy, Busy
      <4>6. QED
        BY <4>5
    <3>6. CASE mem.enabled # started /\ ~mem.enabled
      <4>1. Moves(t, "stopping") /\ started = TRUE
        BY <1>1, <2>3, <3>2, <3>3, <3>6 DEF Apply, Config
      <4>2. calls'[t].at = "stopping" /\ calls'[t].part = 1
        BY <1>1, <3>2, <4>1, MovesEffect DEF Places, Working
      <4>3. "parts" \in mixed' \/ parts' = FirstParts(3)
        BY <3>1, <3>2, <4>1, FirstPartsFacts DEF PartsAgree, Running
      <4>4. 4 - calls'[t].part = 3 /\ ~mem'.enabled
        BY <1>3, <3>6, <4>2
      <4>5. Tidy(calls[t])' /\ Busy(t)'
        BY <3>3, <4>2, <4>3, <4>4 DEF Tidy, Busy
      <4>6. QED
        BY <4>5
    <3>7. QED
      BY <3>4, <3>5, <3>6
  <2>4. CASE StartPart(t)
    <3>1. /\ c.at = "starting" /\ c.part \in 1..3 /\ parts' = parts \cup {Parts[c.part]}
          /\ UNCHANGED <<effective, mixed>> /\ NextPart(t)
      BY <1>2, <2>4 DEF StartPart, At, Call
    <3>2. /\ file = mem /\ effective = Applied(mem) /\ mem.enabled
          /\ "parts" \in mixed \/ parts = FirstParts(c.part - 1)
      BY <2>1, <3>1 DEF Tidy
    <3>3. calls'[t].at = "starting" /\ calls'[t].part = c.part + 1
      BY <1>1, <3>1, NextPartEffect
    <3>4. "parts" \in mixed' \/ parts' = FirstParts(c.part)
      BY <3>1, <3>2, FirstPartsFacts
    <3>5. calls'[t].part - 1 = c.part
      BY <3>1, <3>3
    <3>6. effective' = Applied(mem)' /\ file' = mem' /\ mem'.enabled
      BY <1>3, <3>1, <3>2 DEF Applied
    <3> HIDE DEF c
    <3>7. Tidy(calls[t])' /\ Busy(t)'
      BY <3>3, <3>4, <3>5, <3>6 DEF Tidy, Busy
    <3>8. QED
      BY <3>7
  <2>5. CASE StopPart(t)
    <3>1. /\ c.at = "stopping" /\ c.part \in 1..3 /\ parts' = parts \ {Parts[4 - c.part]}
          /\ UNCHANGED <<effective, mixed>> /\ NextPart(t)
      BY <1>2, <2>5 DEF StopPart, At, Call
    <3>2. /\ file = mem /\ effective = Applied(mem) /\ ~mem.enabled
          /\ "parts" \in mixed \/ parts = FirstParts(4 - c.part)
      BY <2>1, <3>1 DEF Tidy
    <3>3. calls'[t].at = "stopping" /\ calls'[t].part = c.part + 1
      BY <1>1, <3>1, NextPartEffect
    <3>4. "parts" \in mixed' \/ parts' = FirstParts(4 - (c.part + 1))
      BY <3>1, <3>2, FirstPartsFacts
    <3>5. effective' = Applied(mem)' /\ file' = mem' /\ ~mem'.enabled
      BY <1>3, <3>1, <3>2 DEF Applied
    <3> HIDE DEF c
    <3>6. Tidy(calls[t])' /\ Busy(t)'
      BY <3>3, <3>4, <3>5 DEF Tidy, Busy
    <3>7. QED
      BY <3>6
  <2>6. CASE SetFlag(t)
    <3>1. /\ c.at \in {"starting", "stopping"} /\ c.part = 4
          /\ started' = (c.at = "starting") /\ Becomes(t, Finished(t))
          /\ UNCHANGED <<effective, parts, mixed>>
      BY <2>6 DEF SetFlag, Flag, At
    <3>2. /\ file = mem /\ effective = Applied(mem) /\ mem.enabled \in BOOLEAN
          /\ c.at = "starting" => mem.enabled /\ ("parts" \in mixed \/ parts = FirstParts(3))
          /\ c.at = "stopping" => ~mem.enabled /\ ("parts" \in mixed \/ parts = FirstParts(0))
      BY <1>1, <2>1, <3>1 DEF Tidy, Config
    <3>3. started' = mem.enabled
      BY <3>1, <3>2
    <3>4. "parts" \in mixed \/ parts = Running(mem.enabled)
      BY <3>1, <3>2, FirstPartsFacts DEF Running
    <3>5. Settled'
      BY <1>3, <3>1, <3>2, <3>3, <3>4
         DEF Settled, FileAgrees, ToldAgrees, PartsAgree, FlagAgrees, Applied, Running
    <3>6. QED
      BY <1>1, <3>1, <3>5, EndsIdle
  <2>7. CASE BindFails(t)
    <3>1. /\ c.at = "starting" /\ Becomes(t, Finished(t))
          /\ mixed' = mixed \cup {"parts"} /\ UNCHANGED effective
      BY <2>7 DEF BindFails, Failed, At, runtime
    <3>2. file = mem /\ effective = Applied(mem)
      BY <2>1, <3>1 DEF Tidy
    <3>3. Settled'
      BY <1>3, <3>1, <3>2
         DEF Settled, FileAgrees, ToldAgrees, PartsAgree, FlagAgrees, Applied
    <3>4. QED
      BY <1>1, <3>1, <3>3, EndsIdle
  <2>8. QED
    BY <2>3, <2>4, <2>5, <2>6, <2>7
<1>8. QED
  BY <1>6, <1>7

\* A process that starts: the main thread alone is at work.
LEMMA BootingAgrees ==
  ASSUME NEW q \in Config, Named(q), NEW c, c = Booting(q)
  PROVE  /\ \A t \in Threads : /\ c[t].lone
                               /\ t # Main => c[t].at = "off"
         /\ c[Main].at = "apply" /\ c[Main].patch = q
BY BootingSound

LEMMA AgreementInit ==
  ASSUME Init
  PROVE  Agreement
<1>1. /\ file \in Config /\ Named(file) /\ mem = file /\ calls = Booting(file)
      /\ parts = {} /\ started = FALSE
  BY SoundInit DEF Init, Sound, SettingsSound
<1>2. /\ \A t \in Threads : calls[t].lone /\ (t # Main => calls[t].at = "off")
      /\ calls[Main].at = "apply" /\ calls[Main].patch = mem
  BY <1>1, BootingAgrees
<1>3. Main \in Threads /\ Busy(Main) /\ \A t \in Threads \ {Main} : ~Busy(t)
  BY <1>2 DEF Threads, Busy
<1>4. Tidy(calls[Main])
  BY <1>1, <1>2 DEF Tidy, PartsAgree, Running
<1>5. QED
  BY <1>2, <1>3, <1>4 DEF Agreement, Overlap, AtRest, AtWork

LEMMA AgreementStep ==
  ASSUME Sound, Agreement, [Next]_vars
  PROVE  Agreement'
<1>1. CallsSound /\ SettingsSound /\ issued \in Nat
  BY DEF Sound
<1>2. ASSUME NEW t \in Workers, NEW from, NEW r, MayAsk(from, r), Issue(t, from, r)
      PROVE  Agreement'
  <2>1. t \in Threads /\ ~Busy(t) /\ ~Busy(t)' /\ Others(t)
    BY <1>1, <1>2, IssueEffect DEF Busy, Threads
  <2>2. UNCHANGED <<mem, file, effective, parts, started, mixed>>
    BY <1>2 DEF Issue, settings, runtime
  <2>3. QED
    BY <2>1, <2>2, QuietStep
<1>3. CASE \E t \in Workers : \/ \E r \in WebRequests : Issue(t, "web", r)
                              \/ \E r \in RemoteRequests : Issue(t, "remote", r)
  <2>1. (\A r \in WebRequests : MayAsk("web", r))
          /\ (\A r \in RemoteRequests : MayAsk("remote", r))
    BY DEF MayAsk
  <2>2. QED
    BY <1>2, <1>3, <2>1
<1>4. ASSUME NEW t \in Threads, Runs(t)
      PROVE  Agreement'
  BY <1>4, IdleAgrees, BeginAgrees, SaveAgrees, ApplyAgrees DEF Runs
<1>5. CASE Restart
  <2>1. /\ calls' = Booting(file) /\ mem' = file /\ file' = file
        /\ parts' = {} /\ started' = FALSE
    BY <1>5 DEF Restart
  <2>2. /\ \A t \in Threads : calls'[t].lone /\ (t # Main => calls'[t].at = "off")
        /\ calls'[Main].at = "apply" /\ calls'[Main].patch = file
    BY <1>1, <2>1, BootingAgrees DEF SettingsSound
  <2>3. Main \in Threads /\ Busy(Main)' /\ \A t \in Threads \ {Main} : ~Busy(t)'
    BY <2>2 DEF Threads, Busy
  <2>4. Tidy(calls[Main])'
    BY <2>1, <2>2 DEF Tidy, PartsAgree, Running
  <2>5. QED
    BY <2>2, <2>3, <2>4 DEF Agreement, Overlap, AtRest, AtWork
<1>6. CASE UNCHANGED vars
  BY <1>6
     DEF vars, Agreement, Overlap, AtRest, AtWork, Busy, Tidy, Settled, FileAgrees,
         ToldAgrees, PartsAgree, FlagAgrees, Running, Applied
<1>7. QED
  BY <1>3, <1>4, <1>5, <1>6 DEF Next

LEMMA AgreementAlways == Spec => [](Sound /\ Agreement)
<1>1. Init => Sound /\ Agreement
  BY SoundInit, AgreementInit
<1>2. Sound /\ Agreement /\ [Next]_vars => Sound' /\ Agreement'
  BY SoundStep, AgreementStep
<1>3. QED
  BY <1>1, <1>2, PTL DEF Spec

\* Memory, file and running parts agree whenever no call is at work, but for
\* what calls that overlapped or failed half way have left: one later call,
\* alone, repairs what it touches.
THEOREM AgreeAtRestAlways == Spec => []AgreeAtRest
<1>1. Agreement => AgreeAtRest
  BY DEF Agreement, AtRest, Settled, FileAgrees, ToldAgrees, PartsAgree, FlagAgrees,
         Running, AgreeAtRest
<1>2. QED
  BY <1>1, AgreementAlways, PTL

\* A call that overlaps with no other changes only the settings it is about,
\* also when it acts long after it was asked for.
THEOREM KeepsOtherSettingsAlways == Spec => KeepsOtherSettings
<1>1. ASSUME Agreement, NEW t \in Workers, NEW f \in Fields,
             Assign(t), calls[t].lone, mem'[f] # mem[f]
      PROVE  f \in calls[t].about
  <2>1. t \in Threads /\ calls[t].at = "assign" /\ mem' = calls[t].patch
    BY <1>1 DEF Threads, Assign, At
  <2>2. Tidy(calls[t])
    BY <1>1, <2>1 DEF Agreement, AtWork, Busy
  <2>3. QED
    BY <1>1, <2>1, <2>2 DEF Tidy
<1>2. Sound /\ Agreement /\ [Next]_vars =>
        [\A t \in Workers, f \in Fields :
           Assign(t) /\ calls[t].lone /\ mem'[f] # mem[f]
             => f \in calls[t].about]_vars
  BY <1>1
<1>3. QED
  BY <1>2, AgreementAlways, PTL DEF Spec, KeepsOtherSettings
=============================================================================
