------------------------------ MODULE Presence ------------------------------
(***************************************************************************)
(* Which devices a Gateway believes it is serving: the devices table of    *)
(* state.py and the frame handlers of main.py that feed it, for several    *)
(* Gateways on one LAN.  A device attaches to the Gateway its FindMe       *)
(* picked (home, external) and sends its heartbeats and streams there; but *)
(* it answers a command from whichever Gateway sent it, and a reply may    *)
(* arrive after the device has moved on.                                   *)
(*                                                                         *)
(* Times are kept as ages that stop growing past the largest threshold.    *)
(* Claims completed by an attachment are in Claims; counters, names and    *)
(* the displayed findme_state are left out.                                *)
(***************************************************************************)
EXTENDS Integers, FiniteSets

CONSTANTS
  Gateways, Devices,
  NoGateway,      \* a device attached nowhere; a reply without FindMe block
  Deniers,        \* gateways whose operator may deny devices
  ControlStale,   \* control_stale_sec
  AttachWindow,   \* findme_attach_window_sec
  PruneAfter,     \* prune_after_sec
  MaxMoves,       \* bound of the model: changes of home
  MaxReplies      \* bound of the model: replies in flight at one time

ASSUME PresenceAssumption ==
  /\ NoGateway \notin Gateways
  /\ Deniers \subseteq Gateways
  /\ ControlStale \in Nat \ {0}
  /\ AttachWindow \in Nat \ {0}
  /\ PruneAfter \in Nat /\ PruneAfter >= ControlStale
  /\ MaxMoves \in Nat /\ MaxReplies \in Nat

VARIABLES
  devices,      \* gateway -> device -> its record, or Absent
  accept_age,   \* gateway -> device -> age of its last accepted FindMe request
  arduino,      \* gateway -> devices in arduino_hosts
  denied,       \* gateway -> denied devices
  home,         \* external: device -> gateway it is attached to
  replies,      \* external: command results in flight
  moves

vars == <<devices, accept_age, arduino, denied, home, replies, moves>>

Never == -1                    \* a timestamp that was never set (None)
MaxAge == (IF PruneAfter > AttachWindow THEN PruneAfter ELSE AttachWindow) + 1
Ages == Never..MaxAge

Absent == [known |-> FALSE, connected |-> FALSE, seen |-> Never, found |-> Never]
Fresh == [Absent EXCEPT !.known = TRUE]

-----------------------------------------------------------------------------
(* state.py: updates of one record (setdefault, then update) *)

Recorded(d) == IF d.known THEN d ELSE Fresh

\* record_heartbeat, and record_control for hello, status, update_progress.
Attaching(d) == [Recorded(d) EXCEPT !.connected = TRUE, !.seen = 0]

\* _reply_attachment: where a result's FindMe block says the device is.
\* A block that names this Gateway in another state than "attached" does not.
Attachment(g, r) ==
  IF r.names = NoGateway THEN "unsaid"
  ELSE IF r.names = g /\ r.attached THEN "here" ELSE "elsewhere"

\* record_control for a result: only a reply with a FindMe block moves it.
ResultAlwaysAttaches(g, d, r) == Attaching(d)      \* fault: any result is liveness
ResultUntimed(g, d, r) ==                       \* fault: timestamp left out
  [Recorded(d) EXCEPT !.connected = @ \/ Attachment(g, r) = "here"]
Result(g, d, r) ==
  IF r.switch \/ Attachment(g, r) = "unsaid" THEN Recorded(d)
  ELSE IF Attachment(g, r) = "here" THEN Attaching(d)
  ELSE [Recorded(d) EXCEPT !.connected = FALSE]

\* record_udp_packet: a forwarded packet is liveness, a dropped one is not.
PacketAlways(d, forwarded) ==              \* fault: dropped packets count too
  [Recorded(d) EXCEPT !.seen = 0]
Packet(d, forwarded) ==
  [Recorded(d) EXCEPT !.seen = IF forwarded THEN 0 ELSE @]

\* _mark_stale_control_locked, for one record.
GoesStaleNot(d) == FALSE                            \* fault: window ignored
GoesStale(d) == d.connected /\ d.seen # Never /\ d.seen > ControlStale

LastActiveSeen(d) == d.seen               \* fault: FindMe requests ignored
LastActive(d) ==
  IF d.seen = Never \/ (d.found # Never /\ d.found < d.seen) THEN d.found
  ELSE d.seen

Prunable(d) == LastActive(d) # Never /\ LastActive(d) > PruneAfter

MarkedUnlisted(d) ==          \* fault: a pruned record keeps its contents
  IF Prunable(d) THEN [d EXCEPT !.known = FALSE]
  ELSE IF GoesStale(d) THEN [d EXCEPT !.connected = FALSE]
  ELSE d
Marked(d) ==
  IF Prunable(d) THEN Absent
  ELSE IF GoesStale(d) THEN [d EXCEPT !.connected = FALSE]
  ELSE d

SetDevice(g, u, d) == devices' = [devices EXCEPT ![g][u] = d]

-----------------------------------------------------------------------------
(* Frames a Gateway receives (main.on_udp_packet, main.handle_udp_control) *)

\* A FindMe broadcast reaches every Gateway; one the device is not attached
\* to, or that denies it, records it as not accepted.
AcceptsFindMe(g, u) == home[u] \in {NoGateway, g} /\ u \notin denied[g]

Discover(g, u) ==
  /\ SetDevice(g, u, [Recorded(devices[g][u]) EXCEPT !.found = 0])
  /\ accept_age' = IF AcceptsFindMe(g, u)
                   THEN [accept_age EXCEPT ![g][u] = 0] ELSE accept_age
  /\ UNCHANGED <<arduino, denied, home, replies, moves>>

Heartbeat(g, u) ==
  /\ home[u] = g /\ u \notin denied[g]
  /\ SetDevice(g, u, Attaching(devices[g][u]))
  /\ arduino' = [arduino EXCEPT ![g] = @ \cup {u}]
  /\ UNCHANGED <<accept_age, denied, home, replies, moves>>

\* hello, status or update_progress frame.
Control(g, u) ==
  /\ home[u] = g /\ u \notin denied[g]
  /\ SetDevice(g, u, Attaching(devices[g][u]))
  /\ UNCHANGED <<accept_age, arduino, denied, home, replies, moves>>

\* An Arduino stream packet attaches its device within the FindMe window or
\* from a known peer, and is forwarded in any case unless denied.
ArduinoStream(g, u) ==
  LET attaches == /\ u \notin denied[g]
                  /\ accept_age[g][u] <= AttachWindow \/ u \in arduino[g]
      before == IF attaches THEN Attaching(devices[g][u]) ELSE devices[g][u] IN
  /\ home[u] = g
  /\ SetDevice(g, u, Packet(before, u \notin denied[g]))
  /\ arduino' = IF attaches THEN [arduino EXCEPT ![g] = @ \cup {u}] ELSE arduino
  /\ UNCHANGED <<accept_age, denied, home, replies, moves>>

\* is_serving is asked, and with it stale records marked, before another
\* stream packet is forwarded or dropped.
PlainStream(g, u) ==
  LET marked == [v \in Devices |-> Marked(devices[g][v])]
      forwarded == marked[u].connected /\ u \notin denied[g] IN
  /\ home[u] = g
  /\ devices' = [devices EXCEPT
        ![g] = [marked EXCEPT ![u] = Packet(@, forwarded)]]
  /\ UNCHANGED <<accept_age, arduino, denied, home, replies, moves>>

\* The backend sends a known device a command through g, and the device
\* answers: a status reply says where it is attached, or names a Gateway
\* that it is about to join or has left; other results name nothing, and
\* what an answer to findme_switch_gateway names is not read.
Poll(g, u, switch, names, attached) ==
  /\ devices[g][u].known
  /\ Cardinality(replies) < MaxReplies
  /\ attached => names # NoGateway /\ names = home[u]
  /\ switch => names = NoGateway
  /\ replies' = replies \cup {[to |-> g, uid |-> u, switch |-> switch,
                               names |-> names, attached |-> attached]}
  /\ UNCHANGED <<devices, accept_age, arduino, denied, home, moves>>

Reply(r) ==
  /\ r \in replies
  /\ replies' = replies \ {r}
  /\ IF r.uid \in denied[r.to] THEN UNCHANGED devices
     ELSE SetDevice(r.to, r.uid, Result(r.to, devices[r.to][r.uid], r))
  /\ UNCHANGED <<accept_age, arduino, denied, home, moves>>

LoseReply(r) ==
  /\ r \in replies
  /\ replies' = replies \ {r}
  /\ UNCHANGED <<devices, accept_age, arduino, denied, home, moves>>

-----------------------------------------------------------------------------
(* The rest of the Gateway, the device and the clock *)

\* is_serving, serving_count and snapshot all mark stale records first.
MarkStale(g) ==
  /\ devices' = [devices EXCEPT ![g] = [u \in Devices |-> Marked(@[u])]]
  /\ UNCHANGED <<accept_age, arduino, denied, home, replies, moves>>

Deny(g, u) ==
  /\ g \in Deniers
  /\ denied' = [denied EXCEPT ![g] = @ \cup {u}]
  /\ UNCHANGED <<devices, accept_age, arduino, home, replies, moves>>

Allow(g, u) ==
  /\ denied' = [denied EXCEPT ![g] = @ \ {u}]
  /\ UNCHANGED <<devices, accept_age, arduino, home, replies, moves>>

\* External: the device picks another Gateway, or is switched off.
Move(u, g) ==
  /\ moves < MaxMoves /\ home[u] # g
  /\ home' = [home EXCEPT ![u] = g]
  /\ moves' = moves + 1
  /\ UNCHANGED <<devices, accept_age, arduino, denied, replies>>

Older(age) == IF age = Never \/ age = MaxAge THEN age ELSE age + 1

Tick ==
  /\ devices' = [g \in Gateways |-> [u \in Devices |->
        [devices[g][u] EXCEPT !.seen = Older(@), !.found = Older(@)]]]
  /\ accept_age' = [g \in Gateways |-> [u \in Devices |->
        Older(accept_age[g][u])]]
  /\ UNCHANGED <<arduino, denied, home, replies, moves>>

-----------------------------------------------------------------------------
Init ==
  /\ devices = [g \in Gateways |-> [u \in Devices |-> Absent]]
  /\ accept_age = [g \in Gateways |-> [u \in Devices |-> MaxAge]]
  /\ arduino = [g \in Gateways |-> {}]
  /\ denied = [g \in Gateways |-> {}]
  /\ home \in [Devices -> Gateways \cup {NoGateway}]
  /\ replies = {}
  /\ moves = 0

\* What a Gateway hears of a device.
Traffic(g, u) ==
  \/ Discover(g, u)
  \/ Heartbeat(g, u)
  \/ Control(g, u)
  \/ ArduinoStream(g, u)
  \/ PlainStream(g, u)
  \/ \E r \in replies : r.to = g /\ r.uid = u /\ Reply(r)

Next ==
  \/ \E g \in Gateways, u \in Devices :
       \/ Traffic(g, u)
       \/ \E switch, attached \in BOOLEAN, names \in Gateways \cup {NoGateway} :
            Poll(g, u, switch, names, attached)
       \/ Deny(g, u)
       \/ Allow(g, u)
  \/ \E r \in replies : LoseReply(r)
  \/ \E u \in Devices, g \in Gateways \cup {NoGateway} : Move(u, g)
  \/ \E g \in Gateways : MarkStale(g)
  \/ Tick

Spec == Init /\ [][Next]_vars

\* Every Gateway pushes its status, and so marks stale records, every few
\* seconds; time passes.
FairSpec ==
  Spec /\ WF_vars(Tick) /\ \A g \in Gateways : WF_vars(MarkStale(g))

-----------------------------------------------------------------------------
(* Properties *)

Connected(g, u) == devices[g][u].connected

TypeOK ==
  /\ devices \in [Gateways -> [Devices ->
        [known : BOOLEAN, connected : BOOLEAN, seen : Ages, found : Ages]]]
  /\ \A g \in Gateways, u \in Devices :
       devices[g][u].known \/ devices[g][u] = Absent
  /\ accept_age \in [Gateways -> [Devices -> 0..MaxAge]]
  /\ arduino \in [Gateways -> SUBSET Devices]
  /\ denied \in [Gateways -> SUBSET Devices]
  /\ home \in [Devices -> Gateways \cup {NoGateway}]
  /\ replies \subseteq [to : Gateways, uid : Devices, switch : BOOLEAN,
                        names : Gateways \cup {NoGateway}, attached : BOOLEAN]
  /\ moves \in 0..MaxMoves

\* A connected record always carries the timestamp the stale window is
\* measured from: without one it would count as served for ever, and an
\* update that waits for an idle Gateway would never be applied.
ConnectedIsTimed ==
  \A g \in Gateways, u \in Devices : Connected(g, u) => devices[g][u].seen # Never

\* A Gateway comes to believe it serves a device only when the device is
\* attached there or has said so itself in a reply; being the one a command
\* happened to be routed through is not enough.
ConnectsOnlyWhenChosen ==
  [][\A g \in Gateways, u \in Devices :
       ~Connected(g, u) /\ Connected(g, u)' =>
         \/ home[u] = g
         \/ \E r \in replies : r.to = g /\ r.uid = u /\ r.names = g /\ r.attached]_vars

\* Two Gateways never keep flipping over one device: once devices stay where
\* they are, every other Gateway stops claiming them, for good, however many
\* commands the backend keeps routing through it.
OneHomeEventually ==
  <>[](\A g \in Gateways, u \in Devices : Connected(g, u) => home[u] = g)

\* A device that has been denied stops counting as served, although its
\* packets keep arriving.
DeniedGoesOffline ==
  \A g \in Gateways, u \in Devices :
    <>[](u \in denied[g]) => <>[](~Connected(g, u))

\* A device whose record carries a timestamp does leave the table once the
\* Gateway hears no more of it, whatever FindMe requests came last.
QuietTimedDevicesDropped ==
  \A g \in Gateways, u \in Devices :
    /\ <>[][~Traffic(g, u)]_vars
    /\ []<>(devices[g][u].seen # Never \/ devices[g][u].found # Never)
    => <>[](~devices[g][u].known)

-----------------------------------------------------------------------------
(* Statements of the documents that the code does not keep; README.md,     *)
(* section 5, says how each fails.                                         *)

\* state.py on prune_after_sec: a device this Gateway has not heard from in
\* this long "is dropped from self.devices entirely".
QuietDevicesDropped ==
  \A g \in Gateways, u \in Devices :
    <>[][~Traffic(g, u)]_vars => <>[](~devices[g][u].known)
=============================================================================
