------------------------------- MODULE Claims -------------------------------
(***************************************************************************)
(* FindMe claims: the operator asks the Gateway to take a nearby device    *)
(* over.  operations.serve creates a claim, asks the backend and sends the *)
(* device a switch command; the device then prefers this Gateway in its    *)
(* discovery broadcasts, is offered the claim back, and completes it with  *)
(* its first heartbeat.  The claims table of state.py is shared by         *)
(*   - the threads that run serve (web requests and the remote console),   *)
(*   - the WSS thread (gateway_claim_update),                              *)
(*   - the discovery thread, the UDP thread (heartbeats) and the main loop *)
(*     (delivery timeouts, snapshots),                                     *)
(* under a lock that serve releases between its steps.  Claims are never   *)
(* deleted; claim n of the model is the n-th created (their dict order).   *)
(* Devices are: the record of a silent one is pruned, and its FindMe       *)
(* requests fall out of a queue of 120.                                    *)
(***************************************************************************)
EXTENDS Naturals, Sequences

CONSTANTS
  Devices,
  BackendStates,    \* states a gateway_claim_update writes: any it names
  Ttl,              \* ttl_ms, in ticks
  Visitors,         \* bound of the model: devices forgotten or denied
  MaxClaims         \* bound of the model: claims created

ASSUME ClaimsAssumption ==
  /\ Ttl \in Nat \ {0}
  /\ MaxClaims \in Nat
  /\ Visitors \subseteq Devices

VARIABLES
  claims,        \* sequence of [uid, state, left]
  known,         \* devices with a record
  nearby,        \* those of them with the address of a FindMe request
  requested,     \* devices with an entry in findme_requests
  denied,        \* denied_devices of the configuration
  serve,         \* claim -> the last step of the call of serve that made it
  asked,         \* claims the backend was asked about
  sent,          \* claims whose switch command left for the device
  undelivered,   \* those of them the dispatcher is still retrying
  device_claim   \* external: the claim the firmware is switching under, or 0

devVars == <<known, nearby, requested>>
vars == <<claims, known, nearby, requested, denied, serve, asked, sent,
          undelivered, device_claim>>

ClaimIds == 1..MaxClaims
States == {"created", "sent", "requested", "attached", "failed", "timeout"}
             \cup BackendStates
Steps == {"created", "sent", "asked", "requested", "done"}

-----------------------------------------------------------------------------
(* state.py *)

Live(c) == claims[c].left > 0 /\ claims[c].state \notin {"failed", "timeout"}

LiveAnyDevice(u) == {c \in DOMAIN claims : Live(c)}   \* fault: uid ignored
LiveClaims(u) == {c \in DOMAIN claims : claims[c].uid = u /\ Live(c)}

\* _active_claim_locked: the first live claim of the device in dict order.
ActiveClaimNewest(u) ==                            \* fault: newest first
  IF LiveClaims(u) = {} THEN 0
  ELSE CHOOSE c \in LiveClaims(u) : \A d \in LiveClaims(u) : d <= c
ActiveClaim(u) ==
  IF LiveClaims(u) = {} THEN 0
  ELSE CHOOSE c \in LiveClaims(u) : \A d \in LiveClaims(u) : c <= d

\* Its side effect: expired claims met on the way are marked.
TimesOutIfNone(c, u) ==              \* fault: an updated claim is not marked
  /\ claims[c].uid = u /\ claims[c].left = 0
  /\ claims[c].state \in {"created", "sent", "requested"}
TimesOut(c, u) ==
  /\ claims[c].uid = u /\ claims[c].left = 0
  /\ claims[c].state \notin {"attached", "timeout", "failed"}
  /\ ActiveClaim(u) = 0 \/ c < ActiveClaim(u)

Scanned(u) ==
  [c \in DOMAIN claims |->
     IF TimesOut(c, u) THEN [claims[c] EXCEPT !.state = "timeout"]
     ELSE claims[c]]

\* _attach_active_claim_locked
Attached(u) ==
  IF ActiveClaim(u) = 0 THEN Scanned(u)
  ELSE [Scanned(u) EXCEPT ![ActiveClaim(u)].state = "attached"]

\* update_claim, whatever state the claim is in.
UpdateClaim(c, s) == claims' = [claims EXCEPT ![c].state = s]

\* fail_claim_delivery
DeliveryFailureReason(c) ==              \* fault: the reason as the state
  IF claims[c].state = "attached" THEN "attached" ELSE "udp_delivery_timeout"
DeliveryFailureAlways(c) == "failed"          \* fault: guard dropped
DeliveryFailure(c) ==
  IF claims[c].state = "attached" THEN "attached" ELSE "failed"

-----------------------------------------------------------------------------
(* operations.serve, one action per call it makes on shared state.  A call *)
(* is named by the claim it creates; any number may be under way.          *)

Goto(c, from, to) ==
  /\ serve[c] = from
  /\ serve' = [serve EXCEPT ![c] = to]

ServeCreate(u) ==
  /\ u \notin denied
  /\ Len(claims) < MaxClaims
  /\ claims' = Append(claims, [uid |-> u, state |-> "created", left |-> Ttl])
  /\ serve' = Append(serve, "created")
  /\ UNCHANGED <<devVars, denied, asked, sent, undelivered, device_claim>>

ServeSent(c) ==
  /\ Goto(c, "created", "sent")
  /\ UpdateClaim(c, "sent")
  /\ UNCHANGED <<devVars, denied, asked, sent, undelivered, device_claim>>

ServeAsk(c) ==
  /\ Goto(c, "sent", "asked")
  /\ asked' = asked \cup {c}
  /\ UNCHANGED <<claims, devVars, denied, sent, undelivered, device_claim>>

ServeRequested(c) ==
  /\ Goto(c, "asked", "requested")
  /\ UpdateClaim(c, "requested")
  /\ UNCHANGED <<devVars, denied, asked, sent, undelivered, device_claim>>

\* The switch command goes to the last FindMe address, if there is one.
ServeCommand(c) ==
  LET reached == IF claims[c].uid \in nearby THEN {c} ELSE {} IN
  /\ Goto(c, "requested", "done")
  /\ sent' = sent \cup reached
  /\ undelivered' = undelivered \cup reached
  /\ UNCHANGED <<claims, devVars, denied, asked, device_claim>>

-----------------------------------------------------------------------------
(* The other threads *)

\* gateway_claim_update (main.on_upstream_message)
ClaimUpdate(c, s) ==
  /\ c \in asked
  /\ UpdateClaim(c, s)
  /\ UNCHANGED <<devVars, denied, serve, asked, sent, undelivered,
                 device_claim>>

\* A heartbeat, or a control frame that shows the device attached here.
Heartbeat(u) ==
  /\ claims' = Attached(u)
  /\ known' = known \cup {u}
  /\ UNCHANGED <<nearby, requested, denied, serve, asked, sent, undelivered,
                 device_claim>>

\* Any other frame creates the record and leaves the claims alone.
OtherFrame(u) ==
  /\ known' = known \cup {u}
  /\ UNCHANGED <<claims, nearby, requested, denied, serve, asked, sent,
                 undelivered, device_claim>>

\* A device silent for prune_after_sec loses its record.
Prune(u) ==
  /\ u \in known \cap Visitors
  /\ known' = known \ {u}
  /\ nearby' = nearby \ {u}
  /\ UNCHANGED <<claims, requested, denied, serve, asked, sent, undelivered,
                 device_claim>>

\* Requests of other devices push its last one out of findme_requests.
RequestDropped(u) ==
  /\ u \in requested \cap Visitors
  /\ requested' = requested \ {u}
  /\ UNCHANGED <<claims, known, nearby, denied, serve, asked, sent,
                 undelivered, device_claim>>

\* snapshot() looks up the active claim of every device it lists.
Listed == known \cup requested

Snapshot(u) ==
  /\ u \in Listed
  /\ claims' = Scanned(u)
  /\ UNCHANGED <<devVars, denied, serve, asked, sent, undelivered,
                 device_claim>>

\* main.on_udp_delivery_timeout, for a switch command given up on.
DeliveryTimeout(c) ==
  /\ c \in undelivered
  /\ undelivered' = undelivered \ {c}
  /\ UpdateClaim(c, DeliveryFailure(c))
  /\ UNCHANGED <<devVars, denied, serve, asked, sent, device_claim>>

\* The result of the switch command ends its retries and completes nothing.
SwitchAnswered(c) ==
  /\ c \in undelivered
  /\ undelivered' = undelivered \ {c}
  /\ UNCHANGED <<claims, devVars, denied, serve, asked, sent, device_claim>>

\* The claim a preferred device is offered: its active one, or its own back.
OfferedClaim(u, mine) ==
  IF u \in denied THEN 0
  ELSE IF ActiveClaim(u) # 0 THEN ActiveClaim(u)
  ELSE IF mine THEN device_claim[u] ELSE 0

Offer(u, mine) ==
  [uid |-> u, asked |-> IF mine THEN device_claim[u] ELSE 0,
   claim |-> OfferedClaim(u, mine), accept |-> u \notin denied]

\* The offers the discovery thread may send from here.
Offers == {Offer(u, FALSE) : u \in Devices}
            \cup {Offer(u, TRUE) : u \in {v \in Devices : device_claim[v] # 0}}

RecordFindMe(u) ==
  /\ known' = known \cup {u}
  /\ nearby' = nearby \cup {u}
  /\ requested' = requested \cup {u}

\* A FindMe request that Offer answers: looking for a live claim marks the
\* expired ones on the way, and the request is recorded.
Discover(u) ==
  /\ claims' = IF u \in denied THEN claims ELSE Scanned(u)
  /\ RecordFindMe(u)
  /\ UNCHANGED <<denied, serve, asked, sent, undelivered, device_claim>>

\* Preferring or using another Gateway, the device is offered nothing.
DiscoverElsewhere(u) ==
  /\ RecordFindMe(u)
  /\ UNCHANGED <<claims, denied, serve, asked, sent, undelivered,
                 device_claim>>

\* External: the firmware takes up a switch command it receives.
DeviceSwitches(c) ==
  /\ c \in sent
  /\ device_claim' = [device_claim EXCEPT ![claims[c].uid] = c]
  /\ UNCHANGED <<claims, devVars, denied, serve, asked, sent, undelivered>>

Deny(u) ==
  /\ u \in Visitors
  /\ denied' = denied \cup {u}
  /\ UNCHANGED <<claims, devVars, serve, asked, sent, undelivered,
                 device_claim>>

Allow(u) ==
  /\ denied' = denied \ {u}
  /\ UNCHANGED <<claims, devVars, serve, asked, sent, undelivered,
                 device_claim>>

Tick ==
  /\ claims' = [c \in DOMAIN claims |->
        [claims[c] EXCEPT !.left = IF @ > 0 THEN @ - 1 ELSE 0]]
  /\ UNCHANGED <<devVars, denied, serve, asked, sent, undelivered,
                 device_claim>>

-----------------------------------------------------------------------------
Init ==
  /\ claims = <<>>
  /\ known = {} /\ nearby = {} /\ requested = {}
  /\ denied = {}
  /\ serve = <<>>
  /\ asked = {}
  /\ sent = {}
  /\ undelivered = {}
  /\ device_claim = [u \in Devices |-> 0]

Serve(c) == ServeSent(c) \/ ServeAsk(c) \/ ServeRequested(c) \/ ServeCommand(c)

Next ==
  \/ \E u \in Devices : ServeCreate(u)
  \/ \E c \in DOMAIN serve : Serve(c)
  \/ \E c \in asked, s \in BackendStates : ClaimUpdate(c, s)
  \/ \E u \in Devices :
       \/ Heartbeat(u)
       \/ OtherFrame(u)
       \/ Prune(u)
       \/ RequestDropped(u)
       \/ Snapshot(u)
       \/ Discover(u)
       \/ DiscoverElsewhere(u)
       \/ Deny(u)
       \/ Allow(u)
  \/ \E c \in undelivered : DeliveryTimeout(c) \/ SwitchAnswered(c)
  \/ \E c \in sent : DeviceSwitches(c)
  \/ Tick

Spec == Init /\ [][Next]_vars

\* The status push lists the devices every few seconds, and time passes.
FairSpec ==
  Spec /\ WF_vars(Tick) /\ \A u \in Devices : WF_vars(Snapshot(u))

-----------------------------------------------------------------------------
(* Properties *)

TypeOK ==
  /\ claims \in Seq([uid : Devices, state : States, left : 0..Ttl])
  /\ nearby \subseteq known /\ known \subseteq Devices /\ requested \subseteq Devices
  /\ denied \subseteq Devices
  /\ serve \in Seq(Steps) /\ Len(serve) = Len(claims)
  /\ asked = {c \in DOMAIN serve : serve[c] \in {"asked", "requested", "done"}}
  /\ undelivered \subseteq sent
  /\ sent \subseteq {c \in DOMAIN serve : serve[c] = "done"}
  /\ device_claim \in [Devices -> 0..Len(claims)]

\* A claim completed by a heartbeat stays completed once serve has returned:
\* neither a late delivery timeout nor a later scan downgrades it; only the
\* backend may.
AttachedStays ==
  [][\A c \in DOMAIN claims :
       claims[c].state = "attached" /\ claims'[c].state # "attached" =>
         \/ serve[c] # "done"
         \/ c \in asked /\ claims'[c].state \in BackendStates
              /\ undelivered' = undelivered]_vars

BackendAttaches(c) ==
  /\ c \in asked /\ "attached" \in BackendStates
  /\ ClaimUpdate(c, "attached")
  /\ \A u \in Devices : ~Heartbeat(u)

OldestOpen(c) ==
  /\ claims[c].left > 0
  /\ \A d \in 1..(c - 1) :
       claims[d].uid = claims[c].uid =>
         claims[d].left = 0 \/ claims[d].state \in {"failed", "timeout"}

\* A claim is completed by the backend's own word, or by a heartbeat that
\* completes the oldest request still open: then the claim is unexpired, was
\* not given up, and no older open claim of that device is passed over.
OldestClaimAttaches ==
  [][\A c \in DOMAIN claims :
       claims[c].state # "attached" /\ claims'[c].state = "attached" =>
         BackendAttaches(c) \/ OldestOpen(c)]_vars

\* An offer never carries a claim made for another device, however the
\* claims table and the device's own memory have moved on; a denied device
\* is not offered any.
OfferedClaimIsDevices ==
  \A offer \in Offers :
    offer.claim # 0 => /\ offer.accept
                       /\ offer.claim \in DOMAIN claims
                       /\ claims[offer.claim].uid = offer.uid

\* A claim nobody completes is closed: once it has expired it is marked
\* timed out (or failed), even when the backend or serve has just overwritten
\* its state, as long as the Gateway lists its device.  A device it has
\* forgotten has to be heard of again first.
ExpiredClaimsSettle ==
  \A c \in ClaimIds :
    (c \in DOMAIN claims /\ claims[c].left = 0 /\ claims[c].uid \in Listed)
      ~> (c \in DOMAIN claims
            /\ \/ claims[c].state \in {"attached", "failed", "timeout"}
               \/ claims[c].uid \notin Listed)

-----------------------------------------------------------------------------
(* Statements of the documents that the code does not keep; README.md,     *)
(* section 5, says how each fails.                                         *)

\* discovery.py on the claim echoed to a device that prefers this Gateway:
\* "This ensures the firmware's claimId_ == offer.claimId check passes".
OfferMatchesDeviceClaim ==
  \A offer \in Offers :
    offer.asked # 0 /\ offer.accept => offer.claim = offer.asked
=============================================================================
