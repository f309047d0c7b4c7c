----------------------------- MODULE ClaimsProofs -----------------------------
(***************************************************************************)
(* Theorems about the FindMe claims, for any number of devices, claims and *)
(* threads serving the operator, and any lifetime of a claim.              *)
(***************************************************************************)
EXTENDS Claims, SequenceTheorems, FiniteSetTheorems, WellFoundedInduction, TLAPS

-----------------------------------------------------------------------------
(* The claim that is chosen *)

\* A nonempty set of numbers has a least one.  (The initial segments that its
\* elements end are finite sets, and one of them contains no other.)
LEMMA LeastNumber ==
  ASSUME NEW S \in SUBSET Nat, S # {}
  PROVE  \E n \in S : \A m \in S : n <= m
<1> DEFINE Segments == {0..n : n \in S}
<1>1. Segments # {} /\ Segments \subseteq FiniteSubsetsOf(Nat)
  <2>1. ASSUME NEW n \in S
        PROVE  0..n \in FiniteSubsetsOf(Nat)
    <3>1. IsFiniteSet(0..n) /\ 0..n \subseteq Nat
      BY FS_Interval
    <3>2. QED
      BY <3>1 DEF FiniteSubsetsOf
  <2>2. QED
    BY <2>1
<1>2. PICK X \in Segments : \A Y \in Segments : <<Y, X>> \notin StrictSubsetOrdering(Nat)
  <2> HIDE DEF Segments
  <2> QED
    BY <1>1, WFMin, FS_StrictSubsetOrderingWellFounded
<1>3. PICK n \in S : X = 0..n
  OBVIOUS
<1>4. ASSUME NEW m \in S, m < n
      PROVE  FALSE
  <2>1. 0..m \in SUBSET Nat /\ X \in SUBSET Nat
    BY <1>3
  <2>2. 0..m \subseteq X /\ 0..m # X
    BY <1>3, <1>4
  <2>3. QED
    BY <1>2, <2>1, <2>2 DEF StrictSubsetOrdering
<1>5. QED
  BY <1>4

Claim == [uid : Devices, state : States, left : 0..Ttl]

\* The claims are numbered from one.
LEMMA ClaimNumbers ==
  ASSUME TypeOK
  PROVE  /\ Len(claims) \in Nat /\ DOMAIN claims = 1..Len(claims)
         /\ DOMAIN serve = DOMAIN claims
         /\ \A c \in DOMAIN claims : claims[c] \in Claim
BY LenProperties, ElementOfSeq DEF TypeOK, Claim

\* The active claim of a device is one of its live claims, and the oldest.
LEMMA ActiveIsOldestLive ==
  ASSUME TypeOK, NEW u, ActiveClaim(u) # 0
  PROVE  /\ ActiveClaim(u) \in DOMAIN claims
         /\ claims[ActiveClaim(u)].uid = u
         /\ Live(ActiveClaim(u))
         /\ \A d \in DOMAIN claims :
              claims[d].uid = u /\ Live(d) => ActiveClaim(u) <= d
<1>1. LiveClaims(u) \in SUBSET Nat /\ LiveClaims(u) # {}
  BY ClaimNumbers DEF LiveClaims, ActiveClaim
<1>2. \E c \in LiveClaims(u) : \A d \in LiveClaims(u) : c <= d
  BY <1>1, LeastNumber
<1>3. /\ ActiveClaim(u) \in LiveClaims(u)
      /\ \A d \in LiveClaims(u) : ActiveClaim(u) <= d
  BY <1>1, <1>2 DEF ActiveClaim
<1>4. QED
  BY <1>3 DEF LiveClaims

\* Only a device without a live claim has no active claim.
LEMMA NoActiveClaim ==
  ASSUME TypeOK, NEW u, ActiveClaim(u) = 0, NEW c \in DOMAIN claims, claims[c].uid = u
  PROVE  ~Live(c)
<1>1. SUFFICES ASSUME Live(c)
               PROVE  FALSE
  OBVIOUS
<1>2. c \in LiveClaims(u) /\ LiveClaims(u) \in SUBSET Nat
  BY <1>1, ClaimNumbers DEF LiveClaims
<1>3. PICK d \in LiveClaims(u) : \A e \in LiveClaims(u) : d <= e
  BY <1>2, LeastNumber
<1>4. ActiveClaim(u) \in LiveClaims(u)
  BY <1>2, <1>3 DEF ActiveClaim
<1>5. 0 \notin DOMAIN claims
  BY ClaimNumbers
<1>6. QED
  BY <1>4, <1>5 DEF LiveClaims

-----------------------------------------------------------------------------
(* What the operations of the claims table do to it *)

\* An operation that changes states and ages keeps the claims' devices.
Retained(table) ==
  /\ table \in [DOMAIN claims -> Claim]
  /\ \A c \in DOMAIN claims : table[c].uid = claims[c].uid

\* The new state of claim c, in a record that is otherwise as it was.
LEMMA OneState ==
  ASSUME NEW k \in Claim, NEW s \in States
  PROVE  /\ [k EXCEPT !.state = s] \in Claim
         /\ [k EXCEPT !.state = s].state = s
         /\ [k EXCEPT !.state = s].uid = k.uid
         /\ [k EXCEPT !.state = s].left = k.left
BY DEF Claim

LEMMA ScannedClaims ==
  ASSUME TypeOK, NEW u
  PROVE  /\ Retained(Scanned(u))
         /\ \A c \in DOMAIN claims :
              \/ Scanned(u)[c] = claims[c]
              \/ claims[c].state # "attached" /\ Scanned(u)[c].state = "timeout"
<1>1. "timeout" \in States
  BY DEF States
<1>2. \A c \in DOMAIN claims :
        /\ claims[c] \in Claim
        /\ Scanned(u)[c] = IF TimesOut(c, u) THEN [claims[c] EXCEPT !.state = "timeout"]
                           ELSE claims[c]
  BY ClaimNumbers DEF Scanned
<1>3. ASSUME NEW c \in DOMAIN claims
      PROVE  /\ Scanned(u)[c] \in Claim /\ Scanned(u)[c].uid = claims[c].uid
             /\ \/ Scanned(u)[c] = claims[c]
                \/ TimesOut(c, u) /\ Scanned(u)[c].state = "timeout"
  <2>1. claims[c] \in Claim
    BY <1>2
  <2>2. CASE TimesOut(c, u)
    <3>1. Scanned(u)[c] = [claims[c] EXCEPT !.state = "timeout"]
      BY <1>2, <2>2
    <3>2. QED
      BY <1>1, <2>1, <2>2, <3>1, OneState
  <2>3. CASE ~TimesOut(c, u)
    BY <1>2, <2>1, <2>3
  <2>4. QED
    BY <2>2, <2>3
<1>4. Scanned(u) \in [DOMAIN claims -> Claim]
  BY <1>3 DEF Scanned
<1>5. QED
  BY <1>3, <1>4 DEF Retained, TimesOut

LEMMA AttachedClaims ==
  ASSUME TypeOK, NEW u
  PROVE  /\ Retained(Attached(u))
         /\ \A c \in DOMAIN claims :
              \/ Attached(u)[c] = Scanned(u)[c]
              \/ ActiveClaim(u) # 0 /\ c = ActiveClaim(u) /\ Attached(u)[c].state = "attached"
<1>1. CASE ActiveClaim(u) = 0
  BY <1>1, ScannedClaims DEF Attached
<1>2. CASE ActiveClaim(u) # 0
  <2> DEFINE a == ActiveClaim(u)
             table == Scanned(u)
  <2>1. a \in DOMAIN claims /\ Retained(table)
    BY <1>2, ActiveIsOldestLive, ScannedClaims
  <2>2. Attached(u) = [table EXCEPT ![a] = [table[a] EXCEPT !.state = "attached"]]
    BY <1>2 DEF Attached
  <2> HIDE DEF a, table
  <2>3. /\ [table[a] EXCEPT !.state = "attached"] \in Claim
        /\ [table[a] EXCEPT !.state = "attached"].state = "attached"
        /\ [table[a] EXCEPT !.state = "attached"].uid = table[a].uid
    BY <2>1, OneState DEF Retained, States
  <2>4. Retained(Attached(u))
    BY <2>1, <2>2, <2>3 DEF Retained
  <2>5. \A c \in DOMAIN claims :
          Attached(u)[c] = table[c] \/ (c = a /\ Attached(u)[c].state = "attached")
    BY <2>1, <2>2, <2>3 DEF Retained
  <2>6. QED
    BY <1>2, <2>4, <2>5 DEF a, table
<1>3. QED
  BY <1>1, <1>2

LEMMA UpdatedClaims ==
  ASSUME TypeOK, NEW c \in DOMAIN claims, NEW s \in States, UpdateClaim(c, s)
  PROVE  /\ Retained(claims')
         /\ claims'[c].state = s
         /\ \A d \in DOMAIN claims : d # c => claims'[d] = claims[d]
<1>1. claims \in [DOMAIN claims -> Claim]
  BY ClaimNumbers DEF TypeOK
<1>2. claims' = [claims EXCEPT ![c] = [claims[c] EXCEPT !.state = s]]
  BY DEF UpdateClaim
<1> DEFINE k == [claims[c] EXCEPT !.state = s]
<1>3. k \in Claim /\ k.state = s /\ k.uid = claims[c].uid
  BY <1>1, OneState
<1> HIDE DEF k
<1>4. claims' \in [DOMAIN claims -> Claim] /\ claims'[c] = k
  BY <1>1, <1>2, <1>3 DEF k
<1>5. \A d \in DOMAIN claims : d # c => claims'[d] = claims[d]
  BY <1>1, <1>2
<1>6. QED
  BY <1>3, <1>4, <1>5 DEF Retained

LEMMA TickedClaims ==
  ASSUME TypeOK, Tick
  PROVE  /\ Retained(claims')
         /\ \A c \in DOMAIN claims : claims'[c].state = claims[c].state
<1>1. \A c \in DOMAIN claims : claims[c] \in Claim
  BY ClaimNumbers
<1>2. ASSUME NEW k \in Claim
      PROVE  LET t == [k EXCEPT !.left = IF @ > 0 THEN @ - 1 ELSE 0] IN
             t \in Claim /\ t.uid = k.uid /\ t.state = k.state
  BY ClaimsAssumption DEF Claim, ClaimsAssumption
<1>3. \A c \in DOMAIN claims :
        claims'[c] = [claims[c] EXCEPT !.left = IF @ > 0 THEN @ - 1 ELSE 0]
  BY DEF Tick
<1>4. claims' \in [DOMAIN claims -> Claim]
  BY <1>1, <1>2 DEF Tick
<1>5. QED
  BY <1>1, <1>2, <1>3, <1>4 DEF Retained

\* A table for the same claims has the same length.
LEMMA RetainedLength ==
  ASSUME TypeOK, Retained(claims')
  PROVE  /\ claims' \in Seq(Claim) /\ Len(claims') = Len(claims)
         /\ DOMAIN claims' = DOMAIN claims
<1>1. Len(claims) \in Nat /\ DOMAIN claims = 1..Len(claims)
  BY ClaimNumbers
<1>2. claims' \in Seq(Claim)
  BY <1>1, SeqDef DEF Retained
<1>3. DOMAIN claims' = 1..Len(claims')  /\ Len(claims') \in Nat
  BY <1>2, LenProperties
<1>4. QED
  BY <1>1, <1>2, <1>3 DEF Retained

\* The states that are written are states of a claim.
LEMMA WrittenStates ==
  ASSUME NEW c
  PROVE  /\ {"sent", "requested", "attached"} \cup BackendStates \subseteq States
         /\ DeliveryFailure(c) \in States
BY DEF States, DeliveryFailure

\* Only the creation of a claim makes the table longer.
LEMMA TableStep ==
  ASSUME TypeOK, [Next]_vars, ~\E u \in Devices : ServeCreate(u)
  PROVE  Retained(claims')
<1>1. DOMAIN serve = DOMAIN claims /\ asked \subseteq DOMAIN claims
        /\ sent \subseteq DOMAIN claims /\ undelivered \subseteq DOMAIN claims
  BY ClaimNumbers DEF TypeOK
<1>2. CASE claims' = claims
  BY <1>2, ClaimNumbers DEF Retained, TypeOK
<1>3. CASE \E c \in DOMAIN serve : Serve(c)
  <2>1. PICK c \in DOMAIN serve : Serve(c)
    BY <1>3
  <2>2. CASE ServeSent(c) \/ ServeRequested(c)
    BY <1>1, <2>2, UpdatedClaims, WrittenStates DEF ServeSent, ServeRequested
  <2>3. QED
    BY <1>2, <2>1, <2>2 DEF Serve, ServeAsk, ServeCommand
<1>4. CASE \E c \in asked, s \in BackendStates : ClaimUpdate(c, s)
  BY <1>1, <1>4, UpdatedClaims, WrittenStates DEF ClaimUpdate
<1>5. CASE \E u \in Devices : Heartbeat(u)
  BY <1>5, AttachedClaims DEF Heartbeat
<1>6. CASE \E u \in Devices : Snapshot(u) \/ Discover(u)
  BY <1>2, <1>6, ScannedClaims DEF Snapshot, Discover
<1>7. CASE \E u \in Devices : \/ OtherFrame(u) \/ Prune(u) \/ RequestDropped(u)
                              \/ DiscoverElsewhere(u) \/ Deny(u) \/ Allow(u)
  BY <1>2, <1>7 DEF OtherFrame, Prune, RequestDropped, DiscoverElsewhere, Deny, Allow
<1>8. CASE \E c \in undelivered : DeliveryTimeout(c) \/ SwitchAnswered(c)
  BY <1>1, <1>2, <1>8, UpdatedClaims, WrittenStates DEF DeliveryTimeout, SwitchAnswered
<1>9. CASE \E c \in sent : DeviceSwitches(c)
  BY <1>2, <1>9 DEF DeviceSwitches
<1>10. CASE Tick
  BY <1>10, TickedClaims
<1>11. CASE UNCHANGED vars
  BY <1>2, <1>11 DEF vars
<1>12. QED
  BY <1>3, <1>4, <1>5, <1>6, <1>7, <1>8, <1>9, <1>10, <1>11 DEF Next

\* A new claim is the last of the table; the others are as they were.
LEMMA CreatedClaim ==
  ASSUME TypeOK, NEW u \in Devices, ServeCreate(u)
  PROVE  /\ claims' \in Seq(Claim) /\ Len(claims') = Len(claims) + 1
         /\ DOMAIN claims' = 1..(Len(claims) + 1)
         /\ \A c \in DOMAIN claims : claims'[c] = claims[c]
         /\ serve' \in Seq(Steps) /\ Len(serve') = Len(serve) + 1
         /\ DOMAIN serve' = 1..(Len(serve) + 1)
         /\ \A c \in DOMAIN serve : serve'[c] = serve[c]
         /\ serve'[Len(serve) + 1] = "created"
<1> DEFINE k == [uid |-> u, state |-> "created", left |-> Ttl]
<1>1. k \in Claim /\ "created" \in Steps
  BY ClaimsAssumption DEF Claim, States, Steps, ClaimsAssumption
<1>2. claims' = Append(claims, k) /\ serve' = Append(serve, "created")
  BY DEF ServeCreate
<1> HIDE DEF k
<1>3. claims \in Seq(Claim) /\ serve \in Seq(Steps)
  BY DEF TypeOK, Claim
<1>4. QED
  BY <1>1, <1>2, <1>3, AppendProperties, LenProperties

-----------------------------------------------------------------------------
(* Type correctness *)

\* A step of serve moves on its own entry only.
LEMMA GotoServe ==
  ASSUME TypeOK, NEW c \in DOMAIN serve, NEW from, NEW to \in Steps, Goto(c, from, to)
  PROVE  /\ serve' \in Seq(Steps) /\ Len(serve') = Len(serve)
         /\ DOMAIN serve' = DOMAIN serve
         /\ serve'[c] = to
         /\ \A d \in DOMAIN serve : d # c => serve'[d] = serve[d]
<1>1. serve \in Seq(Steps) /\ c \in 1..Len(serve)
  BY LenProperties DEF TypeOK
<1>2. serve' = [serve EXCEPT ![c] = to]
  BY DEF Goto
<1>3. QED
  BY <1>1, <1>2, ExceptSeq, LenProperties

LEMMA TypeStep ==
  ASSUME TypeOK, [Next]_vars
  PROVE  TypeOK'
<1>1. Len(claims) \in Nat /\ DOMAIN claims = 1..Len(claims) /\ DOMAIN serve = DOMAIN claims
  BY ClaimNumbers
<1>2. CASE \E u \in Devices : ServeCreate(u)
  <2>1. PICK u \in Devices : ServeCreate(u)
    BY <1>2
  <2>2. /\ UNCHANGED <<known, nearby, requested, denied, asked, sent, undelivered,
                       device_claim>>
        /\ Len(serve) = Len(claims)
    BY <2>1 DEF ServeCreate, devVars, TypeOK
  <2>3. asked' = {c \in DOMAIN serve' : serve'[c] \in {"asked", "requested", "done"}}
    BY <1>1, <2>1, <2>2, CreatedClaim DEF TypeOK
  <2>4. sent' \subseteq {c \in DOMAIN serve' : serve'[c] = "done"}
    BY <1>1, <2>1, <2>2, CreatedClaim DEF TypeOK
  <2>5. device_claim' \in [Devices -> 0..Len(claims')]
    BY <1>1, <2>1, <2>2, CreatedClaim DEF TypeOK
  <2>6. QED
    BY <2>1, <2>2, <2>3, <2>4, <2>5, CreatedClaim DEF TypeOK, Claim
<1>3. CASE ~\E u \in Devices : ServeCreate(u)
  <2>1. /\ claims' \in Seq(Claim) /\ Len(claims') = Len(claims)
        /\ DOMAIN claims' = DOMAIN claims
    BY <1>3, TableStep, RetainedLength
  <2>2. CASE \E c \in DOMAIN serve : Serve(c)
    <3>1. PICK c \in DOMAIN serve : Serve(c)
      BY <2>2
    <3>2. PICK to \in Steps, from \in Steps :
            /\ Goto(c, from, to)
            /\ asked' = asked \cup (IF to = "asked" THEN {c} ELSE {})
            /\ to # "asked" => (from \in {"asked", "requested"} <=> to \in {"requested", "done"})
            /\ sent' \subseteq sent \cup (IF to = "done" THEN {c} ELSE {})
            /\ from # "done"
            /\ undelivered' \subseteq sent'
      <4>1. CASE ServeSent(c)
        BY <4>1 DEF ServeSent, Steps, TypeOK
      <4>2. CASE ServeAsk(c)
        BY <4>2 DEF ServeAsk, Steps, TypeOK
      <4>3. CASE ServeRequested(c)
        BY <4>3 DEF ServeRequested, Steps, TypeOK
      <4>4. CASE ServeCommand(c)
        BY <4>4 DEF ServeCommand, Steps, TypeOK
      <4>5. QED
        BY <3>1, <4>1, <4>2, <4>3, <4>4 DEF Serve
    <3>3. /\ serve' \in Seq(Steps) /\ Len(serve') = Len(serve)
          /\ DOMAIN serve' = DOMAIN serve
          /\ serve[c] = from /\ serve'[c] = to
          /\ \A d \in DOMAIN serve : d # c => serve'[d] = serve[d]
      BY <3>2, GotoServe DEF Goto
    <3>4. UNCHANGED <<known, nearby, requested, denied, device_claim>>
      BY <3>1 DEF Serve, ServeSent, ServeAsk, ServeRequested, ServeCommand, devVars
    <3>5. asked' = {d \in DOMAIN serve' : serve'[d] \in {"asked", "requested", "done"}}
      BY <3>2, <3>3 DEF TypeOK, Steps
    <3>6. sent' \subseteq {d \in DOMAIN serve' : serve'[d] = "done"}
      BY <3>2, <3>3 DEF TypeOK
    <3>7. QED
      BY <2>1, <3>2, <3>3, <3>4, <3>5, <3>6 DEF TypeOK, Claim
  <2>3. CASE \E c \in sent : DeviceSwitches(c)
    <3>1. PICK c \in sent : DeviceSwitches(c)
      BY <2>3
    <3>2. c \in DOMAIN claims /\ claims[c].uid \in Devices
      BY <1>1, ClaimNumbers DEF TypeOK, Claim
    <3>3. device_claim' \in [Devices -> 0..Len(claims')]
      BY <1>1, <2>1, <3>1, <3>2 DEF DeviceSwitches, TypeOK
    <3>4. QED
      BY <2>1, <3>1, <3>3 DEF DeviceSwitches, devVars, TypeOK, Claim
  <2>4. CASE /\ UNCHANGED <<serve, asked, sent, device_claim>>
             /\ nearby' \subseteq known' /\ known' \subseteq Devices
             /\ requested' \subseteq Devices /\ denied' \subseteq Devices
             /\ undelivered' \subseteq undelivered
    BY <2>1, <2>4 DEF TypeOK, Claim
  <2>5. CASE \E c \in asked, s \in BackendStates : ClaimUpdate(c, s)
    BY <2>4, <2>5 DEF ClaimUpdate, devVars, TypeOK
  <2>6. CASE \E u \in Devices : \/ Heartbeat(u) \/ OtherFrame(u) \/ Prune(u)
                               \/ RequestDropped(u)
    BY <2>4, <2>6 DEF Heartbeat, OtherFrame, Prune, RequestDropped, TypeOK
  <2>7. CASE \E u \in Devices : \/ Snapshot(u) \/ Discover(u) \/ DiscoverElsewhere(u)
                               \/ Deny(u) \/ Allow(u)
    BY <2>4, <2>7 DEF Snapshot, Discover, DiscoverElsewhere, RecordFindMe, Deny, Allow,
                      devVars, TypeOK
  <2>8. CASE \E c \in undelivered : DeliveryTimeout(c) \/ SwitchAnswered(c)
    BY <2>4, <2>8 DEF DeliveryTimeout, SwitchAnswered, devVars, TypeOK
  <2>9. CASE Tick \/ UNCHANGED vars
    BY <2>4, <2>9 DEF Tick, devVars, vars, TypeOK
  <2>10. QED
    BY <1>3, <2>2, <2>3, <2>5, <2>6, <2>7, <2>8, <2>9 DEF Next
<1>4. QED
  BY <1>2, <1>3

LEMMA TypeInit ==
  ASSUME Init
  PROVE  TypeOK
<1>1. /\ <<>> \in Seq(Claim) /\ <<>> \in Seq(Steps) /\ Len(<<>>) = 0
      /\ DOMAIN <<>> = {}
  OBVIOUS
<1>2. device_claim \in [Devices -> 0..0]
  BY DEF Init
<1>3. QED
  BY <1>1, <1>2 DEF Init, TypeOK, Claim

\* The variables of the claims always have the shape TypeOK gives them: a
\* claim is asked about, sent and completed only after its serve call got so
\* far, and no device remembers a claim that was not created.
THEOREM TypeCorrect == Spec => []TypeOK
BY TypeInit, TypeStep, PTL DEF Spec

-----------------------------------------------------------------------------
(* The offers *)

\* A device switches under claims made for it.
DeviceClaims ==
  \A u \in Devices :
    device_claim[u] # 0 =>
      /\ device_claim[u] \in DOMAIN claims
      /\ claims[device_claim[u]].uid = u

IInv == TypeOK /\ DeviceClaims

\* No step removes a claim or gives it to another device.
LEMMA ClaimsKeepTheirDevice ==
  ASSUME TypeOK, [Next]_vars, NEW c \in DOMAIN claims
  PROVE  c \in DOMAIN claims' /\ claims'[c].uid = claims[c].uid
<1>1. Len(claims) \in Nat /\ DOMAIN claims = 1..Len(claims)
  BY ClaimNumbers
<1>2. CASE \E u \in Devices : ServeCreate(u)
  BY <1>1, <1>2, CreatedClaim
<1>3. CASE ~\E u \in Devices : ServeCreate(u)
  BY <1>3, TableStep, RetainedLength DEF Retained
<1>4. QED
  BY <1>2, <1>3

LEMMA DeviceClaimsStep ==
  ASSUME IInv, [Next]_vars
  PROVE  IInv'
<1>1. TypeOK'
  BY TypeStep DEF IInv
<1>2. \A c \in DOMAIN claims : c \in DOMAIN claims' /\ claims'[c].uid = claims[c].uid
  BY ClaimsKeepTheirDevice DEF IInv
<1>3. DeviceClaims'
  <2>1. CASE device_claim' = device_claim
    BY <1>2, <2>1 DEF IInv, DeviceClaims
  <2>2. CASE \E c \in sent : DeviceSwitches(c)
    <3>1. PICK c \in sent : DeviceSwitches(c)
      BY <2>2
    <3>2. /\ c \in DOMAIN claims
          /\ device_claim' = [device_claim EXCEPT ![claims[c].uid] = c]
          /\ device_claim \in [Devices -> 0..Len(claims)]
      BY <3>1, ClaimNumbers DEF IInv, TypeOK, DeviceSwitches
    <3>3. QED
      BY <1>2, <3>2 DEF IInv, DeviceClaims
  <2>3. QED
    BY <2>1, <2>2 DEF Next, Serve, ServeCreate, ServeSent, ServeAsk, ServeRequested,
                      ServeCommand, ClaimUpdate, Heartbeat, OtherFrame, Prune,
                      RequestDropped, Snapshot, Discover, DiscoverElsewhere, Deny, Allow,
                      DeliveryTimeout, SwitchAnswered, Tick, vars
<1>4. QED
  BY <1>1, <1>3 DEF IInv

\* An offer carries the oldest live claim of the device or the one that the
\* device switches under.
LEMMA OffersOwnClaim ==
  ASSUME IInv
  PROVE  OfferedClaimIsDevices
<1>1. ASSUME NEW u \in Devices, NEW mine \in BOOLEAN, mine => device_claim[u] # 0,
             OfferedClaim(u, mine) # 0
      PROVE  /\ u \notin denied
             /\ OfferedClaim(u, mine) \in DOMAIN claims
             /\ claims[OfferedClaim(u, mine)].uid = u
  BY <1>1, ActiveIsOldestLive DEF OfferedClaim, IInv, DeviceClaims
<1>2. ASSUME NEW offer \in Offers
      PROVE  \E u \in Devices, mine \in BOOLEAN :
               /\ offer = Offer(u, mine)
               /\ mine => device_claim[u] # 0
  <2>1. CASE \E u \in Devices : offer = Offer(u, FALSE)
    BY <2>1
  <2>2. CASE \E u \in Devices : device_claim[u] # 0 /\ offer = Offer(u, TRUE)
    BY <2>2
  <2>3. QED
    BY <2>1, <2>2 DEF Offers
<1>3. ASSUME NEW offer \in Offers, offer.claim # 0
      PROVE  /\ offer.accept
             /\ offer.claim \in DOMAIN claims
             /\ claims[offer.claim].uid = offer.uid
  <2>1. PICK u \in Devices, mine \in BOOLEAN :
          /\ offer = Offer(u, mine)
          /\ mine => device_claim[u] # 0
    BY <1>2
  <2>2. /\ offer.claim = OfferedClaim(u, mine) /\ offer.uid = u
        /\ offer.accept = (u \notin denied)
    BY <2>1 DEF Offer
  <2>3. QED
    BY <1>1, <1>3, <2>1, <2>2
<1>4. QED
  BY <1>3 DEF OfferedClaimIsDevices

\* Whatever the table and the firmware's memory went through, an offer never
\* carries another device's claim, and a denied device is offered none.
THEOREM OfferedClaimIsDevicesAlways == Spec => []OfferedClaimIsDevices
<1>1. Init => IInv
  BY TypeInit DEF Init, IInv, DeviceClaims
<1>2. IInv /\ [Next]_vars => IInv'
  BY DeviceClaimsStep
<1>3. IInv => OfferedClaimIsDevices
  BY OffersOwnClaim
<1>4. QED
  BY <1>1, <1>2, <1>3, PTL DEF Spec

-----------------------------------------------------------------------------
(* The completion of a claim *)

\* A heartbeat completes the active claim and times out expired ones.
LEMMA HeartbeatWrites ==
  ASSUME TypeOK, NEW u \in Devices, Heartbeat(u), NEW c \in DOMAIN claims,
         claims'[c].state # claims[c].state
  PROVE  \/ ActiveClaim(claims[c].uid) = c /\ claims'[c].state = "attached"
         \/ claims[c].state # "attached" /\ claims'[c].state = "timeout"
<1>1. claims' = Attached(u)
  BY DEF Heartbeat
<1>2. CASE ActiveClaim(u) # 0 /\ c = ActiveClaim(u) /\ Attached(u)[c].state = "attached"
  BY <1>1, <1>2, ActiveIsOldestLive
<1>3. CASE Attached(u)[c] = Scanned(u)[c]
  BY <1>1, <1>3, ScannedClaims
<1>4. QED
  BY <1>2, <1>3, AttachedClaims

\* Who may write the state of a claim, for every step of the system.
LEMMA StateWriters ==
  ASSUME TypeOK, [Next]_vars, NEW c \in DOMAIN claims,
         claims'[c].state # claims[c].state
  PROVE  \/ serve[c] # "done" /\ claims'[c].state \in {"sent", "requested"}
         \/ /\ c \in asked /\ claims'[c].state \in BackendStates
            /\ ClaimUpdate(c, claims'[c].state)
         \/ ActiveClaim(claims[c].uid) = c /\ claims'[c].state = "attached"
         \/ claims[c].state # "attached" /\ claims'[c].state \in {"timeout", "failed"}
<1>1. /\ DOMAIN serve = DOMAIN claims /\ asked \subseteq DOMAIN claims
      /\ undelivered \subseteq DOMAIN claims
  BY ClaimNumbers DEF TypeOK
<1>2. CASE \E u \in Devices : ServeCreate(u)
  BY <1>2, CreatedClaim
<1>3. CASE \E d \in DOMAIN serve : Serve(d)
  <2>1. PICK d \in DOMAIN serve : Serve(d)
    BY <1>3
  <2>2. CASE ServeSent(d)
    BY <1>1, <2>2, UpdatedClaims, WrittenStates DEF ServeSent, Goto
  <2>3. CASE ServeRequested(d)
    BY <1>1, <2>3, UpdatedClaims, WrittenStates DEF ServeRequested, Goto
  <2>4. QED
    BY <2>1, <2>2, <2>3 DEF Serve, ServeAsk, ServeCommand
<1>4. CASE \E d \in asked, s \in BackendStates : ClaimUpdate(d, s)
  <2>1. PICK d \in asked, s \in BackendStates : ClaimUpdate(d, s)
    BY <1>4
  <2>2. d = c /\ claims'[c].state = s
    BY <1>1, <2>1, UpdatedClaims, WrittenStates DEF ClaimUpdate
  <2>3. QED
    BY <2>1, <2>2
<1>5. CASE \E u \in Devices : Heartbeat(u)
  BY <1>5, HeartbeatWrites
<1>6. CASE \E u \in Devices : Snapshot(u) \/ Discover(u)
  BY <1>6, ScannedClaims DEF Snapshot, Discover
<1>7. CASE \E d \in undelivered : DeliveryTimeout(d) \/ SwitchAnswered(d)
  <2>1. PICK d \in undelivered : DeliveryTimeout(d) \/ SwitchAnswered(d)
    BY <1>7
  <2>2. CASE DeliveryTimeout(d)
    BY <1>1, <2>2, UpdatedClaims, WrittenStates DEF DeliveryTimeout, DeliveryFailure
  <2>3. QED
    BY <2>1, <2>2 DEF SwitchAnswered
<1>8. CASE Tick
  BY <1>8, TickedClaims
<1>9. CASE claims' = claims
  BY <1>9
<1>10. QED
  BY <1>2, <1>3, <1>4, <1>5, <1>6, <1>7, <1>8, <1>9
     DEF Next, OtherFrame, Prune, RequestDropped, DiscoverElsewhere, Deny, Allow,
         DeviceSwitches, vars

\* A claim completed by a heartbeat stays completed once serve has returned:
\* no late delivery timeout and no scan undoes it, only the backend may.
THEOREM AttachedStaysAlways == Spec => AttachedStays
<1>1. TypeOK /\ [Next]_vars =>
        [\A c \in DOMAIN claims :
           claims[c].state = "attached" /\ claims'[c].state # "attached" =>
             \/ serve[c] # "done"
             \/ c \in asked /\ claims'[c].state \in BackendStates
                  /\ undelivered' = undelivered]_vars
  BY StateWriters DEF ClaimUpdate
<1>2. QED
  BY <1>1, TypeCorrect, PTL DEF Spec, AttachedStays

\* A claim is completed by the backend's own word, whatever states it sends,
\* or by a heartbeat that passes over no older open claim of the device.
THEOREM OldestClaimAttachesAlways == Spec => OldestClaimAttaches
<1>1. ASSUME TypeOK, NEW c \in DOMAIN claims, ActiveClaim(claims[c].uid) = c
      PROVE  OldestOpen(c)
  <2>1. c # 0 /\ 1..(c - 1) \subseteq DOMAIN claims /\ DOMAIN claims \subseteq Nat
    BY <1>1, ClaimNumbers
  <2>2. /\ Live(c)
        /\ \A d \in DOMAIN claims : claims[d].uid = claims[c].uid /\ Live(d) => c <= d
    BY <1>1, <2>1, ActiveIsOldestLive
  <2>3. \A d \in DOMAIN claims : claims[d].left \in 0..Ttl
    BY <1>1, ClaimNumbers DEF Claim
  <2>4. ASSUME NEW d \in 1..(c - 1), claims[d].uid = claims[c].uid
        PROVE  claims[d].left = 0 \/ claims[d].state \in {"failed", "timeout"}
    BY <2>1, <2>2, <2>3, <2>4, ClaimsAssumption DEF Live, ClaimsAssumption
  <2>5. QED
    BY <2>2, <2>4 DEF Live, OldestOpen
<1>2. ASSUME TypeOK, [Next]_vars, NEW c \in DOMAIN claims,
             claims[c].state # "attached", claims'[c].state = "attached"
      PROVE  BackendAttaches(c) \/ OldestOpen(c)
  <2>1. CASE \E u \in Devices : Heartbeat(u)
    BY <1>1, <1>2, <2>1, HeartbeatWrites
  <2>2. CASE ~\E u \in Devices : Heartbeat(u)
    BY <1>1, <1>2, <2>2, StateWriters DEF BackendAttaches
  <2>3. QED
    BY <2>1, <2>2
<1>3. TypeOK /\ [Next]_vars =>
        [\A c \in DOMAIN claims :
           claims[c].state # "attached" /\ claims'[c].state = "attached" =>
             BackendAttaches(c) \/ OldestOpen(c)]_vars
  BY <1>2
<1>4. QED
  BY <1>3, TypeCorrect, PTL DEF Spec, OldestClaimAttaches
=============================================================================
