---------------------------- MODULE PresenceProofs ----------------------------
(***************************************************************************)
(* Theorems about the device presence table, for any number of Gateways    *)
(* and devices and any windows.                                            *)
(***************************************************************************)
EXTENDS Presence, TLAPS

-----------------------------------------------------------------------------
(* One record *)

Device == [known : BOOLEAN, connected : BOOLEAN, seen : Ages, found : Ages]

\* A record is empty until it is known, and connected only with a timestamp.
Sound(d) ==
  /\ d \in Device
  /\ d.known \/ d = Absent
  /\ d.connected => d.seen # Never

LEMMA AgesAreNumbers ==
  /\ MaxAge \in Nat /\ MaxAge >= 2
  /\ Ages \subseteq Int /\ Never \in Ages /\ 0 \in Ages /\ MaxAge \in Ages
BY PresenceAssumption DEF PresenceAssumption, MaxAge, Ages, Never

\* An age that grows stays an age, and a timestamp that is set stays set.
LEMMA OlderAge ==
  ASSUME NEW a \in Ages
  PROVE  Older(a) \in Ages /\ (Older(a) = Never <=> a = Never)
BY AgesAreNumbers DEF Older, Ages, Never

\* What writing a field leaves and changes.
LEMMA ConnectedWritten ==
  ASSUME NEW k \in Device, NEW c \in BOOLEAN
  PROVE  LET w == [k EXCEPT !.connected = c] IN
         /\ w \in Device /\ w.connected = c
         /\ w.known = k.known /\ w.seen = k.seen /\ w.found = k.found
BY DEF Device

LEMMA SeenWritten ==
  ASSUME NEW k \in Device, NEW a \in Ages
  PROVE  LET w == [k EXCEPT !.seen = a] IN
         /\ w \in Device /\ w.seen = a
         /\ w.known = k.known /\ w.connected = k.connected /\ w.found = k.found
BY DEF Device

LEMMA FoundWritten ==
  ASSUME NEW k \in Device, NEW a \in Ages
  PROVE  LET w == [k EXCEPT !.found = a] IN
         /\ w \in Device /\ w.found = a
         /\ w.known = k.known /\ w.connected = k.connected /\ w.seen = k.seen
BY DEF Device

LEMMA AbsentSound == Sound(Absent)
BY AgesAreNumbers DEF Sound, Absent, Device

\* Creating the record connects nothing.
LEMMA RecordedSound ==
  ASSUME NEW d, Sound(d)
  PROVE  /\ Sound(Recorded(d)) /\ Recorded(d).known
         /\ Recorded(d).connected = d.connected
BY AgesAreNumbers DEF Sound, Recorded, Fresh, Absent, Device

LEMMA AttachingSound ==
  ASSUME NEW d, Sound(d)
  PROVE  Sound(Attaching(d))
<1> DEFINE r == Recorded(d)
<1>1. r \in Device /\ r.known
  BY RecordedSound DEF Sound
<1>2. Attaching(d) = [[r EXCEPT !.connected = TRUE] EXCEPT !.seen = 0]
  BY DEF Attaching
<1> HIDE DEF r
<1> DEFINE k == [r EXCEPT !.connected = TRUE]
<1>3. k \in Device /\ k.known
  BY <1>1, ConnectedWritten
<1>4. Attaching(d) = [k EXCEPT !.seen = 0]
  BY <1>2
<1> HIDE DEF k
<1>5. Attaching(d) \in Device /\ Attaching(d).known /\ Attaching(d).seen = 0
  BY <1>3, <1>4, AgesAreNumbers, SeenWritten
<1>6. QED
  BY <1>5 DEF Sound, Never

\* A FindMe request that is recorded.
LEMMA FoundSound ==
  ASSUME NEW d, Sound(d)
  PROVE  /\ Sound([Recorded(d) EXCEPT !.found = 0])
         /\ [Recorded(d) EXCEPT !.found = 0].connected = d.connected
<1> DEFINE r == Recorded(d)
<1>1. Sound(r) /\ r.known /\ r.connected = d.connected
  BY RecordedSound
<1> HIDE DEF r
<1>2. Sound([r EXCEPT !.found = 0]) /\ [r EXCEPT !.found = 0].connected = r.connected
  BY <1>1, AgesAreNumbers DEF Sound, Device
<1>3. QED
  BY <1>1, <1>2 DEF r

\* Only a result that says it is attached here connects the record.
LEMMA ResultSound ==
  ASSUME NEW d, Sound(d), NEW g \in Gateways, NEW r
  PROVE  /\ Sound(Result(g, d, r))
         /\ Result(g, d, r).connected => d.connected \/ (r.names = g /\ r.attached)
<1> DEFINE k == Recorded(d)
<1>1. Sound(k) /\ k.known /\ k.connected = d.connected
  BY RecordedSound
<1>2. Result(g, d, r) \in {k, Attaching(d), [k EXCEPT !.connected = FALSE]}
        /\ (Result(g, d, r) = Attaching(d) => Result(g, d, r) = k \/ (r.names = g /\ r.attached)
              \/ Result(g, d, r) = [k EXCEPT !.connected = FALSE])
  BY DEF Result, Attachment
<1> HIDE DEF k
<1>3. Sound([k EXCEPT !.connected = FALSE]) /\ ~[k EXCEPT !.connected = FALSE].connected
  BY <1>1 DEF Sound, Device
<1>4. QED
  BY <1>1, <1>2, <1>3, AttachingSound

\* A packet connects nothing, and a dropped one leaves the timestamp.
LEMMA PacketSound ==
  ASSUME NEW d, Sound(d), NEW forwarded \in BOOLEAN
  PROVE  /\ Sound(Packet(d, forwarded))
         /\ Packet(d, forwarded).connected = d.connected
<1> DEFINE k == Recorded(d)
<1>1. Sound(k) /\ k.known /\ k.connected = d.connected
  BY RecordedSound
<1>2. Packet(d, forwarded) = [k EXCEPT !.seen = IF forwarded THEN 0 ELSE k.seen]
  BY DEF Packet
<1> HIDE DEF k
<1>3. CASE forwarded
  <2>1. Packet(d, forwarded) = [k EXCEPT !.seen = 0]
    BY <1>2, <1>3
  <2>2. QED
    BY <1>1, <2>1, AgesAreNumbers DEF Sound, Device, Never
<1>4. CASE ~forwarded
  <2>1. Packet(d, forwarded) = k
    BY <1>1, <1>2, <1>4 DEF Sound, Device
  <2>2. QED
    BY <1>1, <2>1
<1>5. QED
  BY <1>3, <1>4

\* Marking stale records disconnects or drops, and never connects.
LEMMA MarkedSound ==
  ASSUME NEW d, Sound(d)
  PROVE  Sound(Marked(d)) /\ (Marked(d).connected => d.connected)
<1>1. ~Absent.connected
  BY DEF Absent
<1> DEFINE k == [d EXCEPT !.connected = FALSE]
<1>2. k \in Device /\ k.known = d.known /\ ~k.connected
  BY ConnectedWritten DEF Sound
<1>3. d.connected => d.known
  BY <1>1 DEF Sound
<1>4. Marked(d) \in {Absent, d} \/ (d.connected /\ Marked(d) = k)
  BY DEF Marked, GoesStale
<1> HIDE DEF k
<1>5. d.connected => Sound(k)
  BY <1>2, <1>3 DEF Sound
<1>6. QED
  BY <1>1, <1>2, <1>4, <1>5, AbsentSound

LEMMA AgedSound ==
  ASSUME NEW d, Sound(d)
  PROVE  LET t == [d EXCEPT !.seen = Older(@), !.found = Older(@)] IN
         Sound(t) /\ t.connected = d.connected
<1> DEFINE k == [d EXCEPT !.seen = Older(@)]
           t == [k EXCEPT !.found = Older(@)]
<1>1. d \in Device /\ Older(d.seen) \in Ages /\ Older(d.found) \in Ages
        /\ (Older(d.seen) = Never <=> d.seen = Never)
  BY OlderAge DEF Sound, Device
<1>2. /\ k \in Device /\ k.known = d.known /\ k.connected = d.connected
      /\ k.seen = Older(d.seen) /\ k.found = d.found
  BY <1>1, SeenWritten
<1>3. [d EXCEPT !.seen = Older(@), !.found = Older(@)] = t
  OBVIOUS
<1> HIDE DEF k
<1>4. /\ t \in Device /\ t.known = d.known /\ t.connected = d.connected
      /\ t.seen = Older(d.seen) /\ t.found = Older(d.found)
  BY <1>1, <1>2, FoundWritten
<1> HIDE DEF t
<1>5. CASE d.known
  BY <1>1, <1>3, <1>4, <1>5 DEF Sound
<1>6. CASE d = Absent
  <2>1. Older(Never) = Never
    BY DEF Older
  <2>2. /\ t.known = FALSE /\ t.connected = FALSE
        /\ t.seen = Never /\ t.found = Never
    BY <1>4, <1>6, <2>1 DEF Absent
  <2>3. t = Absent
    BY <1>4, <2>2 DEF Absent, Device
  <2>4. QED
    BY <1>3, <1>6, <2>3, AbsentSound
<1>7. QED
  BY <1>5, <1>6 DEF Sound

-----------------------------------------------------------------------------
(* The table *)

Table(t) == t \in [Gateways -> [Devices -> Device]]
              /\ \A g \in Gateways, u \in Devices : Sound(t[g][u])

\* Nothing but the record of u at g is written.
LEMMA SetDeviceTable ==
  ASSUME Table(devices), NEW g \in Gateways, NEW u \in Devices,
         NEW d, Sound(d), SetDevice(g, u, d)
  PROVE  /\ Table(devices')
         /\ devices'[g][u] = d
         /\ \A h \in Gateways, v \in Devices :
              h # g \/ v # u => devices'[h][v] = devices[h][v]
<1>1. d \in Device /\ devices \in [Gateways -> [Devices -> Device]]
  BY DEF Sound, Table
<1>2. devices' = [devices EXCEPT ![g][u] = d]
  BY DEF SetDevice
<1>3. /\ devices' \in [Gateways -> [Devices -> Device]]
      /\ devices'[g][u] = d
      /\ \A h \in Gateways, v \in Devices :
           h # g \/ v # u => devices'[h][v] = devices[h][v]
  BY <1>1, <1>2
<1>4. \A h \in Gateways, v \in Devices : Sound(devices'[h][v])
  <2>1. ASSUME NEW h \in Gateways, NEW v \in Devices
        PROVE  Sound(devices'[h][v])
    BY <1>3 DEF Table
  <2>2. QED
    BY <2>1
<1>5. QED
  BY <1>3, <1>4 DEF Table

\* The ways in which a device may have chosen a Gateway.
Chosen(g, u) ==
  \/ home[u] = g
  \/ \E r \in replies : r.to = g /\ r.uid = u /\ r.names = g /\ r.attached

\* No step spoils the table, and a record is connected only when the device
\* has chosen the Gateway.
LEMMA TableStep ==
  ASSUME TypeOK, Table(devices), [Next]_vars
  PROVE  /\ Table(devices')
         /\ \A g \in Gateways, u \in Devices :
              devices'[g][u].connected => Connected(g, u) \/ Chosen(g, u)
<1> DEFINE Goal == /\ Table(devices')
                   /\ \A g \in Gateways, u \in Devices :
                        devices'[g][u].connected => Connected(g, u) \/ Chosen(g, u)
<1>1. CASE devices' = devices
  BY <1>1 DEF Connected
<1>2. ASSUME NEW g \in Gateways, NEW u \in Devices, NEW d, Sound(d),
             SetDevice(g, u, d), d.connected => Connected(g, u) \/ Chosen(g, u)
      PROVE  Goal
  BY <1>2, SetDeviceTable DEF Connected
<1>3. ASSUME NEW g \in Gateways, NEW u \in Devices
      PROVE  Sound(devices[g][u])
  BY DEF Table
<1> HIDE DEF Goal
<1>4. ASSUME NEW g \in Gateways, NEW u \in Devices, Discover(g, u)
      PROVE  Goal
  BY <1>2, <1>3, <1>4, FoundSound DEF Discover, Connected
<1>5. ASSUME NEW g \in Gateways, NEW u \in Devices, Heartbeat(g, u) \/ Control(g, u)
      PROVE  Goal
  BY <1>2, <1>3, <1>5, AttachingSound DEF Heartbeat, Control, Chosen
<1>6. ASSUME NEW g \in Gateways, NEW u \in Devices, ArduinoStream(g, u)
      PROVE  Goal
  <2> DEFINE d == devices[g][u]
             f == u \notin denied[g]
  <2>1. \/ SetDevice(g, u, Packet(Attaching(d), f))
        \/ SetDevice(g, u, Packet(d, f))
    BY <1>6 DEF ArduinoStream
  <2>2. Sound(d) /\ Sound(Attaching(d)) /\ f \in BOOLEAN /\ Chosen(g, u)
    BY <1>3, <1>6, AttachingSound DEF ArduinoStream, Chosen
  <2> HIDE DEF d, f
  <2>3. Sound(Packet(Attaching(d), f)) /\ Sound(Packet(d, f))
    BY <2>2, PacketSound
  <2>4. QED
    BY <1>2, <2>1, <2>2, <2>3
<1>7. ASSUME NEW g \in Gateways, NEW u \in Devices, PlainStream(g, u)
      PROVE  Goal
  <2> DEFINE marked == [v \in Devices |-> Marked(devices[g][v])]
  <2>1. \A v \in Devices : Sound(marked[v]) /\ (marked[v].connected => Connected(g, v))
    BY <1>3, MarkedSound DEF Connected
  <2>2. marked \in [Devices -> Device]
    BY <2>1 DEF Sound
  <2>3. PICK f \in BOOLEAN :
          devices' = [devices EXCEPT ![g] = [marked EXCEPT ![u] = Packet(marked[u], f)]]
    BY <1>7, <2>2 DEF PlainStream
  <2> HIDE DEF marked
  <2>4. Sound(Packet(marked[u], f)) /\ Packet(marked[u], f).connected = marked[u].connected
    BY <2>1, PacketSound
  <2> DEFINE row == [marked EXCEPT ![u] = Packet(marked[u], f)]
  <2>5. row \in [Devices -> Device]
        /\ \A v \in Devices : Sound(row[v]) /\ (row[v].connected => Connected(g, v))
    BY <2>1, <2>2, <2>4 DEF Sound
  <2>6. devices' = [devices EXCEPT ![g] = row]
    BY <2>3
  <2> HIDE DEF row
  <2>7. QED
    BY <2>5, <2>6 DEF Goal, Table, Connected
<1>8. ASSUME NEW r \in replies, Reply(r)
      PROVE  Goal
  <2>1. r.to \in Gateways /\ r.uid \in Devices
    BY <1>8 DEF TypeOK
  <2>2. CASE r.uid \in denied[r.to]
    BY <1>1, <1>8, <2>2 DEF Reply, Goal
  <2>3. CASE r.uid \notin denied[r.to]
    <3>1. SetDevice(r.to, r.uid, Result(r.to, devices[r.to][r.uid], r))
      BY <1>8, <2>3 DEF Reply
    <3>2. /\ Sound(Result(r.to, devices[r.to][r.uid], r))
          /\ Result(r.to, devices[r.to][r.uid], r).connected =>
               Connected(r.to, r.uid) \/ (r.names = r.to /\ r.attached)
      BY <1>3, <2>1, ResultSound DEF Connected
    <3>3. r.names = r.to /\ r.attached => Chosen(r.to, r.uid)
      BY <1>8 DEF Chosen
    <3>4. QED
      BY <1>2, <2>1, <3>1, <3>2, <3>3
  <2>4. QED
    BY <2>2, <2>3
<1>9. ASSUME NEW g \in Gateways, MarkStale(g)
      PROVE  Goal
  <2> DEFINE row == [v \in Devices |-> Marked(devices[g][v])]
  <2>1. /\ row \in [Devices -> Device]
        /\ \A v \in Devices : Sound(row[v]) /\ (row[v].connected => Connected(g, v))
    BY <1>3, MarkedSound DEF Connected, Sound
  <2>2. devices' = [devices EXCEPT ![g] = row]
    BY <1>9 DEF MarkStale
  <2> HIDE DEF row
  <2>3. QED
    BY <2>1, <2>2 DEF Goal, Table, Connected
<1>10. CASE Tick
  <2>1. \A g \in Gateways, u \in Devices :
          devices'[g][u] = [devices[g][u] EXCEPT !.seen = Older(@), !.found = Older(@)]
    BY <1>10 DEF Tick
  <2>2. ASSUME NEW g \in Gateways, NEW u \in Devices
        PROVE  /\ Sound(devices'[g][u])
               /\ devices'[g][u].connected = devices[g][u].connected
    <3> DEFINE d == devices[g][u]
    <3>1. Sound(d) /\ devices'[g][u] = [d EXCEPT !.seen = Older(@), !.found = Older(@)]
      BY <1>3, <2>1
    <3> HIDE DEF d
    <3>2. /\ Sound([d EXCEPT !.seen = Older(@), !.found = Older(@)])
          /\ [d EXCEPT !.seen = Older(@), !.found = Older(@)].connected = d.connected
      BY <3>1, AgedSound
    <3>3. QED
      BY <3>1, <3>2 DEF d
  <2>3. devices' \in [Gateways -> [Devices -> Device]]
    BY <1>10, <2>1, <2>2 DEF Tick, Sound
  <2>4. QED
    BY <2>2, <2>3 DEF Goal, Table, Connected
<1>11. Goal
  BY <1>1, <1>4, <1>5, <1>6, <1>7, <1>8, <1>9, <1>10
     DEF Goal, Next, Traffic, Poll, Deny, Allow, LoseReply, Move, vars
<1>12. QED
  BY <1>11 DEF Goal

-----------------------------------------------------------------------------
(* The theorems *)

IInv == TypeOK /\ ConnectedIsTimed

\* The invariant speaks of the whole table.
LEMMA TableOfIInv == IInv => Table(devices)
<1>1. ASSUME IInv, NEW g \in Gateways, NEW u \in Devices
      PROVE  Sound(devices[g][u])
  BY <1>1 DEF IInv, TypeOK, ConnectedIsTimed, Connected, Sound, Device
<1>2. QED
  BY <1>1 DEF IInv, TypeOK, Table, Device

LEMMA InvInit ==
  ASSUME Init
  PROVE  IInv
<1>1. /\ devices \in [Gateways -> [Devices -> Device]]
      /\ \A g \in Gateways, u \in Devices : devices[g][u] = Absent
  BY AbsentSound DEF Init, Sound
<1>2. accept_age \in [Gateways -> [Devices -> 0..MaxAge]]
  BY AgesAreNumbers DEF Init
<1>3. ConnectedIsTimed
  BY <1>1 DEF ConnectedIsTimed, Connected, Absent
<1>4. QED
  BY <1>1, <1>2, <1>3, PresenceAssumption
     DEF Init, IInv, TypeOK, Device, PresenceAssumption

LEMMA InvStep ==
  ASSUME IInv, [Next]_vars
  PROVE  IInv'
<1>1. Table(devices) /\ TypeOK
  BY TableOfIInv DEF IInv
<1>2. Table(devices')
  BY <1>1, TableStep
<1>3. accept_age' \in [Gateways -> [Devices -> 0..MaxAge]]
  <2>1. CASE Tick
    <3>1. ASSUME NEW a \in 0..MaxAge
          PROVE  Older(a) \in 0..MaxAge
      BY AgesAreNumbers DEF Older, Never
    <3>2. QED
      BY <1>1, <2>1, <3>1 DEF Tick, TypeOK
  <2>2. CASE \E g \in Gateways, u \in Devices : Discover(g, u)
    BY <1>1, <2>2, AgesAreNumbers DEF Discover, TypeOK
  <2>3. CASE accept_age' = accept_age
    BY <1>1, <2>3 DEF TypeOK
  <2>4. QED
    BY <2>1, <2>2, <2>3
       DEF Next, Traffic, Heartbeat, Control, ArduinoStream, PlainStream, Poll,
           Reply, LoseReply, MarkStale, Deny, Allow, Move, vars
<1>4. arduino' \in [Gateways -> SUBSET Devices]
  <2>1. CASE \E g \in Gateways, u \in Devices : Heartbeat(g, u)
    BY <1>1, <2>1 DEF Heartbeat, TypeOK
  <2>2. CASE \E g \in Gateways, u \in Devices : ArduinoStream(g, u)
    BY <1>1, <2>2 DEF ArduinoStream, TypeOK
  <2>3. CASE arduino' = arduino
    BY <1>1, <2>3 DEF TypeOK
  <2>4. QED
    BY <2>1, <2>2, <2>3
       DEF Next, Traffic, Discover, Control, PlainStream, Poll, Reply, LoseReply,
           MarkStale, Deny, Allow, Move, Tick, vars
<1>5. /\ denied' \in [Gateways -> SUBSET Devices]
      /\ home' \in [Devices -> Gateways \cup {NoGateway}] /\ moves' \in 0..MaxMoves
  <2>1. CASE \E g \in Gateways, u \in Devices : Deny(g, u) \/ Allow(g, u)
    <3>1. PICK g \in Gateways, u \in Devices : Deny(g, u) \/ Allow(g, u)
      BY <2>1
    <3>2. PICK D \in SUBSET Devices : denied' = [denied EXCEPT ![g] = D]
      <4>1. denied[g] \in SUBSET Devices
        BY <1>1 DEF TypeOK
      <4>2. denied[g] \cup {u} \in SUBSET Devices /\ denied[g] \ {u} \in SUBSET Devices
        BY <4>1
      <4>3. QED
        BY <3>1, <4>2 DEF Deny, Allow
    <3>3. UNCHANGED <<home, moves>>
      BY <3>1 DEF Deny, Allow
    <3>4. QED
      BY <1>1, <3>2, <3>3 DEF TypeOK
  <2>2. CASE \E u \in Devices, g \in Gateways \cup {NoGateway} : Move(u, g)
    <3>1. PICK u \in Devices, g \in Gateways \cup {NoGateway} : Move(u, g)
      BY <2>2
    <3>2. home' \in [Devices -> Gateways \cup {NoGateway}] /\ denied' = denied
      BY <1>1, <3>1 DEF Move, TypeOK
    <3>3. moves' \in 0..MaxMoves
      BY <1>1, <3>1, PresenceAssumption DEF Move, TypeOK, PresenceAssumption
    <3>4. QED
      BY <1>1, <3>2, <3>3 DEF TypeOK
  <2>3. CASE UNCHANGED <<denied, home, moves>>
    BY <1>1, <2>3 DEF TypeOK
  <2>4. ASSUME NEW g \in Gateways, NEW u \in Devices,
               Traffic(g, u)
                 \/ \E switch, attached \in BOOLEAN,
                       names \in Gateways \cup {NoGateway} :
                       Poll(g, u, switch, names, attached)
        PROVE  UNCHANGED <<denied, home, moves>>
    BY <2>4 DEF Traffic, Discover, Heartbeat, Control, ArduinoStream, PlainStream,
                Poll, Reply
  <2>5. QED
    BY <2>1, <2>2, <2>3, <2>4 DEF Next, LoseReply, MarkStale, Tick, vars
<1>6. replies' \subseteq [to : Gateways, uid : Devices, switch : BOOLEAN,
                          names : Gateways \cup {NoGateway}, attached : BOOLEAN]
  <2>1. CASE \E g \in Gateways, u \in Devices, switch, attached \in BOOLEAN,
                names \in Gateways \cup {NoGateway} :
               Poll(g, u, switch, names, attached)
    BY <1>1, <2>1 DEF Poll, TypeOK
  <2>2. CASE replies' \subseteq replies
    BY <1>1, <2>2 DEF TypeOK
  <2>3. QED
    BY <2>1, <2>2
       DEF Next, Traffic, Discover, Heartbeat, Control, ArduinoStream, PlainStream,
           Reply, LoseReply, MarkStale, Deny, Allow, Move, Tick, vars
<1>7. QED
  BY <1>2, <1>3, <1>4, <1>5, <1>6
     DEF IInv, TypeOK, ConnectedIsTimed, Connected, Table, Sound, Device

LEMMA InvAlways == Spec => []IInv
<1>1. Init => IInv
  BY InvInit
<1>2. IInv /\ [Next]_vars => IInv'
  BY InvStep
<1>3. QED
  BY <1>1, <1>2, PTL DEF Spec

\* The variables always have the shape TypeOK gives them; a record that was
\* dropped keeps nothing of its past.
THEOREM TypeCorrect == Spec => []TypeOK
<1>1. IInv => TypeOK
  BY DEF IInv
<1>2. QED
  BY <1>1, InvAlways, PTL

\* A connected record always carries the timestamp the stale window is
\* measured from, whatever frame made it connected.
THEOREM ConnectedIsTimedAlways == Spec => []ConnectedIsTimed
<1>1. IInv => ConnectedIsTimed
  BY DEF IInv
<1>2. QED
  BY <1>1, InvAlways, PTL

\* A Gateway comes to believe it serves a device only when the device is
\* attached there or has said so itself.
THEOREM ConnectsOnlyWhenChosenAlways == Spec => ConnectsOnlyWhenChosen
<1>1. IInv /\ [Next]_vars =>
        [\A g \in Gateways, u \in Devices :
           ~Connected(g, u) /\ Connected(g, u)' =>
             \/ home[u] = g
             \/ \E r \in replies :
                  r.to = g /\ r.uid = u /\ r.names = g /\ r.attached]_vars
  BY TableOfIInv, TableStep DEF IInv, Connected, Chosen
<1>2. QED
  BY <1>1, InvAlways, PTL DEF ConnectsOnlyWhenChosen, Connected, Spec
=============================================================================
