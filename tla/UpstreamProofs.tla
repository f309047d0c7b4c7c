---------------------------- MODULE UpstreamProofs ----------------------------
(***************************************************************************)
(* Theorems about the WebSocket client, for any number of connections,     *)
(* send threads and messages, and queues of any size.                      *)
(***************************************************************************)
EXTENDS Upstream, FiniteSetTheorems, TLAPS

-----------------------------------------------------------------------------
(* The control queue *)

LEMMA Interval ==
  ASSUME NEW n \in Nat
  PROVE  IsFiniteSet(1..n) /\ Cardinality(1..n) = n
BY FS_Interval

LEMMA Part ==
  ASSUME NEW n \in Nat, NEW S \in SUBSET (1..n)
  PROVE  IsFiniteSet(S) /\ Cardinality(S) \in Nat /\ Cardinality(S) <= n
<1>1. IsFiniteSet(1..n) /\ Cardinality(1..n) = n
  BY Interval
<1>2. IsFiniteSet(S) /\ Cardinality(S) <= n
  BY <1>1, FS_Subset
<1>3. QED
  BY <1>2, FS_CardinalityType

\* What is retained of a queue is a queue that is no longer.
LEMMA RetainedQueue ==
  ASSUME NEW q \in Seq(Message)
  PROVE  Retained(q) \in Seq(Message) /\ Len(Retained(q)) <= Len(q)
<1> DEFINE kept == {k \in DOMAIN q : q[k].kind # "status"}
           UpTo(k) == {j \in kept : j <= k}
           Place(k) == Cardinality(UpTo(k))
           n == Cardinality(kept)
<1>1. Len(q) \in Nat /\ DOMAIN q = 1..Len(q) /\ \A k \in 1..Len(q) : q[k] \in Message
  OBVIOUS
<1>2. IsFiniteSet(kept) /\ n \in Nat /\ n <= Len(q) /\ kept \subseteq 1..Len(q)
  <2>1. kept \in SUBSET (1..Len(q))
    BY <1>1
  <2> HIDE DEF kept
  <2>2. QED
    BY <1>1, <2>1, Part
<1>3. ASSUME NEW k \in kept
      PROVE  IsFiniteSet(UpTo(k)) /\ Place(k) \in 1..n
  <2>1. UpTo(k) \in SUBSET kept /\ k \in UpTo(k)
    BY <1>2
  <2> HIDE DEF kept, UpTo
  <2>2. IsFiniteSet(UpTo(k)) /\ Place(k) \in Nat /\ Place(k) <= n
    BY <1>2, <2>1, FS_Subset, FS_CardinalityType
  <2>3. Place(k) # 0
    BY <2>1, <2>2, FS_EmptySet
  <2>4. QED
    BY <1>2, <2>2, <2>3
<1>4. ASSUME NEW j \in kept, NEW k \in kept, j < k
      PROVE  Place(j) # Place(k)
  <2>1. UpTo(j) \in SUBSET UpTo(k) /\ k \in UpTo(k) /\ k \notin UpTo(j)
    BY <1>2, <1>4
  <2> HIDE DEF kept, UpTo
  <2>2. QED
    BY <1>3, <2>1, FS_Subset
\* Every place up to the last is taken: places differ, and there are as many.
<1>5. \A i \in 1..n : \E k \in kept : Place(k) = i
  <2> DEFINE place == [k \in kept |-> Place(k)]
  <2>1. place \in [kept -> 1..n]
    BY <1>3
  <2>2. \A j, k \in kept : place[j] = place[k] => j = k
    <3>1. \A j, k \in kept : Place(j) = Place(k) => j = k
      <4> HIDE DEF Place, kept
      <4>1. \A j, k \in kept : j \in Int /\ k \in Int
        BY <1>2
      <4>2. QED
        BY <1>4, <4>1
    <3> HIDE DEF Place
    <3>2. QED
      BY <3>1
  <2>3. place \in Injection(kept, 1..n)
    <3> HIDE DEF kept, n
    <3>1. DOMAIN place = kept
      OBVIOUS
    <3> HIDE DEF place
    <3>2. QED
      BY <2>1, <2>2, <3>1 DEF Injection, IsInjective
  <2>4. IsFiniteSet(1..n) /\ Cardinality(1..n) = n
    BY <1>2, Interval
  <2>5. place \in Surjection(kept, 1..n)
    <3> HIDE DEF place, kept
    <3> QED
      BY <2>3, <2>4, FS_Injection DEF n
  <2>6. QED
    BY <2>5 DEF Surjection
<1>6. Retained(q) = [i \in 1..n |-> q[CHOOSE k \in kept : Place(k) = i]]
  BY DEF Retained
<1>7. \A i \in 1..n : q[CHOOSE k \in kept : Place(k) = i] \in Message
  BY <1>1, <1>2, <1>5
<1> HIDE DEF n, kept, Place
<1>8. QED
  BY <1>1, <1>2, <1>6, <1>7

\* A put keeps what it puts, and what goes is settled.
LEMMA PutEffect ==
  ASSUME queue \in Seq(Message), Len(queue) <= QueueSize, settled \subseteq Message,
         NEW m \in Message, NEW coalesce \in BOOLEAN, PutControl(m, coalesce)
  PROVE  /\ queue' \in Seq(Message) /\ Len(queue') <= QueueSize
         /\ m \in ToSet(queue') /\ ToSet(queue) \subseteq ToSet(queue') \cup settled'
         /\ settled \subseteq settled' /\ settled' \subseteq Message
         /\ UNCHANGED <<data, putting>>
<1> DEFINE q == RoomFor(coalesce)
           r == IF Len(q) = QueueSize THEN Tail(q) ELSE q
<1>1. q \in Seq(Message) /\ Len(q) <= QueueSize
  BY RetainedQueue, UpstreamAssumption DEF RoomFor, UpstreamAssumption
<1>2. QueueSize \in Nat /\ QueueSize >= 1
  BY UpstreamAssumption DEF UpstreamAssumption
<1>3. /\ queue' = Append(r, m)
      /\ settled' = settled \cup (ToSet(queue) \ ToSet(queue'))
      /\ UNCHANGED <<data, putting>>
  BY DEF PutControl, packets
<1> HIDE DEF q
<1>4. r \in Seq(Message) /\ Len(r) + 1 <= QueueSize
  <2>1. CASE Len(q) = QueueSize
    <3>1. q # <<>> /\ r = Tail(q)
      BY <1>2, <2>1
    <3>2. QED
      BY <1>1, <1>2, <2>1, <3>1
  <2>2. CASE Len(q) # QueueSize
    BY <1>1, <1>2, <2>2
  <2>3. QED
    BY <2>1, <2>2
<1> HIDE DEF r
<1>5. queue' \in Seq(Message) /\ Len(queue') = Len(r) + 1 /\ queue'[Len(r) + 1] = m
  BY <1>3, <1>4
<1>6. m \in ToSet(queue')
  BY <1>4, <1>5 DEF ToSet
<1>7. ToSet(queue) \subseteq Message
  BY DEF ToSet
<1>8. QED
  BY <1>3, <1>4, <1>5, <1>6, <1>7

\* Taking the first message of a queue, and putting one at its end.
LEMMA TakenFirst ==
  ASSUME NEW q \in Seq(Message), q # <<>>
  PROVE  /\ Head(q) \in Message /\ Tail(q) \in Seq(Message) /\ Len(Tail(q)) = Len(q) - 1
         /\ ToSet(q) = ToSet(Tail(q)) \cup {Head(q)}
<1>1. /\ Len(q) \in Nat /\ Len(q) >= 1 /\ DOMAIN q = 1..Len(q)
      /\ Head(q) = q[1] /\ Tail(q) \in Seq(Message) /\ Len(Tail(q)) = Len(q) - 1
      /\ \A i \in 1..(Len(q) - 1) : Tail(q)[i] = q[i + 1]
  OBVIOUS
<1>2. \A i \in 1..Len(q) : i = 1 \/ (i - 1 \in 1..(Len(q) - 1) /\ q[i] = Tail(q)[i - 1])
  BY <1>1
<1>3. DOMAIN Tail(q) = 1..(Len(q) - 1)
  BY <1>1
<1>4. ToSet(q) \subseteq ToSet(Tail(q)) \cup {Head(q)}
  <2> SUFFICES ASSUME NEW e \in ToSet(q)
               PROVE  e \in ToSet(Tail(q)) \/ e = Head(q)
    OBVIOUS
  <2>1. PICK i \in 1..Len(q) : e = q[i]
    BY <1>1 DEF ToSet
  <2>2. CASE i = 1
    BY <1>1, <2>1, <2>2
  <2>3. CASE i # 1
    <3>1. i - 1 \in DOMAIN Tail(q) /\ e = Tail(q)[i - 1]
      BY <1>2, <1>3, <2>1, <2>3
    <3>2. QED
      BY <3>1 DEF ToSet
  <2>4. QED
    BY <2>2, <2>3
<1>5. ToSet(Tail(q)) \cup {Head(q)} \subseteq ToSet(q)
  BY <1>1, <1>3 DEF ToSet
<1>6. QED
  BY <1>1, <1>4, <1>5

LEMMA PutLast ==
  ASSUME NEW q \in Seq(Message), NEW m \in Message, NEW r, r = Append(q, m)
  PROVE  r \in Seq(Message) /\ Len(r) = Len(q) + 1 /\ ToSet(r) = ToSet(q) \cup {m}
<1>1. /\ Append(q, m) \in Seq(Message) /\ Len(Append(q, m)) = Len(q) + 1
      /\ Len(q) \in Nat /\ DOMAIN q = 1..Len(q)
      /\ DOMAIN Append(q, m) = 1..(Len(q) + 1)
      /\ Append(q, m)[Len(q) + 1] = m
      /\ \A i \in 1..Len(q) : Append(q, m)[i] = q[i]
  OBVIOUS
<1>2. \A i \in 1..(Len(q) + 1) : i = Len(q) + 1 \/ i \in 1..Len(q)
  BY <1>1
<1>3. ToSet(Append(q, m)) \subseteq ToSet(q) \cup {m}
  BY <1>1, <1>2 DEF ToSet
<1>4. ToSet(q) \cup {m} \subseteq ToSet(Append(q, m))
  BY <1>1 DEF ToSet
<1>5. QED
  BY <1>1, <1>3, <1>4

-----------------------------------------------------------------------------
(* What a step may do *)

\* Only a send thread that is sending holds a message.
Hands ==
  \A s \in SenderIds :
    IF senders[s].at = "sending" THEN senders[s].holds \in Message
    ELSE senders[s].holds = Nothing

IInv == TypeOK /\ Hands /\ NothingVanishes

\* All messages that have not gone missing.
Known == (Waiting \ {Nothing}) \cup settled

Sender == [at : {"off", "top", "waiting", "sending"}, holds : Message \cup {Nothing}]
Loop == [at : {"unborn", "top", "connecting", "hello", "receiving", "closing", "ended"},
         url : Urls \cup {"none"}]

ClientOK ==
  /\ server_url \in Urls /\ running \in BOOLEAN /\ connected \in BOOLEAN
  /\ thread \in 0..MaxLoops /\ ws \in 0..MaxLoops /\ open \subseteq Loops

MessagesOK ==
  /\ queue \in Seq(Message) /\ Len(queue) <= QueueSize
  /\ data \in Seq(Message) /\ Len(data) <= DataSize
  /\ putting \in Message \cup {Nothing}
  /\ settled \subseteq Message
  /\ issued \in 0..MaxMessages

LEMMA NothingIsNone == Nothing.n = 0 /\ \A m \in Message : m # Nothing /\ m.n # 0
BY DEF Nothing, Message

\* What is known stays known, and a message that is issued becomes known.
LEMMA KeptKnown ==
  ASSUME NothingVanishes, Known \subseteq Known', issued' = issued
  PROVE  NothingVanishes'
<1>1. \A n \in 1..issued : \E m \in Known : m.n = n
  BY NothingIsNone DEF NothingVanishes, Known
<1>2. \A n \in 1..issued' : \E m \in Known' : m.n = n
  BY <1>1
<1>3. QED
  BY <1>2 DEF NothingVanishes, Known

LEMMA NewKnown ==
  ASSUME NothingVanishes, issued \in Nat, NEW k, k.n = issued + 1,
         Known \cup {k} \subseteq Known', issued' = issued + 1
  PROVE  NothingVanishes'
<1>1. \A n \in 1..issued : \E m \in Known : m.n = n
  BY NothingIsNone DEF NothingVanishes, Known
<1>2. \A n \in 1..issued' : \E m \in Known' : m.n = n
  <2> SUFFICES ASSUME NEW n \in 1..issued'
               PROVE  \E m \in Known' : m.n = n
    OBVIOUS
  <2>1. n \in 1..issued \/ n = issued + 1
    OBVIOUS
  <2>2. QED
    BY <1>1, <2>1
<1>3. QED
  BY <1>2 DEF NothingVanishes, Known

\* The hands of one send thread change.
LEMMA OneSender ==
  ASSUME senders \in [SenderIds -> Sender], Hands,
         NEW s \in SenderIds, NEW place \in {"off", "top", "waiting", "sending"},
         NEW m \in Message \cup {Nothing},
         IF place = "sending" THEN m \in Message ELSE m = Nothing,
         senders' = [senders EXCEPT ![s] = [at |-> place, holds |-> m]]
  PROVE  /\ senders' \in [SenderIds -> Sender] /\ Hands'
         /\ Held \subseteq Held' \cup {senders[s].holds}
         /\ m \in Held' \cup {Nothing}
<1>1. [at |-> place, holds |-> m] \in Sender
  BY DEF Sender
<1>2. /\ senders' \in [SenderIds -> Sender]
      /\ senders'[s].at = place /\ senders'[s].holds = m
      /\ \A u \in SenderIds \ {s} : senders'[u] = senders[u]
  BY <1>1
<1>3. Hands'
  BY <1>2 DEF Hands
<1>4. Held \subseteq Held' \cup {senders[s].holds} /\ m \in Held' \cup {Nothing}
  BY <1>2 DEF Held
<1>5. QED
  BY <1>2, <1>3, <1>4

\* The place of one loop changes.
LEMMA OneLoop ==
  ASSUME loops \in [Loops -> Loop], NEW t \in Loops,
         NEW place \in {"unborn", "top", "connecting", "hello", "receiving", "closing", "ended"},
         Move(t, place)
  PROVE  loops' \in [Loops -> Loop]
<1>1. [loops[t] EXCEPT !.at = place] \in Loop
  BY DEF Loop
<1>2. QED
  BY <1>1 DEF Move

\* What the queues and the send threads hold is not touched.
LEMMA MessagesStay ==
  ASSUME IInv, UNCHANGED <<senders, queue, data, putting, settled, issued>>
  PROVE  Hands' /\ NothingVanishes'
<1>1. Held' = Held /\ Waiting' = Waiting /\ Known' = Known
  BY DEF Held, Waiting, Known
<1>2. QED
  BY <1>1, KeptKnown DEF IInv, Hands

LEMMA TypeFacts ==
  ASSUME TypeOK
  PROVE  /\ senders \in [SenderIds -> Sender] /\ loops \in [Loops -> Loop]
         /\ issued \in Nat /\ MaxMessages \in Nat /\ issued \in 0..MaxMessages
         /\ queue \in Seq(Message) /\ Len(queue) <= QueueSize
         /\ data \in Seq(Message) /\ Len(data) <= DataSize /\ DataSize \in Nat /\ DataSize >= 1
         /\ settled \subseteq Message /\ putting \in Message \cup {Nothing}
         /\ ClientOK
BY UpstreamAssumption DEF TypeOK, Sender, Loop, UpstreamAssumption, ClientOK

\* A step that touches the messages only, one that touches no message.
LEMMA TypeStep ==
  ASSUME TypeOK, loops' \in [Loops -> Loop], senders' \in [SenderIds -> Sender],
         \/ ClientOK'
         \/ UNCHANGED <<server_url, running, connected, thread, ws, open>>,
         \/ MessagesOK'
         \/ UNCHANGED <<queue, data, putting, settled, issued>>
  PROVE  TypeOK'
<1>1. ClientOK'
  BY DEF TypeOK, ClientOK
<1>2. MessagesOK'
  BY DEF TypeOK, MessagesOK
<1>3. QED
  BY <1>1, <1>2 DEF TypeOK, ClientOK, MessagesOK, Sender, Loop

-----------------------------------------------------------------------------
(* The steps *)

LEMMA SendStep ==
  ASSUME IInv, NEW kind \in {"result", "status"}, Send(kind)
  PROVE  IInv'
<1> DEFINE m == [n |-> issued + 1, kind |-> kind]
<1>1. /\ issued \in Nat /\ issued < MaxMessages /\ MaxMessages \in Nat
      /\ queue \in Seq(Message) /\ Len(queue) <= QueueSize /\ settled \subseteq Message
  BY TypeFacts DEF IInv, Send
<1>2. m \in Message /\ m.n = issued + 1
  BY <1>1 DEF Message
<1>3. /\ issued' = issued + 1 /\ PutControl(m, kind = "status")
      /\ UNCHANGED <<server_url, running, connected, thread, loops, ws, open, senders>>
  BY DEF Send
<1> HIDE DEF m
<1>4. /\ queue' \in Seq(Message) /\ Len(queue') <= QueueSize
      /\ m \in ToSet(queue') /\ ToSet(queue) \subseteq ToSet(queue') \cup settled'
      /\ settled \subseteq settled' /\ settled' \subseteq Message
      /\ UNCHANGED <<data, putting>>
  BY <1>1, <1>2, <1>3, PutEffect
<1>5. Known \cup {m} \subseteq Known'
  BY <1>2, <1>3, <1>4, NothingIsNone DEF Known, Waiting, Held
<1>6. NothingVanishes'
  BY <1>1, <1>2, <1>3, <1>5, NewKnown DEF IInv
<1>7. TypeOK' /\ Hands'
  BY <1>1, <1>3, <1>4 DEF IInv, TypeOK, Hands
<1>8. QED
  BY <1>6, <1>7 DEF IInv

LEMMA PutPacketStep ==
  ASSUME IInv, PutPacket
  PROVE  IInv'
<1> DEFINE m == [n |-> issued + 1, kind |-> "packet"]
<1>1. /\ issued \in Nat /\ issued < MaxMessages /\ MaxMessages \in Nat /\ putting = Nothing
      /\ data \in Seq(Message) /\ Len(data) <= DataSize /\ DataSize \in Nat
  BY TypeFacts DEF IInv, PutPacket
<1>2. m \in Message /\ m.n = issued + 1
  BY <1>1 DEF Message
<1>3. /\ issued' = issued + 1
      /\ \/ putting' = m /\ data' = data
         \/ Len(data) # DataSize /\ data' = Append(data, m) /\ putting' = putting
      /\ UNCHANGED <<server_url, running, connected, thread, loops, ws, open,
                     senders, queue, settled>>
  BY DEF PutPacket
<1> HIDE DEF m
<1>4. /\ data' \in Seq(Message) /\ Len(data') <= DataSize
      /\ putting' \in Message \cup {Nothing}
      /\ ToSet(data) \cup {m} \subseteq ToSet(data') \cup {putting'}
  BY <1>1, <1>2, <1>3, PutLast
<1>5. Known \cup {m} \subseteq Known'
  BY <1>1, <1>2, <1>3, <1>4, NothingIsNone DEF Known, Waiting, Held
<1>6. NothingVanishes'
  BY <1>1, <1>2, <1>3, <1>5, NewKnown DEF IInv
<1>7. TypeOK' /\ Hands'
  BY <1>1, <1>3, <1>4 DEF IInv, TypeOK, Hands
<1>8. QED
  BY <1>6, <1>7 DEF IInv

LEMMA DropOldestStep ==
  ASSUME IInv, DropOldest
  PROVE  IInv'
<1>1. /\ data \in Seq(Message) /\ Len(data) <= DataSize /\ DataSize \in Nat
      /\ settled \subseteq Message /\ putting \in Message /\ putting' = Nothing
      /\ UNCHANGED <<server_url, running, thread, issued, connected, loops, ws, open,
                     senders, queue>>
  BY TypeFacts DEF IInv, DropOldest, control
<1>2. /\ data' \in Seq(Message) /\ Len(data') <= DataSize /\ settled' \subseteq Message
      /\ ToSet(data) \cup {putting} \subseteq ToSet(data') \cup settled'
      /\ settled \subseteq settled'
  <2>1. CASE data = <<>>
    BY <1>1, <2>1 DEF DropOldest
  <2>2. CASE data # <<>>
    <3>1. settled' = settled \cup {Head(data)} /\ data' = Append(Tail(data), putting)
      BY <2>2 DEF DropOldest
    <3>2. /\ Head(data) \in Message /\ Tail(data) \in Seq(Message)
          /\ Len(Tail(data)) = Len(data) - 1 /\ Len(data) \in Nat
          /\ ToSet(data) = ToSet(Tail(data)) \cup {Head(data)}
      BY <1>1, <2>2, TakenFirst
    <3> DEFINE rest == Tail(data)
    <3>3. rest \in Seq(Message) /\ data' = Append(rest, putting) /\ Len(rest) + 1 = Len(data)
      BY <3>1, <3>2
    <3> HIDE DEF rest
    <3>4. /\ data' \in Seq(Message) /\ Len(data') = Len(data)
          /\ ToSet(data') = ToSet(rest) \cup {putting}
      BY <1>1, <3>3, PutLast
    <3>5. QED
      BY <1>1, <3>1, <3>2, <3>4 DEF rest
  <2>3. QED
    BY <2>1, <2>2
<1>3. Known \subseteq Known'
  BY <1>1, <1>2, NothingIsNone DEF Known, Waiting, Held
<1>4. NothingVanishes'
  BY <1>1, <1>3, KeptKnown DEF IInv
<1>5. TypeOK' /\ Hands'
  BY <1>1, <1>2 DEF IInv, TypeOK, Hands
<1>6. QED
  BY <1>4, <1>5 DEF IInv

\* The steps of callers, loops and the network that touch no message.
LEMMA CallerStep ==
  ASSUME IInv, Start \/ Stop \/ \E url \in Urls : UpdateServer(url)
  PROVE  IInv'
<1>1. UNCHANGED <<senders, queue, data, putting, settled, issued>>
  BY DEF Start, Stop, UpdateServer, messages, packets
<1>2. /\ loops \in [Loops -> Loop] /\ MaxLoops \in Nat /\ TypeOK
  BY TypeFacts, UpstreamAssumption DEF IInv, UpstreamAssumption
<1>3. TypeOK'
  <2>1. CASE Start
    <3>1. PICK t \in Loops : thread' = t /\ loops' = [loops EXCEPT ![t].at = "top"]
      BY <2>1 DEF Start
    <3>2. loops' \in [Loops -> Loop]
      BY <1>2, <3>1, OneLoop DEF Move
    <3>3. thread' \in 0..MaxLoops
      BY <1>2, <3>1 DEF Loops
    <3>4. ClientOK'
      BY <1>2, <2>1, <3>3, TypeFacts DEF Start, ClientOK
    <3>5. QED
      BY <1>1, <1>2, <3>2, <3>4, TypeFacts, TypeStep
  <2>2. CASE Stop \/ \E url \in Urls : UpdateServer(url)
    <3>1. ClientOK /\ 0 \in 0..MaxLoops
      BY <1>2, TypeFacts
    <3>2. /\ UNCHANGED loops /\ server_url' \in Urls /\ running' \in {FALSE, running}
          /\ connected' = FALSE /\ ws' = 0 /\ open' = open \ {ws} /\ thread' \in {0, thread}
      BY <2>2, <3>1 DEF Stop, UpdateServer, Disconnect, ClientOK
    <3>3. ClientOK'
      BY <3>1, <3>2 DEF ClientOK
    <3>4. QED
      BY <1>1, <1>2, <3>2, <3>3, TypeFacts, TypeStep
  <2>3. QED
    BY <2>1, <2>2
<1>4. QED
  BY <1>1, <1>3, MessagesStay DEF IInv

LEMMA LoopStep ==
  ASSUME IInv, NEW t \in Loops,
         \/ LoopTop(t) \/ ConnectSucceeds(t) \/ ConnectFails(t)
         \/ ReceiveEnds(t) \/ Closing(t) \/ ConnectionLost(t)
  PROVE  IInv'
<1>1. UNCHANGED <<senders, queue, data, putting, settled, issued, server_url, running, thread>>
  BY DEF LoopTop, ConnectSucceeds, ConnectFails, ReceiveEnds, Closing, ConnectionLost,
         messages, packets, control
<1>2. /\ loops \in [Loops -> Loop] /\ MaxLoops \in Nat /\ TypeOK /\ t \in 0..MaxLoops
      /\ server_url \in Urls
  BY TypeFacts, UpstreamAssumption DEF IInv, UpstreamAssumption, Loops, TypeOK
<1>3. loops' \in [Loops -> Loop]
  <2>1. CASE LoopTop(t)
    <3>1. loops[t] \in Loop
      BY <1>2
    <3>2. [loops[t] EXCEPT !.at = "ended"] \in Loop
            /\ [at |-> "connecting", url |-> server_url] \in Loop
      BY <1>2, <3>1 DEF Loop
    <3>3. PICK d \in Loop : loops' = [loops EXCEPT ![t] = d]
      BY <2>1, <3>2 DEF LoopTop
    <3>4. QED
      BY <1>2, <3>3
  <2>2. CASE \/ Move(t, "hello") \/ Move(t, "closing") \/ Move(t, "top")
    BY <1>2, <2>2, OneLoop
  <2>3. CASE loops' = loops
    BY <1>2, <2>3
  <2>4. QED
    BY <2>1, <2>2, <2>3
       DEF ConnectSucceeds, ConnectFails, ReceiveEnds, Closing, AfterClosing, ConnectionLost
<1>4. ClientOK'
  <2>1. ClientOK /\ 0 \in 0..MaxLoops
    BY <1>2, TypeFacts
  <2>2. connected' \in {connected, TRUE, FALSE} /\ ws' \in {ws, t, 0}
          /\ open' \subseteq open \cup {t}
    BY DEF LoopTop, ConnectSucceeds, ConnectFails, ReceiveEnds, Closing, ConnectionLost
  <2>3. QED
    BY <1>1, <1>2, <2>1, <2>2 DEF ClientOK
<1>5. TypeOK'
  BY <1>1, <1>2, <1>3, <1>4, TypeFacts, TypeStep
<1>6. QED
  BY <1>1, <1>5, MessagesStay DEF IInv

LEMMA HelloStep ==
  ASSUME IInv, NEW t \in Loops, Hello(t)
  PROVE  IInv'
<1>1. /\ UNCHANGED <<queue, data, putting, settled, issued, server_url, running, thread,
                     connected, ws, open>>
      /\ Move(t, "receiving") \/ Move(t, "closing")
  BY DEF Hello, messages, packets, control
<1>2. senders \in [SenderIds -> Sender] /\ loops \in [Loops -> Loop] /\ TypeOK /\ Hands
  BY TypeFacts DEF IInv
<1>3. loops' \in [Loops -> Loop]
  BY <1>1, <1>2, OneLoop
<1>4. senders' \in [SenderIds -> Sender] /\ Hands' /\ Held \subseteq Held' \cup {Nothing}
  <2>1. CASE \E s \in SenderIds :
               /\ senders[s].at = "off"
               /\ senders' = [senders EXCEPT ![s] = [at |-> "top", holds |-> Nothing]]
    <3>1. PICK s \in SenderIds :
               /\ senders[s].at = "off"
               /\ senders' = [senders EXCEPT ![s] = [at |-> "top", holds |-> Nothing]]
      BY <2>1
    <3>2. senders[s].holds = Nothing
      BY <1>2, <3>1 DEF Hands
    <3>3. QED
      BY <1>2, <3>1, <3>2, OneSender
  <2>2. CASE UNCHANGED senders
    BY <1>2, <2>2 DEF Hands, Held
  <2>3. QED
    BY <2>1, <2>2 DEF Hello
<1>5. Known \subseteq Known'
  BY <1>1, <1>4 DEF Known, Waiting
<1>6. NothingVanishes'
  BY <1>1, <1>5, KeptKnown DEF IInv
<1>7. TypeOK'
  BY <1>1, <1>2, <1>3, <1>4, TypeStep
<1>8. QED
  BY <1>4, <1>6, <1>7 DEF IInv

LEMMA TakeStep ==
  ASSUME IInv, NEW s \in SenderIds, Take(s) \/ TakePacket(s)
  PROVE  IInv'
<1>1. /\ UNCHANGED <<putting, settled, issued, server_url, running, thread, connected,
                     loops, ws, open>>
      /\ senders[s].at # "sending"
  BY DEF Take, TakePacket, control, packets
<1>2. /\ senders \in [SenderIds -> Sender] /\ TypeOK /\ Hands
      /\ queue \in Seq(Message) /\ Len(queue) <= QueueSize /\ QueueSize \in Nat
      /\ data \in Seq(Message) /\ Len(data) <= DataSize /\ DataSize \in Nat
  BY TypeFacts, UpstreamAssumption DEF IInv, UpstreamAssumption
<1>3. senders[s].holds = Nothing
  BY <1>1, <1>2 DEF Hands
<1>4. ASSUME NEW q \in Seq(Message), q # <<>>
      PROVE  /\ Head(q) \in Message /\ Tail(q) \in Seq(Message) /\ Len(Tail(q)) <= Len(q)
             /\ Len(q) \in Nat /\ Len(Tail(q)) \in Nat
             /\ ToSet(q) = ToSet(Tail(q)) \cup {Head(q)}
  BY <1>4, TakenFirst
<1>5. /\ senders' \in [SenderIds -> Sender] /\ Hands'
      /\ queue' \in Seq(Message) /\ Len(queue') <= QueueSize
      /\ data' \in Seq(Message) /\ Len(data') <= DataSize
      /\ Held \cup (ToSet(queue) \cup ToSet(data))
           \subseteq ToSet(queue') \cup ToSet(data') \cup Held' \cup {Nothing}
  <2>1. CASE (Goes(s, "waiting") \/ Goes(s, "top")) /\ UNCHANGED <<queue, data>>
    <3>1. senders' \in [SenderIds -> Sender] /\ Hands' /\ Held \subseteq Held' \cup {Nothing}
      BY <1>2, <1>3, <2>1, OneSender DEF Goes
    <3>2. QED
      BY <1>2, <2>1, <3>1
  <2>2. CASE queue # <<>> /\ Hold(s, Head(queue)) /\ queue' = Tail(queue) /\ data' = data
    <3>1. /\ Head(queue) \in Message /\ Tail(queue) \in Seq(Message)
          /\ Len(Tail(queue)) <= QueueSize
          /\ ToSet(queue) = ToSet(Tail(queue)) \cup {Head(queue)}
      BY <1>2, <1>4, <2>2
    <3>2. /\ senders' \in [SenderIds -> Sender] /\ Hands' /\ Held \subseteq Held' \cup {Nothing}
          /\ Head(queue) \in Held' \cup {Nothing}
      BY <1>2, <1>3, <2>2, <3>1, OneSender DEF Hold
    <3>3. QED
      BY <1>2, <2>2, <3>1, <3>2
  <2>3. CASE data # <<>> /\ Hold(s, Head(data)) /\ data' = Tail(data) /\ queue' = queue
    <3>1. /\ Head(data) \in Message /\ Tail(data) \in Seq(Message)
          /\ Len(Tail(data)) <= DataSize
          /\ ToSet(data) = ToSet(Tail(data)) \cup {Head(data)}
      BY <1>2, <1>4, <2>3
    <3>2. /\ senders' \in [SenderIds -> Sender] /\ Hands' /\ Held \subseteq Held' \cup {Nothing}
          /\ Head(data) \in Held' \cup {Nothing}
      BY <1>2, <1>3, <2>3, <3>1, OneSender DEF Hold
    <3>3. QED
      BY <1>2, <2>3, <3>1, <3>2
  <2>4. QED
    BY <2>1, <2>2, <2>3 DEF Take, TakePacket, packets
<1>6. Known \subseteq Known'
  BY <1>1, <1>5 DEF Known, Waiting
<1>7. NothingVanishes'
  BY <1>1, <1>6, KeptKnown DEF IInv
<1>8. TypeOK'
  <2>1. MessagesOK'
    BY <1>1, <1>2, <1>5, TypeFacts DEF MessagesOK
  <2>2. QED
    BY <1>1, <1>2, <1>5, <2>1, TypeFacts, TypeStep
<1>9. QED
  BY <1>5, <1>7, <1>8 DEF IInv

LEMMA SenderStep ==
  ASSUME IInv, NEW s \in SenderIds, SendSucceeds(s) \/ SendFails(s) \/ SenderEnds(s)
  PROVE  IInv'
<1> DEFINE m == senders[s].holds
<1>1. /\ UNCHANGED <<data, putting, issued, server_url, running, thread, loops>>
      /\ Goes(s, "top") \/ Goes(s, "off")
  <2>1. CASE SendFails(s)
    BY <2>1 DEF SendFails, Requeue, PutControl, control, packets
  <2>2. CASE SendSucceeds(s) \/ SenderEnds(s)
    BY <2>2 DEF SendSucceeds, SenderEnds, control, packets, messages
  <2>3. QED
    BY <2>1, <2>2
<1>2. /\ senders \in [SenderIds -> Sender] /\ TypeOK /\ Hands /\ settled \subseteq Message
      /\ queue \in Seq(Message) /\ Len(queue) <= QueueSize
  BY TypeFacts DEF IInv
<1>3. senders' \in [SenderIds -> Sender] /\ Hands' /\ Held \subseteq Held' \cup {m}
  BY <1>1, <1>2, OneSender DEF Goes
<1>4. /\ queue' \in Seq(Message) /\ Len(queue') <= QueueSize
      /\ settled' \subseteq Message /\ settled \subseteq settled'
      /\ ToSet(queue) \subseteq ToSet(queue') \cup settled'
      /\ m = Nothing \/ m \in ToSet(queue') \cup settled'
  <2>1. CASE SendSucceeds(s)
    BY <1>2, <2>1 DEF SendSucceeds, Hands
  <2>2. CASE SendFails(s)
    <3>1. m \in Message
      BY <1>2, <2>2 DEF SendFails, Hands
    <3>2. CASE PutControl(m, FALSE)
      BY <1>2, <3>1, <3>2, PutEffect
    <3>3. CASE settled' = settled \cup {m} /\ queue' = queue
      BY <1>2, <3>1, <3>3
    <3>4. QED
      BY <2>2, <3>2, <3>3 DEF SendFails, Requeue
  <2>3. CASE SenderEnds(s)
    BY <1>2, <2>3 DEF SenderEnds, Hands, messages
  <2>4. QED
    BY <2>1, <2>2, <2>3
<1> HIDE DEF m
<1>5. Known \subseteq Known'
  BY <1>1, <1>3, <1>4 DEF Known, Waiting
<1>6. NothingVanishes'
  BY <1>1, <1>5, KeptKnown DEF IInv
<1>7. ClientOK'
  <2>1. ClientOK /\ 0 \in 0..MaxLoops
    BY <1>2, TypeFacts, UpstreamAssumption DEF UpstreamAssumption
  <2>2. connected' \in {connected, FALSE} /\ ws' \in {ws, 0} /\ open' \subseteq open
    BY DEF SendSucceeds, SendFails, SenderEnds, GiveUp, Disconnect
  <2>3. QED
    BY <1>1, <2>1, <2>2 DEF ClientOK
<1>8. TypeOK'
  <2>1. MessagesOK'
    BY <1>1, <1>2, <1>4, TypeFacts DEF MessagesOK
  <2>2. QED
    BY <1>1, <1>2, <1>3, <1>7, <2>1, TypeFacts, TypeStep
<1>9. QED
  BY <1>3, <1>6, <1>8 DEF IInv

-----------------------------------------------------------------------------
(* The theorems *)

LEMMA IInvInit ==
  ASSUME Init
  PROVE  IInv
<1>1. Off \in Sender /\ Off.at # "sending" /\ Off.holds = Nothing /\ Unborn \in Loop
  BY DEF Off, Sender, Unborn, Loop
<1>2. senders \in [SenderIds -> Sender] /\ loops \in [Loops -> Loop] /\ Hands
  BY <1>1 DEF Init, Hands
<1>3. TypeOK
  <2>1. ClientOK
    <3>1. 0 \in 0..MaxLoops
      BY UpstreamAssumption DEF UpstreamAssumption
    <3>2. QED
      BY <3>1 DEF Init, ClientOK
  <2>2. <<>> \in Seq(Message) /\ Len(<<>>) = 0
    OBVIOUS
  <2>3. MessagesOK
    BY <2>2, UpstreamAssumption DEF Init, MessagesOK, UpstreamAssumption
  <2>4. QED
    BY <1>2, <2>1, <2>3 DEF TypeOK, ClientOK, MessagesOK, Sender, Loop
<1>4. NothingVanishes
  BY DEF Init, NothingVanishes
<1>5. QED
  BY <1>2, <1>3, <1>4 DEF IInv

LEMMA IInvStep ==
  ASSUME IInv, [Next]_vars
  PROVE  IInv'
<1>1. CASE \E kind \in {"result", "status"} : Send(kind)
  BY <1>1, SendStep
<1>2. CASE PutPacket \/ DropOldest
  BY <1>2, PutPacketStep, DropOldestStep
<1>3. CASE Start \/ Stop \/ \E url \in Urls : UpdateServer(url)
  BY <1>3, CallerStep
<1>4. ASSUME NEW t \in Loops, LoopRuns(t) \/ ConnectionLost(t)
      PROVE  IInv'
  BY <1>4, LoopStep, HelloStep DEF LoopRuns
<1>5. ASSUME NEW s \in SenderIds, SenderRuns(s)
      PROVE  IInv'
  BY <1>5, TakeStep, SenderStep DEF SenderRuns
<1>6. CASE UNCHANGED vars
  <2>1. TypeOK'
    BY <1>6 DEF vars, packets, IInv, TypeOK
  <2>2. QED
    BY <1>6, <2>1, MessagesStay DEF vars, packets, IInv
<1>7. QED
  BY <1>1, <1>2, <1>3, <1>4, <1>5, <1>6 DEF Next

LEMMA IInvAlways == Spec => []IInv
<1>1. Init => IInv
  BY IInvInit
<1>2. IInv /\ [Next]_vars => IInv'
  BY IInvStep
<1>3. QED
  BY <1>1, <1>2, PTL DEF Spec

\* The variables have the shape TypeOK gives them; neither queue grows beyond
\* its size.
THEOREM TypeCorrect == Spec => []TypeOK
<1>1. IInv => TypeOK
  BY DEF IInv
<1>2. QED
  BY <1>1, IInvAlways, PTL

\* Nothing gets lost between the threads: whatever connection fails under it,
\* a message is queued, in the hands of a send thread, sent, pushed out of a
\* full queue, or a status that a later one has replaced.
THEOREM NothingVanishesAlways == Spec => []NothingVanishes
<1>1. IInv => NothingVanishes
  BY DEF IInv
<1>2. QED
  BY <1>1, IInvAlways, PTL
=============================================================================
