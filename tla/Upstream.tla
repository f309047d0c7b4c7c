------------------------------ MODULE Upstream ------------------------------
(***************************************************************************)
(* The WebSocket client that ties the Gateway to the backend               *)
(* (upstream_wss.py): the loop thread connects, says hello and receives;   *)
(* a send thread per connection empties the control queue; any other       *)
(* thread enqueues messages, changes the server, or stops and starts the   *)
(* client.  stop() waits for its threads only for a while, so a loop may   *)
(* outlive it; all loops share one current socket, _ws.                    *)
(*                                                                         *)
(* Device packets take the data queue, which the send thread serves when   *)
(* no control message waits.  Only the UDP thread puts packets into it.    *)
(*                                                                         *)
(* A socket is named by the loop that opened it.                           *)
(***************************************************************************)
EXTENDS Naturals, Sequences, SequencesExt

CONSTANTS
  Urls,
  QueueSize,      \* control_queue_size
  DataSize,       \* data_queue_size
  MaxLoops,       \* bound of the model: loop threads ever started
  MaxSenders,     \* bound of the model: send threads alive at one time
  MaxMessages     \* bound of the model: control messages and packets

ASSUME UpstreamAssumption ==
  /\ QueueSize \in Nat \ {0} /\ DataSize \in Nat \ {0}
  /\ MaxLoops \in Nat \ {0} /\ MaxSenders \in Nat \ {0}
  /\ MaxMessages \in Nat

VARIABLES
  server_url, running, connected,
  thread,       \* the loop in _thread, or 0
  loops,        \* loop -> where it is, and the url it connects to
  ws,           \* the socket in _ws, or 0
  open,         \* sockets that are open
  senders,      \* send thread -> the message it holds
  queue,        \* control_queue
  data,         \* data_queue
  putting,      \* the packet whose put() found the data queue full
  settled,      \* history: messages sent, pushed out of a full queue, replaced
                \* by a later status or, if packets, lost in a send that failed
  issued

vars == <<server_url, running, connected, thread, loops, ws, open, senders,
          queue, data, putting, settled, issued>>

packets == <<data, putting>>
messages == <<queue, packets, settled>>
control == <<server_url, running, thread, issued>>

Loops == 1..MaxLoops
SenderIds == 1..MaxSenders
Unborn == [at |-> "unborn", url |-> "none"]
Message == [n : 1..MaxMessages, kind : {"result", "status", "packet"}]
Nothing == [n |-> 0, kind |-> "none"]
Off == [at |-> "off", holds |-> Nothing]

-----------------------------------------------------------------------------
(* The control queue *)

\* The messages that are retained when a new status drops those still queued,
\* in their order.  (SelectSeq says the same, but no prover knows it.)
Retained(q) ==
  LET kept == {k \in DOMAIN q : q[k].kind # "status"}
      Place(k) == Cardinality({j \in kept : j <= k})
  IN [i \in 1..Cardinality(kept) |-> q[CHOOSE k \in kept : Place(k) = i]]

\* _put_control: if there is no room then, the oldest message goes.
RoomFor(coalesce) == IF coalesce THEN Retained(queue) ELSE queue

PutControl(m, coalesce) ==
  LET q == RoomFor(coalesce) IN
  /\ queue' = Append(IF Len(q) = QueueSize THEN Tail(q) ELSE q, m)
  /\ settled' = settled \cup (ToSet(queue) \ ToSet(queue'))
  /\ UNCHANGED packets

Send(kind) ==
  /\ issued < MaxMessages
  /\ issued' = issued + 1
  /\ PutControl([n |-> issued + 1, kind |-> kind], kind = "status")
  /\ UNCHANGED <<server_url, running, connected, thread, loops, ws, open,
                 senders>>

-----------------------------------------------------------------------------
(* The data queue, DropOldestQueue *)

PutPacket ==
  LET m == [n |-> issued + 1, kind |-> "packet"] IN
  /\ issued < MaxMessages /\ putting = Nothing
  /\ issued' = issued + 1
  /\ IF Len(data) = DataSize THEN putting' = m /\ UNCHANGED data
     ELSE data' = Append(data, m) /\ UNCHANGED putting
  /\ UNCHANGED <<server_url, running, connected, thread, loops, ws, open,
                 senders, queue, settled>>

\* put() drops the oldest and tries again; if the send thread has emptied the
\* queue meanwhile, it gives its own packet up instead.
DropOldest ==
  /\ putting # Nothing
  /\ IF data = <<>> THEN settled' = settled \cup {putting} /\ UNCHANGED data
     ELSE /\ settled' = settled \cup {Head(data)}
          /\ data' = Append(Tail(data), putting)
  /\ putting' = Nothing
  /\ UNCHANGED <<control, connected, loops, ws, open, senders, queue>>

-----------------------------------------------------------------------------
(* The callers *)

\* _disconnect_current
Disconnect ==
  /\ connected' = FALSE
  /\ ws' = 0
  /\ open' = open \ {ws}

Start ==
  /\ thread = 0
  /\ running' = TRUE
  /\ \E t \in Loops :
       /\ loops[t].at = "unborn" /\ \A u \in 1..(t - 1) : loops[u].at # "unborn"
       /\ thread' = t
       /\ loops' = [loops EXCEPT ![t].at = "top"]
  /\ UNCHANGED <<server_url, connected, ws, open, senders, messages, issued>>

\* The loop is given two seconds to end, then forgotten.
Stop ==
  /\ thread # 0
  /\ running' = FALSE
  /\ Disconnect
  /\ thread' = 0
  /\ UNCHANGED <<server_url, loops, senders, messages, issued>>

UpdateServer(url) ==
  /\ server_url' = url
  /\ Disconnect
  /\ UNCHANGED <<running, thread, loops, senders, messages, issued>>

-----------------------------------------------------------------------------
(* The loop thread, _run and _receive_loop *)

Is(t, place) == loops[t].at = place
Move(t, place) == loops' = [loops EXCEPT ![t].at = place]

LoopTop(t) ==
  /\ Is(t, "top")
  /\ loops' = [loops EXCEPT ![t] =
        IF running THEN [at |-> "connecting", url |-> server_url]
        ELSE [@ EXCEPT !.at = "ended"]]
  /\ UNCHANGED <<control, connected, ws, open, senders, messages>>

ConnectSucceeds(t) ==
  /\ Is(t, "connecting")
  /\ ws' = t
  /\ open' = open \cup {t}
  /\ connected' = TRUE
  /\ Move(t, "hello")
  /\ UNCHANGED <<control, senders, messages>>

ConnectFails(t) ==
  /\ Is(t, "connecting")
  /\ Move(t, "closing")
  /\ UNCHANGED <<control, connected, ws, open, senders, messages>>

\* The hello goes to the current socket, whoever opened it.
Hello(t) ==
  /\ Is(t, "hello")
  /\ \/ /\ ws \in open
        /\ \E s \in SenderIds :
             /\ senders[s].at = "off"
             /\ senders' = [senders EXCEPT ![s] = [at |-> "top", holds |-> Nothing]]
        /\ Move(t, "receiving")
     \/ /\ Move(t, "closing")
        /\ UNCHANGED senders
  /\ UNCHANGED <<control, connected, ws, open, messages>>

LeavesIgnoringStop(t) == t \notin open            \* fault: _running not tested
Leaves(t) == t \notin open \/ ~running

ReceiveEnds(t) ==
  /\ Is(t, "receiving") /\ Leaves(t)
  /\ Move(t, "closing")
  /\ UNCHANGED <<control, connected, ws, open, senders, messages>>

\* The finally block closes the current socket; its own goes with the thread's
\* last reference to it.  The pause before the next attempt changes nothing.
AfterClosingEnded == "ended"                      \* fault: no further attempt
AfterClosing == "top"

Closing(t) ==
  /\ Is(t, "closing")
  /\ connected' = FALSE
  /\ ws' = 0
  /\ open' = open \ {ws, t}
  /\ Move(t, AfterClosing)
  /\ UNCHANGED <<control, senders, messages>>

-----------------------------------------------------------------------------
(* The send thread, _send_loop *)

Alive == running /\ connected

Hold(s, m) == senders' = [senders EXCEPT ![s] = [at |-> "sending", holds |-> m]]
Goes(s, place) == senders' = [senders EXCEPT ![s] = [at |-> place, holds |-> Nothing]]

\* A control message first.
Take(s) ==
  /\ senders[s].at = "top" /\ Alive
  /\ IF queue = <<>> THEN Goes(s, "waiting") /\ UNCHANGED queue
     ELSE Hold(s, Head(queue)) /\ queue' = Tail(queue)
  /\ UNCHANGED <<control, connected, loops, ws, open, settled, packets>>

\* It waits for a packet without looking at the control queue or its flags.
TakePacket(s) ==
  /\ senders[s].at = "waiting"
  /\ IF data = <<>> THEN Goes(s, "top") /\ UNCHANGED data
     ELSE Hold(s, Head(data)) /\ data' = Tail(data)
  /\ UNCHANGED <<control, connected, loops, ws, open, queue, putting,
                 settled>>

SendSucceeds(s) ==
  /\ senders[s].at = "sending" /\ ws \in open
  /\ settled' = settled \cup {senders[s].holds}
  /\ Goes(s, "top")
  /\ UNCHANGED <<control, connected, loops, ws, open, queue, packets>>

\* A control message goes to the end of its queue, a packet is lost; the
\* connection is given up either way.
RequeueNot(m) == UNCHANGED messages                \* fault: message forgotten
Requeue(m) ==
  IF m.kind # "packet" THEN PutControl(m, FALSE)
  ELSE settled' = settled \cup {m} /\ UNCHANGED <<queue, packets>>

GiveUpNot == UNCHANGED <<connected, ws, open>>     \* fault: connection kept
GiveUp == Disconnect

SendFails(s) ==
  /\ senders[s].at = "sending"
  /\ Requeue(senders[s].holds)
  /\ GiveUp
  /\ Goes(s, "off")
  /\ UNCHANGED <<control, loops>>

SenderEnds(s) ==
  /\ senders[s].at = "top" /\ ~Alive
  /\ Goes(s, "off")
  /\ UNCHANGED <<control, connected, loops, ws, open, messages>>

\* External: the backend or the network closes a connection.
ConnectionLost(t) ==
  /\ t \in open
  /\ open' = open \ {t}
  /\ UNCHANGED <<control, connected, loops, ws, senders, messages>>

-----------------------------------------------------------------------------
Init ==
  /\ server_url \in Urls
  /\ running = FALSE /\ connected = FALSE
  /\ thread = 0
  /\ loops = [t \in Loops |-> Unborn]
  /\ ws = 0 /\ open = {}
  /\ senders = [s \in SenderIds |-> Off]
  /\ queue = <<>> /\ data = <<>> /\ putting = Nothing
  /\ settled = {} /\ issued = 0

\* A loop goes on by itself; how a connection attempt ends is not its choice.
LoopRuns(t) ==
  \/ LoopTop(t) \/ ConnectSucceeds(t) \/ ConnectFails(t) \/ Hello(t)
  \/ ReceiveEnds(t) \/ Closing(t)

SenderRuns(s) ==
  Take(s) \/ TakePacket(s) \/ SendSucceeds(s) \/ SendFails(s) \/ SenderEnds(s)

Next ==
  \/ \E kind \in {"result", "status"} : Send(kind)
  \/ PutPacket \/ DropOldest
  \/ Start
  \/ Stop
  \/ \E url \in Urls : UpdateServer(url)
  \/ \E t \in Loops : LoopRuns(t) \/ ConnectionLost(t)
  \/ \E s \in SenderIds : SenderRuns(s)

Spec == Init /\ [][Next]_vars

\* Threads keep running, connection attempts time out after ten seconds, and
\* now and then the backend is reached, a connection carries its hello, lasts
\* until the next message is taken, and carries that.
Connects == \E t \in Loops : ConnectSucceeds(t)
Greets == \E t \in Loops : Hello(t) /\ senders' # senders
TakesConnected == \E s \in SenderIds : Take(s) /\ ws \in open
Sends == \E s \in SenderIds : SendSucceeds(s)

FairSpec ==
  /\ Spec
  /\ \A t \in Loops : WF_vars(LoopRuns(t))
  /\ \A s \in SenderIds : WF_vars(SenderRuns(s))
  /\ SF_vars(Connects) /\ SF_vars(Greets)
  /\ SF_vars(TakesConnected) /\ SF_vars(Sends)

-----------------------------------------------------------------------------
(* Properties *)

TypeOK ==
  /\ server_url \in Urls /\ {running, connected} \subseteq BOOLEAN
  /\ thread \in 0..MaxLoops /\ ws \in 0..MaxLoops /\ open \subseteq Loops
  /\ loops \in [Loops -> [at : {"unborn", "top", "connecting", "hello",
                               "receiving", "closing", "ended"},
                          url : Urls \cup {"none"}]]
  /\ senders \in [SenderIds -> [at : {"off", "top", "waiting", "sending"},
                                holds : Message \cup {Nothing}]]
  /\ queue \in Seq(Message) /\ Len(queue) <= QueueSize
  /\ data \in Seq(Message) /\ Len(data) <= DataSize
  /\ putting \in Message \cup {Nothing}
  /\ settled \subseteq Message
  /\ issued \in 0..MaxMessages

Held == {senders[s].holds : s \in SenderIds} \ {Nothing}

Waiting == ToSet(queue) \cup ToSet(data) \cup {putting} \cup Held

\* Nothing gets lost between the threads: whatever connection fails under it,
\* and however often, a control message is queued, in the hands of a send
\* thread, sent, pushed out of a full queue, or a status that a later one has
\* replaced; and a packet is lost only to a full queue or a send that failed.
NothingVanishes == \A n \in 1..issued : \E m \in Waiting \cup settled : m.n = n

\* A client that stays started comes online again and again.
ComesOnline == <>[]running => []<>connected

\* What was queued, or put back after a failure, is sent in the end by a client
\* that stays started: no send thread goes away and leaves it lying there.
QueuesDrain == <>[]running => <>[](queue = <<>> /\ data = <<>> /\ Held = {})

\* A client that was stopped goes offline for good, although a connection
\* attempt under way may still succeed after stop() has returned.
GoesOffline == <>[](~running) => <>[](open = {})

-----------------------------------------------------------------------------
(* Statements of the documents that the code does not keep; README.md,     *)
(* section 5, says how each fails.                                         *)

\* remote_commands.py on set_config: "a new ID or URL reconnects the socket
\* this reply travels on": the connections of a client that stays started end
\* up at the configured server.
SettingsTakeEffect ==
  (\E url \in Urls : <>[](server_url = url)) =>
    <>[](\A t \in open : running /\ Is(t, "receiving") => loops[t].url = server_url)
=============================================================================
