-------------------------- MODULE CommandDispatch --------------------------
(***************************************************************************)
(* The UDP command dispatcher (udp_control.py) and the callbacks main.py   *)
(* wires around it.  Three threads meet here:                              *)
(*   - the WSS receive thread (and the web thread) hands over commands;    *)
(*   - the UDP thread records sessions, acknowledgements and results;      *)
(*   - the main loop retries and gives up (service), then, with the lock   *)
(*     released, reports what it gave up.                                  *)
(* Datagrams may be lost, duplicated, delayed and reordered: an answer to  *)
(* a packet ever sent may arrive at any later time, any number of times.   *)
(*                                                                         *)
(* Clock values are kept as ages (time since) and lifetimes (time left),   *)
(* which stop counting once no guard can tell larger values apart; the     *)
(* unit is whatever the constants are given in.                            *)
(***************************************************************************)
EXTENDS Integers, FiniteSets

CONSTANTS
  Devices, Addrs,
  RequestIds,          \* the non-empty request ids the callers use
  NoRequest,           \* a command or frame without a request id
  NoAddr, NoFrame, NoExpiry,
  Lifetimes,           \* time left of a command when it is handed over
  SessionTtl,          \* session_ttl_sec
  ResendInterval,      \* RESEND_INTERVAL_SEC
  MaxUnackedAttempts,  \* MAX_UNACKED_ATTEMPTS
  SeqMax,              \* 0xFFFF
  MaxCommands          \* bound of the model: commands handed over

ASSUME TimingAssumption ==
  /\ SessionTtl \in Nat \ {0}
  /\ ResendInterval \in Nat \ {0}
  /\ MaxUnackedAttempts \in Nat \ {0}
  /\ SeqMax \in Nat \ {0}
  /\ MaxCommands \in Nat

ASSUME ValueAssumption ==
  /\ NoAddr \notin Addrs
  /\ NoRequest \notin RequestIds
  /\ NoExpiry \notin Int
  /\ Lifetimes \subseteq Int \cup {NoExpiry}
  /\ NoFrame \notin [kind : {"ack", "result"}, uid : Devices,
                     rid : RequestIds \cup {NoRequest}, seq : 1..SeqMax]

VARIABLES
  sessions,      \* device -> address of its session, or NoAddr
  session_age,   \* device -> time since session_seen_at
  pending,       \* the entries of the pending dict; Key(e) is e's key in it
  seq,
  timed_out,     \* entries service() collected and has still to report
  sent,          \* packets that left the Gateway
  frame,         \* a frame whose session is recorded, not yet dispatched
  issued,        \* commands handed over so far: the n-th is command n
  events         \* history: what became of each command

vars == <<sessions, session_age, pending, seq, timed_out, sent, frame,
          issued, events>>

Commands == 1..MaxCommands
Rids == RequestIds \cup {NoRequest}
Happenings == {"refused", "acked", "answered", "superseded", "failed"}

Packets == [uid : Devices, rid : Rids, seq : 1..SeqMax]
Frames == [kind : {"ack", "result"}, uid : Devices, rid : Rids,
           seq : 1..SeqMax]
Entries == [uid : Devices, addr : Addrs, rid : Rids, seq : 1..SeqMax,
            life : Int \cup {NoExpiry}, attempts : Nat, acked : BOOLEAN,
            idle : 0..ResendInterval, cmd : Commands]

-----------------------------------------------------------------------------
(* Entries and sessions.  A definition marked "fault" is a deliberately    *)
(* broken form of the one that follows it; no specification uses it.       *)

\* A command without a request id is filed under its sequence number.
Key(e) == <<e.uid, IF e.rid = NoRequest THEN e.seq ELSE e.rid>>

ExpiredLife(life) == life # NoExpiry /\ life < 0
Expired(e) == ExpiredLife(e.life)

NextSeqNoWrap == seq + 1                                \* fault: no wrap
NextSeq == IF seq = SeqMax THEN 1 ELSE seq + 1

Stale == {u \in Devices : sessions[u] # NoAddr /\ session_age[u] > SessionTtl}

\* Sessions left once those of U are dropped.
Without(U) == [u \in Devices |-> IF u \in U THEN NoAddr ELSE sessions[u]]

\* Sessions a failed transmission of e takes down: only one at e's address.
LostWithAny(e) == {e.uid}                         \* fault: address ignored
LostWith(e) == {u \in Devices : u = e.uid /\ sessions[u] = e.addr}

SetSessions(s) ==
  /\ sessions' = s
  /\ session_age' = [u \in Devices |-> IF s[u] = NoAddr THEN 0
                                       ELSE session_age[u]]

Packet(e) == [uid |-> e.uid, rid |-> e.rid, seq |-> e.seq]

Log(C, what) == C \X {what}
CmdsOf(E) == {e.cmd : e \in E}

-----------------------------------------------------------------------------
(* Callers: backend commands, and the claim command of operations.serve *)

NewEntry(u, a, r, life) ==
  [uid |-> u, addr |-> a, rid |-> r, seq |-> NextSeq, life |-> life,
   attempts |-> 1, acked |-> FALSE, idle |-> 0, cmd |-> issued + 1]

\* _queue_command_locked: an entry under the same key is replaced, and the
\* first transmission is attempted at once; ok tells whether it succeeded.
Queue(e, pruned, ok) ==
  LET old == {f \in pending : Key(f) = Key(e)} IN
  /\ seq' = NextSeq
  /\ pending' = (pending \ old) \cup {e}
  /\ events' = events \cup Log(CmdsOf(old), "superseded")
  /\ sent' = IF ok THEN sent \cup {Packet(e)} ELSE sent
  /\ SetSessions(Without(pruned \cup IF ok THEN {} ELSE LostWith(e)))

Refuse ==
  /\ events' = events \cup Log({issued + 1}, "refused")
  /\ UNCHANGED <<pending, seq, sent>>

OnCommand(u, r, life) ==
  /\ issued < MaxCommands
  /\ issued' = issued + 1
  /\ \/ /\ ExpiredLife(life)
        /\ Refuse
        /\ UNCHANGED <<sessions, session_age>>
     \/ /\ ~ExpiredLife(life)
        /\ sessions[u] = NoAddr \/ u \in Stale
        /\ Refuse
        /\ SetSessions(Without(Stale))
     \/ /\ ~ExpiredLife(life)
        /\ sessions[u] # NoAddr /\ u \notin Stale
        /\ \E ok \in BOOLEAN :
              Queue(NewEntry(u, sessions[u], r, life), Stale, ok)
  /\ UNCHANGED <<timed_out, frame>>

\* send_command_to needs no session: the claim command goes to the address
\* of the device's last FindMe request, and always expires.
SendCommandTo(u, a, r, life) ==
  /\ issued < MaxCommands
  /\ life # NoExpiry /\ life >= 0
  /\ issued' = issued + 1
  /\ \E ok \in BOOLEAN : Queue(NewEntry(u, a, r, life), {}, ok)
  /\ UNCHANGED <<timed_out, frame>>

-----------------------------------------------------------------------------
(* The UDP thread *)

\* A frame of any kind first records the session of its sender; a heartbeat,
\* hello or status frame changes nothing else here.
HearFrom(u, a) ==
  /\ sessions' = [sessions EXCEPT ![u] = a]
  /\ session_age' = [session_age EXCEPT ![u] = 0]
  /\ UNCHANGED <<pending, seq, timed_out, sent, issued, events>>

ReceiveStatus(u, a) ==
  /\ frame = NoFrame
  /\ HearFrom(u, a)
  /\ UNCHANGED frame

\* The device names the command by request id and sequence number, or, with
\* named FALSE, by sequence number alone.
ReceiveAck(p, a, named) ==
  /\ frame = NoFrame
  /\ HearFrom(p.uid, a)
  /\ frame' = [kind |-> "ack", uid |-> p.uid, seq |-> p.seq,
               rid |-> IF named THEN p.rid ELSE NoRequest]

ReceiveResult(p, a) ==
  /\ frame = NoFrame
  /\ HearFrom(p.uid, a)
  /\ frame' = [kind |-> "result", uid |-> p.uid, rid |-> p.rid,
               seq |-> p.seq]

MatchesUnnamed(e, f) ==       \* fault: an empty request id is compared too
  e.uid = f.uid /\ (e.rid = f.rid \/ e.seq = f.seq)

\* The entries the loop of handle_ack stops at.
Matches(e, f) ==
  /\ e.uid = f.uid
  /\ \/ f.rid # NoRequest /\ e.rid = f.rid
     \/ e.seq = f.seq

\* The loop stops at the first match; two entries match one frame only once
\* sequence numbers have wrapped, and then either may come first.
HandleAck ==
  /\ frame # NoFrame /\ frame.kind = "ack"
  /\ \/ /\ \A e \in pending : ~Matches(e, frame)
        /\ UNCHANGED <<pending, events>>
     \/ \E e \in pending :
          /\ Matches(e, frame)
          /\ pending' = (pending \ {e}) \cup {[e EXCEPT !.acked = TRUE]}
          /\ events' = events \cup Log({e.cmd}, "acked")
  /\ frame' = NoFrame
  /\ UNCHANGED <<sessions, session_age, seq, timed_out, sent, issued>>

Answers(e, f) == f.rid # NoRequest /\ Key(e) = <<f.uid, f.rid>>

HandleResult ==
  /\ frame # NoFrame /\ frame.kind = "result"
  /\ LET answered == {e \in pending : Answers(e, frame)} IN
     /\ pending' = pending \ answered
     /\ events' = events \cup Log(CmdsOf(answered), "answered")
  /\ frame' = NoFrame
  /\ UNCHANGED <<sessions, session_age, seq, timed_out, sent, issued>>

-----------------------------------------------------------------------------
(* The main loop *)

OutOfAttemptsLate(e) ==                            \* fault: off by one
  e.life = NoExpiry /\ e.attempts > MaxUnackedAttempts
OutOfAttempts(e) == e.life = NoExpiry /\ e.attempts >= MaxUnackedAttempts

GivenUpAckedToo ==                    \* fault: staleness tested before acked
  {e \in pending : \/ e.uid \in Stale
                   \/ ~e.acked /\ (Expired(e) \/ OutOfAttempts(e))}
GivenUp ==
  {e \in pending : ~e.acked /\ (e.uid \in Stale \/ Expired(e)
                                \/ OutOfAttempts(e))}

Finished == {e \in pending : e.acked /\ Expired(e)}
Due == {e \in pending \ GivenUp : ~e.acked /\ e.idle >= ResendInterval}

ResentUncounted(e) == [e EXCEPT !.idle = 0]        \* fault: retry not counted
Resent(e) == [e EXCEPT !.attempts = @ + 1, !.idle = 0]

RetriedIfSent(failing) ==            \* fault: a failed send ends the entry
  {Resent(e) : e \in Due \ failing}
Retried(failing) == {Resent(e) : e \in Due}

KeptGivenUp == pending \ (Finished \cup Due)         \* fault: missing pop
Kept == pending \ (GivenUp \cup Finished \cup Due)

\* The locked part of service(); "failing" are the retries whose datagram
\* could not be sent.
Service ==
  /\ timed_out = {}
  /\ \E failing \in SUBSET Due :
       /\ pending' = Kept \cup Retried(failing)
       /\ sent' = sent \cup {Packet(e) : e \in Due \ failing}
       /\ SetSessions(Without(Stale \cup UNION {LostWith(e) : e \in failing}))
  /\ timed_out' = GivenUp
  /\ UNCHANGED <<seq, frame, issued, events>>

\* The callback of service(), after the lock is released; one entry at a
\* time (in the code in the order of the dict, here in any order).
OnDeliveryTimeout(e) ==
  /\ e \in timed_out
  /\ timed_out' = timed_out \ {e}
  /\ events' = events \cup Log({e.cmd}, "failed")
  /\ UNCHANGED <<sessions, session_age, pending, seq, sent, frame, issued>>

\* snapshot(), from the status push and the web thread.
Snapshot ==
  /\ Stale # {}
  /\ SetSessions(Without(Stale))
  /\ UNCHANGED <<pending, seq, timed_out, sent, frame, issued, events>>

Older(age, limit) == IF age < limit THEN age + 1 ELSE age

Aged(e) == [e EXCEPT !.idle = Older(@, ResendInterval),
                     !.life = IF @ = NoExpiry \/ @ < 0 THEN @ ELSE @ - 1]

Tick ==
  /\ session_age' = [u \in Devices |->
        IF sessions[u] = NoAddr THEN session_age[u]
        ELSE Older(session_age[u], SessionTtl + 1)]
  /\ pending' = {Aged(e) : e \in pending}
  /\ UNCHANGED <<sessions, seq, timed_out, sent, frame, issued, events>>

-----------------------------------------------------------------------------
\* seq is 0 at the start and SeqMax when, much later, it is about to wrap and
\* all earlier commands have been settled: both are where a model of a few
\* commands has to begin.
Init ==
  /\ sessions = [u \in Devices |-> NoAddr]
  /\ session_age = [u \in Devices |-> 0]
  /\ pending = {}
  /\ seq \in {0, SeqMax}
  /\ timed_out = {}
  /\ sent = {}
  /\ frame = NoFrame
  /\ issued = 0
  /\ events = {}

Next ==
  \/ \E u \in Devices, r \in Rids, life \in Lifetimes : OnCommand(u, r, life)
  \/ \E u \in Devices, a \in Addrs, r \in RequestIds, life \in Lifetimes :
        SendCommandTo(u, a, r, life)
  \/ \E u \in Devices, a \in Addrs : ReceiveStatus(u, a)
  \/ \E p \in sent, a \in Addrs, named \in BOOLEAN : ReceiveAck(p, a, named)
  \/ \E p \in sent, a \in Addrs : ReceiveResult(p, a)
  \/ HandleAck
  \/ HandleResult
  \/ Service
  \/ \E e \in timed_out : OnDeliveryTimeout(e)
  \/ Snapshot
  \/ Tick

Spec == Init /\ [][Next]_vars

\* The main loop keeps calling service() and its callbacks, the UDP thread
\* finishes the frame it has begun, and time passes.
Fairness ==
  /\ WF_vars(Service)
  /\ WF_vars(\E e \in timed_out : OnDeliveryTimeout(e))
  /\ WF_vars(HandleAck \/ HandleResult)
  /\ WF_vars(Tick)

FairSpec == Spec /\ Fairness

-----------------------------------------------------------------------------
(* Properties *)

Logged(what) == {c \in Commands : <<c, what>> \in events}
Waiting == CmdsOf(pending)
GivenUpCmds == CmdsOf(timed_out)

\* The values of every variable (one type invariant for the module).
TypeOK ==
  /\ sessions \in [Devices -> Addrs \cup {NoAddr}]
  /\ session_age \in [Devices -> 0..(SessionTtl + 1)]
  /\ pending \subseteq Entries
  /\ seq \in 0..SeqMax
  /\ timed_out \subseteq Entries
  /\ sent \subseteq Packets
  /\ frame \in Frames \cup {NoFrame}
  /\ issued \in 0..MaxCommands
  /\ events \subseteq Commands \X Happenings

\* The three places an unfinished or failed command can be recorded in never
\* hold it twice: a command that service() has given up on, or that was
\* answered or refused, is out of the retry queue for good, whatever the UDP
\* thread does between the locked part of service() and its callbacks.
OneOutcome ==
  /\ \A e, f \in pending : e.cmd = f.cmd => e = f
  /\ \A e, f \in timed_out : e.cmd = f.cmd => e = f
  /\ Waiting \cap GivenUpCmds = {}
  /\ \A what \in {"refused", "answered", "superseded", "failed"} :
        Logged(what) \cap (Waiting \cup GivenUpCmds) = {}
  /\ \A x, y \in {"refused", "answered", "superseded", "failed"} :
        x # y => Logged(x) \cap Logged(y) = {}

\* A device's acknowledgement settles delivery: the backend is never told
\* that an acknowledged command could not be delivered, however stale the
\* session or late the service pass.
AckedNeverFailed == Logged("acked") \cap (GivenUpCmds \cup Logged("failed")) = {}

\* No command is lost without a word: each one handed over is still being
\* retried, about to be reported, reported or refused, answered, superseded
\* by a command with its request id, or known to have reached the device.
NoSilentLoss ==
  \A c \in 1..issued :
    c \in Waiting \cup GivenUpCmds
            \cup {d \in Commands : \E what \in Happenings : <<d, what>> \in events}

\* A command without an expiry is transmitted at most MAX_UNACKED_ATTEMPTS
\* times in all, the boundary included.
BoundedAttempts ==
  \A e \in pending : e.life = NoExpiry => e.attempts <= MaxUnackedAttempts

\* Until sequence numbers wrap, the acknowledgement of a packet marks the
\* entry that packet was sent for, and never a command of another device or
\* of another request.
AckReachesItsCommand ==
  [][frame # NoFrame /\ frame.kind = "ack" /\ frame' = NoFrame =>
       /\ \A e \in pending :
            e.uid = frame.uid /\ e.seq = frame.seq =>
              \E f \in pending' : f.cmd = e.cmd /\ f.acked
       /\ \A f \in pending' :
            f.acked /\ f \notin pending =>
              f.uid = frame.uid /\ frame.rid \in {NoRequest, f.rid}]_vars

\* A device that has moved keeps its session: when a retry to the address a
\* command was queued for fails, only a session at that very address, or a
\* stale one, is dropped.
MovedDeviceKeepsSession ==
  [][\A u \in Devices :
       sessions[u] # NoAddr /\ sessions'[u] = NoAddr =>
         \/ session_age[u] > SessionTtl
         \/ \E e \in pending' : e.uid = u /\ e.addr = sessions[u] /\ ~e.acked
                                /\ e.idle = 0]_vars

\* Every accepted command is decided: acknowledged, answered, superseded, or
\* reported to the backend as undelivered, although its device may be gone,
\* its session pruned by somebody else's snapshot, or every datagram lost.
EveryCommandDecided ==
  \A c \in Commands :
    c \in Waiting ~> c \in UNION {Logged(what) : what \in Happenings}

-----------------------------------------------------------------------------
(* The contract, and the dispatcher as an implementation of it *)

StatusOf(c) ==
  IF c > issued THEN "unsent"
  ELSE IF \E e \in pending : e.cmd = c /\ e.acked THEN "acked"
  ELSE IF c \in Waiting THEN "in_flight"
  ELSE IF c \in GivenUpCmds THEN "failing"
  ELSE IF c \in Logged("failed") THEN "failed"
  ELSE IF c \in Logged("refused") THEN "refused"
  ELSE IF c \in Logged("answered") THEN "answered"
  ELSE IF c \in Logged("superseded") THEN "superseded"
  ELSE "dropped"

CC == INSTANCE CommandContract WITH status <- [c \in Commands |-> StatusOf(c)]

\* Every step of the three threads is a step of the contract, or changes
\* nothing the backend can tell.
Contract == CC!Spec
=============================================================================
