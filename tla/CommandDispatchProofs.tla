----------------------- MODULE CommandDispatchProofs -----------------------
(***************************************************************************)
(* Theorems about the command dispatcher, for any number of devices,       *)
(* addresses, commands and any timing constants.                           *)
(***************************************************************************)
EXTENDS CommandDispatch, TLAPS

-----------------------------------------------------------------------------
(* Type correctness *)

\* The next sequence number is one the 16-bit field can carry, zero excluded.
LEMMA NextSeqRange ==
  ASSUME seq \in 0..SeqMax
  PROVE  NextSeq \in 1..SeqMax
BY TimingAssumption DEF NextSeq, TimingAssumption

\* An entry as _queue_command_locked makes it is well formed.
LEMMA NewEntryType ==
  ASSUME seq \in 0..SeqMax, issued \in 0..MaxCommands, issued < MaxCommands,
         NEW u \in Devices, NEW a \in Addrs, NEW r \in Rids,
         NEW life \in Lifetimes
  PROVE  NewEntry(u, a, r, life) \in Entries
<1>1. NextSeq \in 1..SeqMax
  BY NextSeqRange
<1>2. life \in Int \cup {NoExpiry}
  BY ValueAssumption DEF ValueAssumption
<1>3. issued + 1 \in Commands /\ 0 \in 0..ResendInterval /\ 1 \in Nat
  BY TimingAssumption DEF TimingAssumption, Commands
<1>4. QED
  BY <1>1, <1>2, <1>3 DEF NewEntry, Entries

\* Dropping sessions leaves a well-typed session table.
LEMMA SetSessionsType ==
  ASSUME sessions \in [Devices -> Addrs \cup {NoAddr}],
         session_age \in [Devices -> 0..(SessionTtl + 1)],
         NEW U, SetSessions(Without(U))
  PROVE  /\ sessions' \in [Devices -> Addrs \cup {NoAddr}]
         /\ session_age' \in [Devices -> 0..(SessionTtl + 1)]
<1>1. 0 \in 0..(SessionTtl + 1)
  BY TimingAssumption DEF TimingAssumption
<1>2. QED
  BY <1>1 DEF SetSessions, Without

\* Filing an entry keeps every variable it touches well typed.
LEMMA QueueType ==
  ASSUME TypeOK, NEW e \in Entries, NEW pruned, NEW ok \in BOOLEAN,
         Queue(e, pruned, ok)
  PROVE  /\ sessions' \in [Devices -> Addrs \cup {NoAddr}]
         /\ session_age' \in [Devices -> 0..(SessionTtl + 1)]
         /\ pending' \subseteq Entries
         /\ seq' \in 0..SeqMax
         /\ sent' \subseteq Packets
         /\ events' \subseteq Commands \X Happenings
<1> DEFINE old == {f \in pending : Key(f) = Key(e)}
           drop == pruned \cup IF ok THEN {} ELSE LostWith(e)
<1>1. /\ sessions' \in [Devices -> Addrs \cup {NoAddr}]
      /\ session_age' \in [Devices -> 0..(SessionTtl + 1)]
  <2>1. SetSessions(Without(drop))
    BY DEF Queue
  <2>2. /\ sessions \in [Devices -> Addrs \cup {NoAddr}]
        /\ session_age \in [Devices -> 0..(SessionTtl + 1)]
    BY DEF TypeOK
  <2> HIDE DEF drop
  <2>3. QED
    BY <2>1, <2>2, SetSessionsType
<1>2. pending' = (pending \ old) \cup {e} /\ pending' \subseteq Entries
  BY DEF Queue, TypeOK
<1>3. seq' \in 0..SeqMax
  BY NextSeqRange, TimingAssumption DEF Queue, TypeOK, TimingAssumption
<1>4. sent' \subseteq Packets
  <2>1. Packet(e) \in Packets
    BY DEF Packet, Packets, Entries
  <2>2. QED
    BY <2>1 DEF Queue, TypeOK
<1>5. events' \subseteq Commands \X Happenings
  <2>1. CmdsOf(old) \subseteq Commands
    BY DEF CmdsOf, TypeOK, Entries
  <2>2. events' = events \cup Log(CmdsOf(old), "superseded")
    BY DEF Queue
  <2>3. QED
    BY <2>1, <2>2 DEF Log, Happenings, TypeOK
<1>6. QED
  BY <1>1, <1>2, <1>3, <1>4, <1>5

\* A log entry about the next command is well formed.
LEMMA RefuseType ==
  ASSUME TypeOK, issued < MaxCommands, Refuse
  PROVE  /\ pending' \subseteq Entries /\ seq' \in 0..SeqMax
         /\ sent' \subseteq Packets
         /\ events' \subseteq Commands \X Happenings
<1>1. issued + 1 \in Commands
  BY TimingAssumption DEF TypeOK, Commands, TimingAssumption
<1>2. QED
  BY <1>1 DEF Refuse, Log, Happenings, TypeOK

\* What the clock does to an entry.
LEMMA AgedType ==
  ASSUME NEW e \in Entries
  PROVE  Aged(e) \in Entries
<1>1. Older(e.idle, ResendInterval) \in 0..ResendInterval
  BY TimingAssumption DEF Older, Entries, TimingAssumption
<1>2. (IF e.life = NoExpiry \/ e.life < 0 THEN e.life ELSE e.life - 1)
        \in Int \cup {NoExpiry}
  BY DEF Entries
<1>3. QED
  BY <1>1, <1>2 DEF Aged, Entries

\* A retried entry is an entry.
LEMMA ResentType ==
  ASSUME NEW e \in Entries
  PROVE  Resent(e) \in Entries
<1>1. 0 \in 0..ResendInterval
  BY TimingAssumption DEF TimingAssumption
<1>2. e.attempts + 1 \in Nat
  BY DEF Entries
<1>3. QED
  BY <1>1, <1>2 DEF Resent, Entries

\* Every step of every thread keeps the types.
LEMMA TypeStep ==
  ASSUME TypeOK, [Next]_vars
  PROVE  TypeOK'
<1> USE DEF TypeOK
<1>1. ASSUME NEW u \in Devices, NEW r \in Rids, NEW life \in Lifetimes,
             OnCommand(u, r, life)
      PROVE  TypeOK'
  <2>1. issued' \in 0..MaxCommands /\ issued < MaxCommands
    BY <1>1, TimingAssumption DEF OnCommand, TimingAssumption
  <2>2. timed_out' = timed_out /\ frame' = frame
    BY <1>1 DEF OnCommand
  <2>3. CASE ExpiredLife(life) /\ Refuse /\ UNCHANGED <<sessions, session_age>>
    BY <2>1, <2>2, <2>3, RefuseType
  <2>4. CASE Refuse /\ SetSessions(Without(Stale))
    BY <2>1, <2>2, <2>4, RefuseType, SetSessionsType
  <2>5. ASSUME sessions[u] # NoAddr, NEW ok \in BOOLEAN,
               Queue(NewEntry(u, sessions[u], r, life), Stale, ok)
        PROVE  TypeOK'
    <3>1. sessions[u] \in Addrs
      BY <2>5
    <3>2. NewEntry(u, sessions[u], r, life) \in Entries
      BY <3>1, <2>1, NewEntryType
    <3>3. QED
      BY <3>2, <2>1, <2>2, <2>5, QueueType
  <2>6. QED
    BY <1>1, <2>3, <2>4, <2>5 DEF OnCommand
<1>2. ASSUME NEW u \in Devices, NEW a \in Addrs, NEW r \in RequestIds,
             NEW life \in Lifetimes, SendCommandTo(u, a, r, life)
      PROVE  TypeOK'
  <2>1. issued' \in 0..MaxCommands /\ issued < MaxCommands
    BY <1>2, TimingAssumption DEF SendCommandTo, TimingAssumption
  <2>2. NewEntry(u, a, r, life) \in Entries
    <3>1. r \in Rids
      BY DEF Rids
    <3>2. QED
      BY <2>1, <3>1, NewEntryType
  <2>3. PICK ok \in BOOLEAN : Queue(NewEntry(u, a, r, life), {}, ok)
    BY <1>2 DEF SendCommandTo
  <2>4. timed_out' = timed_out /\ frame' = frame
    BY <1>2 DEF SendCommandTo
  <2>5. QED
    BY <2>1, <2>2, <2>3, <2>4, QueueType
<1>3. ASSUME NEW u \in Devices, NEW a \in Addrs, HearFrom(u, a)
      PROVE  /\ sessions' \in [Devices -> Addrs \cup {NoAddr}]
             /\ session_age' \in [Devices -> 0..(SessionTtl + 1)]
  BY <1>3, TimingAssumption DEF HearFrom, TimingAssumption
<1>4. ASSUME NEW u \in Devices, NEW a \in Addrs, ReceiveStatus(u, a)
      PROVE  TypeOK'
  BY <1>3, <1>4 DEF ReceiveStatus, HearFrom
<1>5. ASSUME NEW p \in sent, NEW a \in Addrs, NEW named \in BOOLEAN,
             ReceiveAck(p, a, named)
      PROVE  TypeOK'
  <2>1. p \in Packets
    BY <1>5
  <2>2. frame' \in Frames
    BY <1>5, <2>1 DEF ReceiveAck, Packets, Frames, Rids
  <2>3. p.uid \in Devices /\ HearFrom(p.uid, a)
    BY <1>5, <2>1 DEF ReceiveAck, Packets
  <2>4. QED
    BY <1>3, <2>2, <2>3 DEF HearFrom
<1>6. ASSUME NEW p \in sent, NEW a \in Addrs, ReceiveResult(p, a)
      PROVE  TypeOK'
  <2>1. p \in Packets
    BY <1>6
  <2>2. frame' \in Frames
    BY <1>6, <2>1 DEF ReceiveResult, Packets, Frames
  <2>3. p.uid \in Devices /\ HearFrom(p.uid, a)
    BY <1>6, <2>1 DEF ReceiveResult, Packets
  <2>4. QED
    BY <1>3, <2>2, <2>3 DEF HearFrom
<1>7. CASE HandleAck
  <2>1. ASSUME NEW e \in pending
        PROVE  [e EXCEPT !.acked = TRUE] \in Entries /\ e.cmd \in Commands
    BY <2>1 DEF Entries
  <2>2. pending' \subseteq Entries /\ events' \subseteq Commands \X Happenings
    BY <1>7, <2>1 DEF HandleAck, Log, Happenings
  <2>3. QED
    BY <1>7, <2>2 DEF HandleAck
<1>8. CASE HandleResult
  <2>1. \A E \in SUBSET pending : CmdsOf(E) \subseteq Commands
    BY DEF CmdsOf, Entries
  <2>2. pending' \subseteq Entries /\ events' \subseteq Commands \X Happenings
    BY <1>8, <2>1 DEF HandleResult, Log, Happenings
  <2>3. QED
    BY <1>8, <2>2 DEF HandleResult
<1>9. CASE Service
  <2>1. PICK failing \in SUBSET Due :
          /\ pending' = Kept \cup Retried(failing)
          /\ sent' = sent \cup {Packet(e) : e \in Due \ failing}
          /\ SetSessions(Without(Stale \cup UNION {LostWith(e) : e \in failing}))
    BY <1>9 DEF Service
  <2>2. Kept \subseteq Entries /\ Due \subseteq Entries /\ GivenUp \subseteq Entries
    BY DEF Kept, Due, GivenUp
  <2>3. Retried(failing) \subseteq Entries
    BY <2>2, ResentType DEF Retried
  <2>4. {Packet(e) : e \in Due \ failing} \subseteq Packets
    BY <2>2 DEF Packet, Packets, Entries
  <2>5. /\ sessions' \in [Devices -> Addrs \cup {NoAddr}]
        /\ session_age' \in [Devices -> 0..(SessionTtl + 1)]
    BY <2>1, SetSessionsType
  <2>6. QED
    BY <1>9, <2>1, <2>2, <2>3, <2>4, <2>5 DEF Service
<1>10. ASSUME NEW e \in timed_out, OnDeliveryTimeout(e)
       PROVE  TypeOK'
  <2>1. e.cmd \in Commands
    BY DEF Entries
  <2>2. events' \subseteq Commands \X Happenings
    BY <1>10, <2>1 DEF OnDeliveryTimeout, Log, Happenings
  <2>3. QED
    BY <1>10, <2>2 DEF OnDeliveryTimeout
<1>11. CASE Snapshot
  BY <1>11, SetSessionsType DEF Snapshot
<1>12. CASE Tick
  <2>1. session_age' \in [Devices -> 0..(SessionTtl + 1)]
    BY <1>12, TimingAssumption DEF Tick, Older, TimingAssumption
  <2>2. pending' \subseteq Entries
    BY <1>12, AgedType DEF Tick
  <2>3. QED
    BY <1>12, <2>1, <2>2 DEF Tick
<1>13. CASE UNCHANGED vars
  BY <1>13 DEF vars
<1>14. QED
  BY <1>1, <1>2, <1>4, <1>5, <1>6, <1>7, <1>8, <1>9, <1>10, <1>11, <1>12,
     <1>13 DEF Next

\* The dispatcher starts in a well-typed state.
LEMMA TypeInit == Init => TypeOK
BY TimingAssumption DEF Init, TypeOK, TimingAssumption

\* Every variable of the dispatcher keeps to its type, for every value of
\* the constants.
THEOREM TypeCorrect == Spec => []TypeOK
<1>1. TypeOK /\ [Next]_vars => TypeOK'
  BY TypeStep
<1>2. QED
  BY TypeInit, <1>1, PTL DEF Spec

-----------------------------------------------------------------------------
(* The fate of commands.  OneOutcome and its companions are not inductive: *)
(* that a new command is unheard of, and that the acked flag of an entry   *)
(* and the log agree, has to be carried along.                             *)

Final == {"refused", "answered", "superseded", "failed"}

\* A command has one entry at most, in one of the two tables.
OneEntry ==
  /\ \A e, f \in pending : e.cmd = f.cmd => e = f
  /\ \A e, f \in timed_out : e.cmd = f.cmd => e = f
  /\ \A e \in pending, f \in timed_out : e.cmd # f.cmd

\* What has an entry was handed over and is not finished.
Undecided ==
  \A e \in pending \cup timed_out :
    e.cmd <= issued /\ \A w \in Final : <<e.cmd, w>> \notin events

OneFinal ==
  \A c \in Commands : \A x, y \in Final :
    <<c, x>> \in events /\ <<c, y>> \in events => x = y

OnlyIssued ==
  \A c \in Commands : \A w \in Happenings : <<c, w>> \in events => c <= issued

AckKnown == \A e \in pending : e.acked <=> <<e.cmd, "acked">> \in events

AckSettles ==
  /\ \A e \in timed_out : <<e.cmd, "acked">> \notin events
  /\ \A c \in Commands : ~(<<c, "acked">> \in events /\ <<c, "failed">> \in events)

Recorded ==
  \A c \in 1..issued :
    \/ \E e \in pending \cup timed_out : e.cmd = c
    \/ \E w \in Happenings : <<c, w>> \in events

Fates == OneEntry /\ Undecided /\ OneFinal /\ OnlyIssued /\ AckKnown
           /\ AckSettles /\ Recorded

\* The inductive invariant.
IInv == TypeOK /\ Fates

\* The invariants the runs check follow from it.
LEMMA FatesSuffice ==
  ASSUME IInv
  PROVE  OneOutcome /\ AckedNeverFailed /\ NoSilentLoss
<1> USE DEF IInv, Fates, CmdsOf, Logged, Waiting, GivenUpCmds
<1>1. \A e \in pending \cup timed_out : e.cmd \in Commands
  BY DEF TypeOK, Entries
<1>2. OneOutcome
  <2>1. /\ \A e, f \in pending : e.cmd = f.cmd => e = f
        /\ \A e, f \in timed_out : e.cmd = f.cmd => e = f
        /\ Waiting \cap GivenUpCmds = {}
    BY DEF OneEntry
  <2>2. \A what \in Final : Logged(what) \cap (Waiting \cup GivenUpCmds) = {}
    BY DEF Undecided
  <2>3. \A x, y \in Final : x # y => Logged(x) \cap Logged(y) = {}
    BY DEF OneFinal
  <2>4. QED
    BY <2>1, <2>2, <2>3 DEF OneOutcome, Final
<1>3. AckedNeverFailed
  BY <1>1 DEF AckedNeverFailed, AckSettles
<1>4. NoSilentLoss
  <2>1. 1..issued \subseteq Commands
    BY TimingAssumption DEF TypeOK, Commands, TimingAssumption
  <2>2. QED
    BY <2>1 DEF NoSilentLoss, Recorded
<1>5. QED
  BY <1>2, <1>3, <1>4

\* A refused command has no entry, and was unheard of before.
LEMMA RefuseFates ==
  ASSUME IInv, issued < MaxCommands, issued' = issued + 1, Refuse,
         timed_out' = timed_out
  PROVE  Fates'
<1> USE DEF IInv
<1>1. \A c, w : <<c, w>> \in events' <=>
                  <<c, w>> \in events \/ (c = issued + 1 /\ w = "refused")
  <2>1. events' = events \cup Log({issued + 1}, "refused")
    BY DEF Refuse
  <2>2. QED
    BY <2>1 DEF Log
<1>2. pending' = pending /\ timed_out' = timed_out
  BY DEF Refuse
<1>3. issued \in Nat /\ issued + 1 \in Commands
  BY TimingAssumption DEF TypeOK, Commands, TimingAssumption
<1>4. \A e \in pending \cup timed_out : e.cmd \in Nat /\ e.cmd <= issued
  BY DEF Fates, Undecided, TypeOK, Entries, Commands
<1>5. \A w \in Happenings : <<issued + 1, w>> \notin events
  BY <1>3 DEF Fates, OnlyIssued
<1>6. OneEntry'
  BY <1>2 DEF Fates, OneEntry
<1>7. Undecided'
  BY <1>1, <1>2, <1>3, <1>4 DEF Fates, Undecided
<1>8. OneFinal'
  BY <1>1, <1>5 DEF Fates, OneFinal, Final, Happenings
<1>9. OnlyIssued'
  BY <1>1, <1>3 DEF Fates, OnlyIssued, Commands
<1>10. AckKnown' /\ AckSettles'
  BY <1>1, <1>2, <1>5 DEF Fates, AckKnown, AckSettles, Happenings
<1>11. Recorded'
  <2>1. ASSUME NEW c \in 1..issued', c # issued + 1
        PROVE  c \in 1..issued
    BY <1>3, <2>1
  <2>2. "refused" \in Happenings
    BY DEF Happenings
  <2>3. QED
    BY <1>1, <1>2, <2>1, <2>2 DEF Fates, Recorded
<1>12. QED
  BY <1>6, <1>7, <1>8, <1>9, <1>10, <1>11 DEF Fates

\* A filed command is new; the entries it replaces are finished by it.
LEMMA QueueFates ==
  ASSUME IInv, issued < MaxCommands, issued' = issued + 1,
         NEW e \in Entries, e.cmd = issued + 1, e.acked = FALSE,
         NEW pruned, NEW ok \in BOOLEAN, Queue(e, pruned, ok),
         timed_out' = timed_out
  PROVE  Fates'
<1> DEFINE old == {f \in pending : Key(f) = Key(e)}
<1> USE DEF IInv
<1>1. pending' = (pending \ old) \cup {e} /\ old \subseteq pending
  BY DEF Queue
<1>2. \A c, w : <<c, w>> \in events' <=>
                  \/ <<c, w>> \in events
                  \/ w = "superseded" /\ \E f \in old : f.cmd = c
  <2>1. events' = events \cup Log(CmdsOf(old), "superseded")
    BY DEF Queue
  <2> HIDE DEF old
  <2>2. QED
    BY <2>1 DEF Log, CmdsOf
<1> HIDE DEF old
<1>3. issued \in Nat /\ issued + 1 \in Commands
  BY TimingAssumption DEF TypeOK, Commands, TimingAssumption
<1>4. \A f \in pending \cup timed_out :
        f.cmd \in Commands /\ f.cmd \in Nat /\ f.cmd <= issued
  BY DEF Fates, Undecided, TypeOK, Entries, Commands
<1>5. \A w \in Happenings : <<issued + 1, w>> \notin events
  BY <1>3 DEF Fates, OnlyIssued
<1>6. OneEntry'
  BY <1>1, <1>3, <1>4 DEF Fates, OneEntry
<1>7. Undecided'
  <2>1. ASSUME NEW f \in pending' \cup timed_out'
        PROVE  f.cmd <= issued' /\ \A w \in Final : <<f.cmd, w>> \notin events'
    <3>1. CASE f = e
      BY <3>1, <1>1, <1>2, <1>3, <1>4, <1>5 DEF Final, Happenings
    <3>2. CASE f # e
      <4>1. f \in (pending \ old) \cup timed_out
        BY <3>2, <2>1, <1>1
      <4>2. \A g \in old : g.cmd # f.cmd
        BY <4>1, <1>1 DEF Fates, OneEntry
      <4>3. QED
        BY <4>1, <4>2, <1>2, <1>3, <1>4 DEF Fates, Undecided
    <3>3. QED
      BY <3>1, <3>2
  <2>2. QED
    BY <2>1 DEF Undecided
<1>8. OneFinal'
  <2>1. \A f \in old : \A w \in Final : <<f.cmd, w>> \notin events
    BY <1>1 DEF Fates, Undecided
  <2>2. QED
    BY <1>2, <2>1 DEF Fates, OneFinal
<1>9. OnlyIssued'
  BY <1>1, <1>2, <1>3, <1>4 DEF Fates, OnlyIssued, Commands
<1>10. AckKnown' /\ AckSettles'
  BY <1>1, <1>2, <1>3, <1>5 DEF Fates, AckKnown, AckSettles, Happenings
<1>11. Recorded'
  <2>1. ASSUME NEW c \in 1..issued'
        PROVE  \/ \E f \in pending' \cup timed_out' : f.cmd = c
               \/ \E w \in Happenings : <<c, w>> \in events'
    <3>1. CASE c = issued + 1
      BY <3>1, <1>1
    <3>2. CASE c # issued + 1
      <4>1. c \in 1..issued
        BY <3>2, <1>3
      <4>2. CASE \E w \in Happenings : <<c, w>> \in events
        BY <4>2, <1>2
      <4>3. ASSUME NEW f \in pending \cup timed_out, f.cmd = c
            PROVE  \/ \E g \in pending' \cup timed_out' : g.cmd = c
                   \/ \E w \in Happenings : <<c, w>> \in events'
        <5>1. CASE f \in old
          BY <5>1, <4>3, <1>2 DEF Happenings
        <5>2. CASE f \notin old
          BY <5>2, <4>3, <1>1
        <5>3. QED
          BY <5>1, <5>2
      <4>4. QED
        BY <4>1, <4>2, <4>3 DEF Fates, Recorded
    <3>3. QED
      BY <3>1, <3>2
  <2>2. QED
    BY <2>1 DEF Recorded
<1>12. QED
  BY <1>6, <1>7, <1>8, <1>9, <1>10, <1>11 DEF Fates

\* An acknowledgement flags one entry and is logged for its command.
LEMMA AckFates ==
  ASSUME IInv, NEW e \in pending,
         pending' = (pending \ {e}) \cup {[e EXCEPT !.acked = TRUE]},
         events' = events \cup Log({e.cmd}, "acked"),
         timed_out' = timed_out, issued' = issued
  PROVE  Fates'
<1> DEFINE d == [e EXCEPT !.acked = TRUE]
<1> USE DEF IInv
<1>1. d.cmd = e.cmd /\ d.acked = TRUE
  BY DEF TypeOK, Entries
<1>2. pending' = (pending \ {e}) \cup {d}
  OBVIOUS
<1> HIDE DEF d
<1>3. \A c, w : <<c, w>> \in events' <=>
                  <<c, w>> \in events \/ (c = e.cmd /\ w = "acked")
  BY DEF Log
<1>4. "acked" \notin Final /\ "acked" # "failed"
  BY DEF Final
<1>5. e.cmd <= issued /\ \A w \in Final : <<e.cmd, w>> \notin events
  BY DEF Fates, Undecided
<1>6. OneEntry'
  BY <1>1, <1>2 DEF Fates, OneEntry
<1>7. Undecided'
  BY <1>1, <1>2, <1>3, <1>4 DEF Fates, Undecided
<1>8. OneFinal'
  BY <1>3, <1>4 DEF Fates, OneFinal
<1>9. OnlyIssued'
  BY <1>3, <1>5 DEF Fates, OnlyIssued
<1>10. AckKnown'
  BY <1>1, <1>2, <1>3 DEF Fates, AckKnown, OneEntry
<1>11. AckSettles'
  BY <1>2, <1>3, <1>4, <1>5 DEF Fates, AckSettles, OneEntry, Final
<1>12. Recorded'
  BY <1>1, <1>2, <1>3 DEF Fates, Recorded
<1>13. QED
  BY <1>6, <1>7, <1>8, <1>9, <1>10, <1>11, <1>12 DEF Fates

\* Entries that leave a table for a final reason take their commands along:
\* D out of the retry queue, G out of the entries to report.
LEMMA LeaveFates ==
  ASSUME IInv, NEW D, NEW G, D \subseteq pending, G \subseteq timed_out,
         NEW what \in Final,
         what = "failed" => D = {},
         pending' = pending \ D, timed_out' = timed_out \ G,
         events' = events \cup Log(CmdsOf(D \cup G), what),
         issued' = issued
  PROVE  Fates'
<1> USE DEF IInv
<1>1. \A c, w : <<c, w>> \in events' <=>
                  \/ <<c, w>> \in events
                  \/ w = what /\ \E f \in D \cup G : f.cmd = c
  BY DEF Log, CmdsOf
<1>2. "acked" # what /\ what \in Happenings
  BY DEF Final, Happenings
<1>3. \A f \in D \cup G : f.cmd <= issued /\ \A w \in Final : <<f.cmd, w>> \notin events
  BY DEF Fates, Undecided
<1>4. \A f \in (pending \ D) \cup (timed_out \ G), g \in D \cup G : f.cmd # g.cmd
  BY DEF Fates, OneEntry
<1>5. OneEntry'
  BY DEF Fates, OneEntry
<1>6. Undecided'
  BY <1>1, <1>4 DEF Fates, Undecided
<1>7. OneFinal'
  <2>1. ASSUME NEW c \in Commands, NEW x \in Final, NEW y \in Final,
               <<c, x>> \in events', <<c, y>> \in events'
        PROVE  x = y
    <3>1. CASE \E f \in D \cup G : f.cmd = c
      <4>1. \A w \in Final : <<c, w>> \notin events
        BY <3>1, <1>3
      <4>2. \A w \in Final : <<c, w>> \in events' => w = what
        BY <4>1, <1>1
      <4>3. QED
        BY <4>2, <2>1
    <3>2. CASE ~\E f \in D \cup G : f.cmd = c
      <4>1. <<c, x>> \in events /\ <<c, y>> \in events
        BY <3>2, <2>1, <1>1
      <4>2. QED
        BY <4>1 DEF Fates, OneFinal
    <3>3. QED
      BY <3>1, <3>2
  <2>2. QED
    BY <2>1 DEF OneFinal
<1>8. OnlyIssued'
  BY <1>1, <1>3 DEF Fates, OnlyIssued
<1>9. AckKnown'
  BY <1>1, <1>2 DEF Fates, AckKnown
<1>10. AckSettles'
  <2>0. \A c : <<c, "acked">> \in events' => <<c, "acked">> \in events
    BY <1>1, <1>2
  <2>1. \A e \in timed_out' : <<e.cmd, "acked">> \notin events'
    BY <1>1, <1>2 DEF Fates, AckSettles
  <2>2. ASSUME NEW c \in Commands, <<c, "acked">> \in events',
               <<c, "failed">> \in events'
        PROVE  FALSE
    <3>1. <<c, "acked">> \in events
      BY <2>0, <2>2
    <3>2. <<c, "failed">> \notin events
      BY <3>1 DEF Fates, AckSettles
    <3>3. "failed" = what /\ \E f \in D \cup G : f.cmd = c
      BY <3>2, <2>2, <1>1
    <3>4. \E f \in timed_out : f.cmd = c
      BY <3>3
    <3>5. QED
      BY <3>1, <3>4 DEF Fates, AckSettles
  <2>3. QED
    BY <2>1, <2>2 DEF AckSettles
<1>11. Recorded'
  BY <1>1, <1>2 DEF Fates, Recorded
<1>12. QED
  BY <1>5, <1>6, <1>7, <1>8, <1>9, <1>10, <1>11 DEF Fates

\* A step that logs nothing may rewrite the entries S if each keeps its command
\* and flag, move the unacknowledged ones T to those to report, and
\* forget the rest if they are acknowledged.
LEMMA MoveFates ==
  ASSUME IInv, NEW S, NEW T, S \subseteq pending, T \subseteq pending,
         S \cap T = {},
         \A f \in pending' : \E e \in S : f.cmd = e.cmd /\ f.acked = e.acked,
         \A e \in S : \E f \in pending' : f.cmd = e.cmd,
         \A f, g \in pending' : f.cmd = g.cmd => f = g,
         timed_out' = timed_out \cup T,
         \A e \in T : ~e.acked,
         \A e \in pending \ (S \cup T) : e.acked,
         events' = events, issued' = issued
  PROVE  Fates'
<1> USE DEF IInv
<1>1. \A f \in pending' : \E e \in S : f.cmd = e.cmd /\ f.acked = e.acked
  OBVIOUS
<1>2. OneEntry'
  <2>1. \A f, g \in pending' : f.cmd = g.cmd => f = g
    OBVIOUS
  <2>2. \A f, g \in timed_out' : f.cmd = g.cmd => f = g
    BY DEF Fates, OneEntry
  <2>3. \A f \in pending', g \in timed_out' : f.cmd # g.cmd
    BY <1>1 DEF Fates, OneEntry
  <2>4. QED
    BY <2>1, <2>2, <2>3 DEF OneEntry
<1>3. Undecided'
  BY <1>1 DEF Fates, Undecided
<1>4. OneFinal' /\ OnlyIssued'
  BY DEF Fates, OneFinal, OnlyIssued
<1>5. AckKnown'
  <2>1. \A e \in S : e.acked <=> <<e.cmd, "acked">> \in events
    BY DEF Fates, AckKnown
  <2>2. ASSUME NEW f \in pending'
        PROVE  f.acked <=> <<f.cmd, "acked">> \in events'
    <3>1. PICK e \in S : f.cmd = e.cmd /\ f.acked = e.acked
      BY <1>1
    <3>2. QED
      BY <3>1, <2>1
  <2>3. QED
    BY <2>2 DEF AckKnown
<1>6. AckSettles'
  <2>1. \A e \in T : <<e.cmd, "acked">> \notin events
    BY DEF Fates, AckKnown
  <2>2. QED
    BY <2>1 DEF Fates, AckSettles
<1>7. Recorded'
  <2>1. \A e \in pending \cup timed_out :
          \/ \E f \in pending' \cup timed_out' : f.cmd = e.cmd
          \/ <<e.cmd, "acked">> \in events'
    BY DEF Fates, AckKnown
  <2>2. "acked" \in Happenings
    BY DEF Happenings
  <2>3. QED
    BY <2>1, <2>2 DEF Fates, Recorded
<1>8. QED
  BY <1>2, <1>3, <1>4, <1>5, <1>6, <1>7 DEF Fates

\* Nothing has happened yet.
LEMMA FatesInit == Init => Fates
<1> SUFFICES ASSUME Init PROVE Fates
  OBVIOUS
<1>1. pending = {} /\ timed_out = {} /\ events = {} /\ issued = 0
  BY DEF Init
<1>2. 1..issued = {}
  BY <1>1
<1>3. OneEntry /\ Undecided /\ OneFinal /\ OnlyIssued /\ AckKnown /\ AckSettles
  BY <1>1 DEF OneEntry, Undecided, OneFinal, OnlyIssued, AckKnown, AckSettles
<1>4. Recorded
  BY <1>2 DEF Recorded
<1>5. QED
  BY <1>3, <1>4 DEF Fates

\* Every step of every thread keeps the fates consistent.
LEMMA FatesStep ==
  ASSUME IInv, [Next]_vars
  PROVE  Fates'
<1> USE DEF IInv
<1>1. ASSUME NEW u \in Devices, NEW r \in Rids, NEW life \in Lifetimes,
             OnCommand(u, r, life)
      PROVE  Fates'
  <2>1. issued < MaxCommands /\ issued' = issued + 1 /\ timed_out' = timed_out
    BY <1>1 DEF OnCommand
  <2>2. CASE Refuse
    BY <2>1, <2>2, RefuseFates
  <2>3. ASSUME sessions[u] # NoAddr, ~ExpiredLife(life), NEW ok \in BOOLEAN,
               Queue(NewEntry(u, sessions[u], r, life), Stale, ok)
        PROVE  Fates'
    <3>1. sessions[u] \in Addrs
      BY <2>3 DEF TypeOK
    <3>2. NewEntry(u, sessions[u], r, life) \in Entries
      BY <3>1, <2>1, NewEntryType DEF TypeOK
    <3>3. /\ NewEntry(u, sessions[u], r, life).cmd = issued + 1
          /\ NewEntry(u, sessions[u], r, life).acked = FALSE
      BY DEF NewEntry
    <3>4. QED
      BY <3>2, <3>3, <2>1, <2>3, QueueFates
  <2>4. QED
    BY <1>1, <2>2, <2>3 DEF OnCommand
<1>2. ASSUME NEW u \in Devices, NEW a \in Addrs, NEW r \in RequestIds,
             NEW life \in Lifetimes, SendCommandTo(u, a, r, life)
      PROVE  Fates'
  <2>1. issued < MaxCommands /\ issued' = issued + 1 /\ timed_out' = timed_out
    BY <1>2 DEF SendCommandTo
  <2>2. NewEntry(u, a, r, life) \in Entries
    <3>1. r \in Rids
      BY DEF Rids
    <3>2. QED
      BY <2>1, <3>1, NewEntryType DEF TypeOK
  <2>3. NewEntry(u, a, r, life).cmd = issued + 1
        /\ NewEntry(u, a, r, life).acked = FALSE
    BY DEF NewEntry
  <2>4. PICK ok \in BOOLEAN : Queue(NewEntry(u, a, r, life), {}, ok)
    BY <1>2 DEF SendCommandTo
  <2>5. QED
    BY <2>1, <2>2, <2>3, <2>4, QueueFates
<1>3. ASSUME pending' = pending, timed_out' = timed_out, events' = events,
             issued' = issued
      PROVE  Fates'
  BY <1>3 DEF Fates, OneEntry, Undecided, OneFinal, OnlyIssued, AckKnown,
              AckSettles, Recorded
<1>4. ASSUME NEW u, NEW a, HearFrom(u, a)
      PROVE  Fates'
  BY <1>3, <1>4 DEF HearFrom
<1>5. CASE HandleAck
  <2>1. timed_out' = timed_out /\ issued' = issued
    BY <1>5 DEF HandleAck
  <2>2. CASE UNCHANGED <<pending, events>>
    BY <2>1, <2>2, <1>3
  <2>3. ASSUME NEW e \in pending,
               pending' = (pending \ {e}) \cup {[e EXCEPT !.acked = TRUE]},
               events' = events \cup Log({e.cmd}, "acked")
        PROVE  Fates'
    BY <2>1, <2>3, AckFates
  <2>4. QED
    BY <1>5, <2>2, <2>3 DEF HandleAck
<1>6. CASE HandleResult
  <2> DEFINE answered == {e \in pending : Answers(e, frame)}
  <2>1. /\ pending' = pending \ answered
        /\ events' = events \cup Log(CmdsOf(answered), "answered")
        /\ timed_out' = timed_out /\ issued' = issued
    BY <1>6 DEF HandleResult
  <2>2. answered \subseteq pending /\ answered \cup {} = answered
    OBVIOUS
  <2> HIDE DEF answered
  <2>3. timed_out' = timed_out \ {} /\ {} \subseteq timed_out
    BY <2>1
  <2>4. "answered" \in Final /\ "answered" # "failed"
    BY DEF Final
  <2>5. QED
    BY <2>1, <2>2, <2>3, <2>4, LeaveFates
<1>7. CASE Service
  <2> DEFINE S == pending \ (GivenUp \cup Finished)
             After(e) == IF e \in Due THEN Resent(e) ELSE e
  <2>1. PICK failing \in SUBSET Due : pending' = Kept \cup Retried(failing)
    BY <1>7 DEF Service
  <2>2. /\ timed_out' = timed_out \cup GivenUp
        /\ issued' = issued /\ events' = events
    BY <1>7 DEF Service
  <2>3. Due \subseteq S
    BY DEF Due, Finished
  <2>4. Kept = S \ Due /\ Retried(failing) = {Resent(e) : e \in Due}
    BY DEF Kept, Retried
  <2>5. \A f : f \in pending' <=> \E e \in S : f = After(e)
    BY <2>1, <2>3, <2>4
  <2>6. \A e \in S : After(e).cmd = e.cmd /\ After(e).acked = e.acked
    <3>1. \A e \in Entries : Resent(e).cmd = e.cmd /\ Resent(e).acked = e.acked
      BY DEF Resent, Entries
    <3>2. QED
      BY <3>1 DEF TypeOK
  <2>7. /\ \A e \in GivenUp : ~e.acked
        /\ \A e \in pending \ (S \cup GivenUp) : e.acked
        /\ S \subseteq pending /\ GivenUp \subseteq pending
        /\ S \cap GivenUp = {}
    BY DEF GivenUp, Finished
  <2> HIDE DEF S, After
  <2>8. /\ \A f \in pending' : \E e \in S : f.cmd = e.cmd /\ f.acked = e.acked
        /\ \A e \in S : \E f \in pending' : f.cmd = e.cmd
    BY <2>5, <2>6
  <2>9. \A f, g \in pending' : f.cmd = g.cmd => f = g
    BY <2>5, <2>6, <2>7 DEF Fates, OneEntry
  <2>10. QED
    BY <2>2, <2>7, <2>8, <2>9, MoveFates
<1>8. ASSUME NEW e \in timed_out, OnDeliveryTimeout(e)
      PROVE  Fates'
  <2>1. /\ timed_out' = timed_out \ {e}
        /\ events' = events \cup Log({e.cmd}, "failed")
        /\ pending' = pending /\ issued' = issued
    BY <1>8 DEF OnDeliveryTimeout
  <2>2. CmdsOf({} \cup {e}) = {e.cmd}
    BY DEF CmdsOf
  <2>3. pending' = pending \ {} /\ {} \subseteq pending /\ {e} \subseteq timed_out
    BY <2>1
  <2>4. "failed" \in Final
    BY DEF Final
  <2>5. events' = events \cup Log(CmdsOf({} \cup {e}), "failed")
    BY <2>1, <2>2
  <2>6. QED
    BY <2>1, <2>3, <2>4, <2>5, LeaveFates
<1>9. CASE Tick
  <2>1. \A f : f \in pending' <=> \E e \in pending : f = Aged(e)
    BY <1>9 DEF Tick
  <2>2. timed_out' = timed_out \cup {} /\ issued' = issued /\ events' = events
    BY <1>9 DEF Tick
  <2>3. \A e \in pending : Aged(e).cmd = e.cmd /\ Aged(e).acked = e.acked
    <3>1. \A e \in Entries : Aged(e).cmd = e.cmd /\ Aged(e).acked = e.acked
      BY DEF Aged, Entries
    <3>2. QED
      BY <3>1 DEF TypeOK
  <2>4. /\ \A f \in pending' : \E e \in pending :
              f.cmd = e.cmd /\ f.acked = e.acked
        /\ \A e \in pending : \E f \in pending' : f.cmd = e.cmd
    BY <2>1, <2>3
  <2>5. \A f, g \in pending' : f.cmd = g.cmd => f = g
    BY <2>1, <2>3 DEF Fates, OneEntry
  <2>6. /\ pending \subseteq pending /\ {} \subseteq pending
        /\ pending \cap {} = {}
        /\ \A e \in {} : ~e.acked
        /\ \A e \in pending \ (pending \cup {}) : e.acked
    OBVIOUS
  <2>7. QED
    BY <2>2, <2>4, <2>5, <2>6, MoveFates
<1>10. QED
  <2>1. CASE Snapshot
    BY <2>1, <1>3 DEF Snapshot
  <2>2. CASE UNCHANGED vars
    BY <2>2, <1>3 DEF vars
  <2>3. CASE \E u \in Devices, a \in Addrs : ReceiveStatus(u, a)
    BY <2>3, <1>4 DEF ReceiveStatus
  <2>4. CASE \E p \in sent, a \in Addrs, named \in BOOLEAN : ReceiveAck(p, a, named)
    BY <2>4, <1>4 DEF ReceiveAck
  <2>5. CASE \E p \in sent, a \in Addrs : ReceiveResult(p, a)
    BY <2>5, <1>4 DEF ReceiveResult
  <2>6. QED
    BY <1>1, <1>2, <1>5, <1>6, <1>7, <1>8, <1>9, <2>1, <2>2, <2>3, <2>4, <2>5
       DEF Next

\* The strengthened invariant is inductive.
LEMMA Inductive == Spec => []IInv
<1>1. Init => IInv
  BY TypeInit, FatesInit DEF IInv
<1>2. IInv /\ [Next]_vars => IInv'
  BY TypeStep, FatesStep DEF IInv
<1>3. QED
  BY <1>1, <1>2, PTL DEF Spec

\* A command is in one place only and ends one way, whatever the threads do
\* between the locked part of service() and its callbacks.
THEOREM OneOutcomeAlways == Spec => []OneOutcome
<1>1. IInv => OneOutcome
  BY FatesSuffice
<1>2. QED
  BY Inductive, <1>1, PTL

\* The backend is never told that an acknowledged command has failed.
THEOREM AckedNeverFailedAlways == Spec => []AckedNeverFailed
<1>1. IInv => AckedNeverFailed
  BY FatesSuffice
<1>2. QED
  BY Inductive, <1>1, PTL

\* Every command handed over is still held or its fate is recorded.
THEOREM NoSilentLossAlways == Spec => []NoSilentLoss
<1>1. IInv => NoSilentLoss
  BY FatesSuffice
<1>2. QED
  BY Inductive, <1>1, PTL

-----------------------------------------------------------------------------
(* The retry budget *)

\* A transmission is counted only below the budget, or against an expiry.
LEMMA AttemptsStep ==
  ASSUME TypeOK, BoundedAttempts, [Next]_vars
  PROVE  BoundedAttempts'
<1> USE DEF TypeOK
<1>1. \A e \in Entries : e.attempts \in Nat /\ e.life \in Int \cup {NoExpiry}
  BY DEF Entries
<1>2. MaxUnackedAttempts \in Nat /\ 1 <= MaxUnackedAttempts
  BY TimingAssumption DEF TimingAssumption
<1>3. ASSUME pending' \subseteq pending
      PROVE  BoundedAttempts'
  BY <1>3 DEF BoundedAttempts
<1>4. ASSUME NEW u, NEW a, NEW r, NEW life, NEW pruned, NEW ok,
             Queue(NewEntry(u, a, r, life), pruned, ok)
      PROVE  BoundedAttempts'
  <2>1. NewEntry(u, a, r, life).attempts = 1
    BY DEF NewEntry
  <2>2. \A f \in pending' : f \in pending \/ f = NewEntry(u, a, r, life)
    BY <1>4 DEF Queue
  <2>3. QED
    BY <1>2, <2>1, <2>2 DEF BoundedAttempts
<1>5. CASE HandleAck
  <2>1. \A e \in pending : /\ [e EXCEPT !.acked = TRUE].attempts = e.attempts
                           /\ [e EXCEPT !.acked = TRUE].life = e.life
    BY DEF Entries
  <2>2. QED
    BY <1>5, <2>1 DEF HandleAck, BoundedAttempts
<1>6. CASE Service
  <2>1. PICK failing \in SUBSET Due : pending' = Kept \cup Retried(failing)
    BY <1>6 DEF Service
  <2>2. ASSUME NEW e \in Due
        PROVE  Resent(e).life = NoExpiry => Resent(e).attempts <= MaxUnackedAttempts
    <3>1. e \in pending \ GivenUp /\ ~e.acked /\ e \in Entries
      BY DEF Due
    <3>2. ~OutOfAttempts(e)
      BY <3>1 DEF GivenUp
    <3>3. Resent(e).life = e.life /\ Resent(e).attempts = e.attempts + 1
      BY <3>1 DEF Resent, Entries
    <3>4. QED
      BY <1>1, <1>2, <3>1, <3>2, <3>3 DEF OutOfAttempts
  <2>3. \A f \in pending' : f \in pending \/ \E e \in Due : f = Resent(e)
    BY <2>1 DEF Kept, Retried
  <2>4. QED
    BY <2>2, <2>3 DEF BoundedAttempts
<1>7. CASE Tick
  <2>1. \A e \in pending : /\ Aged(e).attempts = e.attempts
                           /\ Aged(e).life = NoExpiry => e.life = NoExpiry
    <3>1. ASSUME NEW e \in Entries
          PROVE  /\ Aged(e).attempts = e.attempts
                 /\ Aged(e).life = IF e.life = NoExpiry \/ e.life < 0
                                   THEN e.life ELSE e.life - 1
      BY DEF Aged, Entries
    <3>2. \A n \in Int : n # NoExpiry
      BY ValueAssumption DEF ValueAssumption
    <3>3. \A n \in Int : n - 1 # NoExpiry
      BY <3>2
    <3>4. QED
      BY <1>1, <3>1, <3>3
  <2>2. QED
    BY <1>7, <2>1 DEF Tick, BoundedAttempts
<1>8. QED
  <2>1. CASE \E u \in Devices, r \in Rids, life \in Lifetimes : OnCommand(u, r, life)
    BY <2>1, <1>3, <1>4 DEF OnCommand, Refuse
  <2>2. CASE \E u \in Devices, a \in Addrs, r \in RequestIds, life \in Lifetimes :
               SendCommandTo(u, a, r, life)
    BY <2>2, <1>4 DEF SendCommandTo
  <2>3. CASE \/ \E u \in Devices, a \in Addrs : ReceiveStatus(u, a)
             \/ \E p \in sent, a \in Addrs, named \in BOOLEAN :
                  ReceiveAck(p, a, named)
             \/ \E p \in sent, a \in Addrs : ReceiveResult(p, a)
    BY <2>3, <1>3 DEF ReceiveStatus, ReceiveAck, ReceiveResult, HearFrom
  <2>4. CASE HandleResult \/ Snapshot \/ (\E e \in timed_out : OnDeliveryTimeout(e))
    BY <2>4, <1>3 DEF HandleResult, Snapshot, OnDeliveryTimeout
  <2>5. CASE UNCHANGED vars
    BY <2>5, <1>3 DEF vars
  <2>6. QED
    BY <1>5, <1>6, <1>7, <2>1, <2>2, <2>3, <2>4, <2>5 DEF Next

\* A command without an expiry never exceeds its retry budget.
THEOREM BoundedAttemptsAlways == Spec => []BoundedAttempts
<1>1. Init => BoundedAttempts
  BY DEF Init, BoundedAttempts
<1>2. TypeOK /\ BoundedAttempts /\ [Next]_vars => BoundedAttempts'
  BY AttemptsStep
<1>3. QED
  BY TypeCorrect, <1>1, <1>2, PTL DEF Spec

-----------------------------------------------------------------------------
(* Sessions of devices that move *)

\* A step drops a session only for a reason: it is stale, or a transmission
\* to its own address has just failed.
LEMMA SessionStep ==
  ASSUME TypeOK, [Next]_vars, NEW u \in Devices,
         sessions[u] # NoAddr, sessions'[u] = NoAddr
  PROVE  \/ session_age[u] > SessionTtl
         \/ \E e \in pending' : e.uid = u /\ e.addr = sessions[u] /\ ~e.acked
                                /\ e.idle = 0
<1> USE DEF TypeOK
<1>1. ASSUME NEW U, SetSessions(Without(U))
      PROVE  u \in U
  BY <1>1 DEF SetSessions, Without
<1>2. ASSUME u \in Stale
      PROVE  session_age[u] > SessionTtl
  BY <1>2 DEF Stale
<1>3. ASSUME sessions' = sessions
      PROVE  FALSE
  BY <1>3
<1>4. ASSUME NEW v, NEW a \in Addrs, HearFrom(v, a)
      PROVE  FALSE
  <2>1. a # NoAddr
    BY ValueAssumption DEF ValueAssumption
  <2>2. QED
    BY <1>4, <2>1 DEF HearFrom
<1>5. ASSUME NEW v, NEW a, NEW r, NEW life, NEW pruned \in {{}, Stale},
             NEW ok \in BOOLEAN, Queue(NewEntry(v, a, r, life), pruned, ok)
      PROVE  \/ u \in Stale
             \/ \E e \in pending' : e.uid = u /\ e.addr = sessions[u] /\ ~e.acked
                                    /\ e.idle = 0
  <2> DEFINE e == NewEntry(v, a, r, life)
  <2>1. SetSessions(Without(pruned \cup IF ok THEN {} ELSE LostWith(e)))
    BY <1>5 DEF Queue
  <2>2. u \in pruned \/ u \in LostWith(e)
    BY <2>1, <1>1
  <2>3. e \in pending'
    BY <1>5 DEF Queue
  <2>4. ~e.acked /\ e.idle = 0
    BY DEF NewEntry
  <2> HIDE DEF e
  <2>5. CASE u \in LostWith(e)
    BY <2>3, <2>4, <2>5 DEF LostWith
  <2>6. QED
    BY <2>2, <2>5
<1>6. CASE Service
  <2>1. PICK failing \in SUBSET Due :
          /\ pending' = Kept \cup Retried(failing)
          /\ SetSessions(Without(Stale \cup UNION {LostWith(e) : e \in failing}))
    BY <1>6 DEF Service
  <2>2. u \in Stale \/ \E e \in failing : u \in LostWith(e)
    BY <2>1, <1>1
  <2>3. ASSUME NEW e \in failing, u \in LostWith(e)
        PROVE  \E f \in pending' : f.uid = u /\ f.addr = sessions[u]
                                     /\ ~f.acked /\ f.idle = 0
    <3>1. e \in Due /\ e \in Entries /\ ~e.acked
      BY DEF Due
    <3>2. Resent(e) \in pending'
      BY <2>1, <3>1 DEF Retried
    <3>3. /\ Resent(e).uid = e.uid /\ Resent(e).addr = e.addr
          /\ Resent(e).acked = e.acked /\ Resent(e).idle = 0
      BY <3>1 DEF Resent, Entries
    <3>4. QED
      BY <2>3, <3>1, <3>2, <3>3 DEF LostWith
  <2>4. QED
    BY <2>2, <2>3, <1>2
<1>7. QED
  <2>1. CASE \E v \in Devices, r \in Rids, life \in Lifetimes : OnCommand(v, r, life)
    <3>1. PICK v \in Devices, r \in Rids, life \in Lifetimes : OnCommand(v, r, life)
      BY <2>1
    <3>2. \/ UNCHANGED <<sessions, session_age>>
          \/ SetSessions(Without(Stale))
          \/ \E ok \in BOOLEAN :
               Queue(NewEntry(v, sessions[v], r, life), Stale, ok)
      BY <3>1 DEF OnCommand
    <3>3. QED
      BY <3>2, <1>1, <1>2, <1>3, <1>5
  <2>2. CASE \E v \in Devices, a \in Addrs, r \in RequestIds, life \in Lifetimes :
               SendCommandTo(v, a, r, life)
    BY <2>2, <1>2, <1>5 DEF SendCommandTo
  <2>3. CASE \/ \E v \in Devices, a \in Addrs : ReceiveStatus(v, a)
             \/ \E p \in sent, a \in Addrs, named \in BOOLEAN :
                  ReceiveAck(p, a, named)
             \/ \E p \in sent, a \in Addrs : ReceiveResult(p, a)
    BY <2>3, <1>4 DEF ReceiveStatus, ReceiveAck, ReceiveResult
  <2>4. CASE HandleAck \/ HandleResult \/ Tick \/ UNCHANGED vars
               \/ \E e \in timed_out : OnDeliveryTimeout(e)
    BY <2>4, <1>3 DEF HandleAck, HandleResult, Tick, OnDeliveryTimeout, vars
  <2>5. CASE Snapshot
    BY <2>5, <1>1, <1>2 DEF Snapshot
  <2>6. QED
    BY <1>6, <2>1, <2>2, <2>3, <2>4, <2>5 DEF Next

\* A device that has moved to another address keeps its session, however
\* many retries to the old one fail.
THEOREM MovedDeviceKeepsSessionAlways == Spec => MovedDeviceKeepsSession
<1>1. TypeOK /\ [Next]_vars =>
        [\A u \in Devices :
           sessions[u] # NoAddr /\ sessions'[u] = NoAddr =>
             \/ session_age[u] > SessionTtl
             \/ \E e \in pending' : e.uid = u /\ e.addr = sessions[u] /\ ~e.acked
                                    /\ e.idle = 0]_vars
  BY SessionStep
<1>2. QED
  BY TypeCorrect, <1>1, PTL DEF Spec, MovedDeviceKeepsSession

-----------------------------------------------------------------------------
(* The contract *)

\* The pending dict has one entry for a key.
KeyedOnce == \A e, f \in pending : Key(e) = Key(f) => e = f

\* What the tables and the log say of a command is its status.
StatusTable ==
  /\ \A c \in Commands : c > issued => StatusOf(c) = "unsent"
  /\ \A e \in pending : StatusOf(e.cmd) = IF e.acked THEN "acked" ELSE "in_flight"
  /\ \A e \in timed_out : StatusOf(e.cmd) = "failing"
  /\ \A c \in Commands, w \in Final : <<c, w>> \in events => StatusOf(c) = w
  /\ \A c \in Commands :
       /\ c <= issued
       /\ \A e \in pending \cup timed_out : e.cmd # c
       /\ \A w \in Final : <<c, w>> \notin events
       => StatusOf(c) = "dropped"

LEMMA StatusKnown == IInv => StatusTable
<1> SUFFICES ASSUME IInv PROVE StatusTable
  OBVIOUS
<1> USE DEF Logged, Waiting, GivenUpCmds, CmdsOf
<1>1. issued \in Nat /\ \A c \in Commands : c \in Nat
  BY TimingAssumption DEF IInv, TypeOK, Commands, TimingAssumption
<1>2. \A e \in pending \cup timed_out :
        /\ e.cmd \in Commands /\ ~(e.cmd > issued)
        /\ \A w \in Final : <<e.cmd, w>> \notin events
  BY <1>1 DEF IInv, TypeOK, Entries, Fates, Undecided
<1>3. \A c \in Commands : c > issued => StatusOf(c) = "unsent"
  BY DEF StatusOf
<1>4. \A e \in pending : StatusOf(e.cmd) = IF e.acked THEN "acked" ELSE "in_flight"
  BY <1>2 DEF StatusOf, IInv, Fates, OneEntry
<1>5. \A e \in timed_out : StatusOf(e.cmd) = "failing"
  BY <1>2 DEF StatusOf, IInv, Fates, OneEntry
<1>6. ASSUME NEW c \in Commands, NEW w \in Final, <<c, w>> \in events
      PROVE  StatusOf(c) = w
  <2>0. w \in Happenings
    BY DEF Final, Happenings
  <2>1. ~(c > issued)
    <3>1. c <= issued
      BY <1>6, <2>0 DEF IInv, Fates, OnlyIssued
    <3> QED
      BY <1>1, <3>1
  <2>2. \A e \in pending \cup timed_out : e.cmd # c
    BY <1>2, <1>6
  <2>3. \A v \in Final : <<c, v>> \in events => v = w
    BY <1>6 DEF IInv, Fates, OneFinal
  <2> QED
    BY <1>6, <2>1, <2>2, <2>3 DEF StatusOf, Final
<1>7. ASSUME NEW c \in Commands, c <= issued,
             \A e \in pending \cup timed_out : e.cmd # c,
             \A w \in Final : <<c, w>> \notin events
      PROVE  StatusOf(c) = "dropped"
  BY <1>1, <1>7 DEF StatusOf, Final
<1> QED
  BY <1>3, <1>4, <1>5, <1>6, <1>7 DEF StatusTable

\* A command about which the tables and the log say the same keeps its status.
LEMMA StatusKept ==
  ASSUME NEW c \in Commands,
         (c > issued') <=> (c > issued),
         (\E e \in pending' : e.cmd = c /\ e.acked)
           <=> (\E e \in pending : e.cmd = c /\ e.acked),
         (\E e \in pending' : e.cmd = c) <=> (\E e \in pending : e.cmd = c),
         (\E e \in timed_out' : e.cmd = c) <=> (\E e \in timed_out : e.cmd = c),
         \A w \in Final : <<c, w>> \in events' <=> <<c, w>> \in events
  PROVE  StatusOf(c)' = StatusOf(c)
<1>1. /\ (c \in CmdsOf(pending')) <=> (c \in CmdsOf(pending))
      /\ (c \in CmdsOf(timed_out')) <=> (c \in CmdsOf(timed_out))
  BY DEF CmdsOf
<1>2. \A w \in Final : c \in Logged(w)' <=> c \in Logged(w)
  BY DEF Logged
<1> QED
  BY <1>1, <1>2 DEF StatusOf, Waiting, GivenUpCmds, Final

LEMMA StatusUnchanged ==
  ASSUME \A c \in Commands : StatusOf(c)' = StatusOf(c)
  PROVE  UNCHANGED [c \in Commands |-> StatusOf(c)]
OBVIOUS

LEMMA SilentStep ==
  ASSUME UNCHANGED <<pending, timed_out, events, issued>>
  PROVE  UNCHANGED [c \in Commands |-> StatusOf(c)]
BY StatusKept, StatusUnchanged

LEMMA RefuseKept ==
  ASSUME IInv, IInv', issued < MaxCommands, issued' = issued + 1, Refuse,
         timed_out' = timed_out
  PROVE  \E c \in Commands : CC!Refuse(c)
<1>1. StatusTable /\ StatusTable'
  BY StatusKnown, PTL
<1>2. PICK new \in Commands : new = issued + 1
  BY TimingAssumption DEF IInv, TypeOK, Commands, TimingAssumption
<1>3. issued \in Nat /\ \A c \in Commands : c \in Nat
  BY TimingAssumption DEF IInv, TypeOK, Commands, TimingAssumption
<1>4. /\ pending' = pending
      /\ \A c, w : <<c, w>> \in events' <=>
                     <<c, w>> \in events \/ (c = new /\ w = "refused")
  BY <1>2 DEF Refuse, Log
<1>5. StatusOf(new) = "unsent" /\ StatusOf(new)' = "refused"
  <2>1. StatusOf(new) = "unsent"
    BY <1>1, <1>2, <1>3 DEF StatusTable
  <2>2. "refused" \in Final /\ <<new, "refused">> \in events'
    BY <1>4 DEF Final
  <2> QED
    BY <1>1, <2>1, <2>2 DEF StatusTable
<1>6. ASSUME NEW c \in Commands, c # new
      PROVE  StatusOf(c)' = StatusOf(c)
  <2>1. (c > issued') <=> (c > issued)
    BY <1>2, <1>3, <1>6
  <2> QED
    BY <1>4, <1>6, <2>1, StatusKept
<1> QED
  BY <1>5, <1>6 DEF CC!Refuse, CC!Become

\* A command that is filed puts the one under its key out of service.
LEMMA QueueKept ==
  ASSUME IInv, IInv', issued < MaxCommands, issued' = issued + 1,
         NEW e \in Entries, e.cmd = issued + 1, e.acked = FALSE,
         NEW pruned, NEW ok \in BOOLEAN, Queue(e, pruned, ok),
         timed_out' = timed_out
  PROVE  \E c \in Commands : CC!Accept(c)
<1> DEFINE old == {f \in pending : Key(f) = Key(e)}
<1>1. StatusTable /\ StatusTable'
  BY StatusKnown, PTL
<1>2. PICK new \in Commands : new = issued + 1
  BY TimingAssumption DEF IInv, TypeOK, Commands, TimingAssumption
<1>3. /\ issued \in Nat /\ \A c \in Commands : c \in Nat
      /\ \A f \in pending : f.cmd \in Commands
  BY TimingAssumption DEF IInv, TypeOK, Entries, Commands, TimingAssumption
<1>4. /\ pending' = (pending \ old) \cup {e} /\ old \subseteq pending
      /\ events' = events \cup Log(CmdsOf(old), "superseded")
  BY DEF Queue
<1> HIDE DEF old
<1>5. \A c, w : <<c, w>> \in events' <=>
                  \/ <<c, w>> \in events
                  \/ w = "superseded" /\ c \in CmdsOf(old)
  BY <1>4 DEF Log
<1>6. StatusOf(new) = "unsent"
  BY <1>1, <1>2, <1>3 DEF StatusTable
<1>7. StatusOf(new)' = "in_flight"
  <2>1. e \in pending' /\ e.cmd = new
    BY <1>2, <1>4
  <2> QED
    BY <1>1, <2>1 DEF StatusTable
<1>8. ASSUME NEW c \in CmdsOf(old)
      PROVE  /\ c \in Commands /\ c # new
             /\ StatusOf(c) \in {"in_flight", "acked"}
             /\ StatusOf(c)' = "superseded"
  <2>1. PICK f \in old : f.cmd = c
    BY <1>8 DEF CmdsOf
  <2>2. f \in pending /\ c \in Commands
    BY <2>1, <1>3, <1>4
  <2>3. StatusOf(c) \in {"in_flight", "acked"}
    BY <1>1, <2>1, <2>2 DEF StatusTable
  <2>4. <<c, "superseded">> \in events' /\ "superseded" \in Final
    BY <1>5, <1>8 DEF Final
  <2>5. StatusOf(c)' = "superseded"
    BY <1>1, <2>2, <2>4 DEF StatusTable
  <2> QED
    BY <1>6, <2>2, <2>3, <2>5
<1>9. ASSUME NEW c \in Commands, c # new, c \notin CmdsOf(old)
      PROVE  StatusOf(c)' = StatusOf(c)
  <2>1. (c > issued') <=> (c > issued)
    BY <1>2, <1>3, <1>9
  <2>2. \A f \in old \cup {e} : f.cmd # c
    BY <1>2, <1>9 DEF CmdsOf
  <2> QED
    BY <1>4, <1>5, <1>9, <2>1, <2>2, StatusKept
<1>10. CmdsOf(old) \in SUBSET CC!Live
  BY <1>8 DEF CC!Live, CC!Having
<1>11. [c \in Commands |-> StatusOf(c)]'
         = [CC!Become(CmdsOf(old), "superseded") EXCEPT ![new] = "in_flight"]
  BY <1>7, <1>8, <1>9 DEF CC!Become
<1> QED
  BY <1>6, <1>10, <1>11 DEF CC!Accept

\* The first acknowledgement counts; another one tells nothing new.
LEMMA AckKept ==
  ASSUME IInv, IInv', NEW e \in pending,
         pending' = (pending \ {e}) \cup {[e EXCEPT !.acked = TRUE]},
         events' = events \cup Log({e.cmd}, "acked"),
         timed_out' = timed_out, issued' = issued
  PROVE  \/ \E c \in Commands : CC!Acknowledge(c)
         \/ UNCHANGED [c \in Commands |-> StatusOf(c)]
<1> DEFINE d == [e EXCEPT !.acked = TRUE]
<1>1. StatusTable /\ StatusTable'
  BY StatusKnown, PTL
<1>2. /\ e.cmd \in Commands /\ d.cmd = e.cmd /\ d.acked = TRUE
      /\ e.acked \in BOOLEAN /\ (e.acked => d = e)
  BY DEF IInv, TypeOK, Entries
<1>3. pending' = (pending \ {e}) \cup {d}
  OBVIOUS
<1> HIDE DEF d
<1>4. \A c \in Commands, w \in Final : <<c, w>> \in events' <=> <<c, w>> \in events
  BY DEF Log, Final
<1>5. CASE e.acked
  <2>1. pending' = pending
    BY <1>2, <1>3, <1>5
  <2> QED
    BY <1>4, <2>1, StatusKept, StatusUnchanged
<1>6. CASE ~e.acked
  <2>1. StatusOf(e.cmd) = "in_flight"
    BY <1>1, <1>6 DEF StatusTable
  <2>2. StatusOf(e.cmd)' = "acked"
    BY <1>1, <1>2, <1>3 DEF StatusTable
  <2>3. ASSUME NEW c \in Commands, c # e.cmd
        PROVE  StatusOf(c)' = StatusOf(c)
    BY <1>2, <1>3, <1>4, <2>3, StatusKept
  <2> QED
    BY <1>2, <2>1, <2>2, <2>3 DEF CC!Acknowledge, CC!Become
<1> QED
  BY <1>2, <1>5, <1>6

\* A result names at most one entry of the dict.
LEMMA ResultKept ==
  ASSUME IInv, IInv', KeyedOnce, HandleResult
  PROVE  \/ \E c \in Commands : CC!Answer(c)
         \/ UNCHANGED [c \in Commands |-> StatusOf(c)]
<1> DEFINE answered == {e \in pending : Answers(e, frame)}
<1>1. StatusTable /\ StatusTable'
  BY StatusKnown, PTL
<1>2. /\ pending' = pending \ answered
      /\ events' = events \cup Log(CmdsOf(answered), "answered")
      /\ timed_out' = timed_out /\ issued' = issued
  BY DEF HandleResult
<1>3. CASE answered = {}
  <2>1. UNCHANGED <<pending, timed_out, events, issued>>
    BY <1>2, <1>3 DEF Log, CmdsOf
  <2> QED
    BY <2>1, SilentStep
<1>4. ASSUME NEW e \in answered
      PROVE  \E c \in Commands : CC!Answer(c)
  <2>1. answered = {e}
    BY DEF Answers, KeyedOnce
  <2>2. e \in pending /\ e.cmd \in Commands
    BY DEF IInv, TypeOK, Entries
  <2> HIDE DEF answered
  <2>3. \A c, w : <<c, w>> \in events' <=>
                    <<c, w>> \in events \/ (c = e.cmd /\ w = "answered")
    BY <1>2, <2>1 DEF Log, CmdsOf
  <2>4. StatusOf(e.cmd) \in {"in_flight", "acked"}
    BY <1>1, <2>2 DEF StatusTable
  <2>5. StatusOf(e.cmd)' = "answered"
    <3>1. <<e.cmd, "answered">> \in events' /\ "answered" \in Final
      BY <2>3 DEF Final
    <3> QED
      BY <1>1, <2>2, <3>1 DEF StatusTable
  <2>6. ASSUME NEW c \in Commands, c # e.cmd
        PROVE  StatusOf(c)' = StatusOf(c)
    <3>1. /\ (\E f \in pending' : f.cmd = c /\ f.acked)
               <=> (\E f \in pending : f.cmd = c /\ f.acked)
          /\ (\E f \in pending' : f.cmd = c) <=> (\E f \in pending : f.cmd = c)
      BY <1>2, <2>1, <2>6
    <3>2. \A w \in Final : <<c, w>> \in events' <=> <<c, w>> \in events
      BY <2>3, <2>6
    <3> QED
      BY <1>2, <3>1, <3>2, StatusKept
  <2> QED
    BY <2>2, <2>4, <2>5, <2>6 DEF CC!Answer, CC!Live, CC!Having, CC!Become
<1> QED
  BY <1>3, <1>4

\* One report settles one command given up.
LEMMA ReportKept ==
  ASSUME IInv, IInv', NEW e \in timed_out, OnDeliveryTimeout(e)
  PROVE  \E c \in Commands : CC!Report(c)
<1>1. StatusTable /\ StatusTable'
  BY StatusKnown, PTL
<1>2. e.cmd \in Commands
  BY DEF IInv, TypeOK, Entries
<1>3. /\ timed_out' = timed_out \ {e}
      /\ pending' = pending /\ issued' = issued
      /\ \A c, w : <<c, w>> \in events' <=>
                     <<c, w>> \in events \/ (c = e.cmd /\ w = "failed")
  BY DEF OnDeliveryTimeout, Log
<1>4. StatusOf(e.cmd) = "failing"
  BY <1>1 DEF StatusTable
<1>5. StatusOf(e.cmd)' = "failed"
  <2>1. <<e.cmd, "failed">> \in events' /\ "failed" \in Final
    BY <1>3 DEF Final
  <2> QED
    BY <1>1, <1>2, <2>1 DEF StatusTable
<1>6. ASSUME NEW c \in Commands, c # e.cmd
      PROVE  StatusOf(c)' = StatusOf(c)
  BY <1>3, <1>6, StatusKept
<1> QED
  BY <1>2, <1>4, <1>5, <1>6 DEF CC!Report, CC!Become

\* One pass of service() gives up commands that were never acknowledged, and
\* lets go of acknowledged ones, all at once.
LEMMA ServiceKept ==
  ASSUME IInv, IInv', Service
  PROVE  CC!Sweep
<1> DEFINE lost == CmdsOf(GivenUp)
           done == CmdsOf(Finished)
           After(e) == IF e \in Due THEN Resent(e) ELSE e
           S == pending \ (GivenUp \cup Finished)
<1>1. StatusTable /\ StatusTable'
  BY StatusKnown, PTL
<1>2. /\ timed_out = {} /\ timed_out' = GivenUp
      /\ issued' = issued /\ events' = events
  BY DEF Service
<1>3. /\ GivenUp \subseteq pending /\ Finished \subseteq pending
      /\ \A e \in GivenUp : ~e.acked
      /\ \A e \in Finished : e.acked
      /\ \A e, f \in pending : e.cmd = f.cmd => e = f
      /\ \A e \in pending : e.cmd \in Commands /\ e.cmd <= issued
      /\ \A e \in pending : \A w \in Final : <<e.cmd, w>> \notin events
  BY DEF GivenUp, Finished, IInv, Fates, OneEntry, Undecided, TypeOK, Entries
<1>4. \A f : f \in pending' <=> \E e \in S : f = After(e)
  <2>1. PICK failing \in SUBSET Due : pending' = Kept \cup Retried(failing)
    BY DEF Service
  <2>2. Due \subseteq S
    BY DEF Due, Finished
  <2>3. Kept = S \ Due /\ Retried(failing) = {Resent(e) : e \in Due}
    BY DEF Kept, Retried
  <2> QED
    BY <2>1, <2>2, <2>3
<1>5. \A e \in S : After(e).cmd = e.cmd /\ After(e).acked = e.acked
  <2>1. \A e \in Entries : Resent(e).cmd = e.cmd /\ Resent(e).acked = e.acked
    BY DEF Resent, Entries
  <2> QED
    BY <2>1 DEF IInv, TypeOK
<1>6. \A e \in S : e \in pending /\ e \notin GivenUp /\ e \notin Finished
  OBVIOUS
<1>7. \A e \in pending : e \in S \/ e \in GivenUp \/ e \in Finished
  OBVIOUS
<1> HIDE DEF After, S
<1>8. ASSUME NEW e \in GivenUp
      PROVE  StatusOf(e.cmd) = "in_flight" /\ StatusOf(e.cmd)' = "failing"
  BY <1>1, <1>2, <1>3, <1>8 DEF StatusTable
<1>9. ASSUME NEW e \in Finished
      PROVE  /\ StatusOf(e.cmd) = "acked" /\ StatusOf(e.cmd)' = "dropped"
             /\ e.cmd \notin lost
  <2>1. StatusOf(e.cmd) = "acked"
    BY <1>1, <1>3, <1>9 DEF StatusTable
  <2>2. \A f \in pending' \cup timed_out' : f.cmd # e.cmd
    BY <1>2, <1>3, <1>4, <1>5, <1>6, <1>9
  <2>3. e.cmd \in Commands /\ e.cmd <= issued'
    BY <1>2, <1>3, <1>9
  <2>4. \A w \in Final : <<e.cmd, w>> \notin events'
    BY <1>2, <1>3, <1>9
  <2>5. StatusOf(e.cmd)' = "dropped"
    BY <1>1, <2>2, <2>3, <2>4 DEF StatusTable
  <2>6. e.cmd \notin lost
    BY <1>3, <1>9 DEF CmdsOf
  <2> QED
    BY <2>1, <2>5, <2>6
<1>10. ASSUME NEW c \in Commands, c \notin lost, c \notin done
       PROVE  StatusOf(c)' = StatusOf(c)
  <2>1. \A e \in GivenUp \cup Finished : e.cmd # c
    BY <1>10 DEF CmdsOf
  <2>2. \A e \in pending : e.cmd = c => e \in S
    BY <1>7, <2>1
  <2>3. (\E e \in pending' : e.cmd = c) <=> (\E e \in pending : e.cmd = c)
    BY <1>4, <1>5, <1>6, <2>2
  <2>4. (\E e \in pending' : e.cmd = c /\ e.acked)
          <=> (\E e \in pending : e.cmd = c /\ e.acked)
    BY <1>4, <1>5, <1>6, <2>2
  <2>5. (\E e \in timed_out' : e.cmd = c) <=> (\E e \in timed_out : e.cmd = c)
    BY <1>2, <2>1
  <2> QED
    BY <1>2, <2>3, <2>4, <2>5, StatusKept
<1>11. lost \in SUBSET CC!Having("in_flight") /\ done \in SUBSET CC!Having("acked")
  BY <1>3, <1>8, <1>9 DEF CmdsOf, CC!Having
<1>12. ASSUME NEW c \in Commands
       PROVE  StatusOf(c)' = IF c \in lost THEN "failing"
                             ELSE IF c \in done THEN "dropped" ELSE StatusOf(c)
  <2>1. CASE c \in lost
    BY <1>8, <2>1 DEF CmdsOf
  <2>2. CASE c \in done
    BY <1>9, <2>2 DEF CmdsOf
  <2>3. CASE c \notin lost /\ c \notin done
    BY <1>10, <2>3
  <2> QED
    BY <2>1, <2>2, <2>3
<1> HIDE DEF lost, done
<1> QED
  BY <1>11, <1>12 DEF CC!Sweep

LEMMA TickKept ==
  ASSUME IInv, Tick
  PROVE  UNCHANGED [c \in Commands |-> StatusOf(c)]
<1>1. /\ \A f : f \in pending' <=> \E e \in pending : f = Aged(e)
      /\ UNCHANGED <<timed_out, events, issued>>
  BY DEF Tick
<1>2. \A e \in pending : Aged(e).cmd = e.cmd /\ Aged(e).acked = e.acked
  <2>1. \A e \in Entries : Aged(e).cmd = e.cmd /\ Aged(e).acked = e.acked
    BY DEF Aged, Entries
  <2> QED
    BY <2>1 DEF IInv, TypeOK
<1>3. ASSUME NEW c \in Commands
      PROVE  StatusOf(c)' = StatusOf(c)
  <2>1. /\ (\E e \in pending' : e.cmd = c) <=> (\E e \in pending : e.cmd = c)
        /\ (\E e \in pending' : e.cmd = c /\ e.acked)
             <=> (\E e \in pending : e.cmd = c /\ e.acked)
    BY <1>1, <1>2
  <2> QED
    BY <1>1, <2>1, StatusKept
<1> QED
  BY <1>3, StatusUnchanged

LEMMA RewrittenKey ==
  ASSUME NEW e \in Entries
  PROVE  /\ Key([e EXCEPT !.acked = TRUE]) = Key(e)
         /\ Key(Resent(e)) = Key(e) /\ Key(Aged(e)) = Key(e)
BY DEF Key, Resent, Aged, Entries

\* Filing a command removes the entry under its key; everything else keeps
\* the keys of the entries it rewrites.
LEMMA KeyedOnceStep ==
  ASSUME TypeOK, KeyedOnce, [Next]_vars
  PROVE  KeyedOnce'
<1>1. pending \subseteq Entries
  BY DEF TypeOK
<1>2. ASSUME pending' \subseteq pending
      PROVE  KeyedOnce'
  BY <1>2 DEF KeyedOnce, Key
<1>3. ASSUME NEW e, NEW pruned, NEW ok, Queue(e, pruned, ok)
      PROVE  KeyedOnce'
  <2>1. pending' = {f \in pending : Key(f) # Key(e)} \cup {e}
    BY <1>3 DEF Queue
  <2> QED
    BY <2>1 DEF KeyedOnce, Key
<1>4. CASE HandleAck
  <2>1. CASE UNCHANGED pending
    BY <1>2, <2>1
  <2>2. ASSUME NEW e \in pending,
               pending' = (pending \ {e}) \cup {[e EXCEPT !.acked = TRUE]}
        PROVE  KeyedOnce'
    <3> DEFINE d == [e EXCEPT !.acked = TRUE]
    <3>1. Key(d) = Key(e)
      BY <1>1, RewrittenKey
    <3>2. pending' = (pending \ {e}) \cup {d}
      BY <2>2
    <3> HIDE DEF d
    <3> QED
      BY <3>1, <3>2 DEF KeyedOnce, Key
  <2> QED
    BY <1>4, <2>1, <2>2 DEF HandleAck
<1>5. CASE Service
  <2> DEFINE After(e) == IF e \in Due THEN Resent(e) ELSE e
  <2>1. PICK failing \in SUBSET Due : pending' = Kept \cup Retried(failing)
    BY <1>5 DEF Service
  <2>2. Due \subseteq pending /\ Kept \subseteq pending \ Due
    BY DEF Due, Kept
  <2>3. \A f \in pending' : \E e \in pending : f = After(e)
    BY <2>1, <2>2 DEF Retried
  <2>4. \A e \in pending : Key(After(e)) = Key(e)
    BY <1>1, RewrittenKey
  <2> HIDE DEF After
  <2>5. \A f, g \in pending' : Key(f) = Key(g) => f = g
    BY <2>3, <2>4 DEF KeyedOnce
  <2> QED
    BY <2>5 DEF KeyedOnce, Key
<1>6. CASE Tick
  <2>1. \A f \in pending' : \E e \in pending : f = Aged(e)
    BY <1>6 DEF Tick
  <2>2. \A e \in pending : Key(Aged(e)) = Key(e)
    BY <1>1, RewrittenKey
  <2>3. \A f, g \in pending' : Key(f) = Key(g) => f = g
    BY <2>1, <2>2 DEF KeyedOnce
  <2> QED
    BY <2>3 DEF KeyedOnce, Key
<1> QED
  <2>1. CASE \E u \in Devices, r \in Rids, life \in Lifetimes : OnCommand(u, r, life)
    BY <2>1, <1>2, <1>3 DEF OnCommand, Refuse
  <2>2. CASE \E u \in Devices, a \in Addrs, r \in RequestIds, life \in Lifetimes :
               SendCommandTo(u, a, r, life)
    BY <2>2, <1>3 DEF SendCommandTo
  <2>3. CASE \/ \E u \in Devices, a \in Addrs : ReceiveStatus(u, a)
             \/ \E p \in sent, a \in Addrs, named \in BOOLEAN :
                  ReceiveAck(p, a, named)
             \/ \E p \in sent, a \in Addrs : ReceiveResult(p, a)
    BY <2>3, <1>2 DEF ReceiveStatus, ReceiveAck, ReceiveResult, HearFrom
  <2>4. CASE HandleResult \/ Snapshot \/ (\E e \in timed_out : OnDeliveryTimeout(e))
    BY <2>4, <1>2 DEF HandleResult, Snapshot, OnDeliveryTimeout
  <2>5. CASE UNCHANGED vars
    BY <2>5, <1>2 DEF vars
  <2> QED
    BY <1>4, <1>5, <1>6, <2>1, <2>2, <2>3, <2>4, <2>5 DEF Next

\* Each step of the dispatcher is one of the contract's, or none at all.
LEMMA ContractStep ==
  ASSUME IInv, IInv', KeyedOnce, [Next]_vars
  PROVE  [CC!Next]_([c \in Commands |-> StatusOf(c)])
<1> DEFINE Silent == UNCHANGED [c \in Commands |-> StatusOf(c)]
<1>1. ASSUME NEW u \in Devices, NEW r \in Rids, NEW life \in Lifetimes,
             OnCommand(u, r, life)
      PROVE  CC!Next
  <2>1. issued < MaxCommands /\ issued' = issued + 1 /\ timed_out' = timed_out
    BY <1>1 DEF OnCommand
  <2>2. CASE Refuse
    BY <2>1, <2>2, RefuseKept DEF CC!Next
  <2>3. ASSUME sessions[u] # NoAddr, NEW ok \in BOOLEAN,
               Queue(NewEntry(u, sessions[u], r, life), Stale, ok)
        PROVE  CC!Next
    <3>1. sessions[u] \in Addrs
      BY <2>3 DEF IInv, TypeOK
    <3>2. NewEntry(u, sessions[u], r, life) \in Entries
      BY <2>1, <3>1, NewEntryType DEF IInv, TypeOK
    <3>3. /\ NewEntry(u, sessions[u], r, life).cmd = issued + 1
          /\ NewEntry(u, sessions[u], r, life).acked = FALSE
      BY DEF NewEntry
    <3> QED
      BY <2>1, <2>3, <3>2, <3>3, QueueKept DEF CC!Next
  <2> QED
    BY <1>1, <2>2, <2>3 DEF OnCommand
<1>2. ASSUME NEW u \in Devices, NEW a \in Addrs, NEW r \in RequestIds,
             NEW life \in Lifetimes, SendCommandTo(u, a, r, life)
      PROVE  CC!Next
  <2>1. issued < MaxCommands /\ issued' = issued + 1 /\ timed_out' = timed_out
    BY <1>2 DEF SendCommandTo
  <2>2. r \in Rids
    BY DEF Rids
  <2>3. NewEntry(u, a, r, life) \in Entries
    BY <2>1, <2>2, NewEntryType DEF IInv, TypeOK
  <2>4. NewEntry(u, a, r, life).cmd = issued + 1
        /\ NewEntry(u, a, r, life).acked = FALSE
    BY DEF NewEntry
  <2>5. PICK ok \in BOOLEAN : Queue(NewEntry(u, a, r, life), {}, ok)
    BY <1>2 DEF SendCommandTo
  <2> QED
    BY <2>1, <2>3, <2>4, <2>5, QueueKept DEF CC!Next
<1>3. CASE HandleAck
  <2>1. timed_out' = timed_out /\ issued' = issued
    BY <1>3 DEF HandleAck
  <2>2. CASE UNCHANGED <<pending, events>>
    BY <2>1, <2>2, SilentStep
  <2>3. ASSUME NEW e \in pending,
               pending' = (pending \ {e}) \cup {[e EXCEPT !.acked = TRUE]},
               events' = events \cup Log({e.cmd}, "acked")
        PROVE  CC!Next \/ Silent
    BY <2>1, <2>3, AckKept DEF CC!Next
  <2> QED
    BY <1>3, <2>2, <2>3 DEF HandleAck
<1>4. CASE HandleResult
  BY <1>4, ResultKept DEF CC!Next
<1>5. CASE Service
  BY <1>5, ServiceKept DEF CC!Next
<1>6. ASSUME NEW e \in timed_out, OnDeliveryTimeout(e)
      PROVE  CC!Next
  BY <1>6, ReportKept DEF CC!Next
<1>7. CASE Tick
  BY <1>7, TickKept
<1>8. CASE \/ \E u \in Devices, a \in Addrs : ReceiveStatus(u, a)
           \/ \E p \in sent, a \in Addrs, named \in BOOLEAN :
                ReceiveAck(p, a, named)
           \/ \E p \in sent, a \in Addrs : ReceiveResult(p, a)
           \/ Snapshot \/ UNCHANGED vars
  <2>1. UNCHANGED <<pending, timed_out, events, issued>>
    BY <1>8 DEF ReceiveStatus, ReceiveAck, ReceiveResult, HearFrom, Snapshot, vars
  <2> QED
    BY <2>1, SilentStep
<1> QED
  BY <1>1, <1>2, <1>3, <1>4, <1>5, <1>6, <1>7, <1>8 DEF Next

\* The dispatcher implements the contract: for any devices, commands and
\* limits, what happens to a command is what CommandContract allows.
THEOREM ContractHolds == Spec => Contract
<1>1. Init => CC!Init
  <2> SUFFICES ASSUME Init PROVE CC!Init
    OBVIOUS
  <2>1. \A c \in Commands : c > issued
    BY DEF Init, Commands
  <2>2. \A c \in Commands : StatusOf(c) = "unsent"
    BY <2>1 DEF StatusOf
  <2> QED
    BY <2>2 DEF CC!Init
<1>2. Init => KeyedOnce
  BY DEF Init, KeyedOnce
<1>3. TypeOK /\ KeyedOnce /\ [Next]_vars => KeyedOnce'
  BY KeyedOnceStep
<1>4. IInv /\ IInv' /\ KeyedOnce /\ [Next]_vars
        => [CC!Next]_([c \in Commands |-> StatusOf(c)])
  BY ContractStep
<1> QED
  BY Inductive, TypeCorrect, <1>1, <1>2, <1>3, <1>4, PTL
     DEF Spec, Contract, CC!Spec

-----------------------------------------------------------------------------
(* Acknowledgements find their command, until sequence numbers wrap *)

\* Sequence numbers are given out in ascending order.
Numbered ==
  \/ seq \in {0, SeqMax} /\ pending = {} /\ sent = {} /\ frame = NoFrame
  \/ /\ seq \in 1..issued
     /\ \A e \in pending : e.seq <= seq
     /\ \A p \in sent : p.seq <= seq
     /\ frame # NoFrame => frame.seq <= seq

OneSeq == \A e, f \in pending : e.seq = f.seq => e = f

\* Packets and frames under way that carry the number of an entry are about
\* its device and its request.
Addressed ==
  \A e \in pending :
    /\ \A p \in sent : p.seq = e.seq => p.uid = e.uid /\ p.rid = e.rid
    /\ frame # NoFrame /\ frame.seq = e.seq =>
         frame.uid = e.uid /\ frame.rid \in {NoRequest, e.rid}

Numbering == Numbered /\ OneSeq /\ Addressed

\* A new command takes the next number, which nothing under way carries.
LEMMA QueueNumbering ==
  ASSUME TypeOK, Numbering, MaxCommands <= SeqMax,
         issued < MaxCommands, issued' = issued + 1,
         NEW u, NEW a, NEW r, NEW life, NEW pruned, NEW ok \in BOOLEAN,
         Queue(NewEntry(u, a, r, life), pruned, ok), UNCHANGED frame
  PROVE  Numbering'
<1> DEFINE e == NewEntry(u, a, r, life)
<1>1. /\ seq' = NextSeq /\ e.seq = NextSeq
      /\ Packet(e).uid = e.uid /\ Packet(e).rid = e.rid /\ Packet(e).seq = e.seq
  BY DEF Queue, NewEntry, Packet
<1>2. /\ \A f \in pending' : f \in pending \/ f = e
      /\ \A p \in sent' : p \in sent \/ p = Packet(e)
  BY DEF Queue
<1>3. /\ issued \in Nat /\ SeqMax \in Nat \ {0} /\ seq \in Nat
      /\ \A f \in pending : f.seq \in Nat
      /\ \A p \in sent : p.seq \in Nat
      /\ frame # NoFrame => frame.seq \in Nat
  BY TimingAssumption DEF TypeOK, Entries, Packets, Frames, TimingAssumption
<1>4. MaxCommands \in Nat
  BY TimingAssumption DEF TimingAssumption
<1>5. /\ NextSeq \in 1..(issued + 1)
      /\ \A f \in pending : f.seq < NextSeq
      /\ \A p \in sent : p.seq < NextSeq
      /\ frame # NoFrame => frame.seq < NextSeq
  <2>1. CASE seq \in {0, SeqMax} /\ pending = {} /\ sent = {} /\ frame = NoFrame
    BY <1>3, <2>1 DEF NextSeq
  <2>2. CASE /\ seq \in 1..issued
             /\ \A f \in pending : f.seq <= seq
             /\ \A p \in sent : p.seq <= seq
             /\ frame # NoFrame => frame.seq <= seq
    <3>1. seq < SeqMax /\ NextSeq = seq + 1
      BY <1>3, <1>4, <2>2 DEF NextSeq
    <3> QED
      BY <1>3, <2>2, <3>1
  <2> QED
    BY <2>1, <2>2 DEF Numbering, Numbered
<1> HIDE DEF e
<1>6. Numbered'
  <2>1. /\ \A f \in pending' : f.seq <= NextSeq
        /\ \A p \in sent' : p.seq <= NextSeq
    BY <1>1, <1>2, <1>3, <1>5
  <2>2. frame # NoFrame => frame.seq <= NextSeq
    BY <1>3, <1>5
  <2> QED
    BY <1>1, <1>5, <2>1, <2>2 DEF Numbered
<1>7. OneSeq'
  <2>1. \A f \in pending : f.seq # e.seq
    BY <1>1, <1>3, <1>5
  <2> QED
    BY <1>2, <2>1 DEF Numbering, OneSeq
<1>8. Addressed'
  <2>1. /\ \A f \in pending : f.seq # e.seq
        /\ \A p \in sent : p.seq # e.seq
        /\ frame # NoFrame => frame.seq # e.seq
    BY <1>1, <1>3, <1>5
  <2>2. ASSUME NEW f \in pending', NEW p \in sent', p.seq = f.seq
        PROVE  p.uid = f.uid /\ p.rid = f.rid
    <3>1. CASE f = e
      BY <1>1, <1>2, <2>1, <2>2, <3>1
    <3>2. CASE f # e
      <4>1. f \in pending /\ p \in sent
        BY <1>1, <1>2, <2>1, <2>2, <3>2
      <4> QED
        BY <2>2, <4>1 DEF Numbering, Addressed
    <3> QED
      BY <3>1, <3>2
  <2>3. ASSUME NEW f \in pending', frame # NoFrame, frame.seq = f.seq
        PROVE  frame.uid = f.uid /\ frame.rid \in {NoRequest, f.rid}
    <3>1. f \in pending
      BY <1>2, <2>1, <2>3
    <3> QED
      BY <2>3, <3>1 DEF Numbering, Addressed
  <2> QED
    BY <2>2, <2>3 DEF Addressed
<1> QED
  BY <1>6, <1>7, <1>8 DEF Numbering

\* What rewrites entries, drops some and sends their packets again keeps the
\* numbers as they are.
LEMMA RewriteNumbering ==
  ASSUME TypeOK, Numbering,
         \A f \in pending' : \E e \in pending :
           f.uid = e.uid /\ f.rid = e.rid /\ f.seq = e.seq,
         \A f, g \in pending' : f.seq = g.seq => f = g,
         \A p \in sent' : p \in sent \/ \E e \in pending : p = Packet(e),
         frame' \in {frame, NoFrame}, UNCHANGED <<seq, issued>>
  PROVE  Numbering'
<1>1. ASSUME NEW e \in pending
      PROVE  Packet(e).uid = e.uid /\ Packet(e).rid = e.rid /\ Packet(e).seq = e.seq
  BY DEF Packet
<1>2. Numbered'
  <2>1. CASE seq \in {0, SeqMax} /\ pending = {} /\ sent = {} /\ frame = NoFrame
    <3>1. pending' = {} /\ sent' = {} /\ frame' = NoFrame
      BY <2>1
    <3> QED
      BY <2>1, <3>1 DEF Numbered
  <2>2. CASE /\ seq \in 1..issued
             /\ \A f \in pending : f.seq <= seq
             /\ \A p \in sent : p.seq <= seq
             /\ frame # NoFrame => frame.seq <= seq
    <3>1. /\ \A f \in pending' : f.seq <= seq
          /\ \A p \in sent' : p.seq <= seq
          /\ frame' # NoFrame => frame'.seq <= seq
      BY <1>1, <2>2
    <3> QED
      BY <2>2, <3>1 DEF Numbered
  <2> QED
    BY <2>1, <2>2 DEF Numbering, Numbered
<1>3. OneSeq'
  BY DEF OneSeq
<1>4. Addressed'
  <2>1. ASSUME NEW f \in pending', NEW p \in sent', p.seq = f.seq
        PROVE  p.uid = f.uid /\ p.rid = f.rid
    <3>1. PICK e \in pending : f.uid = e.uid /\ f.rid = e.rid /\ f.seq = e.seq
      OBVIOUS
    <3>2. CASE p \in sent
      BY <2>1, <3>1, <3>2 DEF Numbering, Addressed
    <3>3. ASSUME NEW g \in pending, p = Packet(g)
          PROVE  p.uid = f.uid /\ p.rid = f.rid
      <4>1. g = e
        BY <1>1, <2>1, <3>1, <3>3 DEF Numbering, OneSeq
      <4> QED
        BY <1>1, <3>1, <3>3, <4>1
    <3> QED
      BY <3>2, <3>3
  <2>2. ASSUME NEW f \in pending', frame' # NoFrame, frame'.seq = f.seq
        PROVE  frame'.uid = f.uid /\ frame'.rid \in {NoRequest, f.rid}
    <3>1. frame' = frame
      BY <2>2
    <3> QED
      BY <2>2, <3>1 DEF Numbering, Addressed
  <2> QED
    BY <2>1, <2>2 DEF Addressed
<1> QED
  BY <1>2, <1>3, <1>4 DEF Numbering

\* A frame answers a packet, and says nothing of a request but its own.
LEMMA HeardNumbering ==
  ASSUME TypeOK, Numbering, NEW p \in sent,
         UNCHANGED <<pending, sent, seq, issued>>,
         frame'.uid = p.uid, frame'.seq = p.seq,
         frame'.rid \in {NoRequest, p.rid}
  PROVE  Numbering'
<1>1. Numbered'
  <2>1. /\ seq \in 1..issued
        /\ \A e \in pending : e.seq <= seq
        /\ \A q \in sent : q.seq <= seq
    BY DEF Numbering, Numbered
  <2> QED
    BY <2>1 DEF Numbered
<1>2. OneSeq'
  BY DEF Numbering, OneSeq
<1>3. Addressed'
  BY DEF Numbering, Addressed
<1> QED
  BY <1>1, <1>2, <1>3 DEF Numbering

LEMMA RefuseNumbering ==
  ASSUME TypeOK, Numbering, UNCHANGED <<pending, seq, sent, frame>>,
         issued' = issued + 1
  PROVE  Numbering'
<1>1. issued \in Nat
  BY DEF TypeOK
<1>2. seq \in 1..issued => seq \in 1..(issued + 1)
  BY <1>1
<1>3. Numbered'
  BY <1>2 DEF Numbering, Numbered
<1> QED
  BY <1>3 DEF Numbering, OneSeq, Addressed

\* Entries that are only taken out.
LEMMA FewerNumbering ==
  ASSUME TypeOK, Numbering, pending' \subseteq pending, frame' \in {frame, NoFrame},
         UNCHANGED <<sent, seq, issued>>
  PROVE  Numbering'
<1>1. /\ \A f \in pending' : \E e \in pending :
           f.uid = e.uid /\ f.rid = e.rid /\ f.seq = e.seq
      /\ \A f, g \in pending' : f.seq = g.seq => f = g
  BY DEF Numbering, OneSeq
<1> QED
  BY <1>1, RewriteNumbering

LEMMA RewrittenNames ==
  ASSUME NEW e \in Entries
  PROVE  /\ LET d == [e EXCEPT !.acked = TRUE]
            IN  d.uid = e.uid /\ d.rid = e.rid /\ d.seq = e.seq /\ d.cmd = e.cmd
                  /\ d.acked
         /\ Resent(e).uid = e.uid /\ Resent(e).rid = e.rid /\ Resent(e).seq = e.seq
         /\ Aged(e).uid = e.uid /\ Aged(e).rid = e.rid /\ Aged(e).seq = e.seq
BY DEF Resent, Aged, Entries

LEMMA NumberingStep ==
  ASSUME MaxCommands <= SeqMax, TypeOK, Numbering, [Next]_vars
  PROVE  Numbering'
<1>0. pending \subseteq Entries
  BY DEF TypeOK
<1>1. ASSUME NEW u \in Devices, NEW r \in Rids, NEW life \in Lifetimes,
             OnCommand(u, r, life)
      PROVE  Numbering'
  <2>1. issued < MaxCommands /\ issued' = issued + 1 /\ UNCHANGED frame
    BY <1>1 DEF OnCommand
  <2>2. CASE Refuse
    <3>1. UNCHANGED <<pending, seq, sent, frame>>
      BY <2>1, <2>2 DEF Refuse
    <3> QED
      BY <2>1, <3>1, RefuseNumbering
  <2>3. ASSUME NEW ok \in BOOLEAN,
               Queue(NewEntry(u, sessions[u], r, life), Stale, ok)
        PROVE  Numbering'
    BY <2>1, <2>3, QueueNumbering
  <2> QED
    BY <1>1, <2>2, <2>3 DEF OnCommand
<1>2. ASSUME NEW u \in Devices, NEW a \in Addrs, NEW r \in RequestIds,
             NEW life \in Lifetimes, SendCommandTo(u, a, r, life)
      PROVE  Numbering'
  <2>1. issued < MaxCommands /\ issued' = issued + 1 /\ UNCHANGED frame
    BY <1>2 DEF SendCommandTo
  <2>2. PICK ok \in BOOLEAN : Queue(NewEntry(u, a, r, life), {}, ok)
    BY <1>2 DEF SendCommandTo
  <2> QED
    BY <2>1, <2>2, QueueNumbering
<1>3. ASSUME NEW p \in sent, NEW a \in Addrs, NEW named \in BOOLEAN,
             ReceiveAck(p, a, named)
      PROVE  Numbering'
  <2>1. /\ UNCHANGED <<pending, sent, seq, issued>>
        /\ frame' = [kind |-> "ack", uid |-> p.uid, seq |-> p.seq,
                     rid |-> IF named THEN p.rid ELSE NoRequest]
    BY <1>3 DEF ReceiveAck, HearFrom
  <2>2. /\ frame'.uid = p.uid /\ frame'.seq = p.seq
        /\ frame'.rid \in {NoRequest, p.rid}
    BY <2>1
  <2> QED
    BY <2>1, <2>2, HeardNumbering
<1>4. ASSUME NEW p \in sent, NEW a \in Addrs, ReceiveResult(p, a)
      PROVE  Numbering'
  <2>1. /\ UNCHANGED <<pending, sent, seq, issued>>
        /\ frame' = [kind |-> "result", uid |-> p.uid, rid |-> p.rid, seq |-> p.seq]
    BY <1>4 DEF ReceiveResult, HearFrom
  <2>2. frame'.uid = p.uid /\ frame'.seq = p.seq /\ frame'.rid = p.rid
    BY <2>1
  <2> QED
    BY <2>1, <2>2, HeardNumbering
<1>5. CASE HandleAck
  <2>1. frame' = NoFrame /\ UNCHANGED <<sent, seq, issued>>
    BY <1>5 DEF HandleAck
  <2>2. CASE UNCHANGED pending
    BY <2>1, <2>2, FewerNumbering
  <2>3. ASSUME NEW e \in pending,
               pending' = (pending \ {e}) \cup {[e EXCEPT !.acked = TRUE]}
        PROVE  Numbering'
    <3> DEFINE d == [e EXCEPT !.acked = TRUE]
    <3>1. d.uid = e.uid /\ d.rid = e.rid /\ d.seq = e.seq
      BY <1>0, RewrittenNames
    <3>2. pending' = (pending \ {e}) \cup {d}
      BY <2>3
    <3> HIDE DEF d
    <3>3. /\ \A f \in pending' : \E g \in pending :
               f.uid = g.uid /\ f.rid = g.rid /\ f.seq = g.seq
          /\ \A f, g \in pending' : f.seq = g.seq => f = g
      BY <3>1, <3>2 DEF Numbering, OneSeq
    <3> QED
      BY <2>1, <3>3, RewriteNumbering
  <2> QED
    BY <1>5, <2>2, <2>3 DEF HandleAck
<1>6. CASE Service
  <2> DEFINE After(e) == IF e \in Due THEN Resent(e) ELSE e
  <2>1. PICK failing \in SUBSET Due :
          /\ pending' = Kept \cup Retried(failing)
          /\ sent' = sent \cup {Packet(e) : e \in Due \ failing}
    BY <1>6 DEF Service
  <2>2. Due \subseteq pending /\ Kept \subseteq pending \ Due
    BY DEF Due, Kept
  <2>3. \A f \in pending' : \E e \in pending : f = After(e)
    BY <2>1, <2>2 DEF Retried
  <2>4. \A e \in pending : /\ After(e).uid = e.uid /\ After(e).rid = e.rid
                           /\ After(e).seq = e.seq
    BY <1>0, RewrittenNames
  <2>5. \A p \in sent' : p \in sent \/ \E e \in pending : p = Packet(e)
    BY <2>1, <2>2
  <2> HIDE DEF After
  <2>6. /\ \A f \in pending' : \E e \in pending :
             f.uid = e.uid /\ f.rid = e.rid /\ f.seq = e.seq
        /\ \A f, g \in pending' : f.seq = g.seq => f = g
    BY <2>3, <2>4 DEF Numbering, OneSeq
  <2>7. frame' = frame /\ UNCHANGED <<seq, issued>>
    BY <1>6 DEF Service
  <2> QED
    BY <2>5, <2>6, <2>7, RewriteNumbering
<1>7. CASE Tick
  <2>1. \A f \in pending' : \E e \in pending : f = Aged(e)
    BY <1>7 DEF Tick
  <2>2. \A e \in pending : /\ Aged(e).uid = e.uid /\ Aged(e).rid = e.rid
                           /\ Aged(e).seq = e.seq
    BY <1>0, RewrittenNames
  <2>3. /\ \A f \in pending' : \E e \in pending :
             f.uid = e.uid /\ f.rid = e.rid /\ f.seq = e.seq
        /\ \A f, g \in pending' : f.seq = g.seq => f = g
    BY <2>1, <2>2 DEF Numbering, OneSeq
  <2>4. frame' = frame /\ UNCHANGED <<sent, seq, issued>>
    BY <1>7 DEF Tick
  <2> QED
    BY <2>3, <2>4, RewriteNumbering
<1>8. CASE \/ HandleResult \/ Snapshot \/ UNCHANGED vars
           \/ \E e \in timed_out : OnDeliveryTimeout(e)
           \/ \E u \in Devices, a \in Addrs : ReceiveStatus(u, a)
  <2>1. /\ pending' \subseteq pending /\ frame' \in {frame, NoFrame}
        /\ UNCHANGED <<sent, seq, issued>>
    BY <1>8 DEF HandleResult, Snapshot, OnDeliveryTimeout, ReceiveStatus, HearFrom,
       vars
  <2> QED
    BY <2>1, FewerNumbering
<1> QED
  BY <1>1, <1>2, <1>3, <1>4, <1>5, <1>6, <1>7, <1>8 DEF Next

\* The entry an acknowledgement marks is the one its packet was sent for.
LEMMA AckFindsCommand ==
  ASSUME TypeOK, KeyedOnce, Numbering, [Next]_vars,
         frame # NoFrame, frame.kind = "ack", frame' = NoFrame
  PROVE  /\ \A e \in pending :
              e.uid = frame.uid /\ e.seq = frame.seq =>
                \E f \in pending' : f.cmd = e.cmd /\ f.acked
         /\ \A f \in pending' :
              f.acked /\ f \notin pending =>
                f.uid = frame.uid /\ frame.rid \in {NoRequest, f.rid}
<1>1. HandleAck
  BY DEF Next, vars, OnCommand, SendCommandTo, ReceiveStatus, ReceiveAck,
     ReceiveResult, HandleResult, Service, OnDeliveryTimeout, Snapshot, Tick
<1>2. CASE (\A e \in pending : ~Matches(e, frame)) /\ UNCHANGED pending
  BY <1>2 DEF Matches
<1>3. ASSUME NEW e \in pending, Matches(e, frame),
             pending' = (pending \ {e}) \cup {[e EXCEPT !.acked = TRUE]}
      PROVE  /\ \A g \in pending :
                  g.uid = frame.uid /\ g.seq = frame.seq =>
                    \E f \in pending' : f.cmd = g.cmd /\ f.acked
             /\ \A f \in pending' :
                  f.acked /\ f \notin pending =>
                    f.uid = frame.uid /\ frame.rid \in {NoRequest, f.rid}
  <2> DEFINE d == [e EXCEPT !.acked = TRUE]
  <2>1. /\ d.uid = e.uid /\ d.rid = e.rid /\ d.seq = e.seq /\ d.cmd = e.cmd
        /\ d.acked
    BY RewrittenNames DEF TypeOK
  <2>2. pending' = (pending \ {e}) \cup {d}
    BY <1>3
  <2> HIDE DEF d
  <2>3. e.uid = frame.uid /\ frame.rid \in {NoRequest, e.rid}
    BY <1>3 DEF Matches, Numbering, Addressed
  <2>4. ASSUME NEW g \in pending, g.uid = frame.uid, g.seq = frame.seq
        PROVE  g = e
    <3>1. CASE e.seq = frame.seq
      BY <2>4, <3>1 DEF Numbering, OneSeq
    <3>2. CASE frame.rid # NoRequest /\ e.rid = frame.rid
      <4>1. frame.rid = g.rid
        BY <2>4, <3>2 DEF Numbering, Addressed
      <4>2. Key(g) = Key(e)
        BY <2>3, <2>4, <3>2, <4>1 DEF Key
      <4> QED
        BY <4>2 DEF KeyedOnce
    <3> QED
      BY <1>3, <3>1, <3>2 DEF Matches
  <2> QED
    BY <2>1, <2>2, <2>3, <2>4
<1> QED
  BY <1>1, <1>2, <1>3 DEF HandleAck

\* As long as no more commands were handed over than there are sequence
\* numbers, an acknowledgement marks the command its packet was sent for,
\* however late it is, and never that of another device or request.
THEOREM AckReachesItsCommandAlways ==
  MaxCommands <= SeqMax => (Spec => AckReachesItsCommand)
<1> SUFFICES ASSUME MaxCommands <= SeqMax PROVE Spec => AckReachesItsCommand
  OBVIOUS
<1>1. Init => KeyedOnce /\ Numbering
  BY DEF Init, KeyedOnce, Numbering, Numbered, OneSeq, Addressed
<1>2. TypeOK /\ KeyedOnce /\ Numbering /\ [Next]_vars => (KeyedOnce /\ Numbering)'
  BY KeyedOnceStep, NumberingStep
<1>3. TypeOK /\ KeyedOnce /\ Numbering /\ [Next]_vars =>
        [frame # NoFrame /\ frame.kind = "ack" /\ frame' = NoFrame =>
           /\ \A e \in pending :
                e.uid = frame.uid /\ e.seq = frame.seq =>
                  \E f \in pending' : f.cmd = e.cmd /\ f.acked
           /\ \A f \in pending' :
                f.acked /\ f \notin pending =>
                  f.uid = frame.uid /\ frame.rid \in {NoRequest, f.rid}]_vars
  BY AckFindsCommand
<1> QED
  BY TypeCorrect, <1>1, <1>2, <1>3, PTL DEF Spec, AckReachesItsCommand
=============================================================================
