------------------------- MODULE ResultChunksProofs -------------------------
(***************************************************************************)
(* Proofs about the reassembly of chunked results: the values of the       *)
(* variables, and that what is handed on is whole.                         *)
(***************************************************************************)
EXTENDS ResultChunks, TLAPS

Replies == [rid : Requests, total : Sizes]
UdpStates ==
  [at : {"idle", "listing", "fetched", "dead"}, reply : Numbers \cup {0},
   index : Indices \cup {0}, stale : SUBSET Requests, resized : BOOLEAN,
   buf : Buffers \cup {NoBuffer}]
MainStates ==
  [at : {"idle", "listing", "popping", "dead"}, stale : SUBSET Requests,
   resized : BOOLEAN]

\* A buffer of the request whose slices are all of replies to it that were
\* cut into that many, one for an index.
Fits(rs, r, buf) ==
  /\ \A p \in buf.parts : /\ p.reply \in DOMAIN rs
                          /\ rs[p.reply].rid = r /\ rs[p.reply].total = buf.total
                          /\ p.index < buf.total
  /\ \A p, q \in buf.parts : p.index = q.index => p = q

RepliesOK == replies \in Seq(Replies) /\ Len(replies) <= MaxReplies
BuffersOK ==
  /\ buffers \in [Requests -> Buffers \cup {NoBuffer}]
  /\ \A r \in Requests : buffers[r] # NoBuffer => Fits(replies, r, buffers[r])

\* The chunk add() is about, and the buffer it has fetched: that one may
\* have left the dict by now, and fits nevertheless.
UdpOK ==
  /\ udp \in UdpStates
  /\ udp.at \in {"listing", "fetched"} =>
       /\ udp.reply \in DOMAIN replies /\ udp.index \in Indices
       /\ udp.index < replies[udp.reply].total
  /\ udp.at = "fetched" =>
       /\ udp.buf \in Buffers
       /\ udp.buf.total = replies[udp.reply].total
       /\ Fits(replies, replies[udp.reply].rid, udp.buf)

MainOK == main \in MainStates

\* The last result is one the text of which was put together from all slices.
ResultOK ==
  result # NoResult =>
    /\ Fits(replies, result.rid, result)
    /\ {p.index : p \in result.parts} = 0..(result.total - 1)

HistoryOK == gap \in [Requests -> 0..(Ttl + 1)] /\ got \in [Numbers -> SUBSET Indices]

IInv == RepliesOK /\ BuffersOK /\ UdpOK /\ MainOK /\ ResultOK /\ HistoryOK

-----------------------------------------------------------------------------
(* Replies and buffers *)

LEMMA KnownReply ==
  ASSUME RepliesOK, NEW n \in DOMAIN replies
  PROVE  /\ n \in Numbers /\ replies[n] \in Replies
         /\ replies[n].rid \in Requests /\ replies[n].total \in Sizes
<1>1. DOMAIN replies = 1..Len(replies) /\ Len(replies) \in Nat
  BY DEF RepliesOK
<1>2. n \in Numbers
  BY <1>1, ChunksAssumption DEF RepliesOK, Numbers, ChunksAssumption
<1>3. replies[n] \in Replies
  BY <1>1 DEF RepliesOK
<1> QED
  BY <1>2, <1>3 DEF Replies

\* A further reply leaves what fits as it is.
LEMMA FitsAppended ==
  ASSUME NEW rs \in Seq(Replies), NEW m \in Replies, NEW more, more = Append(rs, m)
  PROVE  /\ \A n \in DOMAIN rs : n \in DOMAIN more /\ more[n] = rs[n]
         /\ \A r, buf : Fits(rs, r, buf) => Fits(more, r, buf)
<1>1. \A n \in DOMAIN rs : n \in DOMAIN more /\ more[n] = rs[n]
  OBVIOUS
<1> QED
  BY <1>1 DEF Fits

LEMMA FitsAlike ==
  ASSUME NEW rs, NEW r, NEW b, NEW d, Fits(rs, r, b),
         d.parts = b.parts, d.total = b.total
  PROVE  Fits(rs, r, d)
BY DEF Fits

\* A slice of a reply that was cut into as many replaces the one that was at
\* its index.
LEMMA FitsStored ==
  ASSUME NEW rs, NEW r, NEW b, NEW d, Fits(rs, r, b),
         NEW n \in DOMAIN rs, rs[n].rid = r, rs[n].total = b.total,
         NEW i, i < b.total,
         d.parts = {p \in b.parts : p.index # i} \cup {[index |-> i, reply |-> n]},
         d.total = b.total
  PROVE  Fits(rs, r, d)
<1>1. \A p \in d.parts : \/ p \in b.parts /\ p.index # i
                         \/ p.index = i /\ p.reply = n /\ p = [index |-> i, reply |-> n]
  OBVIOUS
<1>2. \A p \in d.parts : /\ p.reply \in DOMAIN rs
                         /\ rs[p.reply].rid = r /\ rs[p.reply].total = d.total
                         /\ p.index < d.total
  BY <1>1 DEF Fits
<1>3. \A p, q \in d.parts : p.index = q.index => p = q
  BY <1>1 DEF Fits
<1> QED
  BY <1>2, <1>3 DEF Fits

LEMMA EmptyBuffer ==
  ASSUME NEW size \in Sizes, NEW rs, NEW r
  PROVE  /\ NewBuffer(size) \in Buffers /\ NewBuffer(size).total = size
         /\ Fits(rs, r, NewBuffer(size))
<1>1. 0 \in 0..(Ttl + 1)
  BY ChunksAssumption DEF ChunksAssumption
<1> QED
  BY <1>1 DEF NewBuffer, Buffers, Fits

LEMMA OlderRange ==
  ASSUME NEW age \in 0..(Ttl + 1)
  PROVE  Older(age) \in 0..(Ttl + 1)
BY ChunksAssumption DEF Older, ChunksAssumption

\* Buffers are only taken out.
LEMMA PoppedOK ==
  ASSUME BuffersOK, NEW R, buffers' = Popped(buffers, R), UNCHANGED replies
  PROVE  BuffersOK'
<1>1. \A r \in Requests : buffers'[r] \in {buffers[r], NoBuffer}
  BY DEF Popped
<1>2. buffers' \in [Requests -> Buffers \cup {NoBuffer}]
  BY DEF BuffersOK, Popped
<1> QED
  BY <1>1, <1>2 DEF BuffersOK

\* Noticing that the dict has changed its size changes nothing else.
LEMMA NoticedOK ==
  ASSUME NEW thread, thread.resized \in BOOLEAN, NEW B
  PROVE  Noticed(thread, B) \in BOOLEAN
BY DEF Noticed

LEMMA MainNoticed ==
  ASSUME MainOK, NEW B, main' = [main EXCEPT !.resized = Noticed(main, B)]
  PROVE  MainOK'
<1>1. Noticed(main, B) \in BOOLEAN
  BY NoticedOK DEF MainOK, MainStates
<1> QED
  BY <1>1 DEF MainOK, MainStates

-----------------------------------------------------------------------------
(* The main loop *)

LEMMA UdpNoticed ==
  ASSUME UdpOK, NEW B, udp' = [udp EXCEPT !.resized = Noticed(udp, B)],
         UNCHANGED replies
  PROVE  UdpOK'
<1>1. Noticed(udp, B) \in BOOLEAN
  BY NoticedOK DEF UdpOK, UdpStates
<1>2. /\ udp' \in UdpStates
      /\ udp'.at = udp.at /\ udp'.reply = udp.reply /\ udp'.index = udp.index
      /\ udp'.buf = udp.buf
  BY <1>1 DEF UdpOK, UdpStates
<1> QED
  BY <1>2 DEF UdpOK

LEMMA MainKeeps ==
  ASSUME IInv, PurgeList \/ PurgeListed \/ (\E r \in Requests : PurgePop(r)) \/ PurgeDone
  PROVE  IInv'
<1>1. RepliesOK /\ BuffersOK /\ UdpOK /\ MainOK /\ ResultOK /\ HistoryOK
  BY DEF IInv
<1>2. UNCHANGED <<replies, result, gap, got>>
  BY DEF PurgeList, PurgeListed, PurgePop, PurgeDone
<1>3. RepliesOK' /\ ResultOK' /\ HistoryOK'
  BY <1>1, <1>2 DEF RepliesOK, ResultOK, HistoryOK
<1>4. ASSUME UNCHANGED <<buffers, udp>>
      PROVE  BuffersOK' /\ UdpOK'
  BY <1>1, <1>2, <1>4 DEF BuffersOK, UdpOK
<1>5. CASE PurgeList
  <2>1. main' = [at |-> "listing", stale |-> Stale, resized |-> FALSE]
    BY <1>5 DEF PurgeList
  <2>2. MainOK'
    BY <2>1 DEF MainOK, MainStates, Stale
  <2> QED
    BY <1>3, <1>4, <1>5, <2>2 DEF PurgeList, IInv
<1>6. CASE PurgeListed
  <2>1. MainOK'
    BY <1>1, <1>6 DEF PurgeListed, MainOK, MainStates, Rest
  <2> QED
    BY <1>3, <1>4, <1>6, <2>1 DEF PurgeListed, IInv
<1>7. ASSUME NEW r \in Requests, PurgePop(r)
      PROVE  IInv'
  <2>1. BuffersOK'
    BY <1>1, <1>2, <1>7, PoppedOK DEF PurgePop
  <2>2. UdpOK'
    BY <1>1, <1>2, <1>7, UdpNoticed DEF PurgePop
  <2>3. MainOK'
    BY <1>1, <1>7 DEF PurgePop, MainOK, MainStates
  <2> QED
    BY <1>3, <2>1, <2>2, <2>3 DEF IInv
<1>8. CASE PurgeDone
  <2>1. MainOK'
    BY <1>8 DEF PurgeDone, MainOK, MainStates, Rest
  <2> QED
    BY <1>3, <1>4, <1>8, <2>1 DEF PurgeDone, IInv
<1> QED
  BY <1>5, <1>6, <1>7, <1>8

-----------------------------------------------------------------------------
(* add() *)

LEMMA AddKeeps ==
  ASSUME IInv, NEW n \in DOMAIN replies, NEW i \in Indices, Add(n, i)
  PROVE  IInv'
<1>1. UNCHANGED <<replies, buffers, main, result, gap, got>>
  BY DEF Add
<1>2. RepliesOK' /\ BuffersOK' /\ MainOK' /\ ResultOK' /\ HistoryOK'
  BY <1>1 DEF IInv, RepliesOK, BuffersOK, MainOK, ResultOK, HistoryOK
<1>3. n \in Numbers
  BY KnownReply DEF IInv
<1>4. udp' = [at |-> "listing", reply |-> n, index |-> i, stale |-> Stale,
              resized |-> FALSE, buf |-> NoBuffer]
  BY DEF Add
<1>5. /\ udp' \in UdpStates /\ udp'.at = "listing"
      /\ udp'.reply = n /\ udp'.index = i
  BY <1>3, <1>4 DEF UdpStates, Stale
<1>6. UdpOK'
  BY <1>1, <1>5 DEF UdpOK, Add
<1> QED
  BY <1>2, <1>6 DEF IInv

LEMMA RaisesKeeps ==
  ASSUME IInv, AddRaises
  PROVE  IInv'
<1>1. UNCHANGED <<replies, buffers, main, result, gap, got>>
  BY DEF AddRaises
<1>2. RepliesOK' /\ BuffersOK' /\ MainOK' /\ ResultOK' /\ HistoryOK'
  BY <1>1 DEF IInv, RepliesOK, BuffersOK, MainOK, ResultOK, HistoryOK
<1>3. udp' \in UdpStates /\ udp'.at = "dead"
  BY DEF AddRaises, Idle, UdpStates
<1> QED
  BY <1>2, <1>3 DEF UdpOK, IInv

\* The buffer fetched fits the chunk: it is new, or was begun for a reply to
\* the same request with as many slices.
LEMMA FetchKeeps ==
  ASSUME IInv, AddFetch
  PROVE  IInv'
<1> DEFINE kept == Popped(buffers, udp.stale)
           buf == IF StartsOver(kept) THEN NewBuffer(Total) ELSE kept[Request]
<1>1. /\ udp.at = "listing" /\ udp \in UdpStates
      /\ udp.reply \in DOMAIN replies /\ udp.index \in Indices
      /\ udp.index < Total
  BY DEF AddFetch, IInv, UdpOK, Total
<1>2. Request \in Requests /\ Total \in Sizes
  BY <1>1, KnownReply DEF IInv, Request, Total
<1>3. /\ kept \in [Requests -> Buffers \cup {NoBuffer}]
      /\ \A r \in Requests : kept[r] # NoBuffer => Fits(replies, r, kept[r])
  BY DEF IInv, BuffersOK, Popped
<1>4. /\ buffers' = [kept EXCEPT ![Request] = buf]
      /\ udp' = [udp EXCEPT !.at = "fetched", !.buf = buf, !.stale = {},
                            !.resized = FALSE]
      /\ main' = [main EXCEPT !.resized = Noticed(main, buffers')]
      /\ UNCHANGED <<replies, result, gap, got>>
  BY DEF AddFetch
<1> HIDE DEF kept
<1>5. buf \in Buffers /\ buf.total = Total /\ Fits(replies, Request, buf)
  <2>1. CASE StartsOver(kept)
    BY <1>2, <2>1, EmptyBuffer
  <2>2. CASE ~StartsOver(kept)
    BY <1>2, <1>3, <2>2 DEF StartsOver
  <2> QED
    BY <2>1, <2>2
<1> HIDE DEF buf
<1>6. RepliesOK' /\ ResultOK' /\ HistoryOK'
  BY <1>4 DEF IInv, RepliesOK, ResultOK, HistoryOK
<1>7. BuffersOK'
  <2>1. buffers' \in [Requests -> Buffers \cup {NoBuffer}]
    BY <1>2, <1>3, <1>4, <1>5
  <2>2. \A r \in Requests : buffers'[r] = IF r = Request THEN buf ELSE kept[r]
    BY <1>3, <1>4
  <2> QED
    BY <1>3, <1>4, <1>5, <2>1, <2>2 DEF BuffersOK
<1>8. UdpOK'
  <2>1. /\ udp' \in UdpStates
        /\ udp'.at = "fetched" /\ udp'.buf = buf
        /\ udp'.reply = udp.reply /\ udp'.index = udp.index
    BY <1>1, <1>4, <1>5 DEF UdpStates
  <2> QED
    BY <1>1, <1>4, <1>5, <2>1 DEF UdpOK, Request, Total
<1>9. MainOK'
  BY <1>4, MainNoticed DEF IInv
<1> QED
  BY <1>6, <1>7, <1>8, <1>9 DEF IInv

\* Whatever happened to the dict meanwhile, the slice goes into a buffer it
\* fits; what is handed on has all of them.
LEMMA StoreKeeps ==
  ASSUME IInv, AddStore
  PROVE  IInv'
<1> DEFINE r == Request
           parts == {p \in udp.buf.parts : p.index # udp.index}
                      \cup {[index |-> udp.index, reply |-> udp.reply]}
           complete == {p.index : p \in parts} = 0..(udp.buf.total - 1)
           stored == [udp.buf EXCEPT !.parts = parts, !.age = 0]
           whole == [rid |-> r, total |-> udp.buf.total, parts |-> parts]
<1>1. /\ udp.at = "fetched" /\ udp.buf \in Buffers
      /\ udp.reply \in DOMAIN replies /\ udp.index \in Indices
      /\ udp.index < udp.buf.total /\ udp.buf.total = replies[udp.reply].total
      /\ Fits(replies, r, udp.buf)
  BY DEF AddStore, IInv, UdpOK, Request
<1>2. r \in Requests /\ udp.reply \in Numbers /\ r = replies[udp.reply].rid
  BY <1>1, KnownReply DEF IInv, Request
<1>3. parts \in SUBSET Slices
  BY <1>1, <1>2 DEF Buffers, Slices
<1>4. /\ IF complete
         THEN /\ buffers' = Popped(buffers, {r})
              /\ result' \in {whole, result}
         ELSE /\ buffers' \in {buffers, [buffers EXCEPT ![r] = stored]}
              /\ result' = result
      /\ udp' = Idle
      /\ main' = [main EXCEPT !.resized = Noticed(main, buffers')]
      /\ gap' = [gap EXCEPT ![r] = 0]
      /\ got' = [got EXCEPT ![udp.reply] = @ \cup {udp.index}]
      /\ UNCHANGED replies
  BY DEF AddStore
<1>5. stored \in Buffers /\ stored.parts = parts /\ stored.total = udp.buf.total
  <2>1. 0 \in 0..(Ttl + 1)
    BY ChunksAssumption DEF ChunksAssumption
  <2> HIDE DEF parts
  <2> QED
    BY <1>1, <1>3, <2>1 DEF Buffers
<1>6. whole.parts = parts /\ whole.total = udp.buf.total /\ whole.rid = r
  OBVIOUS
<1>7. Fits(replies, r, stored) /\ Fits(replies, whole.rid, whole)
  <2> HIDE DEF stored, whole, r
  <2> QED
    BY <1>1, <1>2, <1>5, <1>6, FitsStored
<1> HIDE DEF parts, stored, whole, r
<1>8. RepliesOK'
  BY <1>4 DEF IInv, RepliesOK
<1>9. BuffersOK'
  <2>1. CASE complete
    BY <1>4, <2>1, PoppedOK DEF IInv
  <2>2. CASE buffers' = [buffers EXCEPT ![r] = stored]
    <3>1. buffers' \in [Requests -> Buffers \cup {NoBuffer}]
      BY <1>2, <1>5, <2>2 DEF IInv, BuffersOK
    <3>2. \A q \in Requests : buffers'[q] = IF q = r THEN stored ELSE buffers[q]
      BY <2>2 DEF IInv, BuffersOK
    <3> QED
      BY <1>4, <1>7, <3>1, <3>2 DEF IInv, BuffersOK
  <2>3. CASE buffers' = buffers
    BY <1>4, <2>3 DEF IInv, BuffersOK
  <2> QED
    BY <1>4, <2>1, <2>2, <2>3
<1>10. UdpOK'
  <2>1. udp' \in UdpStates /\ udp'.at = "idle"
    BY <1>4 DEF Idle, UdpStates
  <2> QED
    BY <2>1 DEF UdpOK
<1>11. MainOK'
  BY <1>4, MainNoticed DEF IInv
<1>12. ResultOK'
  <2>1. CASE result' = result
    BY <1>4, <2>1 DEF IInv, ResultOK
  <2>2. CASE complete /\ result' = whole
    BY <1>4, <1>6, <1>7, <2>2 DEF ResultOK
  <2> QED
    BY <1>4, <2>1, <2>2
<1>13. HistoryOK'
  <2>1. 0 \in 0..(Ttl + 1)
    BY ChunksAssumption DEF ChunksAssumption
  <2> QED
    BY <1>1, <1>2, <1>4, <2>1 DEF IInv, HistoryOK
<1> QED
  BY <1>8, <1>9, <1>10, <1>11, <1>12, <1>13 DEF IInv

-----------------------------------------------------------------------------
(* The device and the clock *)

LEMMA AnswerKeeps ==
  ASSUME IInv, NEW r \in Requests, NEW size \in Sizes, Answer(r, size)
  PROVE  IInv'
<1> DEFINE m == [rid |-> r, total |-> size]
<1>1. /\ replies \in Seq(Replies) /\ Len(replies) < MaxReplies
      /\ replies' = Append(replies, m)
      /\ UNCHANGED <<buffers, udp, main, result, gap, got>>
  BY DEF Answer, IInv, RepliesOK
<1>2. m \in Replies
  BY DEF Replies
<1> HIDE DEF m
<1>3. /\ \A n \in DOMAIN replies : n \in DOMAIN replies' /\ replies'[n] = replies[n]
      /\ \A q, buf : Fits(replies, q, buf) => Fits(replies', q, buf)
  BY <1>1, <1>2, FitsAppended
<1>4. RepliesOK'
  <2>1. replies' \in Seq(Replies) /\ Len(replies') = Len(replies) + 1
    BY <1>1, <1>2
  <2> QED
    BY <1>1, <2>1, ChunksAssumption DEF RepliesOK, ChunksAssumption
<1>5. BuffersOK'
  BY <1>1, <1>3 DEF IInv, BuffersOK
<1>6. UdpOK'
  BY <1>1, <1>3 DEF IInv, UdpOK
<1>7. MainOK' /\ HistoryOK'
  BY <1>1 DEF IInv, MainOK, HistoryOK
<1>8. ResultOK'
  BY <1>1, <1>3 DEF IInv, ResultOK
<1> QED
  BY <1>4, <1>5, <1>6, <1>7, <1>8 DEF IInv

LEMMA TickKeeps ==
  ASSUME IInv, Tick
  PROVE  IInv'
<1>1. /\ buffers' = [r \in Requests |-> IF buffers[r] = NoBuffer THEN NoBuffer
                       ELSE [buffers[r] EXCEPT !.age = Older(@)]]
      /\ gap' = [r \in Requests |-> Older(gap[r])]
      /\ UNCHANGED <<replies, udp, main, result>>
  BY DEF Tick
<1>2. RepliesOK' /\ UdpOK' /\ MainOK' /\ ResultOK'
  BY <1>1 DEF IInv, RepliesOK, UdpOK, MainOK, ResultOK
<1>3. ASSUME NEW r \in Requests, buffers[r] # NoBuffer
      PROVE  buffers'[r] \in Buffers /\ Fits(replies, r, buffers'[r])
  <2>1. buffers[r] \in Buffers /\ Fits(replies, r, buffers[r])
    BY <1>3 DEF IInv, BuffersOK
  <2>2. Older(buffers[r].age) \in 0..(Ttl + 1)
    BY <2>1, OlderRange DEF Buffers
  <2>3. buffers'[r] = [buffers[r] EXCEPT !.age = Older(buffers[r].age)]
    BY <1>1, <1>3
  <2>4. /\ buffers'[r] \in Buffers
        /\ buffers'[r].parts = buffers[r].parts /\ buffers'[r].total = buffers[r].total
    BY <2>1, <2>2, <2>3 DEF Buffers
  <2> QED
    BY <2>1, <2>4, FitsAlike
<1>4. \A r \in Requests : buffers[r] = NoBuffer => buffers'[r] = NoBuffer
  BY <1>1
<1>5. BuffersOK'
  <2>1. buffers' = [r \in Requests |-> buffers'[r]]
    BY <1>1
  <2>2. \A r \in Requests : buffers'[r] \in Buffers \cup {NoBuffer}
    BY <1>3, <1>4
  <2>3. buffers' \in [Requests -> Buffers \cup {NoBuffer}]
    BY <2>1, <2>2
  <2> QED
    BY <1>1, <1>3, <1>4, <2>3 DEF BuffersOK
<1>6. HistoryOK'
  <2>1. \A r \in Requests : Older(gap[r]) \in 0..(Ttl + 1)
    BY OlderRange DEF IInv, HistoryOK
  <2>2. got' = [n \in Numbers |->
          IF n <= Len(replies) /\ gap'[replies[n].rid] > Ttl THEN {} ELSE got[n]]
    BY DEF Tick
  <2>3. got' \in [Numbers -> SUBSET Indices]
    BY <2>2 DEF IInv, HistoryOK
  <2> QED
    BY <1>1, <2>1, <2>3 DEF HistoryOK
<1> QED
  BY <1>2, <1>5, <1>6 DEF IInv

-----------------------------------------------------------------------------
(* The specification *)

LEMMA Begins == Init => IInv
<1> SUFFICES ASSUME Init PROVE IInv
  OBVIOUS
<1>1. 0 \in 0..(Ttl + 1)
  BY ChunksAssumption DEF ChunksAssumption
<1>2. RepliesOK
  BY ChunksAssumption DEF Init, RepliesOK, ChunksAssumption
<1>3. BuffersOK
  BY DEF Init, BuffersOK
<1>4. UdpOK
  <2>1. udp \in UdpStates /\ udp.at = "idle"
    BY DEF Init, Idle, UdpStates
  <2> QED
    BY <2>1 DEF UdpOK
<1>5. MainOK
  BY DEF Init, Rest, MainOK, MainStates
<1>6. ResultOK /\ HistoryOK
  BY <1>1 DEF Init, ResultOK, HistoryOK
<1> QED
  BY <1>2, <1>3, <1>4, <1>5, <1>6 DEF IInv

LEMMA Keeps == IInv /\ [Next]_vars => IInv'
<1> SUFFICES ASSUME IInv, [Next]_vars PROVE IInv'
  OBVIOUS
<1>1. CASE UNCHANGED vars
  BY <1>1 DEF vars, IInv, RepliesOK, BuffersOK, UdpOK, MainOK, ResultOK, HistoryOK
<1>2. ASSUME NEW r \in Requests, NEW size \in Sizes, Answer(r, size) PROVE IInv'
  BY <1>2, AnswerKeeps
<1>3. CASE Chunk
  BY <1>3, AddKeeps DEF Chunk
<1>4. CASE UdpRuns
  BY <1>4, FetchKeeps, RaisesKeeps, StoreKeeps DEF UdpRuns
<1>5. CASE MainRuns
  BY <1>5, MainKeeps DEF MainRuns
<1>6. CASE Tick
  BY <1>6, TickKeeps
<1> QED
  BY <1>1, <1>2, <1>3, <1>4, <1>5, <1>6 DEF Next

LEMMA IInvAlways == Spec => []IInv
<1> QED
  BY Begins, Keeps, PTL DEF Spec

LEMMA TypedWhenTidy == IInv => TypeOK
<1> SUFFICES ASSUME IInv PROVE TypeOK
  OBVIOUS
<1>1. replies \in Seq([rid : Requests, total : Sizes])
  BY DEF IInv, RepliesOK, Replies
<1>2. \A r \in Sized(buffers) :
        \A p \in buffers[r].parts : p.index < buffers[r].total
  BY DEF IInv, BuffersOK, Sized, Fits
<1>3. udp.at \in {"idle", "listing", "fetched", "dead"} /\ udp.stale \subseteq Requests
  BY DEF IInv, UdpOK, UdpStates
<1> QED
  BY <1>1, <1>2, <1>3 DEF TypeOK, IInv, BuffersOK, MainOK, MainStates, HistoryOK

\* Every variable has a value of its type, and no buffer of the dict holds a
\* slice beyond its total (the buffers, and the chunk in the middle of add()).
THEOREM TypeCorrect == Spec => []TypeOK
BY IInvAlways, TypedWhenTidy, PTL

LEMMA WholeWhenTidy == IInv => WholeResults
<1> SUFFICES ASSUME IInv PROVE WholeResults
  OBVIOUS
<1>1. CASE result = NoResult
  <2>1. result.total = 0 /\ result.parts = {}
    BY <1>1 DEF NoResult
  <2>2. 0..(result.total - 1) = {}
    BY <2>1
  <2> QED
    BY <2>1, <2>2 DEF WholeResults
<1>2. CASE result # NoResult
  <2>1. /\ Fits(replies, result.rid, result)
        /\ {p.index : p \in result.parts} = 0..(result.total - 1)
    BY <1>2 DEF IInv, ResultOK
  <2>2. \A i \in 0..(result.total - 1) : \E p \in result.parts : p.index = i
    BY <2>1
  <2> QED
    BY <2>1, <2>2 DEF WholeResults, Fits
<1> QED
  BY <1>1, <1>2

\* However the main loop's purges fall between the steps of add(), whichever
\* chunks are lost, repeated and late: a result handed on has one slice for
\* every index, all cut from replies to its request with as many slices.
THEOREM WholeResultsAlways == Spec => []WholeResults
BY IInvAlways, WholeWhenTidy, PTL
=============================================================================
