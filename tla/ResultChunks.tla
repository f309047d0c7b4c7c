---------------------------- MODULE ResultChunks ----------------------------
(***************************************************************************)
(* Reassembly of command results that a device splits into chunks          *)
(* (result_chunks.py).  The UDP thread adds chunks; the main loop purges   *)
(* buffers that nothing was added to for a while.  No lock protects the    *)
(* buffers: the two threads may alternate between any two steps of a call, *)
(* and a list being built from the dict raises if the dict changes its     *)
(* size meanwhile, which ends the UDP thread or the main loop.             *)
(*                                                                         *)
(* A reply is one answer of a device, cut into slices; a chunk carries one *)
(* of them and may be lost, repeated, reordered and late.  The text of a   *)
(* slice is left out: a slice is its index and the reply it was cut from.  *)
(***************************************************************************)
EXTENDS Naturals, Sequences

CONSTANTS
  Requests,      \* request ids
  Sizes,         \* numbers of chunks a reply may have
  Ttl,           \* ttl_sec
  NoBuffer,
  MaxReplies     \* bound of the model: replies sent

ASSUME ChunksAssumption ==
  /\ Sizes \subseteq Nat \ {0}
  /\ Ttl \in Nat \ {0} /\ MaxReplies \in Nat

VARIABLES
  replies,       \* external: the replies sent, in order
  buffers,       \* request -> its buffer, or NoBuffer
  udp,           \* the UDP thread: where it is in add()
  main,          \* the main loop: where it is in purge()
  result,        \* the last result handed on
  answered,      \* history: requests a result was handed on for
  gap,           \* history: request -> time since a chunk of it was added
  got            \* history: reply -> slices added without a gap over Ttl

vars == <<replies, buffers, udp, main, result, answered, gap, got>>

Indices == 0..(CHOOSE m \in Sizes : \A s \in Sizes : s <= m) - 1
Numbers == 1..MaxReplies

NoResult == [rid |-> NoBuffer, total |-> 0, parts |-> {}]
NewBuffer(size) == [total |-> size, parts |-> {}, age |-> 0]

Idle == [at |-> "idle", reply |-> 0, index |-> 0, stale |-> {},
         resized |-> FALSE, buf |-> NoBuffer]
Rest == [at |-> "idle", stale |-> {}, resized |-> FALSE]

-----------------------------------------------------------------------------
(* purge() *)

StaleNever == {}                                \* fault: nothing is ever stale
Stale == {r \in Requests : buffers[r] # NoBuffer /\ buffers[r].age > Ttl}

Popped(B, R) == [r \in Requests |-> IF r \in R THEN NoBuffer ELSE B[r]]

Sized(B) == {r \in Requests : B[r] # NoBuffer}

\* What a thread that is building its list will notice.
Noticed(thread, B) ==
  thread.resized \/ (thread.at = "listing" /\ Sized(B) # Sized(buffers))

PurgeList ==
  /\ main.at = "idle"
  /\ main' = [at |-> "listing", stale |-> Stale, resized |-> FALSE]
  /\ UNCHANGED <<replies, buffers, udp, result, answered, gap, got>>

PurgeListed ==
  /\ main.at = "listing"
  /\ \/ main' = [main EXCEPT !.at = "popping", !.resized = FALSE]
     \/ main.resized /\ main' = [Rest EXCEPT !.at = "dead"]
  /\ UNCHANGED <<replies, buffers, udp, result, answered, gap, got>>

\* A buffer is removed by its key, whichever buffer is there by now.
PurgePop(r) ==
  /\ main.at = "popping" /\ r \in main.stale
  /\ buffers' = Popped(buffers, {r})
  /\ main' = [main EXCEPT !.stale = @ \ {r}]
  /\ udp' = [udp EXCEPT !.resized = Noticed(udp, buffers')]
  /\ UNCHANGED <<replies, result, answered, gap, got>>

PurgeDone ==
  /\ main.at = "popping" /\ main.stale = {}
  /\ main' = Rest
  /\ UNCHANGED <<replies, buffers, udp, result, answered, gap, got>>

-----------------------------------------------------------------------------
(* add(), for slice i of reply n *)

Request == replies[udp.reply].rid
Total == replies[udp.reply].total

Add(n, i) ==
  /\ udp.at = "idle" /\ main.at # "dead"
  /\ i < replies[n].total
  /\ udp' = [at |-> "listing", reply |-> n, index |-> i, stale |-> Stale,
             resized |-> FALSE, buf |-> NoBuffer]
  /\ UNCHANGED <<replies, buffers, main, result, answered, gap, got>>

\* Whether the chunk starts a buffer of its own.
StartsOverNever(B) == B[Request] = NoBuffer           \* fault: total not compared
StartsOver(B) == B[Request] = NoBuffer \/ B[Request].total # Total

\* Its own purge, then the buffer is fetched or made.
AddFetch ==
  LET kept == Popped(buffers, udp.stale)
      buf == IF StartsOver(kept) THEN NewBuffer(Total) ELSE kept[Request] IN
  /\ udp.at = "listing"
  /\ buffers' = [kept EXCEPT ![Request] = buf]
  /\ udp' = [udp EXCEPT !.at = "fetched", !.buf = buf, !.stale = {},
                        !.resized = FALSE]
  /\ main' = [main EXCEPT !.resized = Noticed(main, buffers')]
  /\ UNCHANGED <<replies, result, answered, gap, got>>

AddRaises ==
  /\ udp.at = "listing" /\ udp.resized
  /\ udp' = [Idle EXCEPT !.at = "dead"]
  /\ UNCHANGED <<replies, buffers, main, result, answered, gap, got>>

\* The slice goes into the buffer fetched, which the main loop may have
\* taken out of the dict meanwhile.  A complete buffer leaves the dict; slices
\* of different replies need not make a text that can be parsed.
AddStore ==
  LET r == Request
      parts == {p \in udp.buf.parts : p.index # udp.index}
                 \cup {[index |-> udp.index, reply |-> udp.reply]}
      complete == {p.index : p \in parts} = 0..(udp.buf.total - 1)
      mixed == \E p, q \in parts : p.reply # q.reply IN
  /\ udp.at = "fetched"
  /\ IF complete
     THEN /\ buffers' = Popped(buffers, {r})
          /\ \/ /\ result' = [rid |-> r, total |-> udp.buf.total,
                              parts |-> parts]
                /\ answered' = answered \cup {r}
             \/ mixed /\ UNCHANGED <<result, answered>>
     ELSE /\ buffers' = IF buffers[r] = NoBuffer THEN buffers
                        ELSE [buffers EXCEPT ![r] = [udp.buf EXCEPT
                                                       !.parts = parts, !.age = 0]]
          /\ UNCHANGED <<result, answered>>
  /\ udp' = Idle
  /\ main' = [main EXCEPT !.resized = Noticed(main, buffers')]
  /\ gap' = [gap EXCEPT ![r] = 0]
  /\ got' = [got EXCEPT ![udp.reply] = @ \cup {udp.index}]
  /\ UNCHANGED replies

-----------------------------------------------------------------------------
(* The device and the clock *)

Answer(r, size) ==
  /\ Len(replies) < MaxReplies
  /\ replies' = Append(replies, [rid |-> r, total |-> size])
  /\ UNCHANGED <<buffers, udp, main, result, answered, gap, got>>

Older(age) == IF age > Ttl THEN age ELSE age + 1

Tick ==
  /\ buffers' = [r \in Requests |-> IF buffers[r] = NoBuffer THEN NoBuffer
                   ELSE [buffers[r] EXCEPT !.age = Older(@)]]
  /\ gap' = [r \in Requests |-> Older(gap[r])]
  /\ got' = [n \in Numbers |->
        IF n <= Len(replies) /\ gap'[replies[n].rid] > Ttl THEN {} ELSE got[n]]
  /\ UNCHANGED <<replies, udp, main, result, answered>>

-----------------------------------------------------------------------------
Init ==
  /\ replies = <<>>
  /\ buffers = [r \in Requests |-> NoBuffer]
  /\ udp = Idle
  /\ main = Rest
  /\ result = NoResult
  /\ answered = {}
  /\ gap = [r \in Requests |-> 0]
  /\ got = [n \in Numbers |-> {}]

Chunk == \E n \in DOMAIN replies, i \in Indices : Add(n, i)

MainRuns ==
  PurgeList \/ PurgeListed \/ (\E r \in Requests : PurgePop(r)) \/ PurgeDone

UdpRuns == AddFetch \/ AddRaises \/ AddStore

Next ==
  \/ \E r \in Requests, size \in Sizes : Answer(r, size)
  \/ Chunk
  \/ UdpRuns
  \/ MainRuns
  \/ Tick

Spec == Init /\ [][Next]_vars

\* Both threads go on, the main loop comes back to purge(), time passes.
FairSpec == Spec /\ WF_vars(MainRuns) /\ WF_vars(UdpRuns) /\ WF_vars(Tick)

-----------------------------------------------------------------------------
(* Properties *)

Slices == [index : Indices, reply : Numbers]
Buffers == [total : Sizes, parts : SUBSET Slices, age : 0..(Ttl + 1)]

\* The values of every variable, and that a buffer never holds a slice
\* beyond its total.
TypeOK ==
  /\ replies \in Seq([rid : Requests, total : Sizes])
  /\ buffers \in [Requests -> Buffers \cup {NoBuffer}]
  /\ \A r \in Sized(buffers) :
       \A p \in buffers[r].parts : p.index < buffers[r].total
  /\ udp.at \in {"idle", "listing", "fetched", "dead"}
  /\ udp.stale \subseteq Requests
  /\ main \in [at : {"idle", "listing", "popping", "dead"},
               stale : SUBSET Requests, resized : BOOLEAN]
  /\ gap \in [Requests -> 0..(Ttl + 1)] /\ got \in [Numbers -> SUBSET Indices]

\* What is handed on is never cut short or stretched: it has one slice for
\* every index, all of them cut from replies to its request that have just
\* that many, although a buffer may be purged, replaced or taken out of the
\* dict in the middle of add().
WholeResults ==
  /\ \A p \in result.parts : /\ replies[p.reply].rid = result.rid
                             /\ replies[p.reply].total = result.total
  /\ \A i \in 0..(result.total - 1) : \E p \in result.parts : p.index = i
  /\ \A p, q \in result.parts : p.index = q.index => p = q

\* Replies that are never completed do not pile up: once chunks stop coming
\* every buffer is gone, while the main loop lives.
UnfinishedAreForgotten ==
  <>[][~Chunk]_vars => <>(main.at = "dead") \/ <>[](Sized(buffers) = {})

-----------------------------------------------------------------------------
(* Statements of the documents that the code does not keep; README.md,     *)
(* section 5, says how each fails.                                         *)

\* result_chunks.py: "Once every slice for a request_id has arrived, they are
\* concatenated in order and parsed back into the original result payload":
\* a reply all of whose slices were added, no two more than ttl_sec apart, is
\* handed on.  (Looked at between two calls of add; one reply is sent.)
AllSlicesGiveResult ==
  udp.at = "idle" =>
    \A n \in DOMAIN replies :
      got[n] = 0..(replies[n].total - 1)
        => replies[n].rid \in answered
=============================================================================
