----------------------------- MODULE QueueEngine -----------------------------
(***************************************************************************)
(* The queue side ("Lion") of ChimeraMQ for one queue-mode topic:          *)
(* internal/engine/queue (engine, round-robin dispatcher, ack tracker,     *)
(* delay scheduler and its drain goroutine) with the calls the broker and  *)
(* the protocol servers make into it.                                      *)
(*                                                                         *)
(* Actors, interleaved at the granularity of the locks: publishing         *)
(* goroutines (append, Dispatch, Track: TryDispatch holds no lock between  *)
(* the last two), client requests (ack, nack), sessions that come and go,  *)
(* the visibility-timeout ticker, the promotion ticker, the drain          *)
(* goroutine, and time.  Time is abstract: Expire and BecomeDue say that a *)
(* pending entry outlived the visibility timeout, or that DeliverAt of a   *)
(* delayed message has passed.                                             *)
(*                                                                         *)
(* AckTracker.pending and QueueConsumer.InFlight are keyed by the offset   *)
(* alone.  Where the code keeps an offset, the model also keeps the        *)
(* message the entry was made for, so that a property can name it.         *)
(***************************************************************************)
EXTENDS Integers, Sequences, FiniteSets

CONSTANTS Partition,     \* partitions of the topic
          MaxOffset,     \* bound: offsets a partition can hand out are 0..MaxOffset
          Consumer,      \* consumer ids; every subscription makes a fresh one
          Prefetch,      \* QueueConsumer.Prefetch
          Delayed,       \* messages published with a DeliverAt in the future
          RetryLimits,   \* values of Envelope.MaxRetries (0: no limit)
          RedeliverCap,  \* capacity of redeliverChan (10000 in the code)
          ReadyCap,      \* capacity of readyCh (10000 in the code)
          NoConsumer,    \* taker of a message that was not dispatched
          NoEntry        \* offset without an entry in pending

Offset == 0..MaxOffset
Msg == Partition \X Offset      \* a message stored in the topic
Item == Msg \cup Delayed        \* what can be dispatched to a consumer

ASSUME QueueAssumption ==
  /\ MaxOffset \in Nat
  /\ Prefetch \in Nat
  /\ RetryLimits \subseteq Nat
  /\ RedeliverCap \in Nat
  /\ ReadyCap \in Nat
  /\ IsFiniteSet(Delayed)
  /\ NoConsumer \notin Consumer
  /\ Delayed \cap Msg = {}
  /\ NoEntry \notin [msg : Item, consumerID : Consumer, deliverCount : Nat,
                     maxRetries : Nat, overdue : BOOLEAN]

VARIABLES
  next,        \* next[p]: the offset the hot partition p hands out next
  pc,          \* pc[m]: where the goroutine that publishes m is
  limit,       \* limit[i]: Envelope.MaxRetries of i
  order,       \* Dispatcher.consumers
  nextIdx,     \* Dispatcher.nextIdx
  added,       \* consumer ids handed out so far
  inFlight,    \* inFlight[c]: QueueConsumer.InFlight
  taker,       \* taker[i]: the consumer Dispatch returned for i
  pending,     \* AckTracker.pending
  redeliverChan,
  heap,        \* DelayScheduler.heap; heap order is by time, see Promote
  readyCh,
  due,         \* delayed messages whose DeliverAt has passed
  acked,       \* messages whose ack returned true
  dead,        \* messages for which Nack answered shouldDLQ
  dlqTopic,    \* messages republished to the dead-letter topic
  dlqReported, \* messages counted in "dlq_routed" of an HTTP response
  dropped,     \* messages lost to a full channel or busy consumers
  closed       \* tickers that Engine.Close stopped

dispVars  == <<order, nextIdx, added, inFlight, taker>>
ackVars   == <<pending, redeliverChan, acked, dead, dlqTopic, dlqReported>>
delayVars == <<heap, readyCh, due>>
pubVars   == <<next, pc, limit>>
vars == <<pubVars, dispVars, ackVars, delayVars, dropped, closed>>

PendingMsg == [msg : Item, consumerID : Consumer, deliverCount : Nat,
               maxRetries : Nat, overdue : BOOLEAN]

\* One entry per variable: what values it can hold.
TypeOK ==
  /\ next \in [Partition -> 0..(MaxOffset + 1)]
  /\ pc \in [Msg -> {"none", "appended", "dispatched", "done"}]
  /\ limit \in [Item -> RetryLimits \cup {0}]
  /\ order \in Seq(Consumer)
  /\ nextIdx \in Nat
  /\ added \in SUBSET Consumer
  /\ inFlight \in [Consumer -> SUBSET Offset]
  /\ taker \in [Item -> Consumer \cup {NoConsumer}]
  /\ pending \in [Offset -> PendingMsg \cup {NoEntry}]
  /\ redeliverChan \in Seq(Item)
  /\ heap \in SUBSET Delayed
  /\ readyCh \in Seq(Delayed)
  /\ due \in SUBSET Delayed
  /\ acked \in SUBSET Item
  /\ dead \in SUBSET Item
  /\ dlqTopic \in SUBSET Msg
  /\ dlqReported \in SUBSET Item
  /\ dropped \in SUBSET Item
  /\ closed \in SUBSET {"ack", "delay"}

Init ==
  /\ next = [p \in Partition |-> 0]
  /\ pc = [m \in Msg |-> "none"]
  /\ limit = [i \in Item |-> 0]
  /\ order = <<>>
  /\ nextIdx = 0
  /\ added = {}
  /\ inFlight = [c \in Consumer |-> {}]
  /\ taker = [i \in Item |-> NoConsumer]
  /\ pending = [o \in Offset |-> NoEntry]
  /\ redeliverChan = <<>>
  /\ heap = {}
  /\ readyCh = <<>>
  /\ due = {}
  /\ acked = {}
  /\ dead = {}
  /\ dlqTopic = {}
  /\ dlqReported = {}
  /\ dropped = {}
  /\ closed = {}

-----------------------------------------------------------------------------
\* Envelope.Sequence, the key of a message in pending and InFlight.  A delayed
\* message is scheduled before it is appended, so its Sequence is still 0.
Key(i) == IF i \in Delayed THEN 0 ELSE i[2]

Elems(s) == {s[k] : k \in 1..Len(s)}

\* Of non-blocking sends ("select ... default") of all items of s, in order: those
\* that find room in ch.  The others are lost.
Accepted(ch, s, cap) ==
  IF Len(s) <= cap - Len(ch) THEN s ELSE SubSeq(s, 1, cap - Len(ch))

\* The orders in which the elements of a finite set can be visited.
Orders(S) == {s \in [1..Cardinality(S) -> S] :
                \A j, k \in 1..Cardinality(S) : s[j] = s[k] => j = k}

-----------------------------------------------------------------------------
\* Sessions.

AddConsumer(c) ==
  /\ c \notin added
  /\ order' = Append(order, c)
  /\ added' = added \cup {c}
  /\ UNCHANGED <<nextIdx, inFlight, taker, pubVars, ackVars, delayVars, dropped, closed>>

\* Dispatcher.RemoveConsumer without the nextIdx reset.
RemoveAt_NoReset(k) ==
  /\ order' = SubSeq(order, 1, k - 1) \o SubSeq(order, k + 1, Len(order))
  /\ UNCHANGED nextIdx

RemoveAt(k) ==
  /\ order' = SubSeq(order, 1, k - 1) \o SubSeq(order, k + 1, Len(order))
  /\ nextIdx' = IF nextIdx >= Len(order') /\ Len(order') > 0 THEN 0 ELSE nextIdx

\* The entry at the first position that holds c goes; nothing that c has in
\* flight or pending is touched.
RemoveConsumer(c) ==
  /\ \E k \in 1..Len(order) :
       /\ order[k] = c
       /\ \A j \in 1..(k - 1) : order[j] # c
       /\ RemoveAt(k)
  /\ UNCHANGED <<added, inFlight, taker, pubVars, ackVars, delayVars, dropped, closed>>

-----------------------------------------------------------------------------
\* Dispatch.

\* The consumer the scan looks at after k others.
Scanned(k) == order[((nextIdx + k) % Len(order)) + 1]

HasRoom_OffByOne(c) == Cardinality(inFlight[c]) <= Prefetch

HasRoom(c) == Cardinality(inFlight[c]) < Prefetch

\* Dispatcher.Dispatch hands item i to the first consumer with room,
\* looking from nextIdx on.
DispatchTo(i, c) ==
  /\ \E k \in 0..(Len(order) - 1) :
       /\ c = Scanned(k)
       /\ HasRoom(c)
       /\ \A j \in 0..(k - 1) : ~HasRoom(Scanned(j))
       /\ nextIdx' = (nextIdx + k + 1) % Len(order)
  /\ inFlight' = [inFlight EXCEPT ![c] = @ \cup {Key(i)}]
  /\ taker' = [taker EXCEPT ![i] = c]
  /\ UNCHANGED <<order, added>>

\* ErrAllConsumersBusy (or ErrNoConsumers): a full turn leaves nextIdx where
\* it was.
NoTaker == \A k \in 1..Len(order) : ~HasRoom(order[k])

Entry(i, c) == [msg |-> i, consumerID |-> c, deliverCount |-> 0,
                maxRetries |-> limit[i], overdue |-> FALSE]

-----------------------------------------------------------------------------
\* Publishing.

\* Broker.Publish up to the append to the hot partition: m gets its offset and
\* readers can see it.
AppendMsg(p, r) ==
  /\ next[p] <= MaxOffset
  /\ next' = [next EXCEPT ![p] = @ + 1]
  /\ pc' = [pc EXCEPT ![<<p, next[p]>>] = "appended"]
  /\ limit' = [limit EXCEPT ![<<p, next[p]>>] = r]
  /\ UNCHANGED <<dispVars, ackVars, delayVars, dropped, closed>>

\* Engine.TryDispatch, first half: a consumer takes m ...
TryDispatch(m) ==
  /\ pc[m] = "appended"
  /\ \E c \in Consumer : DispatchTo(m, c)
  /\ pc' = [pc EXCEPT ![m] = "dispatched"]
  /\ UNCHANGED <<next, limit, ackVars, delayVars, dropped, closed>>

\* ... or none can, and Publish ignores the error.
TryDispatchBusy(m) ==
  /\ pc[m] = "appended"
  /\ NoTaker
  /\ pc' = [pc EXCEPT ![m] = "done"]
  /\ UNCHANGED <<next, limit, dispVars, ackVars, delayVars, dropped, closed>>

\* Engine.TryDispatch, second half.
Track(m) ==
  /\ pc[m] = "dispatched"
  /\ pending' = [pending EXCEPT ![Key(m)] = Entry(m, taker[m])]
  /\ pc' = [pc EXCEPT ![m] = "done"]
  /\ UNCHANGED <<next, limit, redeliverChan, acked, dead, dlqTopic, dlqReported,
                 dispVars, delayVars, dropped, closed>>

-----------------------------------------------------------------------------
\* Acknowledgement.  A client can send any offset it has read.

HandleAck_KeepsEntry(o) ==
  /\ pending[o] # NoEntry
  /\ acked' = acked \cup {pending[o].msg}
  /\ UNCHANGED <<pending, redeliverChan, dead, dlqTopic, dlqReported, pubVars, dispVars,
                 delayVars, dropped, closed>>

\* Engine.HandleAck of an offset that is pending (otherwise it answers false
\* and changes nothing).
HandleAck(o) ==
  /\ pending[o] # NoEntry
  /\ pending' = [pending EXCEPT ![o] = NoEntry]
  /\ acked' = acked \cup {pending[o].msg}
  /\ UNCHANGED <<redeliverChan, dead, dlqTopic, dlqReported, pubVars, dispVars,
                 delayVars, dropped, closed>>

Exhausted(e) == e.maxRetries > 0 /\ e.deliverCount + 1 >= e.maxRetries

\* The entry goes and nothing is sent to redeliverChan.
NackRetry_NoSend(o) ==
  /\ pending[o] # NoEntry
  /\ ~Exhausted(pending[o])
  /\ pending' = [pending EXCEPT ![o] = NoEntry]
  /\ UNCHANGED <<redeliverChan, acked, dead, dlqTopic, dlqReported, pubVars, dispVars,
                 delayVars, dropped, closed>>

\* AckTracker.Nack when the message may be tried again.
NackRetry(o) ==
  /\ pending[o] # NoEntry
  /\ ~Exhausted(pending[o])
  /\ pending' = [pending EXCEPT ![o] = NoEntry]
  /\ LET sent == Accepted(redeliverChan, <<pending[o].msg>>, RedeliverCap)
     IN  /\ redeliverChan' = redeliverChan \o sent
         /\ dropped' = dropped \cup ({pending[o].msg} \ Elems(sent))
  /\ UNCHANGED <<acked, dead, dlqTopic, dlqReported, pubVars, dispVars, delayVars, closed>>

\* AckTracker.Nack when retries are exhausted: the entry goes and the caller is
\* told to dead-letter the message.
NackDead(o) ==
  /\ pending[o] # NoEntry
  /\ Exhausted(pending[o])
  /\ pending' = [pending EXCEPT ![o] = NoEntry]
  /\ dead' = dead \cup {pending[o].msg}
  /\ UNCHANGED <<redeliverChan, acked>>

\* The native protocol's handler reads the message at the client's partition and
\* offset and publishes it to the dead-letter topic (which the topic is assumed to
\* have).
NackDeadNative(p, o) ==
  /\ NackDead(o)
  /\ dlqTopic' = IF o < next[p] THEN dlqTopic \cup {<<p, o>>} ELSE dlqTopic
  /\ UNCHANGED <<dlqReported, pubVars, dispVars, delayVars, dropped, closed>>

\* The HTTP handler only counts it.
NackDeadHTTP(o) ==
  /\ NackDead(o)
  /\ dlqReported' = dlqReported \cup {pending[o].msg}
  /\ UNCHANGED <<dlqTopic, pubVars, dispVars, delayVars, dropped, closed>>

\* The WebSocket handler ignores the answer.
NackDeadWS(o) ==
  /\ NackDead(o)
  /\ UNCHANGED <<dlqTopic, dlqReported, pubVars, dispVars, delayVars, dropped, closed>>

-----------------------------------------------------------------------------
\* Visibility timeout.

\* Time: the entry of o has been pending for longer than visTimeout.
Expire(o) ==
  /\ pending[o] # NoEntry
  /\ ~pending[o].overdue
  /\ pending' = [pending EXCEPT ![o].overdue = TRUE]
  /\ UNCHANGED <<redeliverChan, acked, dead, dlqTopic, dlqReported, pubVars, dispVars,
                 delayVars, dropped, closed>>

\* Entries that have used up their retries are left to the client.
Overdue_Retryable == {o \in Offset : /\ pending[o] # NoEntry
                                     /\ pending[o].overdue
                                     /\ ~Exhausted(pending[o])}

Overdue == {o \in Offset : pending[o] # NoEntry /\ pending[o].overdue}

\* One tick of visibilityTimeoutLoop; the map is visited in any order.
VisibilityTick ==
  /\ "ack" \notin closed
  /\ Overdue # {}
  /\ pending' = [o \in Offset |-> IF o \in Overdue THEN NoEntry ELSE pending[o]]
  /\ \E s \in Orders(Overdue) :
       LET items == [k \in 1..Len(s) |-> pending[s[k]].msg]
           sent == Accepted(redeliverChan, items, RedeliverCap)
       IN  /\ redeliverChan' = redeliverChan \o sent
           /\ dropped' = dropped \cup (Elems(items) \ Elems(sent))
  /\ UNCHANGED <<acked, dead, dlqTopic, dlqReported, pubVars, dispVars, delayVars, closed>>

-----------------------------------------------------------------------------
\* Delayed messages.

Scheduled(d) == d \in heap \/ d \in Elems(readyCh)
                  \/ taker[d] # NoConsumer \/ d \in dropped

\* Engine.ScheduleDelayed, called by Publish instead of an append.
ScheduleDelayed(d, r) ==
  /\ ~Scheduled(d)
  /\ d \notin due
  /\ heap' = heap \cup {d}
  /\ limit' = [limit EXCEPT ![d] = r]
  /\ UNCHANGED <<next, pc, readyCh, due, dispVars, ackVars, dropped, closed>>

\* Time: DeliverAt of d is now in the past.
BecomeDue(d) ==
  /\ d \in heap \ due
  /\ due' = due \cup {d}
  /\ UNCHANGED <<heap, readyCh, pubVars, dispVars, ackVars, dropped, closed>>

Promotable == heap \cap due

\* One tick of promotionLoop: pops everything that is due.  The times of two due
\* messages are not compared, so they leave the heap in any order.
Promote ==
  /\ "delay" \notin closed
  /\ Promotable # {}
  /\ heap' = heap \ Promotable
  /\ \E s \in Orders(Promotable) :
       LET sent == Accepted(readyCh, s, ReadyCap)
       IN  /\ readyCh' = readyCh \o sent
           /\ dropped' = dropped \cup (Elems(s) \ Elems(sent))
  /\ UNCHANGED <<due, pubVars, dispVars, ackVars, closed>>

\* The message is put back without being taken from readyCh.
DrainReschedule_Peek ==
  /\ readyCh # <<>>
  /\ order = <<>>
  /\ heap' = heap \cup {Head(readyCh)}
  /\ UNCHANGED <<readyCh, due, pubVars, dispVars, ackVars, dropped, closed>>

\* drainDelayQueue with no consumer registered: back to the heap, already due.
DrainReschedule ==
  /\ readyCh # <<>>
  /\ order = <<>>
  /\ readyCh' = Tail(readyCh)
  /\ heap' = heap \cup {Head(readyCh)}
  /\ UNCHANGED <<due, pubVars, dispVars, ackVars, dropped, closed>>

\* drainDelayQueue: a consumer takes the message, which is tracked before the
\* lock is released.
DrainDispatch ==
  /\ readyCh # <<>>
  /\ order # <<>>
  /\ readyCh' = Tail(readyCh)
  /\ \E c \in Consumer :
       /\ DispatchTo(Head(readyCh), c)
       /\ pending' = [pending EXCEPT ![Key(Head(readyCh))] = Entry(Head(readyCh), c)]
  /\ UNCHANGED <<heap, due, redeliverChan, acked, dead, dlqTopic, dlqReported, pubVars,
                 dropped, closed>>

\* Rescheduled instead of dropped, although no ack ever frees a window.
DrainBusy_PutBack ==
  /\ readyCh # <<>>
  /\ order # <<>>
  /\ NoTaker
  /\ readyCh' = Tail(readyCh)
  /\ heap' = heap \cup {Head(readyCh)}
  /\ UNCHANGED <<due, pubVars, dispVars, ackVars, dropped, closed>>

\* drainDelayQueue with every consumer at its prefetch limit: the loop goes on
\* to the next message and this one is gone.
DrainBusy ==
  /\ readyCh # <<>>
  /\ order # <<>>
  /\ NoTaker
  /\ readyCh' = Tail(readyCh)
  /\ dropped' = dropped \cup {Head(readyCh)}
  /\ UNCHANGED <<heap, due, pubVars, dispVars, ackVars, closed>>

\* Engine.Close stops the tickers that exist: the ack tracker is made with the
\* queue, the scheduler with the first delayed message.  Requests may still come
\* in, and a ticker they start afterwards runs on.
Close ==
  /\ closed = {}
  /\ closed' = {t \in {"ack", "delay"} :
                   (t = "ack" /\ added # {}) \/ \E d \in Delayed : Scheduled(d)}
  /\ UNCHANGED <<pubVars, dispVars, ackVars, delayVars, dropped>>

-----------------------------------------------------------------------------
Next ==
  \/ \E c \in Consumer : AddConsumer(c) \/ RemoveConsumer(c)
  \/ \E p \in Partition, r \in RetryLimits : AppendMsg(p, r)
  \/ \E m \in Msg : TryDispatch(m) \/ TryDispatchBusy(m) \/ Track(m)
  \/ \E o \in Offset : HandleAck(o) \/ NackRetry(o) \/ NackDeadHTTP(o) \/ NackDeadWS(o)
  \/ \E p \in Partition, o \in Offset : NackDeadNative(p, o)
  \/ \E o \in Offset : Expire(o)
  \/ VisibilityTick
  \/ \E d \in Delayed, r \in RetryLimits : ScheduleDelayed(d, r)
  \/ \E d \in Delayed : BecomeDue(d)
  \/ Promote
  \/ DrainReschedule
  \/ DrainDispatch
  \/ DrainBusy
  \/ Close

Spec == Init /\ [][Next]_vars

\* The goroutines of the broker run: both tickers, the drain loop and the
\* publishing goroutines; and time passes.  Clients owe nothing.
Fairness ==
  /\ WF_vars(VisibilityTick)
  /\ WF_vars(Promote)
  /\ WF_vars(DrainReschedule \/ DrainDispatch \/ DrainBusy)
  /\ \A m \in Msg : WF_vars(TryDispatch(m) \/ TryDispatchBusy(m)) /\ WF_vars(Track(m))
  /\ \A o \in Offset : WF_vars(Expire(o))
  /\ \A d \in Delayed : WF_vars(BecomeDue(d))

FairSpec == Spec /\ Fairness

-----------------------------------------------------------------------------
\* Properties.

PendingItems == {pending[o].msg : o \in {x \in Offset : pending[x] # NoEntry}}
Requeued == Elems(redeliverChan)
InReady == Elems(readyCh)

\* Dispatcher.Dispatch indexes consumers[nextIdx] without a check: whatever
\* sessions come and go between dispatches, the index must stay in range.
NextIdxInRange == order # <<>> => nextIdx < Len(order)

\* No consumer holds more messages in its InFlight window than its Prefetch,
\* although publishers and the drain goroutine dispatch concurrently.
PrefetchRespected == \A c \in Consumer : Cardinality(inFlight[c]) <= Prefetch

\* A message that went through the ack tracker has exactly one fate: at any time
\* it is pending, waiting for redelivery, acknowledged, dead or dropped, never two
\* of these, and it waits for redelivery at most once.  A client whose ack
\* returned true will not see the message expire, and a dead-lettered message is
\* not also retried.
OneFate ==
  /\ \A k, l \in 1..Len(redeliverChan) : redeliverChan[k] = redeliverChan[l] => k = l
  /\ PendingItems \cap (Requeued \cup acked \cup dead \cup dropped) = {}
  /\ Requeued \cap (acked \cup dead \cup dropped) = {}
  /\ acked \cap (dead \cup dropped) = {}
  /\ dead \cap dropped = {}

\* "Track adds a message to the pending set": once a dispatch is tracked, the
\* message stays accounted for until a client or a timeout settles it.  Only
\* another message with the same offset, of another partition or delayed (which
\* count as offset 0), may take its entry.
Accounted ==
  \A m \in Msg :
    (/\ pc[m] = "done" /\ taker[m] # NoConsumer
     /\ \A i \in Item \ {m} : Key(i) = Key(m) => taker[i] = NoConsumer)
      => m \in PendingItems \cup Requeued \cup acked \cup dead \cup dropped

\* A delayed message is in one place: scheduled, ready, or dispatched.
DelayedOnce ==
  /\ heap \cap InReady = {}
  /\ \A k, l \in 1..Len(readyCh) : readyCh[k] = readyCh[l] => k = l
  /\ \A d \in heap \cup InReady : taker[d] = NoConsumer

\* The visibility ticker empties the tracker: an entry of pending that no client
\* settles goes away, unless the engine is closed.
PendingExpires == \A o \in Offset : pending[o] # NoEntry ~> pending[o] = NoEntry \/ "ack" \in closed

\* A scheduled message reaches a consumer, or finds none connected, or is dropped
\* because all are busy; it does not stay in the scheduler.
DelayedReachesConsumer ==
  \A d \in Delayed : d \in heap ~>
    taker[d] # NoConsumer \/ d \in dropped \/ order = <<>> \/ "delay" \in closed

-----------------------------------------------------------------------------
\* Statements of documents and comments that the code does not meet (README, "Known
\* divergences").

\* engine.go: "InFlightCount returns the number of messages currently
\* in-flight": an acknowledged message is no longer in its consumer's window.
AckFreesWindow == \A m \in acked : taker[m] # NoConsumer => Key(m) \notin inFlight[taker[m]]

\* ack.go: "Nack marks a message for redelivery or DLQ routing": a message sent to
\* redeliverChan is eventually received from it, while the engine is open.
RedeliveryHappens == \A m \in Msg : m \in Requeued ~> m \notin Requeued \/ "ack" \in closed

\* dispatcher.go: "RemoveConsumer removes a consumer and reclaims in-flight
\* messages": no entry is pending for a consumer that was removed.
RemoveReclaims ==
  \A o \in Offset : pending[o] # NoEntry =>
    pending[o].consumerID \in Elems(order)

\* openapi.yaml, the answer of the nack endpoint counts "dlq_routed": every
\* message counted there is in the dead-letter topic.
ReportedIsRouted == dlqReported \subseteq dlqTopic

\* delay_drain.go: promoted messages are dispatched "to available consumers": a
\* delayed message is not lost because all consumers are busy when it falls due.
DelayedNotLost == dropped \cap Delayed = {}
=============================================================================
