----------------------------- MODULE PublishPath -----------------------------
(***************************************************************************)
(* The way of a message into the broker: Broker.Publish and the topic      *)
(* manager (internal/broker, publish.go and topic.go), for one topic, with *)
(* producers that send a message again until it is acknowledged.           *)
(*                                                                         *)
(* A message is its producer and sequence number.  The write-ahead log is  *)
(* in immediate mode (WAL models the others), the partition a sequence     *)
(* (HotPartition models its segments), and the deduper a set that may lose *)
(* an element at any time (Deduper models its window and its limits).      *)
(***************************************************************************)
EXTENDS Integers, Sequences, SequencesExt, FiniteSetsExt

CONSTANTS Producers,
          Workers,      \* goroutines that serve connections
          MaxSeq,       \* bound: messages of a producer
          MaxAttempts,  \* bound: calls of Publish
          MaxTopicOps,  \* bound: calls of CreateTopic and DeleteTopic
          Scopes,       \* what may go wrong, in the combinations to be explored (see Scope)
          Idle

\* Where a Publish is.
Step == {"dedup", "gates", "wal", "hot", "return"}

\* failures: steps that may fail; overlap: may a producer send again before it has an
\* answer?  starts: starts of the broker; forgets: how often the deduper forgets a
\* message, stops of the broker included.
Scope == [failures : SUBSET {"gate", "wal", "hot", "meta"}, overlap : BOOLEAN,
          starts : Nat \ {0}, forgets : Nat]

ASSUME PublishPathAssumption ==
  /\ MaxSeq \in Nat /\ MaxAttempts \in Nat /\ MaxTopicOps \in Nat
  /\ Scopes \subseteq Scope
  /\ IsFiniteSet(Workers)
  /\ Idle \notin [producer : Producers, seq : 1..MaxSeq, at : Step]

Msg == [producer : Producers, seq : 1..MaxSeq]

VARIABLES
  topic,     \* the topic is in TopicManager.topics
  meta,      \* it is in meta.json
  deleting,  \* DeleteTopic has written its tombstone and not yet deleted
  tombs,     \* the last entry of the topic in the log is a tombstone
  seen,      \* the deduper's windows
  forgotten, \* how often a message was lost from them (history)
  work,      \* the Publish a worker is in, and its next step
  wal,       \* messages in the write-ahead log
  hot,       \* messages in the partition
  want,      \* the message a producer is sending
  acked,     \* messages acknowledged, as the producer sees it (history)
  attempts, topicOps, starts,
  scope      \* what may go wrong in this behaviour; it does not change

topicVars == <<topic, meta, deleting, tombs>>
counters == <<attempts, topicOps, starts, scope>>
vars == <<topicVars, seen, forgotten, work, wal, hot, want, acked, counters>>

Failures == scope.failures
Overlap == scope.overlap

\* One entry per variable; only a topic that exists is being deleted.
TypeOK ==
  /\ topic \in BOOLEAN /\ meta \in BOOLEAN /\ deleting \in BOOLEAN /\ tombs \in BOOLEAN
  /\ deleting => topic
  /\ seen \subseteq Msg
  /\ forgotten \in [Msg -> Nat]
  /\ work \in [Workers -> [producer : Producers, seq : 1..MaxSeq, at : Step] \cup {Idle}]
  /\ wal \in Seq(Msg) /\ hot \in Seq(Msg)
  /\ want \in [Producers -> 1..(MaxSeq + 1)]
  /\ acked \subseteq Msg
  /\ attempts \in 0..MaxAttempts /\ topicOps \in 0..MaxTopicOps /\ starts \in 1..scope.starts
  /\ scope \in Scopes

Init ==
  /\ topic = FALSE /\ meta = FALSE /\ deleting = FALSE /\ tombs = FALSE
  /\ seen = {}
  /\ forgotten = [m \in Msg |-> 0]
  /\ work = [w \in Workers |-> Idle]
  /\ wal = <<>>
  /\ hot = <<>>
  /\ want = [p \in Producers |-> 1]
  /\ acked = {}
  /\ attempts = 0 /\ topicOps = 0 /\ starts = 1
  /\ scope \in Scopes

-----------------------------------------------------------------------------
\* TopicManager.CreateTopic, under its lock: the entry in the log, the
\* partitions, the map and the metadata.  A topic whose partitions cannot be
\* created is in the log only; one whose metadata cannot be saved stays.
CreateTopic ==
  /\ topicOps < MaxTopicOps
  /\ ~topic /\ ~deleting
  /\ tombs' = FALSE
  /\ \/ topic' = TRUE /\ meta' = TRUE
     \/ "meta" \in Failures /\ topic' = TRUE /\ UNCHANGED meta
     \/ "hot" \in Failures /\ UNCHANGED <<topic, meta>>
  /\ topicOps' = topicOps + 1
  /\ UNCHANGED <<deleting, seen, forgotten, work, wal, hot, want, acked, attempts, starts, scope>>

\* TopicManager.DeleteTopic: the tombstone ...
Tombstone ==
  /\ topicOps < MaxTopicOps
  /\ topic /\ ~deleting
  /\ deleting' = TRUE
  /\ tombs' = TRUE
  /\ topicOps' = topicOps + 1
  /\ UNCHANGED <<topic, meta, seen, forgotten, work, wal, hot, want, acked, attempts, starts, scope>>

\* ... then the map and the metadata.  The partitions and their files stay.
DeleteTopic ==
  /\ deleting
  /\ deleting' = FALSE
  /\ topic' = FALSE
  /\ meta' \in {FALSE} \cup IF "meta" \in Failures THEN {meta} ELSE {}
  /\ UNCHANGED <<tombs, seen, forgotten, work, wal, hot, want, acked, counters>>

-----------------------------------------------------------------------------
At(w, step) == work[w] # Idle /\ work[w].at = step

MsgOf(w) == [producer |-> work[w].producer, seq |-> work[w].seq]

GoesTo(w, step) == work' = [work EXCEPT ![w] = [@ EXCEPT !.at = step]]

\* Publish returns an error; the producer will try again.
Fails(w) == work' = [work EXCEPT ![w] = Idle]

\* A producer sends, or sends again; an unknown topic is an error, and
\* DeleteTopic holds the lock that GetTopic needs.
Send(w, p) ==
  /\ attempts < MaxAttempts
  /\ work[w] = Idle
  /\ want[p] <= MaxSeq
  /\ Overlap \/ \A v \in Workers : work[v] # Idle => work[v].producer # p
  /\ topic /\ ~deleting
  /\ attempts' = attempts + 1
  /\ work' = [work EXCEPT ![w] = [producer |-> p, seq |-> want[p], at |-> "dedup"]]
  /\ UNCHANGED <<topicVars, seen, forgotten, wal, hot, want, acked, topicOps, starts, scope>>

\* The message is not recorded.
Dedup_Unrecorded(w) ==
  /\ At(w, "dedup")
  /\ GoesTo(w, IF MsgOf(w) \in seen THEN "return" ELSE "gates")
  /\ UNCHANGED <<topicVars, seen, forgotten, wal, hot, want, acked, counters>>

\* Deduper.IsDuplicate records the message; a duplicate returns success.
Dedup(w) ==
  /\ At(w, "dedup")
  /\ GoesTo(w, IF MsgOf(w) \in seen THEN "return" ELSE "gates")
  /\ seen' = seen \cup {MsgOf(w)}
  /\ UNCHANGED <<topicVars, forgotten, wal, hot, want, acked, counters>>

\* What the deduper has forgotten of lost.
Lost(lost) ==
  /\ seen' = seen \ lost
  /\ forgotten' = [m \in Msg |-> forgotten[m] + IF m \in seen \cap lost THEN 1 ELSE 0]

\* Check takes a message older than the window for a new one, entries go to make room for
\* others or with an idle producer, and a producer beyond the limit is not recorded:
\* Deduper has the conditions, here it may happen at any time.
Forget(m) ==
  /\ m \in seen
  /\ forgotten[m] < scope.forgets
  /\ Lost({m})
  /\ UNCHANGED <<topicVars, work, wal, hot, want, acked, counters>>

\* The hot tier is written first.
Gates_ToHot(w) ==
  /\ At(w, "gates")
  /\ GoesTo(w, "hot")
  /\ UNCHANGED <<topicVars, seen, forgotten, wal, hot, want, acked, counters>>

\* Rate limit, tenant quota, schema, transform, marshalling, encryption.  A
\* message that a transform drops or that is to be delivered later is not sent
\* to this path (QueueEngine models delayed messages).
Gates(w) ==
  /\ At(w, "gates")
  /\ GoesTo(w, "wal") \/ ("gate" \in Failures /\ Fails(w))
  /\ UNCHANGED <<topicVars, seen, forgotten, wal, hot, want, acked, counters>>

\* The log is taken for the message's home.
WalAppend_Returns(w) ==
  /\ At(w, "wal")
  /\ wal' = Append(wal, MsgOf(w))
  /\ GoesTo(w, "return")
  /\ UNCHANGED <<topicVars, seen, forgotten, hot, want, acked, counters>>

WalAppend(w) ==
  /\ At(w, "wal")
  /\ \/ wal' = Append(wal, MsgOf(w)) /\ GoesTo(w, "hot")
     \/ "wal" \in Failures /\ Fails(w) /\ UNCHANGED wal
  /\ UNCHANGED <<topicVars, seen, forgotten, hot, want, acked, counters>>

\* GetOrCreatePartition and Partition.Append, also if the topic is gone.
HotAppend(w) ==
  /\ At(w, "hot")
  /\ \/ hot' = Append(hot, MsgOf(w)) /\ GoesTo(w, "return")
     \/ "hot" \in Failures /\ Fails(w) /\ UNCHANGED hot
  /\ UNCHANGED <<topicVars, seen, forgotten, wal, want, acked, counters>>

\* Waiters are notified, consumers dispatched to, and the producer has its
\* answer, unless it has gone on after an earlier one.
Return(w) ==
  /\ At(w, "return")
  /\ work' = [work EXCEPT ![w] = Idle]
  /\ acked' = acked \cup {MsgOf(w)}
  /\ want' = [want EXCEPT ![work[w].producer] = IF @ = work[w].seq THEN @ + 1 ELSE @]
  /\ UNCHANGED <<topicVars, seen, forgotten, wal, hot, counters>>

-----------------------------------------------------------------------------
\* The process ends and Start runs: the topics come from meta.json, the
\* partitions from their files; the log is opened and not read.
Restart ==
  /\ starts < scope.starts
  /\ starts' = starts + 1
  /\ topic' = meta
  /\ deleting' = FALSE
  /\ Lost(Msg)
  /\ work' = [w \in Workers |-> Idle]
  /\ UNCHANGED <<meta, tombs, wal, hot, want, acked, attempts, topicOps, scope>>

Publish(w) ==
  \/ Dedup(w) \/ Gates(w) \/ WalAppend(w) \/ HotAppend(w) \/ Return(w)
  \/ \E p \in Producers : Send(w, p)

Next ==
  \/ CreateTopic \/ Tombstone \/ DeleteTopic \/ Restart
  \/ \E m \in Msg : Forget(m)
  \/ \E w \in Workers : Publish(w)

Spec == Init /\ [][Next]_vars

-----------------------------------------------------------------------------
\* No step of Publish fails and producers wait for their answers.
Calm == Failures \subseteq {"meta"} /\ ~Overlap

\* What is acknowledged is stored, through any number of restarts, if no step of
\* Publish fails and producers wait for their answers.
AckedStored == Calm => acked \subseteq ToSet(hot)

Topic == INSTANCE TopicLog WITH logged <- wal, stored <- hot, forgets <- forgotten, careful <- Calm

\* A message is stored once, and once more at most for each time the deduper has
\* forgotten it, however often and however concurrently it is sent, whatever fails and
\* however often the broker is restarted.
OncePerMemory == \A m \in Msg : Topic!Copies(m) <= forgotten[m] + 1

\* Publish, with its steps interleaved, its failures and its restarts, implements
\* TopicLog: the log, the partition and what producers were told only grow, by one
\* message at a time; a message is stored after it is logged, again only after the
\* deduper has forgotten it, and a calm broker acknowledges only what is stored.
ImplementsTopicLog == Topic!Spec

\* A message is in the log before it is in the hot tier.
WalFirst == ToSet(hot) \subseteq ToSet(wal)

-----------------------------------------------------------------------------
\* Statements of documents and comments that the code does not meet (README, "Known
\* divergences").

\* "Every message first goes to WAL, then to the hot segment": what is acknowledged is
\* stored, whatever fails.
AckedAlwaysStored == acked \subseteq ToSet(hot)

\* deduper.go: "Deduper tracks recent message IDs per producer to enable idempotent
\* publishing": however often a message is sent, it is stored once.
StoredOnlyOnce == \A m \in Msg : Topic!Copies(m) <= 1

\* What a crash leaves in the log is in the hot tier once the broker has
\* started.
Replayed ==
  [][starts' # starts => ToSet(wal') \subseteq ToSet(hot')]_vars

\* A topic whose tombstone is in the log does not come back.
StaysDeleted == [][starts' # starts /\ tombs => ~topic']_vars
=============================================================================
