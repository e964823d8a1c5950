---------------------------- MODULE StreamSession ----------------------------
(***************************************************************************)
(* Stream subscriptions of one client: the fetch loops of the WebSocket,   *)
(* NATS and STOMP sessions (runStreamSubscription, runSubscription) over   *)
(* Engine.Fetch, the waiter registry and one partition of the hot tier,    *)
(* with publishers that append and then notify.                            *)
(*                                                                         *)
(* A record is whether it can be decrypted and decoded; its offset is its  *)
(* place in the log.  The partition's segments are reduced to the offset   *)
(* where the log starts (HotPartition models them).                        *)
(***************************************************************************)
EXTENDS Integers, Sequences, SequencesExt, FiniteSetsExt

CONSTANTS Protocols,     \* of "ws", "nats" and "stomp", those a session may speak
          Records,       \* what a record may be: TRUE if it can be decoded
          MaxFetch,      \* messages per Fetch
          MaxMessages,   \* bound: messages published
          MaxStart,      \* bound: the offset up to which retention trims
          MaxSubs,       \* bound: subscriptions, one after the other
          None           \* no subscription

ASSUME StreamSessionAssumption ==
  /\ Protocols \subseteq {"ws", "nats", "stomp"}
  /\ Records \subseteq BOOLEAN
  /\ MaxFetch \in Nat \ {0}
  /\ MaxMessages \in Nat /\ MaxStart \in Nat /\ MaxSubs \in Nat
  /\ None \notin 1..MaxSubs

Subs == 1..MaxSubs

VARIABLES
  protocol,    \* the session's; it does not change
  log,         \* the records appended
  start,       \* Partition.LogStartOffset
  unnotified,  \* publishes that have appended and not yet notified
  pc,          \* where the loop of a subscription is
  offset,      \* the loop's variable
  hw,          \* Fetch's variable
  woken,       \* the channel in the registry holds a token
  sent,        \* offsets sent to the client, in order (history)
  current,     \* wsSession.consumerID; None: empty
  stopped,     \* subscriptions whose context is cancelled, or session closed
  members,     \* members of the consumer group
  committed    \* the offset committed by auto-commit

partition == <<log, start>>
session == <<current, stopped, members, protocol>>
fetch == <<pc, offset, hw, woken>>
vars == <<partition, unnotified, fetch, sent, session, committed>>

\* One entry per variable.
TypeOK ==
  /\ protocol \in Protocols
  /\ log \in Seq(Records) /\ Len(log) <= MaxMessages
  /\ start \in 0..MaxStart
  /\ unnotified \in 0..Len(log)
  /\ pc \in [Subs -> {"none", "check", "watermark", "read", "register", "wait", "done"}]
  /\ offset \in [Subs -> 0..Len(log)]
  /\ hw \in [Subs -> 0..MaxMessages]
  /\ woken \in [Subs -> BOOLEAN]
  /\ sent \in [Subs -> Seq(0..(MaxMessages - 1))]
  /\ current \in Subs \cup {None}
  /\ stopped \subseteq Subs
  /\ members \subseteq Subs
  /\ committed \in 0..MaxMessages

Init ==
  /\ protocol \in Protocols
  /\ log = <<>>
  /\ start = 0
  /\ unnotified = 0
  /\ pc = [s \in Subs |-> "none"]
  /\ offset = [s \in Subs |-> 0]
  /\ hw = [s \in Subs |-> 0]
  /\ woken = [s \in Subs |-> FALSE]
  /\ sent = [s \in Subs |-> <<>>]
  /\ current = None
  /\ stopped = {}
  /\ members = {}
  /\ committed = 0

\* The last offset; zero for an empty partition too.
HighWatermark == IF log = <<>> THEN 0 ELSE Len(log) - 1

-----------------------------------------------------------------------------
\* Broker.Publish: the append, then NotifyWaiters.
Append1(d) ==
  /\ Len(log) < MaxMessages
  /\ log' = Append(log, d)
  /\ unnotified' = unnotified + 1
  /\ UNCHANGED <<start, fetch, sent, session, committed>>

\* WaiterRegistry.Notify: a token for every channel that has none.
Notify ==
  /\ unnotified > 0
  /\ unnotified' = unnotified - 1
  /\ woken' = [s \in Subs |-> woken[s] \/ pc[s] = "wait"]
  /\ UNCHANGED <<partition, pc, offset, hw, sent, session, committed>>

\* Retention removes frozen segments; the active one stays.
Trim ==
  /\ start < MaxStart
  /\ start + 1 < Len(log)
  /\ start' = start + 1
  /\ UNCHANGED <<log, unnotified, fetch, sent, session, committed>>

-----------------------------------------------------------------------------
\* handleSubscribeJSON, handleSub: one subscription at a time is enough for
\* NATS and STOMP, whose loops do not affect each other.
Subscribe(s) ==
  /\ current = None
  /\ pc[s] = "none"
  /\ \A t \in 1..(s - 1) : pc[t] # "none"
  /\ current' = s
  /\ members' = members \cup {s}
  /\ pc' = [pc EXCEPT ![s] = "check"]
  /\ UNCHANGED <<partition, unnotified, offset, hw, woken, sent, stopped, committed, protocol>>

\* stopSubscription (NATS, STOMP: close): first the context is cancelled ...
Cancel ==
  /\ current # None
  /\ current \notin stopped
  /\ stopped' = stopped \cup {current}
  /\ UNCHANGED <<partition, unnotified, fetch, sent, current, members, committed, protocol>>

\* ... then consumerID is cleared, which the loop reads without the lock.
ClearID ==
  /\ current \in stopped
  /\ current' = None
  /\ UNCHANGED <<partition, unnotified, fetch, sent, stopped, members, committed, protocol>>

\* The top of the loop.  A WebSocket loop that ends leaves the group under the
\* session's present consumerID; the other two do not leave.
Check(s) ==
  /\ pc[s] = "check"
  /\ pc' = [pc EXCEPT ![s] = IF s \in stopped THEN "done" ELSE "watermark"]
  /\ members' = IF s \in stopped /\ protocol = "ws" THEN members \ {current} ELSE members
  /\ UNCHANGED <<partition, unnotified, offset, hw, woken, sent, current, stopped, committed, protocol>>

\* Fetch would wait for a message that is there.
HasData_Strict(from, high) == from < high

HasData(from, high) == from <= high

\* Fetch, until it knows whether to wait.
ReadWatermark(s) ==
  /\ pc[s] = "watermark"
  /\ hw' = [hw EXCEPT ![s] = HighWatermark]
  /\ pc' = [pc EXCEPT ![s] = IF HasData(offset[s], HighWatermark) THEN "read" ELSE "register"]
  /\ UNCHANGED <<partition, unnotified, offset, woken, sent, session, committed>>

\* WaiterRegistry.Register: a new channel.
Register(s) ==
  /\ pc[s] = "register"
  /\ pc' = [pc EXCEPT ![s] = "wait"]
  /\ woken' = [woken EXCEPT ![s] = FALSE]
  /\ UNCHANGED <<partition, unnotified, offset, hw, sent, session, committed>>

Wake(s) ==
  /\ pc[s] = "wait"
  /\ woken[s]
  /\ hw' = [hw EXCEPT ![s] = HighWatermark]
  /\ pc' = [pc EXCEPT ![s] = "read"]
  /\ woken' = [woken EXCEPT ![s] = FALSE]
  /\ UNCHANGED <<partition, unnotified, offset, sent, session, committed>>

\* Fetch returns nothing after maxWait; the loop sleeps and starts over.
Timeout(s) ==
  /\ pc[s] = "wait"
  /\ pc' = [pc EXCEPT ![s] = "check"]
  /\ woken' = [woken EXCEPT ![s] = FALSE]
  /\ UNCHANGED <<partition, unnotified, offset, hw, sent, session, committed>>

-----------------------------------------------------------------------------
\* Partition.ReadRange: the offsets from..to, none of them if the first one
\* has been trimmed.
ReadRange(from, to) ==
  IF from < start THEN <<>>
  ELSE [i \in 1..Max({0, Min({to, from + MaxFetch - 1, Len(log) - 1}) - from + 1}) |-> from + i - 1]

\* Engine.readMessages goes through the records and leaves out those it cannot decode.
Decoded(offsets) ==
  LET decoded[n \in 0..Len(offsets)] ==
        IF n = 0 THEN <<>>
        ELSE IF log[offsets[n] + 1] THEN Append(decoded[n - 1], offsets[n])
        ELSE decoded[n - 1]
  IN  decoded[Len(offsets)]

\* The loop goes on from the offset that Fetch returned.
NextOffset_FromFetch(from, msgs) == from + Len(msgs)

\* The offset of the last message sent and one, or the one before.
NextOffset(from, msgs) ==
  IF protocol # "ws" \/ msgs = <<>> THEN from ELSE Last(msgs) + 1

\* readMessages, the loop over the messages and auto-commit.
ReadMessages(s) ==
  /\ pc[s] = "read"
  /\ LET msgs == Decoded(ReadRange(offset[s], hw[s]))
         next == NextOffset(offset[s], msgs)
         newOffset == offset[s] + Len(msgs)
     IN  /\ sent' = [sent EXCEPT ![s] = @ \o msgs]
         /\ offset' = [offset EXCEPT ![s] = next]
         /\ committed' = IF protocol = "ws" /\ newOffset > next THEN newOffset ELSE committed
  /\ pc' = [pc EXCEPT ![s] = "check"]
  /\ UNCHANGED <<partition, unnotified, hw, woken, session>>

Loop(s) ==
  \/ Check(s) \/ ReadWatermark(s) \/ Register(s) \/ Wake(s) \/ Timeout(s) \/ ReadMessages(s)

Next ==
  \/ \E d \in Records : Append1(d)
  \/ Notify \/ Trim \/ Cancel \/ ClearID
  \/ \E s \in Subs : Subscribe(s) \/ Loop(s)

Spec == Init /\ [][Next]_vars

\* Loops run, fetches time out and calls that have begun return.
LiveSpec ==
  /\ Spec
  /\ \A s \in Subs : WF_vars(Loop(s))
  /\ WF_vars(Notify) /\ WF_vars(ClearID)

-----------------------------------------------------------------------------
Active(s) == pc[s] \notin {"none", "done"} /\ s \notin stopped

\* A WebSocket client gets, in order and once each, the messages below its loop's
\* offset that can be decoded, whatever is published and trimmed while it reads.
SentOnce ==
  protocol = "ws" => \A s \in Subs : sent[s] = Decoded([i \in 1..offset[s] |-> i - 1])

\* The next Fetch of s finds records none of which can be decoded, and will again.
Blocked(s) ==
  /\ offset[s] + MaxFetch <= Len(log)
  /\ \A o \in offset[s]..(offset[s] + MaxFetch - 1) : ~log[o + 1]

\* A WebSocket subscription that lasts is sent every message that is in the log and
\* can be decoded, unless retention overtakes it or a whole batch cannot be decoded.
Delivered ==
  \A s \in Subs, o \in 0..(MaxMessages - 1) :
    protocol = "ws" /\ Active(s) /\ o \in start..(Len(log) - 1) /\ log[o + 1]
      ~> o \in ToSet(sent[s]) \/ ~Active(s) \/ offset[s] < start \/ Blocked(s)

-----------------------------------------------------------------------------
\* Statements of documents and comments that the code does not meet (README, "Known
\* divergences").

\* A fetch that waits, with every publish notified, has nothing to read.
WokenUp ==
  \A s \in Subs :
    pc[s] = "wait" /\ unnotified = 0 /\ ~woken[s] => offset[s] >= Len(log)

\* What a loop has sent is committed when it goes on.
AutoCommits ==
  [][\A s \in Subs : offset'[s] # offset[s] => committed' = offset'[s]]_vars

\* No message is sent twice.
NoResend == \A s \in Subs : IsInjective(sent[s])

\* A loop that has ended has left the group.
LeavesGroup == \A s \in Subs : pc[s] = "done" => s \notin members

\* An active subscription is in the group.
StaysMember == \A s \in Subs : Active(s) => s \in members
=============================================================================
