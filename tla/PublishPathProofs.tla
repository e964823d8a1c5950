-------------------------- MODULE PublishPathProofs --------------------------
(***************************************************************************)
(* What the publish path guarantees for any number of producers, workers,  *)
(* messages, attempts and topic operations.                                *)
(*                                                                         *)
(* OncePerMemory needs that the deduper speaks for the hot tier and for    *)
(* the workers that are past it: the copies of a message that are stored   *)
(* and those that are carried are together no more than it has forgotten   *)
(* the message, and one more while it remembers it (Accounts).             *)
(* AckedStored needs the converse (Stored), which only holds if nothing    *)
(* fails between the record and the append and a producer sends one        *)
(* message at a time.                                                      *)
(***************************************************************************)
EXTENDS PublishPath, FiniteSetTheorems, TLAPS

\* Worker w is past the deduper with a message it has not stored.
Carries(w) == At(w, "gates") \/ At(w, "wal") \/ At(w, "hot")

WorkType == work \in [Workers -> [producer : Producers, seq : 1..MaxSeq, at : Step] \cup {Idle}]

Types ==
  /\ WorkType
  /\ seen \subseteq Msg
  /\ forgotten \in [Msg -> Nat]
  /\ wal \in Seq(Msg)
  /\ hot \in Seq(Msg)
  /\ want \in [Producers -> Nat \ {0}]
  /\ acked \subseteq Msg

Busy == [producer : Producers, seq : 1..MaxSeq, at : Step]

\* What an append does to the elements.
LEMMA AppendFacts ==
  ASSUME NEW S, NEW q \in Seq(S), NEW e \in S
  PROVE  /\ Append(q, e) \in Seq(S)
         /\ ToSet(Append(q, e)) = ToSet(q) \cup {e}
<1>1. /\ Append(q, e) \in Seq(S)
      /\ Len(Append(q, e)) = Len(q) + 1
      /\ DOMAIN Append(q, e) = 1..(Len(q) + 1) /\ DOMAIN q = 1..Len(q)
      /\ \A i \in 1..Len(q) : Append(q, e)[i] = q[i]
      /\ Append(q, e)[Len(q) + 1] = e
      /\ Len(q) \in Nat
  OBVIOUS
<1>2. ToSet(Append(q, e)) = ToSet(q) \cup {e}
  <2>1. ASSUME NEW x \in ToSet(Append(q, e)) PROVE x \in ToSet(q) \cup {e}
    BY <1>1 DEF ToSet
  <2>2. ASSUME NEW x \in ToSet(q) \cup {e} PROVE x \in ToSet(Append(q, e))
    <3>1. CASE x = e
      <4>1. Len(q) + 1 \in DOMAIN Append(q, e)
        BY <1>1
      <4> QED
        BY <1>1, <3>1, <4>1 DEF ToSet
    <3>2. CASE x \in ToSet(q)
      <4>1. PICK i \in DOMAIN q : q[i] = x
        BY <3>2 DEF ToSet
      <4>2. i \in DOMAIN Append(q, e) /\ Append(q, e)[i] = x
        BY <1>1, <4>1
      <4> QED
        BY <4>2 DEF ToSet
    <3> QED
      BY <2>2, <3>1, <3>2
  <2> QED
    BY <2>1, <2>2
<1> QED
  BY <1>1, <1>2

\* A busy worker's record, and the message in it.
LEMMA BusyWorker ==
  ASSUME Types, NEW w \in Workers, work[w] # Idle
  PROVE  work[w] \in Busy /\ MsgOf(w) \in Msg
BY DEF Types, WorkType, Busy, MsgOf, Msg

\* A worker that moves on to a step.
LEMMA Moved ==
  ASSUME Types, NEW w \in Workers, work[w] # Idle, NEW s \in Step, GoesTo(w, s)
  PROVE  /\ WorkType'
         /\ work'[w] \in Busy /\ work'[w].at = s /\ work'[w] # Idle
         /\ work'[w].producer = work[w].producer /\ work'[w].seq = work[w].seq
         /\ \A v \in Workers \ {w} : work'[v] = work[v]
<1>1. work[w] \in Busy
  BY BusyWorker
<1>2. [work[w] EXCEPT !.at = s] \in Busy
  BY <1>1 DEF Busy
<1>3. work' = [work EXCEPT ![w] = [work[w] EXCEPT !.at = s]]
  BY DEF GoesTo
<1>4. Idle \notin Busy
  BY PublishPathAssumption DEF Busy
<1>5. /\ work' = [work EXCEPT ![w] = work'[w]]
      /\ work'[w] = [work[w] EXCEPT !.at = s]
      /\ \A v \in Workers \ {w} : work'[v] = work[v]
  BY <1>3 DEF Types, WorkType
<1>6. work'[w] \in Busy /\ work'[w] # Idle
  BY <1>2, <1>4, <1>5
<1>7. /\ work'[w].at = s
      /\ work'[w].producer = work[w].producer /\ work'[w].seq = work[w].seq
  BY <1>1, <1>5 DEF Busy
<1>8. WorkType'
  BY <1>5, <1>6 DEF Types, WorkType, Busy
<1> QED
  BY <1>5, <1>6, <1>7, <1>8

\* A worker that is done.
LEMMA Released ==
  ASSUME Types, NEW w \in Workers, Fails(w)
  PROVE  /\ WorkType'
         /\ work'[w] = Idle
         /\ \A v \in Workers \ {w} : work'[v] = work[v]
BY DEF Types, WorkType, Fails

-----------------------------------------------------------------------------
\* Every step keeps the types.
LEMMA TypesKept == Types /\ [Next]_vars => Types'
<1> SUFFICES ASSUME Types, [Next]_vars
             PROVE  Types'
  OBVIOUS
<1>1. CASE UNCHANGED <<seen, forgotten, work, wal, hot, want, acked>>
  BY <1>1 DEF Types, WorkType
<1>2. CASE CreateTopic \/ Tombstone \/ DeleteTopic \/ UNCHANGED vars
  BY <1>1, <1>2 DEF CreateTopic, Tombstone, DeleteTopic, vars
<1>3. CASE Restart
  BY <1>3 DEF Restart, Lost, Types, WorkType
<1>10. ASSUME NEW m \in Msg, Forget(m) PROVE Types'
  BY <1>10 DEF Forget, Lost, Types, WorkType
<1>4. ASSUME NEW w \in Workers, NEW p \in Producers, Send(w, p)
      PROVE  Types'
  <2>1. want[p] \in 1..MaxSeq /\ "dedup" \in Step
    BY <1>4, PublishPathAssumption DEF Send, Types, Step
  <2>2. [producer |-> p, seq |-> want[p], at |-> "dedup"] \in Busy
    BY <2>1 DEF Busy
  <2>3. WorkType'
    BY <1>4, <2>2 DEF Send, Types, WorkType, Busy
  <2> QED
    BY <1>4, <2>3 DEF Send, Types
<1>5. ASSUME NEW w \in Workers, Dedup(w)
      PROVE  Types'
  <2>1. work[w] # Idle /\ MsgOf(w) \in Msg
    BY <1>5, BusyWorker DEF Dedup, At
  <2>2. WorkType'
    BY <1>5, <2>1, Moved DEF Dedup, Step
  <2> QED
    BY <1>5, <2>1, <2>2 DEF Dedup, Types
<1>6. ASSUME NEW w \in Workers, Gates(w)
      PROVE  Types'
  <2>1. work[w] # Idle
    BY <1>6 DEF Gates, At
  <2>2. WorkType'
    BY <1>6, <2>1, Moved, Released DEF Gates, Step
  <2> QED
    BY <1>6, <2>2 DEF Gates, Types
<1>7. ASSUME NEW w \in Workers, WalAppend(w)
      PROVE  Types'
  <2>1. work[w] # Idle /\ MsgOf(w) \in Msg
    BY <1>7, BusyWorker DEF WalAppend, At
  <2>2. WorkType'
    BY <1>7, <2>1, Moved, Released DEF WalAppend, Step
  <2>3. wal' \in Seq(Msg)
    <3>1. wal' = Append(wal, MsgOf(w)) \/ wal' = wal
      BY <1>7 DEF WalAppend
    <3>2. wal \in Seq(Msg)
      BY DEF Types
    <3> QED
      BY <2>1, <3>1, <3>2
  <2> QED
    BY <1>7, <2>2, <2>3 DEF WalAppend, Types
<1>8. ASSUME NEW w \in Workers, HotAppend(w)
      PROVE  Types'
  <2>1. work[w] # Idle /\ MsgOf(w) \in Msg
    BY <1>8, BusyWorker DEF HotAppend, At
  <2>2. WorkType'
    BY <1>8, <2>1, Moved, Released DEF HotAppend, Step
  <2>3. hot' \in Seq(Msg)
    <3>1. hot' = Append(hot, MsgOf(w)) \/ hot' = hot
      BY <1>8 DEF HotAppend
    <3>2. hot \in Seq(Msg)
      BY DEF Types
    <3> QED
      BY <2>1, <3>1, <3>2
  <2> QED
    BY <1>8, <2>2, <2>3 DEF HotAppend, Types
<1>9. ASSUME NEW w \in Workers, Return(w)
      PROVE  Types'
  <2>1. work[w] \in Busy /\ MsgOf(w) \in Msg
    BY <1>9, BusyWorker DEF Return, At
  <2>2. WorkType'
    BY <1>9, Released DEF Return, Fails
  <2>3. work[w].producer \in Producers
    BY <2>1 DEF Busy
  <2>4. want' \in [Producers -> Nat \ {0}]
    BY <1>9, <2>3 DEF Return, Types
  <2> QED
    BY <1>9, <2>1, <2>2, <2>4 DEF Return, Types
<1> QED
  BY <1>2, <1>3, <1>4, <1>5, <1>6, <1>7, <1>8, <1>9, <1>10 DEF Next, Publish

LEMMA TypesInit == Init => Types
BY DEF Init, Types, WorkType

\* The state of the topic, which Types leaves out ...
Flags ==
  /\ topic \in BOOLEAN /\ meta \in BOOLEAN /\ deleting \in BOOLEAN /\ tombs \in BOOLEAN
  /\ deleting => topic

\* ... and the counters and sequence numbers.
Limits ==
  /\ want \in [Producers -> 1..(MaxSeq + 1)]
  /\ attempts \in 0..MaxAttempts /\ topicOps \in 0..MaxTopicOps
  /\ scope \in Scopes
  /\ starts \in 1..scope.starts

\* Only the topic's own steps and a restart touch the flags.
LEMMA FlagsKept == Flags /\ [Next]_vars => Flags'
<1> SUFFICES ASSUME Flags, [Next]_vars
             PROVE  Flags'
  OBVIOUS
<1>1. CASE CreateTopic
  <2>1. (meta' = TRUE \/ meta' = meta) /\ tombs' = FALSE /\ deleting' = deleting /\ ~deleting
    BY <1>1 DEF CreateTopic
  <2>2. topic' = TRUE \/ topic' = topic
    BY <1>1 DEF CreateTopic
  <2> QED
    BY <2>1, <2>2, Zenon DEF Flags
<1>2. CASE Tombstone
  BY <1>2, Zenon DEF Tombstone, Flags
<1>3. CASE DeleteTopic
  <2>1. (meta' = FALSE \/ meta' = meta) /\ tombs' = tombs /\ deleting' = FALSE /\ topic' = FALSE
    BY <1>3 DEF DeleteTopic
  <2> QED
    BY <2>1, Zenon DEF Flags
<1>4. CASE Restart
  <2>1. topic' = meta /\ meta' = meta /\ deleting' = FALSE /\ tombs' = tombs
    BY <1>4 DEF Restart
  <2> QED
    BY <2>1, Zenon DEF Flags
<1>5. CASE UNCHANGED topicVars
  BY <1>5, Zenon DEF Flags, topicVars
<1>6. ASSUME NEW w \in Workers, Publish(w)
      PROVE  UNCHANGED topicVars
  BY <1>6, Zenon DEF Publish, Send, Dedup, Gates, WalAppend, HotAppend, Return
<1>7. CASE UNCHANGED vars \/ \E m \in Msg : Forget(m)
  BY <1>5, <1>7 DEF vars, Forget
<1> QED
  BY <1>1, <1>2, <1>3, <1>4, <1>5, <1>6, <1>7 DEF Next

\* The topic's steps, a restart and the start of a call count up to their bounds; the
\* end of a call moves its producer to the next number.
LEMMA LimitsKept == Types /\ Limits /\ [Next]_vars => Limits'
<1> SUFFICES ASSUME Types, Limits, [Next]_vars
             PROVE  Limits'
  OBVIOUS
<1>0. scope.starts \in Nat \ {0}
  BY PublishPathAssumption DEF Limits, Scope
<1>1. CASE CreateTopic \/ Tombstone
  <2>1. /\ topicOps < MaxTopicOps /\ topicOps' = topicOps + 1
        /\ UNCHANGED <<want, attempts, starts, scope>>
    BY <1>1 DEF CreateTopic, Tombstone
  <2> QED
    BY <2>1, PublishPathAssumption DEF Limits
<1>2. CASE Restart
  <2>1. /\ starts < scope.starts /\ starts' = starts + 1
        /\ UNCHANGED <<want, attempts, topicOps, scope>>
    BY <1>2 DEF Restart
  <2> QED
    BY <1>0, <2>1 DEF Limits
<1>3. ASSUME NEW w \in Workers, NEW p \in Producers, Send(w, p)
      PROVE  Limits'
  <2>1. /\ attempts < MaxAttempts /\ attempts' = attempts + 1
        /\ UNCHANGED <<want, topicOps, starts, scope>>
    BY <1>3 DEF Send
  <2> QED
    BY <2>1, PublishPathAssumption DEF Limits
<1>4. CASE UNCHANGED <<want, counters>>
  BY <1>4 DEF Limits, counters
<1>5. ASSUME NEW w \in Workers, Return(w)
      PROVE  Limits'
  <2>1. UNCHANGED counters
    BY <1>5 DEF Return
  <2>2. work[w].producer \in Producers /\ work[w].seq \in 1..MaxSeq
    BY <1>5, BusyWorker DEF Return, At, Busy
  <2>3. want' \in [Producers -> 1..(MaxSeq + 1)]
    BY <1>5, <2>2, PublishPathAssumption DEF Return, Limits
  <2> QED
    BY <2>1, <2>3 DEF Limits, counters
<1>6. ASSUME NEW w \in Workers, Dedup(w) \/ Gates(w) \/ WalAppend(w) \/ HotAppend(w)
      PROVE  UNCHANGED <<want, counters>>
  BY <1>6 DEF Dedup, Gates, WalAppend, HotAppend
<1>7. CASE DeleteTopic \/ UNCHANGED vars \/ \E m \in Msg : Forget(m)
  BY <1>4, <1>7 DEF DeleteTopic, Forget, vars
<1> QED
  BY <1>1, <1>2, <1>3, <1>4, <1>5, <1>6, <1>7 DEF Next, Publish

\* Every variable keeps its type, no counter passes its bound, and only a topic that
\* exists is being deleted (TopicManager, Broker.Publish).
THEOREM TypeCorrect == Spec => []TypeOK
<1>1. Init => Types /\ Flags /\ Limits
  <2> SUFFICES ASSUME Init PROVE Types /\ Flags /\ Limits
    OBVIOUS
  <2>1. Flags
    BY Zenon DEF Init, Flags
  <2>2. scope.starts \in Nat \ {0}
    BY PublishPathAssumption DEF Init, Scope
  <2>3. Limits
    BY <2>2, PublishPathAssumption DEF Init, Limits
  <2> QED
    BY <2>1, <2>3, TypesInit
<1>2. Types /\ Flags /\ Limits /\ [Next]_vars => (Types /\ Flags /\ Limits)'
  BY TypesKept, FlagsKept, LimitsKept
<1>3. Types /\ Flags /\ Limits => TypeOK
  BY Zenon DEF Types, WorkType, Flags, Limits, TypeOK
<1> QED
  BY <1>1, <1>2, <1>3, PTL DEF Spec

\* The message of a worker that moves stays, the other workers stay.
LEMMA MovedMsgs ==
  ASSUME Types, NEW w \in Workers, work[w] # Idle, NEW s \in Step, GoesTo(w, s)
  PROVE  /\ MsgOf(w)' = MsgOf(w)
         /\ \A t \in Step : At(w, t)' <=> t = s
         /\ \A v \in Workers \ {w} :
              /\ MsgOf(v)' = MsgOf(v)
              /\ \A t \in Step : At(v, t)' <=> At(v, t)
              /\ Carries(v)' <=> Carries(v)
BY Moved DEF MsgOf, At, Carries

\* A worker that is done carries nothing.
LEMMA ReleasedMsgs ==
  ASSUME Types, NEW w \in Workers, Fails(w)
  PROVE  /\ \A t \in Step : ~At(w, t)'
         /\ ~Carries(w)'
         /\ \A v \in Workers \ {w} :
              /\ MsgOf(v)' = MsgOf(v)
              /\ \A t \in Step : At(v, t)' <=> At(v, t)
              /\ Carries(v)' <=> Carries(v)
BY Released DEF MsgOf, At, Carries

\* A worker that begins is at the deduper.
LEMMA SentMsgs ==
  ASSUME Types, NEW w \in Workers, NEW p \in Producers, Send(w, p)
  PROVE  /\ At(w, "dedup")'
         /\ \A t \in Step \ {"dedup"} : ~At(w, t)'
         /\ ~Carries(w)'
         /\ \A v \in Workers \ {w} :
              /\ MsgOf(v)' = MsgOf(v)
              /\ \A t \in Step : At(v, t)' <=> At(v, t)
              /\ Carries(v)' <=> Carries(v)
<1>1. want[p] \in 1..MaxSeq /\ "dedup" \in Step
  BY PublishPathAssumption DEF Send, Types, Step
<1>2. [producer |-> p, seq |-> want[p], at |-> "dedup"] \in Busy
  BY <1>1 DEF Busy
<1>3. /\ work'[w] = [producer |-> p, seq |-> want[p], at |-> "dedup"]
      /\ \A v \in Workers \ {w} : work'[v] = work[v]
  BY DEF Send, Types, WorkType
<1>4. work'[w] # Idle
  BY <1>2, <1>3, PublishPathAssumption DEF Busy
<1> QED
  BY <1>3, <1>4 DEF MsgOf, At, Carries

-----------------------------------------------------------------------------
\* Workers past the deduper with message m.
Carriers(m) == {w \in Workers : Carries(w) /\ MsgOf(w) = m}

Copied(m) == {i \in 1..Len(hot) : hot[i] = m}

\* What may be there of message m.
Allowed(m) == forgotten[m] + IF m \in seen THEN 1 ELSE 0

Accounts ==
  /\ Types
  /\ \A m \in Msg : Cardinality(Copied(m)) + Cardinality(Carriers(m)) <= Allowed(m)

\* Both are finite sets.
LEMMA Counted ==
  ASSUME Types, NEW m
  PROVE  /\ IsFiniteSet(Copied(m)) /\ Cardinality(Copied(m)) \in Nat
         /\ IsFiniteSet(Carriers(m)) /\ Cardinality(Carriers(m)) \in Nat
<1>1. IsFiniteSet(1..Len(hot))
  BY FS_Interval DEF Types
<1>2. IsFiniteSet(Copied(m))
  BY <1>1, FS_Subset DEF Copied
<1>3. IsFiniteSet(Carriers(m))
  BY FS_Subset, PublishPathAssumption DEF Carriers
<1> QED
  BY <1>2, <1>3, FS_CardinalityType

LEMMA CountedNext ==
  ASSUME Types', NEW m
  PROVE  /\ IsFiniteSet(Copied(m)') /\ Cardinality(Copied(m)') \in Nat
         /\ IsFiniteSet(Carriers(m)') /\ Cardinality(Carriers(m)') \in Nat
<1>1. IsFiniteSet(1..Len(hot'))
  BY FS_Interval DEF Types
<1>2. IsFiniteSet(Copied(m)')
  BY <1>1, FS_Subset DEF Copied
<1>3. IsFiniteSet(Carriers(m)')
  BY FS_Subset, PublishPathAssumption DEF Carriers
<1> QED
  BY <1>2, <1>3, FS_CardinalityType

\* What a step of worker w does to the carriers, if it leaves the others alone: there is
\* one more if it begins to carry, one less if it no longer does.
LEMMA CarriersMove ==
  ASSUME Types, Types', NEW w \in Workers, NEW m,
         \A v \in Workers \ {w} : MsgOf(v)' = MsgOf(v) /\ (Carries(v)' <=> Carries(v)),
         Carries(w) /\ Carries(w)' => MsgOf(w)' = MsgOf(w)
  PROVE  /\ Cardinality(Carriers(m)') <=
              Cardinality(Carriers(m)) + IF ~Carries(w) /\ Carries(w)' /\ MsgOf(w)' = m THEN 1 ELSE 0
         /\ Carries(w) /\ ~Carries(w)' /\ MsgOf(w) = m =>
              Cardinality(Carriers(m)') = Cardinality(Carriers(m)) - 1
<1> DEFINE C == Carriers(m)
           D == Carriers(m)'
<1>1. IsFiniteSet(C) /\ IsFiniteSet(D) /\ Cardinality(C) \in Nat /\ Cardinality(D) \in Nat
  BY Counted, CountedNext
<1>2. \A v \in Workers \ {w} : v \in D <=> v \in C
  BY DEF Carriers
<1>3. /\ w \in C <=> Carries(w) /\ MsgOf(w) = m
      /\ w \in D <=> Carries(w)' /\ MsgOf(w)' = m
  BY DEF Carriers
<1>4. C \subseteq Workers /\ D \subseteq Workers
  BY DEF Carriers
<1> HIDE DEF C, D
<1>5. CASE w \in C /\ w \notin D
  <2>1. D = C \ {w}
    BY <1>2, <1>4, <1>5
  <2>2. Cardinality(D) = Cardinality(C) - 1
    BY <1>1, <1>5, <2>1, FS_RemoveElement
  <2> QED
    BY <1>1, <2>2 DEF C, D
<1>6. CASE w \notin C /\ w \in D
  <2>1. D = C \cup {w}
    BY <1>2, <1>4, <1>6
  <2>2. Cardinality(D) = Cardinality(C) + 1
    BY <1>1, <1>6, <2>1, FS_AddElement
  <2>3. ~Carries(w) /\ Carries(w)' /\ MsgOf(w)' = m
    BY <1>3, <1>6
  <2>4. Cardinality(D) <= Cardinality(C) + 1
    BY <1>1, <2>2
  <2> QED
    BY <2>3, <2>4 DEF C, D
<1>7. CASE w \in C <=> w \in D
  <2>1. D = C
    BY <1>2, <1>4, <1>7
  <2>2. ~(Carries(w) /\ ~Carries(w)' /\ MsgOf(w) = m)
    BY <1>3, <1>7
  <2>3. Cardinality(D) = Cardinality(C)
    BY <2>1
  <2> QED
    BY <1>1, <2>2, <2>3 DEF C, D
<1> QED
  BY <1>5, <1>6, <1>7

\* An append adds a copy of its own message.
LEMMA CopiedAppend ==
  ASSUME Types, NEW e \in Msg, hot' = Append(hot, e), NEW m
  PROVE  Cardinality(Copied(m)') = Cardinality(Copied(m)) + IF m = e THEN 1 ELSE 0
<1>1. /\ Len(hot) \in Nat /\ Len(hot') = Len(hot) + 1
      /\ \A i \in 1..Len(hot) : hot'[i] = hot[i]
      /\ hot'[Len(hot) + 1] = e
  BY DEF Types
<1>2. IsFiniteSet(Copied(m)) /\ Cardinality(Copied(m)) \in Nat
  BY Counted
<1>3. Len(hot) + 1 \notin Copied(m)
  BY <1>1 DEF Copied
<1>4. CASE m = e
  <2>1. Copied(m)' = Copied(m) \cup {Len(hot) + 1}
    BY <1>1, <1>4 DEF Copied
  <2> QED
    BY <1>2, <1>3, <1>4, <2>1, FS_AddElement
<1>5. CASE m # e
  <2>1. Copied(m)' = Copied(m)
    BY <1>1, <1>5 DEF Copied
  <2> QED
    BY <1>2, <1>5, <2>1
<1> QED
  BY <1>4, <1>5

\* Forgetting a message that is remembered changes what it remembers into what it has
\* forgotten.
LEMMA LostAllowed ==
  ASSUME Types, NEW lost, Lost(lost), NEW m \in Msg
  PROVE  Allowed(m)' = Allowed(m)
<1>1. forgotten'[m] = forgotten[m] + IF m \in seen \cap lost THEN 1 ELSE 0
  BY DEF Lost
<1>2. m \in seen' <=> m \in seen /\ m \notin lost
  BY DEF Lost
<1>3. forgotten[m] \in Nat
  BY DEF Types
<1>4. CASE m \in seen /\ m \in lost
  BY <1>1, <1>2, <1>3, <1>4 DEF Allowed
<1>5. CASE m \notin seen \/ m \notin lost
  BY <1>1, <1>2, <1>3, <1>5 DEF Allowed
<1> QED
  BY <1>4, <1>5

\* A worker that is past the deduper moves on, fails or stores its message.
LEMMA AccountsCarried ==
  ASSUME Accounts, Types', NEW w \in Workers, Carries(w), UNCHANGED <<seen, forgotten>>,
         (\E s \in Step : GoesTo(w, s)) \/ Fails(w),
         \/ hot' = hot
         \/ hot' = Append(hot, MsgOf(w)) /\ GoesTo(w, "return")
  PROVE  Accounts'
<1>1. Types /\ work[w] # Idle /\ MsgOf(w) \in Msg
  BY BusyWorker DEF Accounts, Carries, At
<1>2. /\ Carries(w)' => MsgOf(w)' = MsgOf(w)
      /\ \A v \in Workers \ {w} : MsgOf(v)' = MsgOf(v) /\ (Carries(v)' <=> Carries(v))
  BY <1>1, MovedMsgs, ReleasedMsgs
<1>3. ASSUME NEW m \in Msg
      PROVE  Cardinality(Copied(m)') + Cardinality(Carriers(m)') <= Allowed(m)'
  <2>1. /\ Cardinality(Copied(m)) \in Nat /\ Cardinality(Carriers(m)) \in Nat
        /\ Cardinality(Copied(m)') \in Nat /\ Cardinality(Carriers(m)') \in Nat
    BY <1>1, Counted, CountedNext
  <2>2. Allowed(m)' = Allowed(m) /\ Allowed(m) \in Nat
    BY <1>1 DEF Allowed, Types
  <2>3. Cardinality(Copied(m)) + Cardinality(Carriers(m)) <= Allowed(m)
    BY DEF Accounts
  <2>4. /\ Cardinality(Carriers(m)') <= Cardinality(Carriers(m))
        /\ ~Carries(w)' /\ MsgOf(w) = m => Cardinality(Carriers(m)') = Cardinality(Carriers(m)) - 1
    BY <1>1, <1>2, <2>1, CarriersMove
  <2>5. CASE hot' = hot
    <3>1. Copied(m)' = Copied(m)
      BY <2>5 DEF Copied
    <3> QED
      BY <2>1, <2>2, <2>3, <2>4, <3>1
  <2>6. CASE hot' = Append(hot, MsgOf(w)) /\ GoesTo(w, "return")
    <3>1. ~Carries(w)'
      BY <1>1, <2>6, MovedMsgs DEF Carries, Step
    <3>2. Cardinality(Copied(m)') = Cardinality(Copied(m)) + IF m = MsgOf(w) THEN 1 ELSE 0
      BY <1>1, <2>6, CopiedAppend
    <3> QED
      BY <2>1, <2>2, <2>3, <2>4, <3>1, <3>2
  <2> QED
    BY <2>5, <2>6
<1> QED
  BY <1>3 DEF Accounts

\* A message passes the deduper when it is not remembered, and is remembered then.
LEMMA AccountsDedup ==
  ASSUME Accounts, Types', NEW w \in Workers, Dedup(w)
  PROVE  Accounts'
<1>1. /\ Types /\ work[w] # Idle /\ ~Carries(w) /\ MsgOf(w) \in Msg
      /\ hot' = hot /\ forgotten' = forgotten /\ seen' = seen \cup {MsgOf(w)}
  BY BusyWorker DEF Accounts, Dedup, At, Carries
<1>2. PICK s \in Step : GoesTo(w, s) /\ (s = "return" \/ (s = "gates" /\ MsgOf(w) \notin seen))
  BY DEF Dedup, Step
<1>3. /\ MsgOf(w)' = MsgOf(w)
      /\ s = "return" => ~Carries(w)'
      /\ \A v \in Workers \ {w} : MsgOf(v)' = MsgOf(v) /\ (Carries(v)' <=> Carries(v))
  BY <1>1, <1>2, MovedMsgs DEF Carries, Step
<1>4. ASSUME NEW m \in Msg
      PROVE  Cardinality(Copied(m)') + Cardinality(Carriers(m)') <= Allowed(m)'
  <2>1. /\ Cardinality(Copied(m)) \in Nat /\ Cardinality(Carriers(m)) \in Nat
        /\ Cardinality(Copied(m)') \in Nat /\ Cardinality(Carriers(m)') \in Nat
    BY <1>1, Counted, CountedNext
  <2>2. Copied(m)' = Copied(m)
    BY <1>1 DEF Copied
  <2>3. Cardinality(Copied(m)) + Cardinality(Carriers(m)) <= Allowed(m)
    BY DEF Accounts
  <2>4. Cardinality(Carriers(m)') <=
          Cardinality(Carriers(m)) + IF ~Carries(w) /\ Carries(w)' /\ MsgOf(w)' = m THEN 1 ELSE 0
    BY <1>1, <1>3, CarriersMove
  <2>5. forgotten[m] \in Nat
    BY <1>1 DEF Types
  <2>6. CASE Carries(w)' /\ MsgOf(w) = m
    <3>1. m \notin seen /\ m \in seen'
      BY <1>1, <1>2, <1>3, <2>6
    <3>2. Allowed(m)' = Allowed(m) + 1
      BY <1>1, <2>5, <3>1 DEF Allowed
    <3> QED
      BY <1>3, <2>1, <2>2, <2>3, <2>4, <2>5, <2>6, <3>2 DEF Allowed
  <2>7. CASE ~(Carries(w)' /\ MsgOf(w) = m)
    <3>1. Allowed(m) <= Allowed(m)' /\ Allowed(m) \in Nat /\ Allowed(m)' \in Nat
      BY <1>1, <2>5 DEF Allowed
    <3>2. Cardinality(Carriers(m)') <= Cardinality(Carriers(m))
      BY <1>3, <2>1, <2>4, <2>7
    <3> QED
      BY <2>1, <2>2, <2>3, <3>1, <3>2
  <2> QED
    BY <2>6, <2>7
<1> QED
  BY <1>4 DEF Accounts

\* A worker that is not past the deduper, before and after a step that changes nothing
\* else.
LEMMA AccountsIdle ==
  ASSUME Accounts, Types', NEW w \in Workers, UNCHANGED <<seen, forgotten, hot>>,
         ~Carries(w)',
         \A v \in Workers \ {w} : MsgOf(v)' = MsgOf(v) /\ (Carries(v)' <=> Carries(v))
  PROVE  Accounts'
<1>1. Types
  BY DEF Accounts
<1>2. ASSUME NEW m \in Msg
      PROVE  Cardinality(Copied(m)') + Cardinality(Carriers(m)') <= Allowed(m)'
  <2>1. /\ Cardinality(Copied(m)) \in Nat /\ Cardinality(Carriers(m)) \in Nat
        /\ Cardinality(Carriers(m)') \in Nat
    BY <1>1, Counted, CountedNext
  <2>2. Copied(m)' = Copied(m) /\ Allowed(m)' = Allowed(m)
    BY DEF Copied, Allowed
  <2>3. Cardinality(Carriers(m)') <= Cardinality(Carriers(m))
    BY <1>1, <2>1, CarriersMove
  <2>4. Allowed(m) \in Nat
    BY <1>1 DEF Allowed, Types
  <2> QED
    BY <2>1, <2>2, <2>3, <2>4 DEF Accounts
<1> QED
  BY <1>2 DEF Accounts

\* Every step keeps the accounts.
LEMMA AccountsKept == Accounts /\ [Next]_vars => Accounts'
<1> SUFFICES ASSUME Accounts, [Next]_vars
             PROVE  Accounts'
  OBVIOUS
<1>0. Types /\ Types'
  BY TypesKept DEF Accounts
<1>1. CASE UNCHANGED <<seen, forgotten, work, hot>>
  BY <1>0, <1>1 DEF Accounts, Copied, Carriers, Allowed, Carries, At, MsgOf
<1>2. CASE CreateTopic \/ Tombstone \/ DeleteTopic \/ UNCHANGED vars
  BY <1>1, <1>2 DEF CreateTopic, Tombstone, DeleteTopic, vars
<1>3. CASE Restart
  <2>1. Lost(Msg) /\ hot' = hot /\ \A w \in Workers : work'[w] = Idle
    BY <1>3 DEF Restart
  <2>2. ASSUME NEW m \in Msg
        PROVE  Cardinality(Copied(m)') + Cardinality(Carriers(m)') <= Allowed(m)'
    <3>1. Copied(m)' = Copied(m) /\ Carriers(m)' = {}
      BY <2>1 DEF Copied, Carriers, Carries, At
    <3>2. Cardinality(Carriers(m)') = 0
      BY <3>1, FS_EmptySet
    <3>3. Allowed(m)' = Allowed(m)
      BY <1>0, <2>1, LostAllowed
    <3>4. Allowed(m) \in Nat
      BY <1>0 DEF Allowed, Types
    <3> QED
      BY <1>0, <3>1, <3>2, <3>3, <3>4, Counted DEF Accounts
  <2> QED
    BY <1>0, <2>2 DEF Accounts
<1>4. ASSUME NEW f \in Msg, Forget(f) PROVE Accounts'
  <2>1. Lost({f}) /\ hot' = hot /\ work' = work
    BY <1>4 DEF Forget
  <2>2. ASSUME NEW m \in Msg
        PROVE  Cardinality(Copied(m)') + Cardinality(Carriers(m)') <= Allowed(m)'
    <3>1. Copied(m)' = Copied(m) /\ Carriers(m)' = Carriers(m)
      BY <2>1 DEF Copied, Carriers, Carries, At, MsgOf
    <3>2. Allowed(m)' = Allowed(m)
      BY <1>0, <2>1, LostAllowed
    <3> QED
      BY <3>1, <3>2 DEF Accounts
  <2> QED
    BY <1>0, <2>2 DEF Accounts
<1>5. ASSUME NEW w \in Workers, NEW p \in Producers, Send(w, p)
      PROVE  Accounts'
  <2>1. UNCHANGED <<seen, forgotten, hot>>
    BY <1>5 DEF Send
  <2> QED
    BY <1>0, <1>5, <2>1, SentMsgs, AccountsIdle
<1>6. ASSUME NEW w \in Workers, Dedup(w) PROVE Accounts'
  BY <1>0, <1>6, AccountsDedup
<1>7. ASSUME NEW w \in Workers, Gates(w) \/ WalAppend(w)
      PROVE  Accounts'
  <2>1. Carries(w) /\ UNCHANGED <<seen, forgotten, hot>>
    BY <1>7 DEF Gates, WalAppend, Carries
  <2>2. (\E s \in Step : GoesTo(w, s)) \/ Fails(w)
    BY <1>7 DEF Gates, WalAppend, Step
  <2> QED
    BY <1>0, <2>1, <2>2, AccountsCarried
<1>8. ASSUME NEW w \in Workers, HotAppend(w)
      PROVE  Accounts'
  <2>1. Carries(w) /\ UNCHANGED <<seen, forgotten>>
    BY <1>8 DEF HotAppend, Carries
  <2>2. \/ hot' = Append(hot, MsgOf(w)) /\ GoesTo(w, "return") /\ "return" \in Step
        \/ hot' = hot /\ Fails(w)
    BY <1>8 DEF HotAppend, Step
  <2> QED
    BY <1>0, <2>1, <2>2, AccountsCarried
<1>9. ASSUME NEW w \in Workers, Return(w)
      PROVE  Accounts'
  <2>1. Fails(w) /\ UNCHANGED <<seen, forgotten, hot>>
    BY <1>9 DEF Return, Fails
  <2> QED
    BY <1>0, <2>1, ReleasedMsgs, AccountsIdle
<1> QED
  BY <1>2, <1>3, <1>4, <1>5, <1>6, <1>7, <1>8, <1>9 DEF Next, Publish

LEMMA AccountsHold == Spec => []Accounts
<1>1. Init => Accounts
  <2> SUFFICES ASSUME Init PROVE Accounts
    OBVIOUS
  <2>1. Types
    BY TypesInit
  <2>2. /\ hot = <<>> /\ forgotten = [m \in Msg |-> 0]
        /\ \A w \in Workers : work[w] = Idle
    BY DEF Init
  <2>3. ASSUME NEW m \in Msg
        PROVE  Cardinality(Copied(m)) + Cardinality(Carriers(m)) <= Allowed(m)
    <3>1. Copied(m) = {} /\ Carriers(m) = {}
      BY <2>2 DEF Copied, Carriers, Carries, At
    <3>2. Cardinality(Copied(m)) = 0 /\ Cardinality(Carriers(m)) = 0
      BY <3>1, FS_EmptySet
    <3> QED
      BY <2>2, <3>2 DEF Allowed
  <2> QED
    BY <2>1, <2>3 DEF Accounts
<1> QED
  BY <1>1, AccountsKept, PTL DEF Spec

\* What the abstract topic counts.
LEMMA TopicCopies == ASSUME NEW m PROVE Topic!Copies(m) = Cardinality(Copied(m))
BY DEF Topic!Copies, Copied, Topic!Cardinality, Cardinality

\* A broker stores a message at most once for each time its deduper has forgotten it,
\* and once more, however many workers are given it at the same time, whatever fails and
\* however often it is restarted.
THEOREM StoredOnce == Spec => []OncePerMemory
<1>1. Accounts => OncePerMemory
  <2> SUFFICES ASSUME Accounts, NEW m \in Msg
               PROVE  Topic!Copies(m) <= forgotten[m] + 1
    BY DEF OncePerMemory
  <2>1. Cardinality(Copied(m)) \in Nat /\ Cardinality(Carriers(m)) \in Nat
    BY Counted DEF Accounts
  <2>2. forgotten[m] \in Nat
    BY DEF Accounts, Types
  <2>3. Cardinality(Copied(m)) + Cardinality(Carriers(m)) <= Allowed(m)
    BY DEF Accounts
  <2>4. Allowed(m) \in Nat /\ Allowed(m) <= forgotten[m] + 1
    BY <2>2 DEF Allowed
  <2> QED
    BY <2>1, <2>2, <2>3, <2>4, TopicCopies
<1> QED
  BY <1>1, AccountsHold, PTL

-----------------------------------------------------------------------------
\* What holds in a calm broker.
Stored ==
  /\ Types
  /\ acked \subseteq ToSet(hot)
  /\ \A w \in Workers : At(w, "return") => MsgOf(w) \in ToSet(hot)
  /\ \A m \in seen : m \in ToSet(hot) \/ \E w \in Workers : Carries(w) /\ MsgOf(w) = m
  /\ \A v, w \in Workers :
       work[v] # Idle /\ work[w] # Idle /\ work[v].producer = work[w].producer => v = w

\* Every step of a calm broker keeps it.
LEMMA StoredKept ==
  ASSUME Stored, Calm, [Next]_vars
  PROVE  Stored'
<1> DEFINE Accounted(w, s) ==
      \A m \in seen' : \/ m \in ToSet(hot')
                       \/ m = MsgOf(w) /\ s \in {"gates", "wal", "hot"}
                       \/ m \in seen /\ m # MsgOf(w)
<1>0. Types /\ Types'
  BY TypesKept DEF Stored
<1>1. CASE UNCHANGED <<seen, work, hot, acked>>
  BY <1>0, <1>1 DEF Stored, Carries, At, MsgOf
<1>2. CASE CreateTopic \/ Tombstone \/ DeleteTopic \/ UNCHANGED vars
  BY <1>1, <1>2 DEF CreateTopic, Tombstone, DeleteTopic, vars
<1>3. CASE Restart
  <2>1. /\ acked' = acked /\ hot' = hot /\ seen' = {}
        /\ \A w \in Workers : work'[w] = Idle
    BY <1>0, <1>3 DEF Restart, Lost, Types
  <2> QED
    BY <1>0, <2>1 DEF Stored, At
<1>10. ASSUME NEW m \in Msg, Forget(m) PROVE Stored'
  <2>1. UNCHANGED <<work, hot, acked>> /\ seen' \subseteq seen
    BY <1>10 DEF Forget, Lost
  <2> QED
    BY <1>0, <2>1 DEF Stored, Carries, At, MsgOf
<1>4. ASSUME NEW w \in Workers, NEW p \in Producers, Send(w, p)
      PROVE  Stored'
  <2>1. /\ hot' = hot /\ seen' = seen /\ acked' = acked
        /\ work[w] = Idle
        /\ \A v \in Workers : work[v] # Idle => work[v].producer # p
    BY <1>4 DEF Send, Calm
  <2>2. /\ work'[w].producer = p
        /\ \A v \in Workers \ {w} : work'[v] = work[v]
    BY <1>4 DEF Send, Types, WorkType, Stored
  <2>3. /\ ~At(w, "return")'
        /\ \A v \in Workers \ {w} : /\ MsgOf(v)' = MsgOf(v)
                                    /\ At(v, "return")' <=> At(v, "return")
                                    /\ Carries(v)' <=> Carries(v)
    BY <1>0, <1>4, SentMsgs DEF Step
  <2>4. ~Carries(w)
    BY <2>1 DEF Carries, At
  <2>5. ASSUME NEW m \in seen, m \notin ToSet(hot)
        PROVE  \E v \in Workers : Carries(v)' /\ MsgOf(v)' = m
    BY <2>3, <2>4, <2>5 DEF Stored
  <2>6. \A u, v \in Workers :
          work'[u] # Idle /\ work'[v] # Idle /\ work'[u].producer = work'[v].producer => u = v
    BY <2>1, <2>2 DEF Stored
  <2> QED
    BY <1>0, <2>1, <2>3, <2>5, <2>6 DEF Stored
<1>5. ASSUME NEW w \in Workers, work[w] # Idle, NEW s \in Step, GoesTo(w, s),
             acked' = acked, ToSet(hot) \subseteq ToSet(hot'),
             s = "return" => MsgOf(w) \in ToSet(hot'),
             Accounted(w, s)
      PROVE  Stored'
  <2>1. /\ MsgOf(w)' = MsgOf(w)
        /\ At(w, "return")' <=> s = "return"
        /\ s \in {"gates", "wal", "hot"} => Carries(w)'
        /\ \A v \in Workers \ {w} : /\ MsgOf(v)' = MsgOf(v)
                                    /\ At(v, "return")' <=> At(v, "return")
                                    /\ Carries(v)' <=> Carries(v)
    BY <1>0, <1>5, MovedMsgs DEF Step, Carries
  <2>2. /\ work'[w].producer = work[w].producer
        /\ \A v \in Workers \ {w} : work'[v] = work[v]
    BY <1>0, <1>5, Moved
  <2>3. \A u, v \in Workers :
          work'[u] # Idle /\ work'[v] # Idle /\ work'[u].producer = work'[v].producer => u = v
    BY <1>5, <2>2 DEF Stored
  <2>4. ASSUME NEW m \in seen', m \notin ToSet(hot')
        PROVE  \E v \in Workers : Carries(v)' /\ MsgOf(v)' = m
    <3>1. CASE m = MsgOf(w) /\ s \in {"gates", "wal", "hot"}
      BY <2>1, <3>1
    <3>2. CASE m \in seen /\ m # MsgOf(w)
      <4>1. PICK v \in Workers : Carries(v) /\ MsgOf(v) = m
        BY <1>5, <2>4, <3>2 DEF Stored
      <4> QED
        BY <2>1, <3>2, <4>1
    <3> QED
      BY <1>5, <2>4, <3>1, <3>2
  <2> QED
    BY <1>0, <1>5, <2>1, <2>3, <2>4 DEF Stored
<1>6. ASSUME NEW w \in Workers, Dedup(w)
      PROVE  Stored'
  <2>1. /\ work[w] # Idle /\ ~Carries(w)
        /\ hot' = hot /\ acked' = acked /\ seen' = seen \cup {MsgOf(w)}
    BY <1>6 DEF Dedup, At, Carries
  <2>2. CASE MsgOf(w) \in seen
    <3>1. MsgOf(w) \in ToSet(hot)
      <4>1. SUFFICES ASSUME NEW v \in Workers, Carries(v), MsgOf(v) = MsgOf(w)
                     PROVE  FALSE
        BY <2>2 DEF Stored
      <4>2. work[v] # Idle /\ work[v].producer = work[w].producer
        BY <4>1 DEF Carries, At, MsgOf
      <4> QED
        BY <2>1, <4>1, <4>2 DEF Stored
    <3>2. GoesTo(w, "return") /\ "return" \in Step
      BY <1>6, <2>2 DEF Dedup, Step
    <3>3. Accounted(w, "return")
      BY <2>1, <3>1
    <3>4. ToSet(hot) \subseteq ToSet(hot') /\ MsgOf(w) \in ToSet(hot')
      BY <2>1, <3>1
    <3> HIDE DEF Accounted
    <3> QED
      BY <1>5, <2>1, <3>2, <3>3, <3>4
  <2>3. CASE MsgOf(w) \notin seen
    <3>1. GoesTo(w, "gates") /\ "gates" \in Step
      BY <1>6, <2>3 DEF Dedup, Step
    <3>2. Accounted(w, "gates")
      BY <2>1, <2>3
    <3>3. ToSet(hot) \subseteq ToSet(hot') /\ "gates" # "return"
      BY <2>1
    <3> HIDE DEF Accounted
    <3> QED
      BY <1>5, <2>1, <3>1, <3>2, <3>3
  <2> QED
    BY <2>2, <2>3
<1>7. ASSUME NEW w \in Workers, Gates(w) \/ WalAppend(w)
      PROVE  Stored'
  <2>1. work[w] # Idle /\ hot' = hot /\ seen' = seen /\ acked' = acked
    BY <1>7 DEF Gates, WalAppend, At
  <2>2. PICK s \in {"wal", "hot"} : GoesTo(w, s)
    BY <1>7 DEF Gates, WalAppend, Calm
  <2>3. s \in Step /\ s # "return"
    BY <2>2 DEF Step
  <2>4. Accounted(w, s)
    BY <2>1, <2>2
  <2>5. ToSet(hot) \subseteq ToSet(hot')
    BY <2>1
  <2> HIDE DEF Accounted
  <2> QED
    BY <1>5, <2>1, <2>2, <2>3, <2>4, <2>5
<1>8. ASSUME NEW w \in Workers, HotAppend(w)
      PROVE  Stored'
  <2>1. /\ work[w] # Idle /\ seen' = seen /\ acked' = acked
        /\ hot' = Append(hot, MsgOf(w)) /\ GoesTo(w, "return")
    BY <1>8 DEF HotAppend, At, Calm
  <2>2. ToSet(hot') = ToSet(hot) \cup {MsgOf(w)}
    BY <1>0, <2>1, BusyWorker, AppendFacts DEF Types
  <2>3. Accounted(w, "return") /\ "return" \in Step
    BY <2>1, <2>2 DEF Step
  <2> HIDE DEF Accounted
  <2> QED
    BY <1>5, <2>1, <2>2, <2>3
<1>9. ASSUME NEW w \in Workers, Return(w)
      PROVE  Stored'
  <2>1. /\ Fails(w) /\ hot' = hot /\ seen' = seen /\ acked' = acked \cup {MsgOf(w)}
        /\ At(w, "return")
    BY <1>9 DEF Return, Fails
  <2>2. ~Carries(w)
    BY <2>1 DEF Carries, At
  <2>3. /\ ~At(w, "return")'
        /\ \A v \in Workers \ {w} : /\ MsgOf(v)' = MsgOf(v)
                                    /\ At(v, "return")' <=> At(v, "return")
                                    /\ Carries(v)' <=> Carries(v)
    BY <1>0, <2>1, ReleasedMsgs DEF Step
  <2>4. work'[w] = Idle /\ \A v \in Workers \ {w} : work'[v] = work[v]
    BY <1>0, <2>1, Released
  <2>5. \A u, v \in Workers :
          work'[u] # Idle /\ work'[v] # Idle /\ work'[u].producer = work'[v].producer => u = v
    BY <2>4 DEF Stored
  <2>6. ASSUME NEW m \in seen, m \notin ToSet(hot)
        PROVE  \E v \in Workers : Carries(v)' /\ MsgOf(v)' = m
    BY <2>2, <2>3, <2>6 DEF Stored
  <2> QED
    BY <1>0, <2>1, <2>3, <2>5, <2>6 DEF Stored
<1> QED
  BY <1>2, <1>3, <1>4, <1>6, <1>7, <1>8, <1>9, <1>10 DEF Next, Publish

StoredInv ==
  /\ Types
  /\ Calm => Stored

\* It holds always.
LEMMA StoredHolds == Spec => []StoredInv
<1>1. Init => StoredInv
  <2> SUFFICES ASSUME Init PROVE StoredInv
    OBVIOUS
  <2>1. Types
    BY TypesInit
  <2>2. acked = {} /\ seen = {} /\ \A w \in Workers : work[w] = Idle
    BY DEF Init
  <2> QED
    BY <2>1, <2>2 DEF StoredInv, Stored, At
<1>2. StoredInv /\ [Next]_vars => StoredInv'
  <2> SUFFICES ASSUME StoredInv, [Next]_vars
               PROVE  StoredInv'
    OBVIOUS
  <2>1. Types'
    BY TypesKept DEF StoredInv
  <2>2. scope' = scope
    BY DEF Next, Publish, CreateTopic, Tombstone, DeleteTopic, Send, Dedup, Gates,
           WalAppend, HotAppend, Return, Restart, Forget, vars, counters
  <2>3. Calm' <=> Calm
    BY <2>2 DEF Calm, Failures, Overlap
  <2>4. Calm => Stored'
    BY StoredKept DEF StoredInv
  <2> QED
    BY <2>1, <2>3, <2>4 DEF StoredInv
<1> QED
  BY <1>1, <1>2, PTL DEF Spec

\* If no step of Publish fails and producers wait for their answers, what they
\* are told is stored is stored, and stays so over any number of crashes.
THEOREM AcknowledgedIsStored == Spec => []AckedStored
<1>1. StoredInv => AckedStored
  BY DEF StoredInv, Stored, AckedStored, Calm
<1> QED
  BY <1>1, StoredHolds, PTL

-----------------------------------------------------------------------------
LoggedInv ==
  /\ Types
  /\ ToSet(hot) \subseteq ToSet(wal)
  /\ \A w \in Workers : At(w, "hot") => MsgOf(w) \in ToSet(wal)

\* It holds always.
LEMMA LoggedHolds == Spec => []LoggedInv
<1>1. Init => LoggedInv
  <2> SUFFICES ASSUME Init PROVE LoggedInv
    OBVIOUS
  <2>1. Types
    BY TypesInit
  <2>2. hot = <<>> /\ \A w \in Workers : work[w] = Idle
    BY DEF Init
  <2> QED
    BY <2>1, <2>2 DEF LoggedInv, At, ToSet
<1>2. LoggedInv /\ [Next]_vars => LoggedInv'
  <2> SUFFICES ASSUME LoggedInv, [Next]_vars
               PROVE  LoggedInv'
    OBVIOUS
  <2>0. Types /\ Types'
    BY TypesKept DEF LoggedInv
  <2>1. CASE UNCHANGED <<work, wal, hot>>
    BY <2>0, <2>1 DEF LoggedInv, At, MsgOf
  <2>2. CASE \/ CreateTopic \/ Tombstone \/ DeleteTopic \/ UNCHANGED vars
             \/ \E m \in Msg : Forget(m)
    BY <2>1, <2>2 DEF CreateTopic, Tombstone, DeleteTopic, Forget, vars
  <2>3. CASE Restart
    <3>1. wal' = wal /\ hot' = hot /\ \A w \in Workers : work'[w] = Idle
      BY <2>3 DEF Restart
    <3> QED
      BY <2>0, <3>1 DEF LoggedInv, At
  <2>4. ASSUME NEW w \in Workers, NEW p \in Producers, Send(w, p)
        PROVE  LoggedInv'
    <3>1. hot' = hot /\ wal' = wal
      BY <2>4 DEF Send
    <3> QED
      BY <2>0, <2>4, <3>1, SentMsgs DEF LoggedInv, Step
  <2>5. ASSUME NEW w \in Workers, Fails(w), hot' = hot, wal' = wal
        PROVE  LoggedInv'
    BY <2>0, <2>5, ReleasedMsgs DEF LoggedInv, Step
  <2>6. ASSUME NEW w \in Workers, work[w] # Idle, NEW s \in Step, GoesTo(w, s),
               ToSet(hot') \subseteq ToSet(wal'), ToSet(wal) \subseteq ToSet(wal'),
               s = "hot" => MsgOf(w) \in ToSet(wal')
        PROVE  LoggedInv'
    <3>1. /\ MsgOf(w)' = MsgOf(w) /\ (At(w, "hot")' <=> s = "hot")
          /\ \A v \in Workers \ {w} : MsgOf(v)' = MsgOf(v) /\ (At(v, "hot")' <=> At(v, "hot"))
      BY <2>0, <2>6, MovedMsgs DEF Step
    <3> QED
      BY <2>0, <2>6, <3>1 DEF LoggedInv
  <2>7. ASSUME NEW w \in Workers, Dedup(w) \/ (Gates(w) /\ ~Fails(w))
        PROVE  LoggedInv'
    <3>1. work[w] # Idle /\ hot' = hot /\ wal' = wal
      BY <2>7 DEF Dedup, Gates, At
    <3>2. PICK s \in {"return", "gates", "wal"} : GoesTo(w, s)
      BY <2>7 DEF Dedup, Gates
    <3>3. s \in Step /\ s # "hot"
      BY <3>2 DEF Step
    <3>4. ToSet(hot') \subseteq ToSet(wal') /\ ToSet(wal) \subseteq ToSet(wal')
      BY <3>1 DEF LoggedInv
    <3> QED
      BY <2>6, <3>1, <3>2, <3>3, <3>4
  <2>8. ASSUME NEW w \in Workers, Gates(w), Fails(w)
        PROVE  LoggedInv'
    BY <2>5, <2>8 DEF Gates
  <2>9. ASSUME NEW w \in Workers, WalAppend(w)
        PROVE  LoggedInv'
    <3>1. CASE Fails(w) /\ wal' = wal
      BY <2>5, <2>9, <3>1 DEF WalAppend
    <3>2. CASE wal' = Append(wal, MsgOf(w)) /\ GoesTo(w, "hot")
      <4>1. work[w] # Idle /\ hot' = hot /\ "hot" \in Step
        BY <2>9 DEF WalAppend, At, Step
      <4>2. ToSet(wal') = ToSet(wal) \cup {MsgOf(w)}
        BY <2>0, <3>2, <4>1, BusyWorker, AppendFacts DEF Types
      <4>3. /\ ToSet(hot') \subseteq ToSet(wal') /\ ToSet(wal) \subseteq ToSet(wal')
            /\ MsgOf(w) \in ToSet(wal')
        BY <4>1, <4>2 DEF LoggedInv
      <4> QED
        BY <2>6, <3>2, <4>1, <4>3
    <3> QED
      BY <2>9, <3>1, <3>2 DEF WalAppend
  <2>10. ASSUME NEW w \in Workers, HotAppend(w)
         PROVE  LoggedInv'
    <3>1. CASE Fails(w) /\ hot' = hot
      BY <2>5, <2>10, <3>1 DEF HotAppend
    <3>2. CASE hot' = Append(hot, MsgOf(w)) /\ GoesTo(w, "return")
      <4>1. work[w] # Idle /\ wal' = wal /\ "return" \in Step /\ At(w, "hot")
        BY <2>10 DEF HotAppend, At, Step
      <4>2. ToSet(hot') = ToSet(hot) \cup {MsgOf(w)}
        BY <2>0, <3>2, <4>1, BusyWorker, AppendFacts DEF Types
      <4>3. ToSet(hot') \subseteq ToSet(wal') /\ ToSet(wal) \subseteq ToSet(wal')
        BY <4>1, <4>2 DEF LoggedInv
      <4>4. "return" # "hot"
        OBVIOUS
      <4> QED
        BY <2>6, <3>2, <4>1, <4>3, <4>4
    <3> QED
      BY <2>10, <3>1, <3>2 DEF HotAppend
  <2>11. ASSUME NEW w \in Workers, Return(w)
         PROVE  LoggedInv'
    BY <2>5, <2>11 DEF Return, Fails
  <2> QED
    BY <2>2, <2>3, <2>4, <2>7, <2>8, <2>9, <2>10, <2>11 DEF Next, Publish
<1> QED
  BY <1>1, <1>2, PTL DEF Spec

\* Nothing is in the hot tier that is not in the write-ahead log, whatever
\* fails, overlaps or crashes.
THEOREM LoggedFirst == Spec => []WalFirst
<1>1. LoggedInv => WalFirst
  BY DEF LoggedInv, WalFirst
<1> QED
  BY <1>1, LoggedHolds, PTL

-----------------------------------------------------------------------------
\* The invariants together, from which every step is one of TopicLog or none.
TopicInv == Accounts /\ StoredInv /\ LoggedInv

\* Steps that leave the three records alone, and the deduper's memory.
LEMMA Stutters ==
  ASSUME UNCHANGED <<wal, hot, acked, forgotten, scope>>
  PROVE  UNCHANGED Topic!vars
BY DEF Topic!vars, Calm, Failures, Overlap

\* A step of Publish that adds to a record.
LEMMA Publishes ==
  ASSUME TopicInv, NEW w \in Workers, WalAppend(w) \/ HotAppend(w) \/ Return(w)
  PROVE  [Topic!Next]_(Topic!vars)
<1>1. work[w] # Idle /\ forgotten' = forgotten /\ scope' = scope
  BY DEF WalAppend, HotAppend, Return, At, counters
<1>2. MsgOf(w) \in Msg /\ Types
  BY <1>1, BusyWorker DEF TopicInv, Accounts
<1>3. UNCHANGED <<forgotten, Calm>>
  BY <1>1 DEF Calm, Failures, Overlap
<1>4. CASE WalAppend(w)
  <2>1. hot' = hot /\ acked' = acked
    BY <1>4 DEF WalAppend
  <2>2. CASE wal' = wal
    BY <1>1, <2>1, <2>2, Stutters
  <2>3. CASE wal' = Append(wal, MsgOf(w))
    <3>1. Topic!Log(MsgOf(w))
      BY <1>3, <2>1, <2>3 DEF Topic!Log
    <3> QED
      BY <1>2, <3>1 DEF Topic!Next
  <2> QED
    BY <1>4, <2>2, <2>3 DEF WalAppend
<1>5. CASE HotAppend(w)
  <2>1. wal' = wal /\ acked' = acked /\ At(w, "hot")
    BY <1>5 DEF HotAppend
  <2>2. CASE hot' = hot
    BY <1>1, <2>1, <2>2, Stutters
  <2>3. CASE hot' = Append(hot, MsgOf(w))
    <3>1. MsgOf(w) \in ToSet(wal)
      BY <2>1 DEF TopicInv, LoggedInv
    <3>2. Topic!Copies(MsgOf(w)) <= forgotten[MsgOf(w)]
      <4> DEFINE m == MsgOf(w)
      <4>1. w \in Carriers(m)
        BY <2>1 DEF Carriers, Carries
      <4>2. /\ IsFiniteSet(Carriers(m)) /\ Cardinality(Carriers(m)) \in Nat
            /\ Cardinality(Copied(m)) \in Nat
        BY <1>2, Counted
      <4>3. Cardinality(Carriers(m)) # 0
        BY <4>1, <4>2, FS_EmptySet
      <4>4. Cardinality(Copied(m)) + Cardinality(Carriers(m)) <= Allowed(m)
        BY <1>2 DEF TopicInv, Accounts
      <4>5. forgotten[m] \in Nat
        BY <1>2 DEF Types
      <4>6. Allowed(m) \in Nat /\ Allowed(m) <= forgotten[m] + 1
        BY <4>5 DEF Allowed
      <4>7. Topic!Copies(m) = Cardinality(Copied(m))
        BY TopicCopies
      <4> HIDE DEF m
      <4>8. Topic!Copies(m) <= forgotten[m]
        BY <4>2, <4>3, <4>4, <4>5, <4>6, <4>7
      <4> QED
        BY <4>8 DEF m
    <3>3. Topic!Store(MsgOf(w))
      BY <1>3, <2>1, <2>3, <3>1, <3>2 DEF Topic!Store, Topic!ToSet, ToSet
    <3> QED
      BY <1>2, <3>3 DEF Topic!Next
  <2> QED
    BY <1>5, <2>2, <2>3 DEF HotAppend
<1>6. CASE Return(w)
  <2>1. wal' = wal /\ hot' = hot /\ acked' = acked \cup {MsgOf(w)} /\ At(w, "return")
    BY <1>6 DEF Return
  <2>2. Calm => MsgOf(w) \in ToSet(hot)
    BY <2>1 DEF TopicInv, StoredInv, Stored
  <2>3. Topic!Acknowledge(MsgOf(w))
    BY <1>3, <2>1, <2>2 DEF Topic!Acknowledge, Topic!ToSet, ToSet
  <2> QED
    BY <1>2, <2>3 DEF Topic!Next
<1> QED
  BY <1>4, <1>5, <1>6

\* PublishPath implements TopicLog: whatever its goroutines, failures and restarts
\* do, what is seen from outside is a step of the abstract topic or nothing.
THEOREM Refinement == Spec => ImplementsTopicLog
<1>1. Init => Topic!Init
  BY DEF Init, Topic!Init, Calm
<1>2. TopicInv /\ [Next]_vars => [Topic!Next]_(Topic!vars)
  <2> SUFFICES ASSUME TopicInv, [Next]_vars
               PROVE  [Topic!Next]_(Topic!vars)
    OBVIOUS
  <2>1. CASE CreateTopic \/ Tombstone \/ DeleteTopic \/ UNCHANGED vars
    BY <2>1, Stutters DEF CreateTopic, Tombstone, DeleteTopic, vars, counters
  <2>4. ASSUME NEW lost \in SUBSET Msg, Lost(lost), UNCHANGED <<wal, hot, acked, scope>>
        PROVE  Topic!Next
    <3>1. Calm' = Calm
      BY <2>4 DEF Calm, Failures, Overlap
    <3>2. seen \cap lost \in SUBSET Msg
      BY <2>4
    <3>3. forgotten' = [m \in Msg |-> forgotten[m] + IF m \in seen \cap lost THEN 1 ELSE 0]
      BY <2>4 DEF Lost
    <3>4. Topic!Forget(seen \cap lost)
      BY <2>4, <3>1, <3>3 DEF Topic!Forget
    <3> QED
      BY <3>2, <3>4 DEF Topic!Next
  <2>2. CASE Restart
    <3>1. Lost(Msg) /\ UNCHANGED <<wal, hot, acked, scope>>
      BY <2>2 DEF Restart
    <3> QED
      BY <2>4, <3>1
  <2>5. ASSUME NEW m \in Msg, Forget(m)
        PROVE  Topic!Next
    <3>1. Lost({m}) /\ {m} \in SUBSET Msg /\ UNCHANGED <<wal, hot, acked, scope>>
      BY <2>5 DEF Forget, counters
    <3> QED
      BY <2>4, <3>1
  <2>3. ASSUME NEW w \in Workers, Dedup(w) \/ Gates(w) \/ \E p \in Producers : Send(w, p)
        PROVE  [Topic!Next]_(Topic!vars)
    BY <2>3, Stutters DEF Dedup, Gates, Send, counters
  <2> QED
    BY <2>1, <2>2, <2>3, <2>5, Publishes DEF Next, Publish
<1>3. Spec => []TopicInv
  BY AccountsHold, StoredHolds, LoggedHolds, PTL DEF TopicInv
<1> QED
  BY <1>1, <1>2, <1>3, PTL DEF Spec, ImplementsTopicLog, Topic!Spec
=============================================================================
