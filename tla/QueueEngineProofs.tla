-------------------------- MODULE QueueEngineProofs --------------------------
(***************************************************************************)
(* Theorems about QueueEngine, for all sets of partitions, consumers and   *)
(* delayed messages and all limits.                                        *)
(***************************************************************************)
EXTENDS QueueEngine, FiniteSetTheorems, TLAPS

\* A dispatched message has a taker: what Track reads is a consumer.
Taken == \A m \in Msg : pc[m] = "dispatched" => taker[m] \in Consumer

\* TypeOK is not inductive: Track stores taker[m], so Taken is needed with it.
TypeInv == TypeOK /\ Taken

-----------------------------------------------------------------------------
\* Facts about the operators.

\* What a full channel accepts of s is a prefix of s.
LEMMA AcceptedPrefix ==
  ASSUME NEW T, NEW ch \in Seq(T), NEW s \in Seq(T), NEW cap \in Nat
  PROVE  /\ Accepted(ch, s, cap) \in Seq(T)
         /\ Len(Accepted(ch, s, cap)) <= Len(s)
         /\ \A k \in 1..Len(Accepted(ch, s, cap)) : Accepted(ch, s, cap)[k] = s[k]
         /\ ch \o Accepted(ch, s, cap) \in Seq(T)
<1> DEFINE room == cap - Len(ch)
<1>1. CASE Len(s) <= room
  BY <1>1 DEF Accepted
<1>2. CASE ~(Len(s) <= room)
  <2>1. room \in Int /\ room < Len(s)
    BY <1>2
  <2>2. /\ SubSeq(s, 1, room) \in Seq(T)
        /\ Len(SubSeq(s, 1, room)) <= Len(s)
        /\ \A k \in 1..Len(SubSeq(s, 1, room)) : SubSeq(s, 1, room)[k] = s[k]
    BY <2>1
  <2> QED
    BY <1>2, <2>2 DEF Accepted
<1> QED
  BY <1>1, <1>2

\* The items of a sequence belong to its type.
LEMMA ElemsType ==
  ASSUME NEW T, NEW s \in Seq(T)
  PROVE  Elems(s) \subseteq T
  BY DEF Elems

\* Sending what is accepted of distinct new items keeps a channel free of
\* duplicates, and adds exactly the accepted items.
LEMMA SendDistinct ==
  ASSUME NEW T, NEW ch \in Seq(T), NEW s \in Seq(T), NEW cap \in Nat,
         \A j, k \in 1..Len(ch) : ch[j] = ch[k] => j = k,
         \A j, k \in 1..Len(s) : s[j] = s[k] => j = k,
         Elems(ch) \cap Elems(s) = {}
  PROVE  LET a == Accepted(ch, s, cap) IN
         /\ Elems(a) \subseteq Elems(s)
         /\ Elems(ch \o a) = Elems(ch) \cup Elems(a)
         /\ \A j, k \in 1..Len(ch \o a) : (ch \o a)[j] = (ch \o a)[k] => j = k
<1> DEFINE a == Accepted(ch, s, cap)
<1>1. a \in Seq(T) /\ Len(a) <= Len(s) /\ \A k \in 1..Len(a) : a[k] = s[k]
  BY AcceptedPrefix
<1> HIDE DEF a
<1>2. Len(ch) \in Nat /\ Len(a) \in Nat /\ Len(s) \in Nat
  BY <1>1
<1>3. Elems(a) \subseteq Elems(s)
  BY <1>1, <1>2 DEF Elems
<1>4. /\ Len(ch \o a) = Len(ch) + Len(a)
      /\ \A k \in 1..Len(ch) : (ch \o a)[k] = ch[k]
      /\ \A k \in (Len(ch) + 1)..(Len(ch) + Len(a)) : (ch \o a)[k] = a[k - Len(ch)]
  BY <1>1
<1>5. ASSUME NEW x \in Elems(ch \o a) PROVE x \in Elems(ch) \cup Elems(a)
  <2>1. PICK k \in 1..(Len(ch) + Len(a)) : x = (ch \o a)[k]
    BY <1>4, <1>5 DEF Elems
  <2>2. CASE k <= Len(ch)
    BY <2>1, <2>2, <1>2, <1>4 DEF Elems
  <2>3. CASE k > Len(ch)
    <3>1. k - Len(ch) \in 1..Len(a) /\ x = a[k - Len(ch)]
      BY <2>1, <2>3, <1>2, <1>4
    <3> QED
      BY <3>1 DEF Elems
  <2> QED
    BY <2>2, <2>3, <1>2
<1>6. ASSUME NEW x \in Elems(ch) PROVE x \in Elems(ch \o a)
  <2>1. PICK k \in 1..Len(ch) : x = ch[k]
    BY <1>6 DEF Elems
  <2>2. k \in 1..Len(ch \o a) /\ x = (ch \o a)[k]
    BY <2>1, <1>2, <1>4
  <2> QED
    BY <2>2 DEF Elems
<1>7. ASSUME NEW x \in Elems(a) PROVE x \in Elems(ch \o a)
  <2>1. PICK k \in 1..Len(a) : x = a[k]
    BY <1>7 DEF Elems
  <2>2. Len(ch) + k \in 1..Len(ch \o a) /\ x = (ch \o a)[Len(ch) + k]
    BY <2>1, <1>2, <1>4
  <2> QED
    BY <2>2 DEF Elems
<1>8. ASSUME NEW j \in 1..Len(ch \o a), NEW k \in 1..Len(ch \o a),
             (ch \o a)[j] = (ch \o a)[k]
      PROVE  j = k
  <2>1. j \in 1..(Len(ch) + Len(a)) /\ k \in 1..(Len(ch) + Len(a))
    BY <1>4, <1>8
  <2>2. CASE j <= Len(ch) /\ k <= Len(ch)
    BY <2>1, <2>2, <1>2, <1>4, <1>8
  <2>3. CASE j > Len(ch) /\ k > Len(ch)
    <3>1. j - Len(ch) \in 1..Len(s) /\ k - Len(ch) \in 1..Len(s)
      BY <2>1, <2>3, <1>1, <1>2
    <3>2. s[j - Len(ch)] = s[k - Len(ch)]
      BY <2>1, <2>3, <1>1, <1>2, <1>4, <1>8, SMTT(20)
    <3> QED
      BY <3>1, <3>2, <1>2, <2>1
  <2>4. ASSUME NEW u \in 1..Len(ch), NEW v \in 1..Len(a) PROVE ch[u] # a[v]
    <3>1. ch[u] \in Elems(ch) /\ a[v] \in Elems(s)
      BY <1>3, <1>2 DEF Elems
    <3> QED
      BY <3>1
  <2>5. CASE j <= Len(ch) /\ k > Len(ch)
    <3>1. j \in 1..Len(ch) /\ k - Len(ch) \in 1..Len(a) /\ ch[j] = a[k - Len(ch)]
      BY <2>1, <2>5, <1>2, <1>4, <1>8
    <3> QED
      BY <3>1, <2>4
  <2>6. CASE j > Len(ch) /\ k <= Len(ch)
    <3>1. k \in 1..Len(ch) /\ j - Len(ch) \in 1..Len(a) /\ ch[k] = a[j - Len(ch)]
      BY <2>1, <2>6, <1>2, <1>4, <1>8
    <3> QED
      BY <3>1, <2>4
  <2> QED
    BY <2>1, <2>2, <2>3, <2>5, <2>6, <1>2
<1> QED
  BY <1>3, <1>5, <1>6, <1>7, <1>8 DEF a

\* A message's key is an offset.
LEMMA KeyType == \A i \in Item : Key(i) \in Offset
  BY QueueAssumption DEF Key, Item, Msg, Offset

\* The retry limit of a message is a natural number.
LEMMA LimitType ==
  ASSUME TypeOK, NEW i \in Item
  PROVE  limit[i] \in Nat
<1>1. RetryLimits \cup {0} \subseteq Nat
  BY QueueAssumption
<1>2. limit[i] \in RetryLimits \cup {0}
  BY DEF TypeOK
<1> QED
  BY <1>1, <1>2

\* A set of offsets is finite.
LEMMA OffsetsFinite ==
  ASSUME NEW S \in SUBSET Offset
  PROVE  IsFiniteSet(S) /\ Cardinality(S) \in Nat
<1>1. IsFiniteSet(Offset)
  BY QueueAssumption, FS_Interval DEF Offset
<1>2. IsFiniteSet(S)
  BY <1>1, FS_Subset
<1> QED
  BY <1>2, FS_CardinalityType

\* Visiting the elements of a finite set gives a sequence of them.
LEMMA OrdersType ==
  ASSUME NEW S, IsFiniteSet(S), NEW s \in Orders(S)
  PROVE  /\ s \in Seq(S) /\ Len(s) = Cardinality(S)
         /\ \A j, k \in 1..Len(s) : s[j] = s[k] => j = k
<1>1. Cardinality(S) \in Nat
  BY FS_CardinalityType
<1> QED
  BY <1>1 DEF Orders

\* The messages of the overdue entries, in the order the map is visited.
LEMMA VisitType ==
  ASSUME TypeOK, NEW s \in Orders(Overdue)
  PROVE  [k \in 1..Len(s) |-> pending[s[k]].msg] \in Seq(Item)
<1>1. Overdue \in SUBSET Offset
  BY DEF Overdue
<1>2. s \in Seq(Overdue)
  BY <1>1, OffsetsFinite, OrdersType
<1>3. \A o \in Overdue : pending[o].msg \in Item
  BY <1>1 DEF Overdue, TypeOK, PendingMsg
<1> QED
  BY <1>2, <1>3

\* What Dispatch does to the state keeps its type.
LEMMA DispatchType ==
  ASSUME TypeOK, NEW i \in Item, NEW c \in Consumer, DispatchTo(i, c)
  PROVE  /\ order' \in Seq(Consumer) /\ nextIdx' \in Nat /\ added' \in SUBSET Consumer
         /\ inFlight' \in [Consumer -> SUBSET Offset]
         /\ taker' \in [Item -> Consumer \cup {NoConsumer}]
         /\ taker' = [taker EXCEPT ![i] = c]
<1>1. PICK k \in 0..(Len(order) - 1) : nextIdx' = (nextIdx + k + 1) % Len(order)
  BY DEF DispatchTo
<1>2. Len(order) \in Nat \ {0}
  BY <1>1 DEF TypeOK
<1>3. nextIdx' \in Nat
  BY <1>1, <1>2 DEF TypeOK
<1> QED
  BY <1>3, KeyType DEF DispatchTo, TypeOK

\* Removing one position keeps a sequence of consumers.
LEMMA RemoveAtType ==
  ASSUME TypeOK, NEW k \in 1..Len(order), RemoveAt(k)
  PROVE  /\ order' \in Seq(Consumer) /\ nextIdx' \in Nat
         /\ Len(order') = Len(order) - 1
<1>1. order \in Seq(Consumer) /\ Len(order) \in Nat
  BY DEF TypeOK
<1>2. /\ SubSeq(order, 1, k - 1) \in Seq(Consumer)
      /\ Len(SubSeq(order, 1, k - 1)) = k - 1
  BY <1>1
<1>3. /\ SubSeq(order, k + 1, Len(order)) \in Seq(Consumer)
      /\ Len(SubSeq(order, k + 1, Len(order))) = Len(order) - k
  BY <1>1
<1>4. \A a, b \in Seq(Consumer) : a \o b \in Seq(Consumer) /\ Len(a \o b) = Len(a) + Len(b)
  OBVIOUS
<1>5. order' = SubSeq(order, 1, k - 1) \o SubSeq(order, k + 1, Len(order))
  BY DEF RemoveAt
<1>6. order' \in Seq(Consumer) /\ Len(order') = (k - 1) + (Len(order) - k)
  BY <1>2, <1>3, <1>4, <1>5
<1>7. nextIdx' \in Nat
  BY DEF RemoveAt, TypeOK
<1> QED
  BY <1>1, <1>6, <1>7

-----------------------------------------------------------------------------
LEMMA TypeInit == Init => TypeInv
<1> SUFFICES ASSUME Init PROVE TypeInv
  OBVIOUS
<1> USE QueueAssumption DEF Init
<1>1. next \in [Partition -> 0..(MaxOffset + 1)]
  OBVIOUS
<1>2. limit \in [Item -> RetryLimits \cup {0}]
  OBVIOUS
<1>3. pending \in [Offset -> PendingMsg \cup {NoEntry}]
  OBVIOUS
<1>4. taker \in [Item -> Consumer \cup {NoConsumer}]
  OBVIOUS
<1>5. pc \in [Msg -> {"none", "appended", "dispatched", "done"}] /\ Taken
  BY DEF Taken
<1>6. inFlight \in [Consumer -> SUBSET Offset]
  OBVIOUS
<1>7. closed \in SUBSET {"ack", "delay"}
  OBVIOUS
<1>8. order \in Seq(Consumer) /\ redeliverChan \in Seq(Item) /\ readyCh \in Seq(Delayed)
  OBVIOUS
<1> QED
  BY <1>1, <1>2, <1>3, <1>4, <1>5, <1>6, <1>7, <1>8 DEF TypeOK, TypeInv

LEMMA TypeStep == TypeInv /\ [Next]_vars => TypeInv'
<1> SUFFICES ASSUME TypeInv, [Next]_vars PROVE TypeInv'
  OBVIOUS
<1> USE QueueAssumption DEF TypeInv
<1>1. ASSUME NEW c \in Consumer, AddConsumer(c) PROVE TypeInv'
  BY <1>1 DEF TypeOK, Taken, AddConsumer, pubVars, ackVars, delayVars
<1>2. ASSUME NEW c \in Consumer, RemoveConsumer(c) PROVE TypeInv'
  <2>1. PICK k \in 1..Len(order) : RemoveAt(k)
    BY <1>2 DEF RemoveConsumer
  <2>2. order' \in Seq(Consumer) /\ nextIdx' \in Nat
    BY <2>1, RemoveAtType
  <2> QED
    BY <1>2, <2>2 DEF TypeOK, Taken, RemoveConsumer, pubVars, ackVars, delayVars
<1>3. ASSUME NEW p \in Partition, NEW r \in RetryLimits, AppendMsg(p, r) PROVE TypeInv'
  <2>1. <<p, next[p]>> \in Msg /\ next[p] + 1 \in 0..(MaxOffset + 1)
    BY <1>3 DEF AppendMsg, TypeOK, Msg, Offset
  <2> QED
    BY <1>3, <2>1 DEF TypeOK, Taken, AppendMsg, dispVars, ackVars, delayVars, Item
<1>4. ASSUME NEW m \in Msg, TryDispatch(m) PROVE TypeInv'
  <2>1. PICK c \in Consumer : DispatchTo(m, c)
    BY <1>4 DEF TryDispatch
  <2>2. m \in Item
    BY DEF Item
  <2>3. TypeOK'
    BY <1>4, <2>1, <2>2, DispatchType DEF TypeOK, TryDispatch, ackVars, delayVars
  <2>4. taker' = [taker EXCEPT ![m] = c] /\ pc' = [pc EXCEPT ![m] = "dispatched"]
    BY <1>4, <2>1, <2>2, DispatchType DEF TryDispatch
  <2>5. Taken'
    BY <2>4, <2>2 DEF Taken, TypeOK, Item
  <2> QED
    BY <2>3, <2>5
<1>5. ASSUME NEW m \in Msg, TryDispatchBusy(m) PROVE TypeInv'
  BY <1>5 DEF TypeOK, Taken, TryDispatchBusy, dispVars, ackVars, delayVars
<1>6. ASSUME NEW m \in Msg, Track(m) PROVE TypeInv'
  <2>1. taker[m] \in Consumer /\ limit[m] \in Nat /\ m \in Item
    BY <1>6, LimitType DEF Taken, Track, Item
  <2>2. Entry(m, taker[m]) \in PendingMsg
    BY <2>1 DEF Entry, PendingMsg
  <2>3. Key(m) \in Offset
    BY KeyType DEF Item
  <2> QED
    BY <1>6, <2>2, <2>3 DEF TypeOK, Taken, Track, dispVars, delayVars
<1>7. ASSUME NEW o \in Offset, HandleAck(o) PROVE TypeInv'
  <2>1. pending[o] \in PendingMsg
    BY <1>7 DEF HandleAck, TypeOK
  <2> QED
    BY <1>7, <2>1 DEF TypeOK, Taken, HandleAck, PendingMsg, pubVars, dispVars, delayVars
<1>8. ASSUME NEW o \in Offset, NackRetry(o) PROVE TypeInv'
  <2>1. pending[o] \in PendingMsg
    BY <1>8 DEF NackRetry, TypeOK
  <2>2. pending[o].msg \in Item
    BY <2>1 DEF PendingMsg
  <2>3. <<pending[o].msg>> \in Seq(Item)
    BY <2>2
  <2>4. redeliverChan' \in Seq(Item)
    BY <1>8, <2>3, AcceptedPrefix DEF NackRetry, TypeOK
  <2> QED
    BY <1>8, <2>2, <2>4 DEF TypeOK, Taken, NackRetry, pubVars, dispVars, delayVars
<1>9. ASSUME NEW o \in Offset, NackDead(o)
      PROVE  /\ pending[o].msg \in Item
             /\ pending' \in [Offset -> PendingMsg \cup {NoEntry}]
             /\ dead' \in SUBSET Item /\ UNCHANGED <<redeliverChan, acked>>
  BY <1>9 DEF NackDead, TypeOK, PendingMsg
<1>10. ASSUME NEW p \in Partition, NEW o \in Offset, NackDeadNative(p, o) PROVE TypeInv'
  BY <1>10, <1>9 DEF TypeOK, Taken, NackDeadNative, Msg, pubVars, dispVars, delayVars
<1>11. ASSUME NEW o \in Offset, NackDeadHTTP(o) PROVE TypeInv'
  BY <1>11, <1>9 DEF TypeOK, Taken, NackDeadHTTP, pubVars, dispVars, delayVars
<1>12. ASSUME NEW o \in Offset, NackDeadWS(o) PROVE TypeInv'
  BY <1>12, <1>9 DEF TypeOK, Taken, NackDeadWS, pubVars, dispVars, delayVars
<1>13. ASSUME NEW o \in Offset, Expire(o) PROVE TypeInv'
  <2>1. pending[o] \in PendingMsg
    BY <1>13 DEF Expire, TypeOK
  <2>2. [pending[o] EXCEPT !.overdue = TRUE] \in PendingMsg
    BY <2>1 DEF PendingMsg
  <2>3. pending' \in [Offset -> PendingMsg \cup {NoEntry}]
    BY <1>13, <2>2 DEF Expire, TypeOK
  <2> QED
    BY <1>13, <2>3 DEF TypeOK, Taken, Expire, pubVars, dispVars, delayVars
<1>14. ASSUME VisibilityTick PROVE TypeInv'
  <2>1. PICK s \in Orders(Overdue) :
          LET items == [k \in 1..Len(s) |-> pending[s[k]].msg]
              sent == Accepted(redeliverChan, items, RedeliverCap)
          IN  /\ redeliverChan' = redeliverChan \o sent
              /\ dropped' = dropped \cup (Elems(items) \ Elems(sent))
    BY <1>14 DEF VisibilityTick
  <2> DEFINE items == [k \in 1..Len(s) |-> pending[s[k]].msg]
  <2>2. items \in Seq(Item)
    BY VisitType
  <2> HIDE DEF items
  <2>3. redeliverChan' \in Seq(Item) /\ Elems(items) \subseteq Item
    BY <2>1, <2>2, AcceptedPrefix, ElemsType DEF TypeOK, items
  <2>4. pending' \in [Offset -> PendingMsg \cup {NoEntry}]
    BY <1>14 DEF VisibilityTick, TypeOK
  <2>5. dropped' \in SUBSET Item
    BY <2>1, <2>3 DEF TypeOK, items
  <2> QED
    BY <1>14, <2>3, <2>4, <2>5
       DEF TypeOK, Taken, VisibilityTick, pubVars, dispVars, delayVars
<1>15. ASSUME NEW d \in Delayed, NEW r \in RetryLimits, ScheduleDelayed(d, r) PROVE TypeInv'
  BY <1>15 DEF TypeOK, Taken, ScheduleDelayed, Item, dispVars, ackVars
<1>16. ASSUME NEW d \in Delayed, BecomeDue(d) PROVE TypeInv'
  BY <1>16 DEF TypeOK, Taken, BecomeDue, pubVars, dispVars, ackVars
<1>17. ASSUME Promote PROVE TypeInv'
  <2>1. PICK s \in Orders(Promotable) :
          LET sent == Accepted(readyCh, s, ReadyCap)
          IN  /\ readyCh' = readyCh \o sent
              /\ dropped' = dropped \cup (Elems(s) \ Elems(sent))
    BY <1>17 DEF Promote
  <2>2. Promotable \in SUBSET Delayed /\ IsFiniteSet(Promotable)
    BY FS_Subset DEF Promotable, TypeOK
  <2>3. s \in Seq(Delayed)
    BY <2>2, OrdersType
  <2>4. readyCh' \in Seq(Delayed) /\ Elems(s) \subseteq Delayed
    BY <2>1, <2>3, AcceptedPrefix, ElemsType DEF TypeOK
  <2>5. dropped' \in SUBSET Item
    BY <2>1, <2>4 DEF TypeOK, Item
  <2>6. heap' \in SUBSET Delayed
    BY <1>17 DEF Promote, TypeOK
  <2> QED
    BY <1>17, <2>4, <2>5, <2>6 DEF TypeOK, Taken, Promote, Item, pubVars, dispVars, ackVars
<1>18. ASSUME DrainReschedule PROVE TypeInv'
  <2>1. Tail(readyCh) \in Seq(Delayed) /\ Head(readyCh) \in Delayed
    BY <1>18 DEF DrainReschedule, TypeOK
  <2> QED
    BY <1>18, <2>1 DEF TypeOK, Taken, DrainReschedule, pubVars, dispVars, ackVars
<1>19. ASSUME DrainDispatch PROVE TypeInv'
  <2>1. Tail(readyCh) \in Seq(Delayed) /\ Head(readyCh) \in Delayed
    BY <1>19 DEF DrainDispatch, TypeOK
  <2>2. PICK c \in Consumer :
          /\ DispatchTo(Head(readyCh), c)
          /\ pending' = [pending EXCEPT ![Key(Head(readyCh))] = Entry(Head(readyCh), c)]
    BY <1>19 DEF DrainDispatch
  <2>3. Head(readyCh) \in Item /\ limit[Head(readyCh)] \in Nat
    BY <2>1, LimitType DEF Item
  <2>4. Entry(Head(readyCh), c) \in PendingMsg /\ Key(Head(readyCh)) \in Offset
    BY <2>3, KeyType DEF Entry, PendingMsg
  <2>5. pending' \in [Offset -> PendingMsg \cup {NoEntry}]
    BY <2>2, <2>4 DEF TypeOK
  <2>6. TypeOK'
    BY <1>19, <2>1, <2>2, <2>3, <2>5, DispatchType DEF TypeOK, DrainDispatch, pubVars
  <2>7. taker' = [taker EXCEPT ![Head(readyCh)] = c] /\ pc' = pc
    BY <1>19, <2>2, <2>3, DispatchType DEF DrainDispatch, pubVars
  <2>8. Taken'
    BY <2>7, <2>1 DEF Taken, TypeOK, Item
  <2> QED
    BY <2>6, <2>8
<1>20. ASSUME DrainBusy PROVE TypeInv'
  <2>1. Tail(readyCh) \in Seq(Delayed) /\ Head(readyCh) \in Delayed
    BY <1>20 DEF DrainBusy, TypeOK
  <2> QED
    BY <1>20, <2>1 DEF TypeOK, Taken, DrainBusy, Item, pubVars, dispVars, ackVars
<1>21. ASSUME Close PROVE TypeInv'
  BY <1>21 DEF TypeOK, Taken, Close, pubVars, dispVars, ackVars, delayVars
<1>22. ASSUME UNCHANGED vars PROVE TypeInv'
  BY <1>22 DEF TypeOK, Taken, vars, pubVars, dispVars, ackVars, delayVars
<1> QED
  BY <1>1, <1>2, <1>3, <1>4, <1>5, <1>6, <1>7, <1>8, <1>10, <1>11, <1>12, <1>13, <1>14,
     <1>15, <1>16, <1>17, <1>18, <1>19, <1>20, <1>21, <1>22 DEF Next

\* TypeOK holds in every reachable state: every handler of the queue engine
\* leaves each piece of state a value of its type.
THEOREM TypeCorrect == Spec => []TypeOK
<1>1. TypeInv => TypeOK
  BY DEF TypeInv
<1> QED
  BY <1>1, TypeInit, TypeStep, PTL DEF Spec

-----------------------------------------------------------------------------
\* The dispatcher.

\* With no consumer left nextIdx is not reset, so an index in range is not enough:
\* it must also be 0 by the time the list is empty.
IdxInv == nextIdx = 0 \/ nextIdx < Len(order)

\* Which steps touch the dispatcher.
LEMMA DispatcherFrame ==
  ASSUME TypeOK, [Next]_vars
  PROVE  \/ \E c \in Consumer : AddConsumer(c) \/ RemoveConsumer(c)
         \/ \E i \in Item, c \in Consumer : DispatchTo(i, c)
         \/ UNCHANGED dispVars
<1> USE DEF dispVars
<1>1. ASSUME NEW m \in Msg, TryDispatch(m)
      PROVE  \E i \in Item, c \in Consumer : DispatchTo(i, c)
  BY <1>1 DEF TryDispatch, Item
<1>2. ASSUME DrainDispatch
      PROVE  \E i \in Item, c \in Consumer : DispatchTo(i, c)
  <2>1. Head(readyCh) \in Item
    BY <1>2 DEF DrainDispatch, TypeOK, Item
  <2> QED
    BY <1>2, <2>1 DEF DrainDispatch
<1>3. ASSUME NEW p \in Partition, NEW r \in RetryLimits, AppendMsg(p, r) PROVE UNCHANGED dispVars
  BY <1>3 DEF AppendMsg
<1>4. ASSUME NEW m \in Msg, TryDispatchBusy(m) \/ Track(m) PROVE UNCHANGED dispVars
  BY <1>4 DEF TryDispatchBusy, Track
<1>5. ASSUME NEW o \in Offset,
             HandleAck(o) \/ NackRetry(o) \/ NackDeadHTTP(o) \/ NackDeadWS(o) \/ Expire(o)
      PROVE  UNCHANGED dispVars
  BY <1>5 DEF HandleAck, NackRetry, NackDeadHTTP, NackDeadWS, Expire
<1>6. ASSUME NEW p \in Partition, NEW o \in Offset, NackDeadNative(p, o)
      PROVE  UNCHANGED dispVars
  BY <1>6 DEF NackDeadNative
<1>7. ASSUME NEW d \in Delayed, NEW r \in RetryLimits, ScheduleDelayed(d, r)
      PROVE  UNCHANGED dispVars
  BY <1>7 DEF ScheduleDelayed
<1>8. ASSUME NEW d \in Delayed, BecomeDue(d) PROVE UNCHANGED dispVars
  BY <1>8 DEF BecomeDue
<1>9. ASSUME VisibilityTick \/ Promote \/ DrainReschedule \/ DrainBusy \/ Close
             \/ UNCHANGED vars
      PROVE  UNCHANGED dispVars
  BY <1>9 DEF VisibilityTick, Promote, DrainReschedule, DrainBusy, Close, vars
<1> QED
  BY <1>1, <1>2, <1>3, <1>4, <1>5, <1>6, <1>7, <1>8, <1>9, Zenon DEF Next

\* Whatever subscriptions come and go between dispatches, Dispatch never indexes
\* past the end of Dispatcher.consumers.
THEOREM NextIdxSafe == Spec => []NextIdxInRange
<1>1. Init => IdxInv
  BY DEF Init, IdxInv
<1>2. TypeInv /\ IdxInv /\ [Next]_vars => IdxInv'
  <2> SUFFICES ASSUME TypeInv, IdxInv, [Next]_vars PROVE IdxInv'
    OBVIOUS
  <2>0. TypeOK /\ nextIdx \in Nat /\ order \in Seq(Consumer) /\ Len(order) \in Nat
    BY DEF TypeInv, TypeOK
  <2>1. ASSUME NEW c \in Consumer, AddConsumer(c) PROVE IdxInv'
    <3>1. Len(order') = Len(order) + 1 /\ nextIdx' = nextIdx
      BY <2>0, <2>1 DEF AddConsumer
    <3> QED
      BY <2>0, <3>1 DEF IdxInv
  <2>2. ASSUME NEW c \in Consumer, RemoveConsumer(c) PROVE IdxInv'
    <3>1. PICK k \in 1..Len(order) : RemoveAt(k)
      BY <2>2 DEF RemoveConsumer
    <3>2. Len(order') = Len(order) - 1
      BY <2>0, <3>1, RemoveAtType
    <3>3. nextIdx' = IF nextIdx >= Len(order') /\ Len(order') > 0 THEN 0 ELSE nextIdx
      BY <3>1 DEF RemoveAt
    <3> QED
      BY <2>0, <3>2, <3>3 DEF IdxInv
  <2>3. ASSUME NEW i \in Item, NEW c \in Consumer, DispatchTo(i, c) PROVE IdxInv'
    <3>1. PICK k \in 0..(Len(order) - 1) : nextIdx' = (nextIdx + k + 1) % Len(order)
      BY <2>3 DEF DispatchTo
    <3>2. Len(order) > 0 /\ order' = order
      BY <2>0, <2>3, <3>1 DEF DispatchTo
    <3> QED
      BY <2>0, <3>1, <3>2 DEF IdxInv
  <2>4. ASSUME UNCHANGED dispVars PROVE IdxInv'
    BY <2>4 DEF IdxInv, dispVars
  <2> QED
    BY <2>0, <2>1, <2>2, <2>3, <2>4, DispatcherFrame
<1>3. TypeInv /\ IdxInv => NextIdxInRange
  <2> SUFFICES ASSUME TypeInv, IdxInv, order # <<>> PROVE nextIdx < Len(order)
    BY DEF NextIdxInRange
  <2>1. order \in Seq(Consumer) /\ Len(order) \in Nat /\ Len(order) # 0
    BY DEF TypeInv, TypeOK
  <2> QED
    BY <2>1 DEF IdxInv
<1> QED
  BY <1>1, <1>2, <1>3, TypeInit, TypeStep, PTL DEF Spec

\* No interleaving of publishers and the drain goroutine fills a consumer's window
\* beyond its Prefetch.
THEOREM PrefetchSafe == Spec => []PrefetchRespected
<1>1. Init => PrefetchRespected
  BY QueueAssumption, FS_EmptySet DEF Init, PrefetchRespected
<1>2. TypeInv /\ PrefetchRespected /\ [Next]_vars => PrefetchRespected'
  <2> SUFFICES ASSUME TypeInv, PrefetchRespected, [Next]_vars, NEW e \in Consumer
               PROVE  Cardinality(inFlight'[e]) <= Prefetch
    BY DEF PrefetchRespected
  <2>0. TypeOK /\ Prefetch \in Nat /\ inFlight \in [Consumer -> SUBSET Offset]
    BY QueueAssumption DEF TypeInv, TypeOK
  <2>1. ASSUME NEW i \in Item, NEW c \in Consumer, DispatchTo(i, c)
        PROVE  Cardinality(inFlight'[e]) <= Prefetch
    <3>1. inFlight' = [inFlight EXCEPT ![c] = @ \cup {Key(i)}] /\ HasRoom(c)
      BY <2>1 DEF DispatchTo
    <3>2. CASE e = c
      <4>1. IsFiniteSet(inFlight[c]) /\ Cardinality(inFlight[c]) \in Nat
        BY <2>0, OffsetsFinite
      <4>2. Cardinality(inFlight[c]) < Prefetch
        BY <3>1 DEF HasRoom
      <4>3. inFlight'[e] = inFlight[c] \cup {Key(i)}
        BY <2>0, <3>1, <3>2
      <4>4. \/ Cardinality(inFlight[c] \cup {Key(i)}) = Cardinality(inFlight[c])
            \/ Cardinality(inFlight[c] \cup {Key(i)}) = Cardinality(inFlight[c]) + 1
        BY <4>1, FS_AddElement
      <4> QED
        BY <2>0, <4>1, <4>2, <4>3, <4>4
    <3>3. CASE e # c
      BY <2>0, <3>1, <3>3 DEF PrefetchRespected
    <3> QED
      BY <3>2, <3>3
  <2>2. ASSUME inFlight' = inFlight PROVE Cardinality(inFlight'[e]) <= Prefetch
    BY <2>2 DEF PrefetchRespected
  <2> QED
    BY <2>0, <2>1, <2>2, DispatcherFrame DEF AddConsumer, RemoveConsumer, dispVars
<1> QED
  BY <1>1, <1>2, TypeInit, TypeStep, PTL DEF Spec

-----------------------------------------------------------------------------
\* The ack tracker.

\* The message has been handed to the ack tracker, or never will be.
Tracked(i) == IF i \in Delayed THEN taker[i] # NoConsumer ELSE pc[i] = "done"

\* An entry is stored under the key of its message, so a message has one entry.
KeyMatches == \A o \in Offset : pending[o] # NoEntry => Key(pending[o].msg) = o

\* Offsets that were not handed out have no publisher.
Fresh == \A p \in Partition, o \in Offset : o >= next[p] => pc[<<p, o>>] = "none"

\* Only tracked messages have a fate, so that tracking gives a message its first.
SettledTracked == \A i \in PendingItems \cup Requeued \cup acked \cup dead : Tracked(i)

\* A dropped message has left the path to the tracker.
DroppedGone ==
  \A i \in dropped : IF i \in Delayed THEN i \notin heap \cup InReady ELSE pc[i] = "done"

\* OneFate is not inductive: Track gives a message the fate "pending", which is
\* its only one because a message is tracked once.
FateInv == KeyMatches /\ Fresh /\ SettledTracked /\ DroppedGone /\ DelayedOnce /\ OneFate

\* Deleting an entry removes its message, and only it, from the pending ones.
LEMMA DeleteEntry ==
  ASSUME TypeOK, KeyMatches, NEW o \in Offset, pending[o] # NoEntry,
         pending' = [pending EXCEPT ![o] = NoEntry]
  PROVE  /\ KeyMatches'
         /\ PendingItems' = PendingItems \ {pending[o].msg}
         /\ pending[o].msg \in PendingItems
         /\ pending[o].msg \in Item
<1>1. pending \in [Offset -> PendingMsg \cup {NoEntry}]
  BY DEF TypeOK
<1>2. \A x \in Offset : pending'[x] = IF x = o THEN NoEntry ELSE pending[x]
  BY <1>1
<1>3. KeyMatches'
  BY <1>2 DEF KeyMatches
<1>4. \A i : i \in PendingItems' <=> \E x \in Offset : pending'[x] # NoEntry /\ pending'[x].msg = i
  BY DEF PendingItems
<1>5. \A i : i \in PendingItems <=> \E x \in Offset : pending[x] # NoEntry /\ pending[x].msg = i
  BY DEF PendingItems
<1>6. \A x \in Offset : pending[x] # NoEntry /\ pending[x].msg = pending[o].msg => x = o
  BY DEF KeyMatches
<1>7. pending[o].msg \in Item
  BY <1>1 DEF PendingMsg
<1> QED
  BY <1>2, <1>3, <1>4, <1>5, <1>6, <1>7

\* Adding an entry adds its message to the pending ones.
LEMMA AddEntry ==
  ASSUME TypeOK, KeyMatches, NEW i \in Item, NEW c \in Consumer,
         pending' = [pending EXCEPT ![Key(i)] = Entry(i, c)]
  PROVE  KeyMatches' /\ PendingItems' \subseteq PendingItems \cup {i}
<1>1. pending \in [Offset -> PendingMsg \cup {NoEntry}] /\ Key(i) \in Offset
  BY KeyType DEF TypeOK
<1>2. \A x \in Offset : pending'[x] = IF x = Key(i) THEN Entry(i, c) ELSE pending[x]
  BY <1>1
<1>3. Entry(i, c).msg = i
  BY DEF Entry
<1>4. KeyMatches'
  BY <1>2, <1>3 DEF KeyMatches
<1> QED
  BY <1>2, <1>3, <1>4 DEF PendingItems

\* A step that takes the distinct messages s out of pending and offers them to
\* redeliverChan keeps the fates apart.
LEMMA Requeue ==
  ASSUME TypeOK, OneFate, NEW s \in Seq(Item),
         \A j, k \in 1..Len(s) : s[j] = s[k] => j = k,
         Elems(s) \subseteq PendingItems,
         PendingItems' \subseteq PendingItems \ Elems(s),
         redeliverChan' = redeliverChan \o Accepted(redeliverChan, s, RedeliverCap),
         dropped' = dropped \cup (Elems(s) \ Elems(Accepted(redeliverChan, s, RedeliverCap))),
         acked' = acked, dead' = dead
  PROVE  /\ OneFate'
         /\ Requeued' \subseteq Requeued \cup PendingItems
         /\ dropped' \subseteq dropped \cup PendingItems
<1> DEFINE a == Accepted(redeliverChan, s, RedeliverCap)
<1>1. Requeued \cap Elems(s) = {}
  BY DEF OneFate
<1>2. /\ redeliverChan \in Seq(Item) /\ RedeliverCap \in Nat
      /\ \A j, k \in 1..Len(redeliverChan) : redeliverChan[j] = redeliverChan[k] => j = k
  BY QueueAssumption DEF TypeOK, OneFate
<1>3. /\ Elems(a) \subseteq Elems(s)
      /\ Elems(redeliverChan \o a) = Elems(redeliverChan) \cup Elems(a)
      /\ \A j, k \in 1..Len(redeliverChan \o a) :
           (redeliverChan \o a)[j] = (redeliverChan \o a)[k] => j = k
  BY <1>1, <1>2, SendDistinct DEF Requeued
<1>4. Requeued' = Requeued \cup Elems(a)
  BY <1>3 DEF Requeued
<1>5. \A j, k \in 1..Len(redeliverChan') : redeliverChan'[j] = redeliverChan'[k] => j = k
  BY <1>3
<1>6. dropped' = dropped \cup (Elems(s) \ Elems(a))
  OBVIOUS
<1> HIDE DEF a
<1> QED
  BY <1>3, <1>4, <1>5, <1>6 DEF OneFate

\* Taking the head off a channel without duplicates.
LEMMA TailDistinct ==
  ASSUME NEW T, NEW ch \in Seq(T), ch # <<>>,
         \A j, k \in 1..Len(ch) : ch[j] = ch[k] => j = k
  PROVE  /\ Elems(Tail(ch)) = Elems(ch) \ {Head(ch)}
         /\ Head(ch) \in Elems(ch)
         /\ \A j, k \in 1..Len(Tail(ch)) : Tail(ch)[j] = Tail(ch)[k] => j = k
<1>1. Len(ch) \in Nat \ {0} /\ Head(ch) = ch[1] /\ Len(Tail(ch)) = Len(ch) - 1
  OBVIOUS
<1>2. \A k \in 1..(Len(ch) - 1) : Tail(ch)[k] = ch[k + 1]
  OBVIOUS
<1>3. ASSUME NEW x \in Elems(Tail(ch)) PROVE x \in Elems(ch) \ {Head(ch)}
  <2>1. PICK k \in 1..(Len(ch) - 1) : x = ch[k + 1]
    BY <1>1, <1>2, <1>3 DEF Elems
  <2>2. k + 1 \in 1..Len(ch) /\ 1 \in 1..Len(ch) /\ k + 1 # 1
    BY <1>1
  <2> QED
    BY <1>1, <2>1, <2>2 DEF Elems
<1>4. ASSUME NEW x \in Elems(ch), x # Head(ch) PROVE x \in Elems(Tail(ch))
  <2>1. PICK k \in 1..Len(ch) : x = ch[k]
    BY <1>4 DEF Elems
  <2>2. k - 1 \in 1..(Len(ch) - 1) /\ Tail(ch)[k - 1] = ch[(k - 1) + 1]
    BY <1>1, <1>2, <1>4, <2>1
  <2> QED
    BY <1>1, <2>1, <2>2 DEF Elems
<1>5. Head(ch) \in Elems(ch)
  BY <1>1 DEF Elems
<1>6. \A j, k \in 1..Len(Tail(ch)) : Tail(ch)[j] = Tail(ch)[k] => j = k
  BY <1>1, <1>2
<1> QED
  BY <1>3, <1>4, <1>5, <1>6

LEMMA FateInit == Init => FateInv
<1> SUFFICES ASSUME Init PROVE FateInv
  OBVIOUS
<1>1. \A o \in Offset : pending[o] = NoEntry
  BY DEF Init
<1>2. PendingItems = {} /\ KeyMatches
  BY <1>1 DEF PendingItems, KeyMatches
<1>3. Requeued = {} /\ InReady = {} /\ Len(redeliverChan) = 0 /\ Len(readyCh) = 0
  BY DEF Init, Requeued, InReady, Elems
<1>4. Fresh
  BY DEF Init, Fresh, Msg
<1> QED
  BY <1>2, <1>3, <1>4
     DEF Init, FateInv, SettledTracked, DroppedGone, DelayedOnce, OneFate

\* A step keeps FateInv if it leaves every fate and every place on the way to the
\* tracker alone; publishing and dispatching may move on for untracked messages.
LEMMA FateKept ==
  ASSUME TypeOK, FateInv, KeyMatches', PendingItems' = PendingItems, Fresh',
         UNCHANGED <<redeliverChan, acked, dead, dropped, heap, readyCh>>,
         \A i \in Item : Tracked(i) => Tracked(i)',
         \A d \in Delayed : taker'[d] = taker[d]
  PROVE  FateInv'
<1>1. Requeued' = Requeued /\ InReady' = InReady
  BY DEF Requeued, InReady
<1>2. OneFate'
  BY <1>1 DEF FateInv, OneFate
<1>3. DelayedOnce'
  <2>1. heap \cup InReady \subseteq Delayed
    BY ElemsType DEF TypeOK, InReady
  <2> QED
    BY <1>1, <2>1 DEF FateInv, DelayedOnce
<1>4. PendingItems \cup Requeued \cup acked \cup dead \subseteq Item
  <2>1. PendingItems \subseteq Item
    BY DEF PendingItems, TypeOK, PendingMsg
  <2> QED
    BY <2>1, ElemsType DEF TypeOK, Requeued
<1>5. SettledTracked'
  BY <1>1, <1>4 DEF FateInv, SettledTracked
<1>6. DroppedGone'
  <2>1. ASSUME NEW i \in dropped, i \notin Delayed PROVE pc'[i] = "done"
    <3>1. i \in Item /\ pc[i] = "done"
      BY <2>1 DEF FateInv, DroppedGone, TypeOK
    <3> QED
      BY <2>1, <3>1 DEF Tracked
  <2> QED
    BY <1>1, <2>1 DEF FateInv, DroppedGone
<1> QED
  BY <1>2, <1>3, <1>5, <1>6 DEF FateInv

\* A step keeps FateInv if it only settles pending messages: what it takes out of
\* pending goes to fates that stay apart.
LEMMA FateSettled ==
  ASSUME TypeOK, FateInv, KeyMatches', OneFate',
         PendingItems' \subseteq PendingItems,
         Requeued' \cup acked' \cup dead' \subseteq PendingItems \cup Requeued \cup acked \cup dead,
         dropped' \subseteq dropped \cup PendingItems,
         UNCHANGED <<pubVars, dispVars, delayVars>>
  PROVE  FateInv'
<1> USE DEF pubVars, dispVars, delayVars
<1>1. InReady' = InReady /\ DelayedOnce' /\ Fresh'
  BY DEF InReady, FateInv, DelayedOnce, Fresh
<1>2. \A i : Tracked(i)' <=> Tracked(i)
  BY DEF Tracked
<1>3. SettledTracked'
  BY <1>2 DEF FateInv, SettledTracked
<1>4. \A i \in PendingItems : IF i \in Delayed THEN i \notin heap \cup InReady ELSE pc[i] = "done"
  BY DEF FateInv, SettledTracked, Tracked, DelayedOnce
<1>5. DroppedGone'
  BY <1>1, <1>4 DEF FateInv, DroppedGone
<1> QED
  BY <1>1, <1>3, <1>5 DEF FateInv

LEMMA FateStep == TypeInv /\ FateInv /\ [Next]_vars => FateInv'
<1> SUFFICES ASSUME TypeInv, FateInv, [Next]_vars PROVE FateInv'
  OBVIOUS
<1>0. TypeOK /\ KeyMatches /\ Fresh /\ OneFate /\ DelayedOnce /\ Taken
  BY DEF TypeInv, FateInv
<1> USE DEF pubVars, dispVars, ackVars, delayVars
<1>1. ASSUME UNCHANGED <<pc, next, ackVars, dropped, heap, readyCh, taker>> PROVE FateInv'
  <2>1. KeyMatches' /\ PendingItems' = PendingItems /\ Fresh'
    BY <1>0, <1>1 DEF KeyMatches, PendingItems, Fresh
  <2>2. \A i \in Item : Tracked(i) => Tracked(i)'
    BY <1>1 DEF Tracked
  <2> QED
    BY <1>0, <1>1, <2>1, <2>2, FateKept
<1>2. ASSUME NEW c \in Consumer, AddConsumer(c) \/ RemoveConsumer(c) PROVE FateInv'
  BY <1>1, <1>2 DEF AddConsumer, RemoveConsumer
<1>3. ASSUME NEW p \in Partition, NEW r \in RetryLimits, AppendMsg(p, r) PROVE FateInv'
  <2>1. KeyMatches' /\ PendingItems' = PendingItems
    BY <1>0, <1>3 DEF KeyMatches, PendingItems, AppendMsg
  <2>2. next[p] \in Offset /\ <<p, next[p]>> \in Msg /\ pc[<<p, next[p]>>] = "none"
    BY <1>0, <1>3 DEF AppendMsg, TypeOK, Offset, Msg, Fresh
  <2>3. /\ pc \in [Msg -> {"none", "appended", "dispatched", "done"}]
        /\ pc' = [pc EXCEPT ![<<p, next[p]>>] = "appended"]
        /\ next' = [next EXCEPT ![p] = @ + 1] /\ next \in [Partition -> Nat]
    BY <1>0, <1>3, QueueAssumption DEF AppendMsg, TypeOK
  <2>4. Fresh'
    <3> SUFFICES ASSUME NEW q \in Partition, NEW o \in Offset, o >= next'[q]
                 PROVE  pc'[<<q, o>>] = "none"
      BY DEF Fresh
    <3>1. o \in Nat /\ <<q, o>> \in Msg
      BY QueueAssumption DEF Offset, Msg
    <3>2. CASE q = p
      BY <1>0, <2>3, <3>1, <3>2 DEF Fresh
    <3>3. CASE q # p
      BY <1>0, <2>3, <3>1, <3>3 DEF Fresh
    <3> QED
      BY <3>2, <3>3
  <2>5. \A i \in Item : Tracked(i) => Tracked(i)'
    BY <1>3, <2>2, <2>3 DEF Tracked, Item, AppendMsg
  <2> QED
    BY <1>0, <1>3, <2>1, <2>4, <2>5, FateKept DEF AppendMsg
<1>4. ASSUME NEW m \in Msg, TryDispatch(m) PROVE FateInv'
  <2>1. PICK c \in Consumer : DispatchTo(m, c)
    BY <1>4 DEF TryDispatch
  <2>2. taker' = [taker EXCEPT ![m] = c] /\ m \notin Delayed
    BY <2>1, QueueAssumption DEF DispatchTo
  <2>3. KeyMatches' /\ PendingItems' = PendingItems
    BY <1>0, <1>4 DEF KeyMatches, PendingItems, TryDispatch
  <2>4. pc[m] = "appended" /\ pc' = [pc EXCEPT ![m] = "dispatched"] /\ next' = next
    BY <1>4 DEF TryDispatch
  <2>5. Fresh'
    BY <1>0, <2>4 DEF Fresh, TypeOK, Msg
  <2>6. \A i \in Item : Tracked(i) => Tracked(i)'
    BY <1>0, <2>2, <2>4 DEF Tracked, Item, TypeOK
  <2>7. \A d \in Delayed : taker'[d] = taker[d]
    BY <1>0, <2>2 DEF TypeOK, Item
  <2> QED
    BY <1>0, <1>4, <2>3, <2>5, <2>6, <2>7, FateKept DEF TryDispatch
<1>5. ASSUME NEW m \in Msg, TryDispatchBusy(m) PROVE FateInv'
  <2>1. KeyMatches' /\ PendingItems' = PendingItems
    BY <1>0, <1>5 DEF KeyMatches, PendingItems, TryDispatchBusy
  <2>2. pc[m] = "appended" /\ pc' = [pc EXCEPT ![m] = "done"] /\ next' = next /\ taker' = taker
    BY <1>5 DEF TryDispatchBusy
  <2>3. Fresh'
    BY <1>0, <2>2 DEF Fresh, TypeOK, Msg
  <2>4. \A i \in Item : Tracked(i) => Tracked(i)'
    BY <1>0, <2>2 DEF Tracked, Item, TypeOK
  <2> QED
    BY <1>0, <1>5, <2>1, <2>2, <2>3, <2>4, FateKept DEF TryDispatchBusy
<1>6. ASSUME NEW m \in Msg, Track(m) PROVE FateInv'
  <2>1. taker[m] \in Consumer /\ m \in Item /\ m \notin Delayed
    BY <1>0, <1>6, QueueAssumption DEF Taken, Track, Item
  <2>2. KeyMatches' /\ PendingItems' \subseteq PendingItems \cup {m}
    BY <1>0, <1>6, <2>1, AddEntry DEF Track
  <2>3. ~Tracked(m) /\ pc[m] = "dispatched"
    BY <1>6, <2>1 DEF Tracked, Track
  <2>4. m \notin PendingItems \cup Requeued \cup acked \cup dead \cup dropped
    BY <2>1, <2>3 DEF FateInv, SettledTracked, DroppedGone
  <2>5. Requeued' = Requeued /\ InReady' = InReady /\ UNCHANGED <<acked, dead, dropped, heap, taker>>
    BY <1>6 DEF Track, Requeued, InReady
  <2>6. OneFate'
    BY <1>0, <1>6, <2>2, <2>4, <2>5 DEF OneFate, Track
  <2>7. pc' = [pc EXCEPT ![m] = "done"] /\ next' = next /\ pc \in [Msg -> {"none", "appended", "dispatched", "done"}]
    BY <1>0, <1>6 DEF Track, TypeOK
  <2>8. Fresh'
    BY <1>0, <2>3, <2>7 DEF Fresh, Msg
  <2>9. \A i \in Item : Tracked(i) \/ i = m => Tracked(i)'
    BY <2>1, <2>5, <2>7 DEF Tracked, Item
  <2>10. PendingItems \cup Requeued \cup acked \cup dead \cup dropped \subseteq Item
    <3>1. PendingItems \subseteq Item
      BY <1>0 DEF PendingItems, TypeOK, PendingMsg
    <3> QED
      BY <1>0, <3>1, ElemsType DEF TypeOK, Requeued
  <2>11. SettledTracked'
    BY <2>1, <2>2, <2>5, <2>9, <2>10 DEF FateInv, SettledTracked
  <2>12. DroppedGone'
    BY <2>3, <2>5, <2>7, <2>10 DEF FateInv, DroppedGone, Item
  <2>13. DelayedOnce'
    BY <1>0, <1>6, <2>5 DEF DelayedOnce, Track
  <2> QED
    BY <2>2, <2>6, <2>8, <2>11, <2>12, <2>13 DEF FateInv
<1>7. ASSUME NEW o \in Offset, HandleAck(o) PROVE FateInv'
  <2>1. /\ KeyMatches' /\ PendingItems' = PendingItems \ {pending[o].msg}
        /\ pending[o].msg \in PendingItems
    BY <1>0, <1>7, DeleteEntry DEF HandleAck
  <2>2. Requeued' = Requeued /\ acked' = acked \cup {pending[o].msg} /\ UNCHANGED <<dead, dropped>>
    BY <1>7 DEF HandleAck, Requeued
  <2>3. OneFate'
    BY <1>0, <1>7, <2>1, <2>2 DEF OneFate, HandleAck
  <2> QED
    BY <1>0, <1>7, <2>1, <2>2, <2>3, FateSettled DEF HandleAck
<1>8. ASSUME NEW o \in Offset, NackRetry(o) PROVE FateInv'
  <2> DEFINE s == <<pending[o].msg>>
  <2>1. /\ KeyMatches' /\ PendingItems' = PendingItems \ {pending[o].msg}
        /\ pending[o].msg \in PendingItems /\ pending[o].msg \in Item
    BY <1>0, <1>8, DeleteEntry DEF NackRetry
  <2>2. s \in Seq(Item) /\ Len(s) = 1 /\ s[1] = pending[o].msg
    BY <2>1
  <2>3. Elems(s) = {pending[o].msg} /\ \A j, k \in 1..Len(s) : s[j] = s[k] => j = k
    BY <2>2 DEF Elems
  <2>4. /\ redeliverChan' = redeliverChan \o Accepted(redeliverChan, s, RedeliverCap)
        /\ dropped' = dropped \cup (Elems(s) \ Elems(Accepted(redeliverChan, s, RedeliverCap)))
        /\ acked' = acked /\ dead' = dead
    BY <1>8, <2>3 DEF NackRetry
  <2> HIDE DEF s
  <2>5. OneFate' /\ Requeued' \subseteq Requeued \cup PendingItems
          /\ dropped' \subseteq dropped \cup PendingItems
    BY <1>0, <2>1, <2>2, <2>3, <2>4, Requeue
  <2> QED
    BY <1>0, <1>8, <2>1, <2>4, <2>5, FateSettled DEF NackRetry
<1>9. ASSUME NEW o \in Offset, NackDead(o), UNCHANGED <<pubVars, dispVars, delayVars, dropped>>
      PROVE  FateInv'
  <2>1. /\ KeyMatches' /\ PendingItems' = PendingItems \ {pending[o].msg}
        /\ pending[o].msg \in PendingItems
    BY <1>0, <1>9, DeleteEntry DEF NackDead
  <2>2. Requeued' = Requeued /\ dead' = dead \cup {pending[o].msg} /\ UNCHANGED <<acked, dropped>>
    BY <1>9 DEF NackDead, Requeued
  <2>3. OneFate'
    BY <1>0, <1>9, <2>1, <2>2 DEF OneFate, NackDead
  <2> QED
    BY <1>0, <1>9, <2>1, <2>2, <2>3, FateSettled
<1>10. ASSUME NEW o \in Offset, NackDeadHTTP(o) \/ NackDeadWS(o) PROVE FateInv'
  BY <1>9, <1>10 DEF NackDeadHTTP, NackDeadWS
<1>11. ASSUME NEW p \in Partition, NEW o \in Offset, NackDeadNative(p, o) PROVE FateInv'
  BY <1>9, <1>11 DEF NackDeadNative
<1>12. ASSUME NEW o \in Offset, Expire(o) PROVE FateInv'
  <2>1. pending \in [Offset -> PendingMsg \cup {NoEntry}] /\ pending[o] \in PendingMsg
    BY <1>0, <1>12 DEF Expire, TypeOK
  <2>2. pending' = [pending EXCEPT ![o] = [pending[o] EXCEPT !.overdue = TRUE]]
    BY <1>12 DEF Expire
  <2>3. [pending[o] EXCEPT !.overdue = TRUE] \in PendingMsg
          /\ [pending[o] EXCEPT !.overdue = TRUE].msg = pending[o].msg
    BY <2>1 DEF PendingMsg
  <2>4. NoEntry \notin PendingMsg
    BY QueueAssumption DEF PendingMsg
  <2>5. \A x \in Offset : /\ (pending'[x] # NoEntry <=> pending[x] # NoEntry)
                          /\ (pending[x] # NoEntry => pending'[x].msg = pending[x].msg)
    BY <2>1, <2>2, <2>3, <2>4
  <2>6. KeyMatches' /\ PendingItems' = PendingItems
    <3>1. KeyMatches'
      BY <1>0, <2>5 DEF KeyMatches
    <3>2. \A i : i \in PendingItems' <=> \E x \in Offset : pending'[x] # NoEntry /\ pending'[x].msg = i
      BY DEF PendingItems
    <3>3. \A i : i \in PendingItems <=> \E x \in Offset : pending[x] # NoEntry /\ pending[x].msg = i
      BY DEF PendingItems
    <3>4. \A i : i \in PendingItems' <=> i \in PendingItems
      BY <2>5, <3>2, <3>3, ZenonT(30)
    <3> QED
      BY <3>1, <3>4
  <2>7. \A i \in Item : Tracked(i) => Tracked(i)'
    BY <1>12 DEF Tracked, Expire
  <2>8. Fresh'
    BY <1>0, <1>12 DEF Fresh, Expire
  <2> QED
    BY <1>0, <1>12, <2>6, <2>7, <2>8, FateKept DEF Expire
<1>13. ASSUME VisibilityTick PROVE FateInv'
  <2>1. PICK t \in Orders(Overdue) :
          LET items == [k \in 1..Len(t) |-> pending[t[k]].msg]
              sent == Accepted(redeliverChan, items, RedeliverCap)
          IN  /\ redeliverChan' = redeliverChan \o sent
              /\ dropped' = dropped \cup (Elems(items) \ Elems(sent))
    BY <1>13 DEF VisibilityTick
  <2> DEFINE s == [k \in 1..Len(t) |-> pending[t[k]].msg]
  <2>2. /\ redeliverChan' = redeliverChan \o Accepted(redeliverChan, s, RedeliverCap)
        /\ dropped' = dropped \cup (Elems(s) \ Elems(Accepted(redeliverChan, s, RedeliverCap)))
        /\ acked' = acked /\ dead' = dead
    BY <1>13, <2>1 DEF VisibilityTick
  <2>3. Overdue \in SUBSET Offset /\ \A o \in Overdue : pending[o] # NoEntry
    BY DEF Overdue
  <2>4. t \in Seq(Overdue) /\ \A j, k \in 1..Len(t) : t[j] = t[k] => j = k
    BY <2>3, OffsetsFinite, OrdersType
  <2>5. s \in Seq(Item) /\ Len(s) = Len(t) /\ \A k \in 1..Len(t) : s[k] = pending[t[k]].msg
    BY <1>0, <2>4, VisitType
  <2> HIDE DEF s
  <2>6. \A o, x \in Overdue : pending[o].msg = pending[x].msg => o = x
    BY <1>0, <2>3 DEF KeyMatches
  <2>7. \A j, k \in 1..Len(s) : s[j] = s[k] => j = k
    BY <2>4, <2>5, <2>6
  <2>8. \A x \in Elems(s) : \E o \in Overdue : x = pending[o].msg
    BY <2>4, <2>5 DEF Elems
  <2>9. Elems(s) \subseteq PendingItems
    BY <2>3, <2>8 DEF PendingItems
  <2>10. \A o \in Offset : pending'[o] = IF o \in Overdue THEN NoEntry ELSE pending[o]
    BY <1>13 DEF VisibilityTick
  <2>11. PendingItems' \subseteq PendingItems \ Elems(s)
    <3> SUFFICES ASSUME NEW o \in Offset, pending'[o] # NoEntry
                 PROVE  pending'[o].msg \in PendingItems \ Elems(s)
      BY DEF PendingItems
    <3>1. o \notin Overdue /\ pending'[o] = pending[o]
      BY <2>10
    <3>2. \A x \in Overdue : pending[x].msg # pending[o].msg
      BY <1>0, <2>3, <3>1 DEF KeyMatches
    <3> QED
      BY <2>8, <3>1, <3>2 DEF PendingItems
  <2>12. OneFate' /\ Requeued' \subseteq Requeued \cup PendingItems
           /\ dropped' \subseteq dropped \cup PendingItems
    BY <1>0, <2>2, <2>5, <2>7, <2>9, <2>11, Requeue
  <2>13. KeyMatches'
    BY <1>0, <2>10 DEF KeyMatches
  <2> QED
    BY <1>0, <1>13, <2>2, <2>11, <2>12, <2>13, FateSettled DEF VisibilityTick
<1>14. ASSUME NEW d \in Delayed, BecomeDue(d) PROVE FateInv'
  BY <1>1, <1>14 DEF BecomeDue
<1>15. ASSUME Close \/ UNCHANGED vars PROVE FateInv'
  BY <1>1, <1>15 DEF Close, vars
<1>16. \A d \in heap \cup InReady : d \in Delayed /\ d \notin dropped
  BY <1>0, ElemsType DEF TypeOK, InReady, FateInv, DroppedGone
<1>17. ASSUME UNCHANGED <<pc, next, ackVars, taker>>,
              DelayedOnce', heap' \cup InReady' \subseteq Delayed,
              dropped' \cap (heap' \cup InReady') = {},
              dropped \subseteq dropped', dropped' \ dropped \subseteq heap \cup InReady
       PROVE  FateInv'
  <2>1. KeyMatches' /\ PendingItems' = PendingItems /\ Requeued' = Requeued /\ Fresh'
    BY <1>0, <1>17 DEF KeyMatches, PendingItems, Requeued, Fresh
  <2>2. SettledTracked'
    BY <1>17, <2>1 DEF FateInv, SettledTracked, Tracked
  <2>3. \A i \in dropped' \ dropped : i \in Delayed /\ ~Tracked(i)
    BY <1>0, <1>16, <1>17 DEF Tracked, DelayedOnce
  <2>4. OneFate'
    BY <1>0, <1>17, <2>1, <2>3 DEF OneFate, FateInv, SettledTracked
  <2>5. DroppedGone'
    BY <1>17, <2>3 DEF FateInv, DroppedGone
  <2> QED
    BY <1>17, <2>1, <2>2, <2>4, <2>5 DEF FateInv
<1>18. ASSUME NEW d \in Delayed, NEW r \in RetryLimits, ScheduleDelayed(d, r) PROVE FateInv'
  <2>1. d \notin InReady /\ taker[d] = NoConsumer /\ d \notin dropped /\ InReady' = InReady
    BY <1>18 DEF ScheduleDelayed, Scheduled, InReady
  <2>2. DelayedOnce'
    BY <1>0, <1>18, <2>1 DEF DelayedOnce, ScheduleDelayed
  <2> QED
    BY <1>16, <1>17, <1>18, <2>1, <2>2 DEF ScheduleDelayed
<1>19. ASSUME Promote PROVE FateInv'
  <2>1. PICK s \in Orders(Promotable) :
          LET sent == Accepted(readyCh, s, ReadyCap)
          IN  /\ readyCh' = readyCh \o sent
              /\ dropped' = dropped \cup (Elems(s) \ Elems(sent))
    BY <1>19 DEF Promote
  <2> DEFINE a == Accepted(readyCh, s, ReadyCap)
  <2>2. Promotable \in SUBSET Delayed /\ Promotable \subseteq heap /\ IsFiniteSet(Promotable)
    BY <1>0, QueueAssumption, FS_Subset DEF Promotable, TypeOK
  <2>3. s \in Seq(Promotable) /\ \A j, k \in 1..Len(s) : s[j] = s[k] => j = k
    BY <2>2, OrdersType
  <2>4. Elems(s) \subseteq Promotable /\ s \in Seq(Delayed)
    BY <2>2, <2>3, ElemsType
  <2>5. Elems(readyCh) \cap Elems(s) = {}
    BY <1>0, <2>2, <2>4 DEF DelayedOnce, InReady
  <2>6. /\ Elems(a) \subseteq Elems(s)
        /\ Elems(readyCh \o a) = Elems(readyCh) \cup Elems(a)
        /\ \A j, k \in 1..Len(readyCh \o a) : (readyCh \o a)[j] = (readyCh \o a)[k] => j = k
    <3>1. /\ readyCh \in Seq(Delayed) /\ ReadyCap \in Nat
          /\ \A j, k \in 1..Len(readyCh) : readyCh[j] = readyCh[k] => j = k
      BY <1>0, QueueAssumption DEF TypeOK, DelayedOnce
    <3> QED
      BY <2>3, <2>4, <2>5, <3>1, SendDistinct
  <2>7. InReady' = InReady \cup Elems(a) /\ heap' = heap \ Promotable
    BY <1>19, <2>1, <2>6 DEF InReady, Promote
  <2>8. dropped' = dropped \cup (Elems(s) \ Elems(a)) /\ taker' = taker
    BY <1>19, <2>1 DEF Promote
  <2>9. \A j, k \in 1..Len(readyCh') : readyCh'[j] = readyCh'[k] => j = k
    BY <2>1, <2>6
  <2> HIDE DEF a
  <2>10. DelayedOnce'
    BY <1>0, <2>2, <2>4, <2>6, <2>7, <2>8, <2>9 DEF DelayedOnce
  <2>11. dropped' \cap (heap' \cup InReady') = {}
    <3>1. InReady \cap Elems(s) = {}
      BY <2>5 DEF InReady
    <3> QED
      BY <1>16, <2>2, <2>4, <2>6, <2>7, <2>8, <3>1
  <2>12. heap' \cup InReady' \subseteq Delayed
    BY <1>16, <2>2, <2>4, <2>6, <2>7
  <2>13. dropped' \ dropped \subseteq heap
    BY <2>2, <2>4, <2>8
  <2> QED
    BY <1>17, <1>19, <2>8, <2>10, <2>11, <2>12, <2>13 DEF Promote
<1>20. ASSUME readyCh # <<>>, readyCh' = Tail(readyCh)
       PROVE  /\ InReady' = InReady \ {Head(readyCh)} /\ Head(readyCh) \in InReady
              /\ \A j, k \in 1..Len(readyCh') : readyCh'[j] = readyCh'[k] => j = k
  <2>1. /\ readyCh \in Seq(Delayed)
        /\ \A j, k \in 1..Len(readyCh) : readyCh[j] = readyCh[k] => j = k
    BY <1>0 DEF TypeOK, DelayedOnce
  <2> QED
    BY <1>20, <2>1, TailDistinct DEF InReady
<1>21. ASSUME DrainReschedule PROVE FateInv'
  <2>1. DelayedOnce'
    BY <1>0, <1>20, <1>21 DEF DelayedOnce, DrainReschedule
  <2> QED
    BY <1>16, <1>17, <1>20, <1>21, <2>1 DEF DrainReschedule
<1>22. ASSUME DrainBusy PROVE FateInv'
  <2>1. DelayedOnce'
    BY <1>0, <1>20, <1>22 DEF DelayedOnce, DrainBusy
  <2> QED
    BY <1>0, <1>16, <1>17, <1>20, <1>22, <2>1 DEF DrainBusy, DelayedOnce
<1>23. ASSUME DrainDispatch PROVE FateInv'
  <2> DEFINE d == Head(readyCh)
  <2>1. PICK c \in Consumer :
          /\ DispatchTo(d, c)
          /\ pending' = [pending EXCEPT ![Key(d)] = Entry(d, c)]
    BY <1>23 DEF DrainDispatch
  <2>2. /\ InReady' = InReady \ {d} /\ d \in InReady
        /\ \A j, k \in 1..Len(readyCh') : readyCh'[j] = readyCh'[k] => j = k
    BY <1>20, <1>23 DEF DrainDispatch
  <2>3. d \in Delayed /\ d \in Item /\ d \notin dropped /\ taker[d] = NoConsumer /\ d \notin heap
    BY <1>0, <1>16, <2>2 DEF Item, DelayedOnce
  <2>4. taker' = [taker EXCEPT ![d] = c] /\ taker \in [Item -> Consumer \cup {NoConsumer}]
    BY <1>0, <2>1 DEF DispatchTo, TypeOK
  <2> HIDE DEF d
  <2>5. KeyMatches' /\ PendingItems' \subseteq PendingItems \cup {d}
    BY <1>0, <2>1, <2>3, AddEntry
  <2>6. d \notin PendingItems \cup Requeued \cup acked \cup dead \cup dropped
    BY <2>3 DEF FateInv, SettledTracked, Tracked
  <2>7. Requeued' = Requeued /\ UNCHANGED <<acked, dead, dropped, heap, pc, next, redeliverChan>>
    BY <1>23 DEF DrainDispatch, Requeued
  <2>8. OneFate'
    BY <1>0, <2>5, <2>6, <2>7 DEF OneFate
  <2>9. c # NoConsumer
    BY QueueAssumption
  <2>10. \A i \in Item : Tracked(i) \/ i = d => Tracked(i)'
    BY <2>3, <2>4, <2>7, <2>9 DEF Tracked
  <2>11. PendingItems \cup Requeued \cup acked \cup dead \subseteq Item
    <3>1. PendingItems \subseteq Item
      BY <1>0 DEF PendingItems, TypeOK, PendingMsg
    <3> QED
      BY <1>0, <3>1, ElemsType DEF TypeOK, Requeued
  <2>12. SettledTracked'
    BY <2>3, <2>5, <2>7, <2>10, <2>11 DEF FateInv, SettledTracked
  <2>13. DroppedGone'
    BY <2>2, <2>7 DEF FateInv, DroppedGone
  <2>14. DelayedOnce'
    BY <1>0, <1>16, <2>2, <2>3, <2>4, <2>7 DEF DelayedOnce, Item
  <2>15. Fresh'
    BY <1>0, <2>7 DEF Fresh
  <2> QED
    BY <2>5, <2>8, <2>12, <2>13, <2>14, <2>15 DEF FateInv
<1> QED
  BY <1>2, <1>3, <1>4, <1>5, <1>6, <1>7, <1>8, <1>10, <1>11, <1>12, <1>13, <1>14, <1>15,
     <1>18, <1>19, <1>21, <1>22, <1>23, Zenon DEF Next

\* No message is ever both acknowledged and expired, dead-lettered and retried, or
\* queued twice for redelivery, whatever clients, tickers and publishers do.
THEOREM OneFateSafe == Spec => []OneFate
<1>1. FateInv => OneFate
  BY DEF FateInv
<1> QED
  BY <1>1, TypeInit, TypeStep, FateInit, FateStep, PTL DEF Spec

\* A delayed message is scheduled, ready or dispatched, never two of these.
THEOREM DelayedOnceSafe == Spec => []DelayedOnce
<1>1. FateInv => DelayedOnce
  BY DEF FateInv
<1> QED
  BY <1>1, TypeInit, TypeStep, FateInit, FateStep, PTL DEF Spec

-----------------------------------------------------------------------------
\* Nothing that was tracked is forgotten.

\* Where the tracker's messages can be.
Fates == PendingItems \cup Requeued \cup acked \cup dead \cup dropped

\* Until its publisher has dispatched a message, nobody has taken it: a publisher
\* that found every consumer busy leaves no message that Accounted asks about.
Undispatched == \A m \in Msg : pc[m] \in {"none", "appended"} => taker[m] = NoConsumer

\* Inductive together with TypeInv and FateInv.
AccountInv == Accounted /\ Undispatched

\* Accounted, spoken of Fates.
LEMMA AccountedFates ==
  Accounted <=> \A m \in Msg :
    (/\ pc[m] = "done" /\ taker[m] # NoConsumer
     /\ \A i \in Item \ {m} : Key(i) = Key(m) => taker[i] = NoConsumer)
      => m \in Fates
  BY DEF Accounted, Fates

\* A visit of a finite set in any order misses none of its elements.
LEMMA OrdersCover ==
  ASSUME NEW S, IsFiniteSet(S), NEW s \in Orders(S)
  PROVE  \A x \in S : \E k \in 1..Len(s) : s[k] = x
<1> DEFINE n == Cardinality(S)
<1>1. n \in Nat
  BY FS_CardinalityType
<1>2. Cardinality(1..n) = n /\ IsFiniteSet(1..n)
  BY <1>1, FS_Interval
<1>3. s \in Injection(1..n, S)
  BY DEF Orders, Injection, IsInjective
<1>4. s \in Surjection(1..n, S)
  BY <1>2, <1>3, FS_Injection
<1>5. Len(s) = n
  BY OrdersType
<1> QED
  BY <1>4, <1>5 DEF Surjection

\* A step that forgets no fate and no taker, and tracks no message, accounts for
\* all that were tracked.
LEMMA AccountKept ==
  ASSUME AccountInv, Undispatched', Fates \subseteq Fates',
         \A i \in Item : taker[i] # NoConsumer => taker'[i] # NoConsumer,
         \A m \in Msg : pc'[m] = "done" /\ taker'[m] # NoConsumer
                          => pc[m] = "done" /\ taker[m] # NoConsumer
  PROVE  AccountInv'
<1> SUFFICES ASSUME NEW m \in Msg, pc'[m] = "done", taker'[m] # NoConsumer,
                    \A i \in Item \ {m} : Key(i) = Key(m) => taker'[i] = NoConsumer
             PROVE  m \in Fates'
  BY DEF AccountInv, Accounted, Fates
<1>1. pc[m] = "done" /\ taker[m] # NoConsumer
  OBVIOUS
<1>2. \A i \in Item \ {m} : Key(i) = Key(m) => taker[i] = NoConsumer
  OBVIOUS
<1>3. m \in Fates
  BY <1>1, <1>2, AccountedFates DEF AccountInv
<1> QED
  BY <1>3

\* A step that tracks i accounts for i and for all whose entry it did not take: the
\* message that loses its entry has the key of i, which a consumer has taken.
LEMMA AccountAdded ==
  ASSUME TypeOK, KeyMatches, AccountInv, Undispatched', NEW i \in Item, NEW c \in Consumer,
         pending' = [pending EXCEPT ![Key(i)] = Entry(i, c)],
         taker'[i] # NoConsumer,
         UNCHANGED <<redeliverChan, acked, dead, dropped>>,
         \A j \in Item : taker[j] # NoConsumer => taker'[j] # NoConsumer,
         \A m \in Msg \ {i} : pc'[m] = "done" /\ taker'[m] # NoConsumer
                                => pc[m] = "done" /\ taker[m] # NoConsumer
  PROVE  AccountInv'
<1>1. pending \in [Offset -> PendingMsg \cup {NoEntry}] /\ Key(i) \in Offset
  BY KeyType DEF TypeOK
<1>2. \A x \in Offset : pending'[x] = IF x = Key(i) THEN Entry(i, c) ELSE pending[x]
  BY <1>1
<1>3. Entry(i, c).msg = i /\ Entry(i, c) # NoEntry
  <2>1. Entry(i, c) \in PendingMsg
    BY LimitType DEF Entry, PendingMsg
  <2> QED
    BY <2>1, QueueAssumption DEF Entry, PendingMsg
<1>4. i \in PendingItems'
  BY <1>1, <1>2, <1>3 DEF PendingItems
<1>5. \A m \in PendingItems : Key(m) # Key(i) => m \in PendingItems'
  <2> SUFFICES ASSUME NEW x \in Offset, pending[x] # NoEntry, Key(pending[x].msg) # Key(i)
               PROVE  pending[x].msg \in PendingItems'
    BY DEF PendingItems
  <2>1. x # Key(i)
    BY DEF KeyMatches
  <2>2. pending'[x] = pending[x]
    BY <1>2, <2>1
  <2> QED
    BY <2>2 DEF PendingItems
<1>6. Requeued' = Requeued
  BY DEF Requeued
<1> SUFFICES ASSUME NEW m \in Msg, pc'[m] = "done", taker'[m] # NoConsumer,
                    \A j \in Item \ {m} : Key(j) = Key(m) => taker'[j] = NoConsumer
             PROVE  m \in Fates'
  BY DEF AccountInv, Accounted, Fates
<1>7. CASE m = i
  BY <1>4, <1>7 DEF Fates
<1>8. CASE m # i
  <2>1. Key(m) # Key(i)
    BY <1>8
  <2>2. pc[m] = "done" /\ taker[m] # NoConsumer
    BY <1>8
  <2>3. \A j \in Item \ {m} : Key(j) = Key(m) => taker[j] = NoConsumer
    OBVIOUS
  <2>4. m \in Fates
    BY <2>2, <2>3, AccountedFates DEF AccountInv
  <2> QED
    BY <1>5, <1>6, <2>1, <2>4 DEF Fates
<1> QED
  BY <1>7, <1>8

LEMMA AccountInit == Init => AccountInv
<1> SUFFICES ASSUME Init PROVE AccountInv
  OBVIOUS
<1>1. \A m \in Msg : pc[m] = "none" /\ taker[m] = NoConsumer
  BY DEF Init, Item
<1> QED
  BY <1>1 DEF AccountInv, Accounted, Undispatched

LEMMA AccountStep == TypeInv /\ FateInv /\ AccountInv /\ [Next]_vars => AccountInv'
<1> SUFFICES ASSUME TypeInv, FateInv, AccountInv, [Next]_vars PROVE AccountInv'
  OBVIOUS
<1>0. TypeOK /\ KeyMatches /\ OneFate /\ Taken /\ Undispatched /\ Fresh
  BY DEF TypeInv, FateInv, AccountInv
<1>1. /\ taker \in [Item -> Consumer \cup {NoConsumer}]
      /\ pc \in [Msg -> {"none", "appended", "dispatched", "done"}]
      /\ Msg \subseteq Item /\ NoConsumer \notin Consumer
  BY <1>0, QueueAssumption DEF TypeOK, Item
<1> USE DEF pubVars, dispVars, ackVars, delayVars
<1>2. ASSUME UNCHANGED <<pc, taker>>, Fates \subseteq Fates' PROVE AccountInv'
  BY <1>0, <1>2, AccountKept DEF Undispatched
<1>3. ASSUME UNCHANGED <<pending, redeliverChan, acked, dead>>, dropped \subseteq dropped'
      PROVE  Fates \subseteq Fates'
  BY <1>3 DEF Fates, PendingItems, Requeued
<1>4. ASSUME NEW c \in Consumer, AddConsumer(c) \/ RemoveConsumer(c) PROVE AccountInv'
  BY <1>2, <1>3, <1>4 DEF AddConsumer, RemoveConsumer
<1>5. ASSUME NEW p \in Partition, NEW r \in RetryLimits, AppendMsg(p, r) PROVE AccountInv'
  <2>1. next[p] \in Offset /\ <<p, next[p]>> \in Msg /\ pc[<<p, next[p]>>] = "none"
    BY <1>0, <1>5 DEF AppendMsg, TypeOK, Offset, Msg, Fresh
  <2>2. pc' = [pc EXCEPT ![<<p, next[p]>>] = "appended"] /\ taker' = taker
    BY <1>5 DEF AppendMsg
  <2>3. Undispatched'
    BY <1>0, <1>1, <2>1, <2>2 DEF Undispatched
  <2>4. Fates \subseteq Fates'
    BY <1>3, <1>5 DEF AppendMsg
  <2>5. \A m \in Msg : pc'[m] = "done" => pc[m] = "done"
    BY <1>1, <2>1, <2>2
  <2> QED
    BY <2>2, <2>3, <2>4, <2>5, AccountKept
<1>6. ASSUME NEW m \in Msg, TryDispatch(m) PROVE AccountInv'
  <2>1. PICK c \in Consumer : DispatchTo(m, c)
    BY <1>6 DEF TryDispatch
  <2>2. /\ taker' = [taker EXCEPT ![m] = c] /\ c # NoConsumer
        /\ pc' = [pc EXCEPT ![m] = "dispatched"]
    BY <1>1, <1>6, <2>1 DEF DispatchTo, TryDispatch
  <2>3. Undispatched'
    BY <1>0, <1>1, <2>2 DEF Undispatched
  <2>4. Fates \subseteq Fates'
    BY <1>3, <1>6 DEF TryDispatch
  <2>5. \A i \in Item : taker[i] # NoConsumer => taker'[i] # NoConsumer
    BY <1>1, <2>2
  <2>6. \A x \in Msg : pc'[x] = "done" => pc[x] = "done" /\ taker'[x] = taker[x]
    BY <1>1, <2>2
  <2> QED
    BY <2>3, <2>4, <2>5, <2>6, AccountKept
<1>7. ASSUME NEW m \in Msg, TryDispatchBusy(m) PROVE AccountInv'
  <2>1. pc' = [pc EXCEPT ![m] = "done"] /\ taker' = taker /\ taker[m] = NoConsumer
    BY <1>0, <1>7 DEF TryDispatchBusy, Undispatched
  <2>2. Undispatched'
    BY <1>0, <1>1, <2>1 DEF Undispatched
  <2>3. Fates \subseteq Fates'
    BY <1>3, <1>7 DEF TryDispatchBusy
  <2>4. \A x \in Msg : pc'[x] = "done" /\ taker'[x] # NoConsumer => pc[x] = "done"
    BY <1>1, <2>1
  <2> QED
    BY <2>1, <2>2, <2>3, <2>4, AccountKept
<1>8. ASSUME NEW m \in Msg, Track(m) PROVE AccountInv'
  <2>1. taker[m] \in Consumer /\ m \in Item
    BY <1>0, <1>1, <1>8 DEF Taken, Track
  <2>2. /\ pc[m] = "dispatched" /\ pc' = [pc EXCEPT ![m] = "done"] /\ taker' = taker
        /\ pending' = [pending EXCEPT ![Key(m)] = Entry(m, taker[m])]
        /\ UNCHANGED <<redeliverChan, acked, dead, dropped>>
    BY <1>8 DEF Track
  <2>3. Undispatched'
    BY <1>0, <1>1, <2>2 DEF Undispatched
  <2>4. \A x \in Msg \ {m} : pc'[x] = pc[x]
    BY <1>1, <2>2
  <2>5. taker'[m] # NoConsumer
    BY <1>1, <2>1, <2>2
  <2> QED
    BY <1>0, <2>1, <2>2, <2>3, <2>4, <2>5, AccountAdded
<1>9. ASSUME NEW o \in Offset, pending[o] # NoEntry,
             pending' = [pending EXCEPT ![o] = NoEntry],
             UNCHANGED <<redeliverChan, dropped, pc, taker>>,
             acked \subseteq acked', dead \subseteq dead',
             pending[o].msg \in acked' \cup dead'
      PROVE  AccountInv'
  <2>1. PendingItems' = PendingItems \ {pending[o].msg}
    BY <1>0, <1>9, DeleteEntry
  <2>2. Requeued' = Requeued
    BY <1>9 DEF Requeued
  <2>3. Fates \subseteq Fates'
    BY <1>9, <2>1, <2>2 DEF Fates
  <2> QED
    BY <1>2, <1>9, <2>3
<1>10. ASSUME NEW o \in Offset, HandleAck(o) PROVE AccountInv'
  BY <1>9, <1>10 DEF HandleAck
<1>11. ASSUME NEW o \in Offset, NackDeadHTTP(o) \/ NackDeadWS(o) PROVE AccountInv'
  BY <1>9, <1>11 DEF NackDeadHTTP, NackDeadWS, NackDead
<1>12. ASSUME NEW p \in Partition, NEW o \in Offset, NackDeadNative(p, o) PROVE AccountInv'
  BY <1>9, <1>12 DEF NackDeadNative, NackDead
<1>13. ASSUME NEW s \in Seq(Item), \A j, k \in 1..Len(s) : s[j] = s[k] => j = k,
              Elems(s) \subseteq PendingItems, PendingItems \ Elems(s) \subseteq PendingItems',
              redeliverChan' = redeliverChan \o Accepted(redeliverChan, s, RedeliverCap),
              dropped' = dropped \cup (Elems(s) \ Elems(Accepted(redeliverChan, s, RedeliverCap))),
              UNCHANGED <<acked, dead, pc, taker>>
       PROVE  AccountInv'
  <2> DEFINE a == Accepted(redeliverChan, s, RedeliverCap)
  <2>1. /\ redeliverChan \in Seq(Item) /\ RedeliverCap \in Nat
        /\ \A j, k \in 1..Len(redeliverChan) : redeliverChan[j] = redeliverChan[k] => j = k
        /\ Elems(redeliverChan) \cap Elems(s) = {}
    BY <1>0, <1>13, QueueAssumption DEF TypeOK, OneFate, Requeued
  <2>2. Elems(redeliverChan \o a) = Elems(redeliverChan) \cup Elems(a)
    BY <1>13, <2>1, SendDistinct
  <2>3. Requeued' = Requeued \cup Elems(a)
    BY <1>13, <2>2 DEF Requeued
  <2>4. dropped' = dropped \cup (Elems(s) \ Elems(a))
    BY <1>13
  <2> HIDE DEF a
  <2>5. Fates \subseteq Fates'
    BY <1>13, <2>3, <2>4 DEF Fates
  <2> QED
    BY <1>2, <1>13, <2>5
<1>14. ASSUME NEW o \in Offset, NackRetry(o) PROVE AccountInv'
  <2> DEFINE s == <<pending[o].msg>>
  <2>1. /\ PendingItems' = PendingItems \ {pending[o].msg}
        /\ pending[o].msg \in PendingItems /\ pending[o].msg \in Item
    BY <1>0, <1>14, DeleteEntry DEF NackRetry
  <2>2. s \in Seq(Item) /\ Len(s) = 1 /\ s[1] = pending[o].msg
    BY <2>1
  <2>3. Elems(s) = {pending[o].msg} /\ \A j, k \in 1..Len(s) : s[j] = s[k] => j = k
    BY <2>2 DEF Elems
  <2>4. /\ redeliverChan' = redeliverChan \o Accepted(redeliverChan, s, RedeliverCap)
        /\ dropped' = dropped \cup (Elems(s) \ Elems(Accepted(redeliverChan, s, RedeliverCap)))
        /\ UNCHANGED <<acked, dead, pc, taker>>
    BY <1>14, <2>3 DEF NackRetry
  <2> HIDE DEF s
  <2> QED
    BY <1>13, <2>1, <2>2, <2>3, <2>4
<1>15. ASSUME NEW o \in Offset, Expire(o) PROVE AccountInv'
  <2>1. pending \in [Offset -> PendingMsg \cup {NoEntry}] /\ pending[o] \in PendingMsg
    BY <1>0, <1>15 DEF Expire, TypeOK
  <2>2. pending' = [pending EXCEPT ![o] = [pending[o] EXCEPT !.overdue = TRUE]]
    BY <1>15 DEF Expire
  <2>3. [pending[o] EXCEPT !.overdue = TRUE] \in PendingMsg
          /\ [pending[o] EXCEPT !.overdue = TRUE].msg = pending[o].msg
    BY <2>1 DEF PendingMsg
  <2>4. NoEntry \notin PendingMsg
    BY QueueAssumption DEF PendingMsg
  <2>5. \A x \in Offset : pending[x] # NoEntry => /\ pending'[x] # NoEntry
                                                  /\ pending'[x].msg = pending[x].msg
    BY <2>1, <2>2, <2>3, <2>4
  <2>6. PendingItems \subseteq PendingItems'
    BY <2>5 DEF PendingItems
  <2>7. Fates \subseteq Fates'
    BY <1>15, <2>6 DEF Fates, Requeued, Expire
  <2> QED
    BY <1>2, <1>15, <2>7 DEF Expire
<1>16. ASSUME VisibilityTick PROVE AccountInv'
  <2>1. PICK t \in Orders(Overdue) :
          LET items == [k \in 1..Len(t) |-> pending[t[k]].msg]
              sent == Accepted(redeliverChan, items, RedeliverCap)
          IN  /\ redeliverChan' = redeliverChan \o sent
              /\ dropped' = dropped \cup (Elems(items) \ Elems(sent))
    BY <1>16 DEF VisibilityTick
  <2> DEFINE s == [k \in 1..Len(t) |-> pending[t[k]].msg]
  <2>2. /\ redeliverChan' = redeliverChan \o Accepted(redeliverChan, s, RedeliverCap)
        /\ dropped' = dropped \cup (Elems(s) \ Elems(Accepted(redeliverChan, s, RedeliverCap)))
        /\ UNCHANGED <<acked, dead, pc, taker>>
    BY <1>16, <2>1 DEF VisibilityTick
  <2>3. Overdue \in SUBSET Offset /\ \A o \in Overdue : pending[o] # NoEntry
    BY DEF Overdue
  <2>4. /\ t \in Seq(Overdue) /\ \A j, k \in 1..Len(t) : t[j] = t[k] => j = k
        /\ \A x \in Overdue : \E k \in 1..Len(t) : t[k] = x
    BY <2>3, OffsetsFinite, OrdersType, OrdersCover
  <2>5. s \in Seq(Item) /\ Len(s) = Len(t) /\ \A k \in 1..Len(t) : s[k] = pending[t[k]].msg
    BY <1>0, <2>4, VisitType
  <2> HIDE DEF s
  <2>6. \A o, x \in Overdue : pending[o].msg = pending[x].msg => o = x
    BY <1>0, <2>3 DEF KeyMatches
  <2>7. \A j, k \in 1..Len(s) : s[j] = s[k] => j = k
    BY <2>4, <2>5, <2>6
  <2>8. \A x : x \in Elems(s) <=> \E o \in Overdue : x = pending[o].msg
    BY <2>4, <2>5 DEF Elems
  <2>9. Elems(s) \subseteq PendingItems
    BY <2>3, <2>8 DEF PendingItems
  <2>10. \A o \in Offset : pending'[o] = IF o \in Overdue THEN NoEntry ELSE pending[o]
    BY <1>16 DEF VisibilityTick
  <2>11. PendingItems \ Elems(s) \subseteq PendingItems'
    <3> SUFFICES ASSUME NEW o \in Offset, pending[o] # NoEntry, pending[o].msg \notin Elems(s)
                 PROVE  pending[o].msg \in PendingItems'
      BY DEF PendingItems
    <3>1. pending'[o] = pending[o]
      BY <2>8, <2>10
    <3> QED
      BY <3>1 DEF PendingItems
  <2> QED
    BY <1>13, <2>2, <2>5, <2>7, <2>9, <2>11
<1>17. ASSUME NEW d \in Delayed, NEW r \in RetryLimits, ScheduleDelayed(d, r)
       PROVE  AccountInv'
  BY <1>2, <1>3, <1>17 DEF ScheduleDelayed
<1>18. ASSUME NEW d \in Delayed, BecomeDue(d) PROVE AccountInv'
  BY <1>2, <1>3, <1>18 DEF BecomeDue
<1>19. ASSUME Promote \/ DrainReschedule \/ DrainBusy PROVE AccountInv'
  BY <1>2, <1>3, <1>19 DEF Promote, DrainReschedule, DrainBusy
<1>20. ASSUME DrainDispatch PROVE AccountInv'
  <2> DEFINE d == Head(readyCh)
  <2>1. PICK c \in Consumer :
          /\ DispatchTo(d, c)
          /\ pending' = [pending EXCEPT ![Key(d)] = Entry(d, c)]
    BY <1>20 DEF DrainDispatch
  <2>2. d \in Delayed /\ d \in Item /\ d \notin Msg
    <3>1. d \in Delayed
      BY <1>0, <1>20 DEF DrainDispatch, TypeOK
    <3> QED
      BY <3>1, QueueAssumption DEF Item
  <2>3. /\ taker' = [taker EXCEPT ![d] = c] /\ pc' = pc
        /\ UNCHANGED <<redeliverChan, acked, dead, dropped>>
    BY <1>20, <2>1 DEF DrainDispatch, DispatchTo
  <2> HIDE DEF d
  <2>4. \A m \in Msg : taker'[m] = taker[m]
    BY <1>1, <2>2, <2>3
  <2>5. Undispatched'
    BY <1>0, <2>3, <2>4 DEF Undispatched
  <2>6. /\ taker'[d] # NoConsumer
        /\ \A j \in Item : taker[j] # NoConsumer => taker'[j] # NoConsumer
    BY <1>1, <2>2, <2>3
  <2> QED
    BY <1>0, <2>1, <2>2, <2>3, <2>4, <2>5, <2>6, AccountAdded
<1>21. ASSUME Close \/ UNCHANGED vars PROVE AccountInv'
  BY <1>2, <1>3, <1>21 DEF Close, vars
<1> QED
  BY <1>4, <1>5, <1>6, <1>7, <1>8, <1>10, <1>11, <1>12, <1>14, <1>15, <1>16, <1>17, <1>18,
     <1>19, <1>20, <1>21, Zenon DEF Next

\* A message that a consumer took and that was tracked is accounted for from then on:
\* no ack, nack, timeout or dispatch makes it vanish, except a dispatch of another
\* message with its offset.
THEOREM AccountedSafe == Spec => []Accounted
<1>1. AccountInv => Accounted
  BY DEF AccountInv
<1> QED
  BY <1>1, TypeInit, TypeStep, FateInit, FateStep, AccountInit, AccountStep, PTL DEF Spec
=============================================================================
