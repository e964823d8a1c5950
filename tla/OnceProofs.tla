----------------------------- MODULE OnceProofs -----------------------------
(***************************************************************************)
(* What is promised once at the two ends of a topic: an idempotent         *)
(* producer's message is accepted once, and a WebSocket subscriber is sent *)
(* it once.  The two do not share state.                                   *)
(*                                                                         *)
(* The producer's memory, for any numbers of producers, entries and        *)
(* sequence numbers, any window and any time to live: what was accepted    *)
(* within the last WindowSize and was not dropped for want of room is in   *)
(* the window of its producer (Remembers).  This survives the sweep of     *)
(* idle producers because a producer that has been idle for ProducerTTL    *)
(* accepted nothing within the window (Dated), which is where WindowSize   *)
(* <= ProducerTTL is needed.                                               *)
(*                                                                         *)
(* The subscriber, for any numbers of messages, subscriptions and messages *)
(* per Fetch: what the records from one offset on give (Part) is joined    *)
(* from what successive reads give (PartJoin), although a read goes on     *)
(* behind the last message it sent and not behind the last record it saw   *)
(* (PartEnd).                                                              *)
(***************************************************************************)
EXTENDS Deduper, StreamSession, SequenceTheorems, WellFoundedInduction, TLAPS

-----------------------------------------------------------------------------
\* Deduper.

\* A window is a function from some sequence numbers to times.
LEMMA WindowIs ==
  ASSUME NEW w
  PROVE  w \in Window <=> \E ks \in SUBSET Seqs : w \in [ks -> Time]
BY DEF Window

LEMMA WindowHas ==
  ASSUME NEW w \in Window
  PROVE  /\ DOMAIN w \subseteq Seqs /\ w \in [DOMAIN w -> Time]
         /\ \A k \in DOMAIN w : w[k] \in Time
BY WindowIs

LEMMA EmptyWindow == Empty \in Window /\ DOMAIN Empty = {}
<1>1. Empty \in [{} -> Time]
  BY DEF Empty
<1> QED
  BY <1>1, WindowIs DEF Empty

\* A part of a window is one, and agrees with it.
LEMMA RestrictWindow ==
  ASSUME NEW w \in Window, NEW ks \in SUBSET DOMAIN w
  PROVE  /\ Restrict(w, ks) \in Window /\ DOMAIN Restrict(w, ks) = ks
         /\ \A k \in ks : Restrict(w, ks)[k] = w[k]
<1>1. Restrict(w, ks) = [k \in ks |-> w[k]]
  BY DEF Restrict
<1>2. ks \subseteq Seqs /\ \A k \in ks : w[k] \in Time
  BY WindowHas
<1>3. [k \in ks |-> w[k]] \in [ks -> Time]
  BY <1>2
<1> QED
  BY <1>1, <1>2, <1>3, WindowIs

\* evictExpired keeps what is not expired.
LEMMA Evicted ==
  ASSUME NEW w \in Window, NEW at
  PROVE  /\ evictExpired(w, at) \in Window
         /\ DOMAIN evictExpired(w, at) = {k \in DOMAIN w : ~Expired(w[k], at)}
         /\ \A k \in DOMAIN evictExpired(w, at) : evictExpired(w, at)[k] = w[k]
BY RestrictWindow DEF evictExpired

\* Making room removes entries and changes none.
LEMMA RoomMade ==
  ASSUME NEW v \in Window, NEW at, NEW w \in MadeRoom(v, at)
  PROVE  w \in Window /\ DOMAIN w \subseteq DOMAIN v /\ \A k \in DOMAIN w : w[k] = v[k]
<1> DEFINE u == evictExpired(v, at)
<1>1. u \in Window /\ DOMAIN u \subseteq DOMAIN v /\ \A k \in DOMAIN u : u[k] = v[k]
  BY Evicted
<1>2. w = v \/ w = u \/ \E ks \in Evictions(u) : w = Restrict(u, DOMAIN u \ ks)
  BY DEF MadeRoom
<1> HIDE DEF u
<1>3. ASSUME NEW ks, w = Restrict(u, DOMAIN u \ ks)
      PROVE  w \in Window /\ DOMAIN w \subseteq DOMAIN v /\ \A k \in DOMAIN w : w[k] = v[k]
  BY <1>1, <1>3, RestrictWindow
<1> QED
  BY <1>1, <1>2, <1>3

\* One more entry.
LEMMA EntryAdded ==
  ASSUME NEW w \in Window, NEW s \in Seqs, NEW t \in Time
  PROVE  [k \in DOMAIN w \cup {s} |-> IF k = s THEN t ELSE w[k]] \in Window
<1>1. DOMAIN w \cup {s} \subseteq Seqs /\ \A k \in DOMAIN w : w[k] \in Time
  BY WindowHas
<1>2. [k \in DOMAIN w \cup {s} |-> IF k = s THEN t ELSE w[k]] \in [DOMAIN w \cup {s} -> Time]
  BY <1>1
<1> QED
  BY <1>1, <1>2, WindowIs

-----------------------------------------------------------------------------
\* Times are in the past, and a producer is active when it publishes.
Dated ==
  \A p \in Producers :
    /\ lastActivity[p] <= now
    /\ \A s \in Seqs : accepted[<<p, s>>] # Never => accepted[<<p, s>>] <= lastActivity[p]

\* What was accepted within the window is in it.
Remembers ==
  \A p \in Producers, s \in Seqs :
    accepted[<<p, s>>] # Never /\ ~Expired(accepted[<<p, s>>], now) =>
      p \in tracked /\ s \in DOMAIN seen[p] /\ seen[p][s] = accepted[<<p, s>>]

DedupInv == DeduperTypeOK /\ Dated /\ Remembers

LEMMA DedupStart == DeduperInit => DedupInv
<1> SUFFICES ASSUME DeduperInit PROVE DedupInv
  OBVIOUS
<1>1. 0 \in Time
  BY DeduperAssumption DEF Time
<1>2. DeduperTypeOK
  BY <1>1, EmptyWindow DEF DeduperInit, DeduperTypeOK
<1>3. \A p \in Producers, s \in Seqs : accepted[<<p, s>>] = Never /\ lastActivity[p] = 0
  BY DEF DeduperInit
<1> QED
  BY <1>1, <1>2, <1>3 DEF DedupInv, Dated, Remembers, DeduperInit

\* What the numbers and the window of a producer are.
LEMMA Typed ==
  ASSUME DeduperTypeOK, NEW p \in Producers
  PROVE  /\ now \in Nat /\ lastActivity[p] \in Nat /\ seen[p] \in Window
         /\ WindowOf(p) \in Window
         /\ \A s \in Seqs : accepted[<<p, s>>] # Never => accepted[<<p, s>>] \in Nat
         /\ WindowSize \in Nat /\ ProducerTTL \in Nat /\ WindowSize <= ProducerTTL
<1>1. Time \subseteq Nat /\ MaxTime \in Nat
  BY DeduperAssumption DEF Time
<1>2. seen[p] \in Window /\ lastActivity[p] \in Time /\ now \in Time
  BY DEF DeduperTypeOK
<1>3. \A s \in Seqs : accepted[<<p, s>>] \in Time \cup {Never}
  BY DEF DeduperTypeOK
<1>4. WindowOf(p) \in Window
  BY <1>2, EmptyWindow DEF WindowOf
<1> QED
  BY <1>1, <1>2, <1>3, <1>4, DeduperAssumption

\* The clock ticks: what is forgotten stays so.
LEMMA Ticks ==
  ASSUME NEW t \in Nat, NEW at \in Nat, ~Expired(t, at + 1)
  PROVE  ~Expired(t, at)
BY DeduperAssumption DEF Expired

\* Deduper.Check accepts a message.
LEMMA DedupAccept ==
  ASSUME DedupInv, NEW p \in Producers, NEW s \in Seqs, Accept(p, s)
  PROVE  /\ DedupInv'
         /\ accepted'[<<p, s>>] = now + 1
         /\ accepted[<<p, s>>] # Never => Expired(accepted[<<p, s>>], now + 1)
         /\ \A q \in Producers, k \in Seqs : <<q, k>> # <<p, s>> =>
               accepted'[<<q, k>>] \in {Never, accepted[<<q, k>>]}
<1>0. DeduperTypeOK /\ Dated /\ Remembers
  BY DEF DedupInv
<1>1. PICK w \in MadeRoom(WindowOf(p), now') :
        /\ seen' = [q \in Producers |->
                      IF q = p THEN [k \in DOMAIN w \cup {s} |-> IF k = s THEN now' ELSE w[k]]
                      ELSE IF q \in Kept(p) THEN seen[q] ELSE Empty]
        /\ accepted' = [m \in Producers \X Seqs |->
                          IF m = <<p, s>> THEN now'
                          ELSE IF m[1] \in tracked \ Kept(p) THEN Never
                          ELSE IF m[1] = p /\ m[2] \in Displaced(p, w) THEN Never
                          ELSE accepted[m]]
  BY DEF Accept
<1>2. /\ now' = now + 1 /\ now' \in Time /\ ~IsDuplicate(p, s)
      /\ tracked' = Kept(p) \cup {p}
      /\ lastActivity' = [lastActivity EXCEPT ![p] = now']
  BY <1>0, DeduperAssumption DEF Accept, DeduperTypeOK, Time
<1>3. WindowOf(p) \in Window /\ now \in Nat
  BY <1>0, Typed
<1>4. w \in Window /\ DOMAIN w \subseteq DOMAIN WindowOf(p) /\ \A k \in DOMAIN w : w[k] = WindowOf(p)[k]
  BY <1>3, RoomMade
<1>5. Kept(p) \subseteq tracked /\ (p \in tracked => Kept(p) = tracked)
  BY DEF Kept
<1>6. ASSUME NEW q \in Producers, NEW k \in Seqs
      PROVE  /\ <<q, k>> = <<p, s>> => accepted'[<<q, k>>] = now'
             /\ <<q, k>> # <<p, s>> =>
                   accepted'[<<q, k>>] = IF \/ q \in tracked \ Kept(p)
                                            \/ q = p /\ k \in Displaced(p, w)
                                         THEN Never ELSE accepted[<<q, k>>]
  BY <1>1
<1>7. ASSUME accepted[<<p, s>>] # Never
      PROVE  Expired(accepted[<<p, s>>], now + 1)
  <2>1. accepted[<<p, s>>] \in Nat
    BY <1>0, <1>7, Typed
  <2>2. ~Expired(accepted[<<p, s>>], now + 1) =>
          p \in tracked /\ s \in DOMAIN seen[p] /\ seen[p][s] = accepted[<<p, s>>]
    BY <1>0, <1>3, <1>7, <2>1, Ticks DEF Remembers
  <2> QED
    BY <1>2, <2>2 DEF IsDuplicate, WindowOf
<1>8. DeduperTypeOK'
  <2>1. seen' \in [Producers -> Window]
    <3> DEFINE v == [k \in DOMAIN w \cup {s} |-> IF k = s THEN now' ELSE w[k]]
    <3>1. v \in Window
      BY <1>2, <1>4, EntryAdded
    <3>2. \A q \in Producers : seen[q] \in Window
      BY <1>0, Typed
    <3>3. seen' = [q \in Producers |-> IF q = p THEN v ELSE IF q \in Kept(p) THEN seen[q] ELSE Empty]
      BY <1>1
    <3> HIDE DEF v
    <3> QED
      BY <3>1, <3>2, <3>3, EmptyWindow
  <2>2. \A q \in Producers \ tracked' : seen'[q] = Empty
    BY <1>1, <1>2
  <2>3. tracked' \subseteq Producers /\ lastActivity' \in [Producers -> Time]
    BY <1>0, <1>2, <1>5 DEF DeduperTypeOK
  <2>4. accepted' \in [Producers \X Seqs -> Time \cup {Never}]
    <3>1. \A m \in Producers \X Seqs : accepted[m] \in Time \cup {Never}
      BY <1>0 DEF DeduperTypeOK
    <3> QED
      BY <1>1, <1>2, <3>1
  <2> QED
    BY <1>2, <2>1, <2>2, <2>3, <2>4 DEF DeduperTypeOK
<1>9. Dated'
  <2> SUFFICES ASSUME NEW q \in Producers
               PROVE  /\ lastActivity'[q] <= now'
                      /\ \A k \in Seqs : accepted'[<<q, k>>] # Never =>
                                         accepted'[<<q, k>>] <= lastActivity'[q]
    BY DEF Dated
  <2>1. lastActivity'[q] = IF q = p THEN now + 1 ELSE lastActivity[q]
    BY <1>0, <1>2 DEF DeduperTypeOK
  <2>2. /\ lastActivity[q] \in Nat /\ lastActivity[q] <= now
        /\ \A k \in Seqs : accepted[<<q, k>>] # Never =>
              accepted[<<q, k>>] \in Nat /\ accepted[<<q, k>>] <= lastActivity[q]
    BY <1>0, Typed DEF Dated
  <2>3. ASSUME NEW k \in Seqs, accepted'[<<q, k>>] # Never
        PROVE  accepted'[<<q, k>>] <= lastActivity'[q]
    <3>1. CASE <<q, k>> = <<p, s>>
      BY <1>2, <1>3, <1>6, <2>1, <3>1
    <3>2. CASE <<q, k>> # <<p, s>>
      <4>1. accepted'[<<q, k>>] = accepted[<<q, k>>]
        BY <1>6, <2>3, <3>2
      <4> QED
        BY <1>3, <2>1, <2>2, <2>3, <4>1
    <3> QED
      BY <3>1, <3>2
  <2> QED
    BY <1>2, <1>3, <2>1, <2>2, <2>3
<1>10. Remembers'
  <2> SUFFICES ASSUME NEW q \in Producers, NEW k \in Seqs,
                      accepted'[<<q, k>>] # Never, ~Expired(accepted'[<<q, k>>], now')
               PROVE  /\ q \in tracked' /\ k \in DOMAIN seen'[q]
                      /\ seen'[q][k] = accepted'[<<q, k>>]
    BY DEF Remembers, Expired
  <2>1. CASE <<q, k>> = <<p, s>>
    BY <1>1, <1>2, <1>6, <2>1
  <2>2. CASE <<q, k>> # <<p, s>>
    <3>1. /\ accepted'[<<q, k>>] = accepted[<<q, k>>]
          /\ ~(q \in tracked \ Kept(p)) /\ ~(q = p /\ k \in Displaced(p, w))
      BY <1>6, <2>2
    <3>2. accepted[<<q, k>>] \in Nat
      BY <1>0, <3>1, Typed
    <3>3. q \in tracked /\ k \in DOMAIN seen[q] /\ seen[q][k] = accepted[<<q, k>>]
      BY <1>0, <1>2, <1>3, <3>1, <3>2, Ticks DEF Remembers
    <3>4. CASE q # p
      BY <1>1, <1>2, <3>1, <3>3, <3>4
    <3>5. CASE q = p
      <4>1. k # s /\ WindowOf(p) = seen[p]
        BY <2>2, <3>3, <3>5 DEF WindowOf
      <4>2. k \in DOMAIN w
        BY <1>2, <3>1, <3>3, <3>5, <4>1 DEF Displaced
      <4>3. w[k] = accepted[<<q, k>>]
        BY <1>4, <3>3, <3>5, <4>1, <4>2
      <4> QED
        BY <1>1, <1>2, <3>1, <3>5, <4>1, <4>2, <4>3
    <3> QED
      BY <3>4, <3>5
  <2> QED
    BY <2>1, <2>2
<1> QED
  BY <1>2, <1>6, <1>7, <1>8, <1>9, <1>10 DEF DedupInv

\* Deduper.Check rejects a message: only the clock and the activity move.
LEMMA DedupReject ==
  ASSUME DedupInv, NEW p \in Producers, NEW s \in Seqs, Reject(p, s)
  PROVE  DedupInv' /\ accepted' = accepted
<1>1. /\ now' = now + 1 /\ now' \in Time
      /\ lastActivity' = [lastActivity EXCEPT ![p] = now']
      /\ UNCHANGED <<tracked, seen, accepted>>
      /\ DeduperTypeOK /\ Dated /\ Remembers
  BY DeduperAssumption DEF Reject, DedupInv, DeduperTypeOK, Time
<1>2. DeduperTypeOK'
  BY <1>1 DEF DeduperTypeOK
<1>3. ASSUME NEW q \in Producers
      PROVE  /\ now \in Nat /\ lastActivity[q] \in Nat
             /\ lastActivity'[q] = IF q = p THEN now + 1 ELSE lastActivity[q]
             /\ lastActivity[q] <= now
             /\ \A k \in Seqs : accepted[<<q, k>>] # Never =>
                   accepted[<<q, k>>] \in Nat /\ accepted[<<q, k>>] <= lastActivity[q]
  <2>1. lastActivity'[q] = IF q = p THEN now + 1 ELSE lastActivity[q]
    BY <1>1 DEF DeduperTypeOK
  <2> QED
    BY <1>1, <2>1, Typed DEF Dated
<1>4. Dated'
  <2> SUFFICES ASSUME NEW q \in Producers
               PROVE  /\ lastActivity'[q] <= now'
                      /\ \A k \in Seqs : accepted'[<<q, k>>] # Never =>
                                         accepted'[<<q, k>>] <= lastActivity'[q]
    BY DEF Dated
  <2> QED
    BY <1>1, <1>3
<1>5. Remembers'
  <2> SUFFICES ASSUME NEW q \in Producers, NEW k \in Seqs,
                      accepted[<<q, k>>] # Never, ~Expired(accepted[<<q, k>>], now + 1)
               PROVE  /\ q \in tracked /\ k \in DOMAIN seen[q]
                      /\ seen[q][k] = accepted[<<q, k>>]
    BY <1>1 DEF Remembers, Expired
  <2> QED
    BY <1>1, <1>3, Ticks DEF Remembers
<1> QED
  BY <1>1, <1>2, <1>4, <1>5 DEF DedupInv

\* Deduper.EvictExpired: what it drops is past the window.
LEMMA DedupEvict ==
  ASSUME DedupInv, EvictExpired
  PROVE  DedupInv' /\ accepted' = accepted
<1> DEFINE live == {p \in tracked : now + 1 - lastActivity[p] <= ProducerTTL}
<1>1. /\ now' = now + 1 /\ now' \in Time /\ tracked' = live
      /\ seen' = [p \in Producers |-> IF p \in live THEN evictExpired(seen[p], now') ELSE Empty]
      /\ UNCHANGED <<lastActivity, accepted>>
      /\ DeduperTypeOK /\ Dated /\ Remembers
  BY DeduperAssumption DEF EvictExpired, DedupInv, DeduperTypeOK, Time
<1>2. ASSUME NEW q \in Producers
      PROVE  /\ now \in Nat /\ lastActivity[q] \in Nat /\ seen[q] \in Window
             /\ WindowSize \in Nat /\ ProducerTTL \in Nat /\ WindowSize <= ProducerTTL
             /\ lastActivity[q] <= now
             /\ \A k \in Seqs : accepted[<<q, k>>] # Never =>
                   accepted[<<q, k>>] \in Nat /\ accepted[<<q, k>>] <= lastActivity[q]
  BY <1>1, Typed DEF Dated
<1>3. DeduperTypeOK'
  <2>1. seen' \in [Producers -> Window]
    BY <1>1, <1>2, Evicted, EmptyWindow
  <2>2. \A p \in Producers \ tracked' : seen'[p] = Empty
    BY <1>1
  <2> QED
    BY <1>1, <2>1, <2>2 DEF DeduperTypeOK
<1>4. Dated'
  <2> SUFFICES ASSUME NEW q \in Producers
               PROVE  /\ lastActivity[q] <= now + 1
                      /\ \A k \in Seqs : accepted[<<q, k>>] # Never =>
                                         accepted[<<q, k>>] <= lastActivity[q]
    BY <1>1 DEF Dated
  <2> QED
    BY <1>2
<1>5. Remembers'
  <2> SUFFICES ASSUME NEW q \in Producers, NEW k \in Seqs,
                      accepted[<<q, k>>] # Never, ~Expired(accepted[<<q, k>>], now + 1)
               PROVE  /\ q \in live /\ k \in DOMAIN seen'[q]
                      /\ seen'[q][k] = accepted[<<q, k>>]
    BY <1>1 DEF Remembers, Expired
  <2>1. q \in tracked /\ k \in DOMAIN seen[q] /\ seen[q][k] = accepted[<<q, k>>]
    BY <1>1, <1>2, Ticks DEF Remembers
  <2>2. q \in live
    BY <1>2, <2>1 DEF Expired
  <2>3. seen'[q] = evictExpired(seen[q], now + 1)
    BY <1>1, <2>2
  <2>4. k \in DOMAIN evictExpired(seen[q], now + 1)
    BY <1>2, <2>1, Evicted
  <2>5. evictExpired(seen[q], now + 1)[k] = seen[q][k]
    BY <1>2, <2>4, Evicted
  <2> HIDE DEF live
  <2> QED
    BY <2>1, <2>2, <2>3, <2>4, <2>5
<1> QED
  BY <1>1, <1>3, <1>4, <1>5 DEF DedupInv

\* Deduper.RemoveProducer.
LEMMA DedupRemove ==
  ASSUME DedupInv, NEW p \in Producers, RemoveProducer(p)
  PROVE  DedupInv' /\ \A m \in Producers \X Seqs : accepted'[m] \in {Never, accepted[m]}
<1>1. /\ tracked' = tracked \ {p} /\ seen' = [seen EXCEPT ![p] = Empty]
      /\ accepted' = [m \in Producers \X Seqs |-> IF m[1] = p THEN Never ELSE accepted[m]]
      /\ UNCHANGED <<now, lastActivity>>
      /\ DeduperTypeOK /\ Dated /\ Remembers
  BY DEF RemoveProducer, DedupInv
<1>2. DeduperTypeOK'
  BY <1>1, EmptyWindow DEF DeduperTypeOK
<1>3. \A q \in Producers, k \in Seqs :
        accepted'[<<q, k>>] = IF q = p THEN Never ELSE accepted[<<q, k>>]
  BY <1>1
<1>4. Dated'
  BY <1>1, <1>3 DEF Dated
<1>5. Remembers'
  BY <1>1, <1>3 DEF Remembers, Expired, DeduperTypeOK
<1> QED
  BY <1>1, <1>2, <1>4, <1>5 DEF DedupInv

LEMMA DedupStep == DedupInv /\ [DeduperNext]_deduperVars => DedupInv' /\ [NoRepeat]_deduperVars
<1> SUFFICES ASSUME DedupInv, [DeduperNext]_deduperVars
             PROVE  DedupInv' /\ [NoRepeat]_deduperVars
  OBVIOUS
<1>1. CASE UNCHANGED deduperVars
  BY <1>1 DEF deduperVars, DedupInv, DeduperTypeOK, Dated, Remembers, Expired
<1>2. CASE EvictExpired
  BY <1>2, DedupEvict DEF NoRepeat
<1>3. ASSUME NEW p \in Producers, RemoveProducer(p)
      PROVE  DedupInv' /\ [NoRepeat]_deduperVars
  BY <1>3, DedupRemove DEF NoRepeat
<1>4. ASSUME NEW p \in Producers, NEW s \in Seqs, Accept(p, s)
      PROVE  DedupInv' /\ [NoRepeat]_deduperVars
  <2>1. /\ DedupInv' /\ accepted'[<<p, s>>] = now + 1
        /\ accepted[<<p, s>>] # Never => Expired(accepted[<<p, s>>], now + 1)
        /\ \A q \in Producers, k \in Seqs : <<q, k>> # <<p, s>> =>
              accepted'[<<q, k>>] \in {Never, accepted[<<q, k>>]}
    BY <1>4, DedupAccept
  <2>2. \A m \in Producers \X Seqs : m = <<p, s>> \/ accepted'[m] \in {Never, accepted[m]}
    BY <2>1
  <2>3. NoRepeat
    BY <2>1, <2>2 DEF NoRepeat, Expired
  <2> QED
    BY <2>1, <2>3
<1>5. ASSUME NEW p \in Producers, NEW s \in Seqs, Reject(p, s)
      PROVE  DedupInv' /\ [NoRepeat]_deduperVars
  BY <1>5, DedupReject DEF NoRepeat
<1> QED
  BY <1>1, <1>2, <1>3, <1>4, <1>5 DEF DeduperNext

\* A sequence number of a producer is accepted again at the earliest a WindowSize
\* after it was accepted, unless it was forgotten to make room or on request, for
\* every order of Check, EvictExpired and RemoveProducer.
THEOREM RepeatsRejected == DeduperSpec => RejectsRepeats
<1> QED
  BY DedupStart, DedupStep, PTL DEF DeduperSpec, RejectsRepeats

\* The windows stay functions from sequence numbers to times, and a producer that
\* is not tracked has none.
THEOREM DeduperTypeCorrect == DeduperSpec => []DeduperTypeOK
<1>1. DedupInv => DeduperTypeOK
  BY DEF DedupInv
<1> QED
  BY <1>1, DedupStart, DedupStep, PTL DEF DeduperSpec

-----------------------------------------------------------------------------
\* StreamSession: recursion over records.

\* Every non-empty set of natural numbers has a least element.
LEMMA LeastNat ==
  ASSUME NEW T \in SUBSET Nat, T # {}
  PROVE  \E n \in T : \A m \in T : n <= m
<1> DEFINE R == OpToRel(<, Nat)
<1>1. IsWellFoundedOn(R, Nat)
  BY NatLessThanWellFounded
<1>2. \A x, y \in Nat : y < x => <<y, x>> \in R
  BY DEF OpToRel
<1> HIDE DEF R
<1>3. PICK x \in T : \A y \in T : ~(<<y, x>> \in R)
  BY <1>1, WFMin
<1>4. \A y \in T : ~(y < x)
  BY <1>2, <1>3
<1> QED
  BY <1>3, <1>4

\* A set that has 0, and n + 1 whenever it has n, has all numbers up to a bound.
LEMMA UpTo ==
  ASSUME NEW b \in Nat, NEW G, 0 \in G, \A n \in 0..(b - 1) : n \in G => n + 1 \in G
  PROVE  \A n \in 0..b : n \in G
<1> DEFINE T == {n \in 0..b : n \notin G}
<1> SUFFICES ASSUME T # {} PROVE FALSE
  OBVIOUS
<1>1. PICK n \in T : \A m \in T : n <= m
  <2>1. T \in SUBSET Nat
    OBVIOUS
  <2> HIDE DEF T
  <2> QED
    BY <2>1, LeastNat
<1>2. n \in 0..b /\ n \notin G /\ n # 0
  BY <1>1
<1>3. n - 1 \in 0..(b - 1) /\ n - 1 \notin T
  BY <1>1, <1>2
<1>4. n - 1 \in G
  BY <1>2, <1>3
<1>5. (n - 1) + 1 = n
  BY <1>2
<1> QED
  BY <1>2, <1>3, <1>4, <1>5

\* What is picked of os by l, one record after the other.
Pick(l, os, n, before) == IF l[os[n] + 1] THEN Append(before, os[n]) ELSE before

Picks(l, os, f, b) == f = [n \in 0..b |-> IF n = 0 THEN <<>> ELSE Pick(l, os, n, f[n - 1])]

Picked(l, os) == (CHOOSE f : Picks(l, os, f, Len(os)))[Len(os)]

\* The equation has a solution.
LEMMA PicksExist ==
  ASSUME NEW l, NEW os, NEW b \in Nat
  PROVE  \E f : Picks(l, os, f, b)
<1> DEFINE G == {c \in 0..b : \E f : Picks(l, os, f, c)}
<1>1. 0 \in G
  <2>1. Picks(l, os, [n \in 0..0 |-> <<>>], 0)
    BY DEF Picks
  <2> QED
    BY <2>1
<1>2. ASSUME NEW c \in 0..(b - 1), c \in G PROVE c + 1 \in G
  <2>1. PICK f : Picks(l, os, f, c)
    BY <1>2
  <2> DEFINE g == [n \in 0..(c + 1) |-> IF n = 0 THEN <<>> ELSE Pick(l, os, n, f[n - 1])]
  <2>2. \A n \in 0..c : f[n] = IF n = 0 THEN <<>> ELSE Pick(l, os, n, f[n - 1])
    BY <2>1 DEF Picks
  <2>3. \A n \in 0..c : g[n] = f[n]
    BY <2>2
  <2>4. g = [n \in 0..(c + 1) |-> IF n = 0 THEN <<>> ELSE Pick(l, os, n, f[n - 1])]
    OBVIOUS
  <2> HIDE DEF g
  <2>5. ASSUME NEW n \in 0..(c + 1)
        PROVE  (IF n = 0 THEN <<>> ELSE Pick(l, os, n, f[n - 1]))
                 = IF n = 0 THEN <<>> ELSE Pick(l, os, n, g[n - 1])
    <3>1. CASE n = 0
      BY <3>1
    <3>2. CASE n # 0
      <4>1. n - 1 \in 0..c
        BY <3>2
      <4>2. g[n - 1] = f[n - 1]
        BY <2>3, <4>1
      <4> QED
        BY <3>2, <4>2
    <3> QED
      BY <3>1, <3>2
  <2>6. Picks(l, os, g, c + 1)
    BY <2>4, <2>5 DEF Picks
  <2>7. c + 1 \in 0..b
    OBVIOUS
  <2> QED
    BY <2>6, <2>7
<1> HIDE DEF G
<1>3. b \in G
  BY <1>1, <1>2, UpTo
<1> QED
  BY <1>3 DEF G

\* The solution, step by step.
Steps(l, os, f, b) == f[0] = <<>> /\ \A n \in 1..b : f[n] = Pick(l, os, n, f[n - 1])

LEMMA PicksStep ==
  ASSUME NEW l, NEW os, NEW b \in Nat, NEW f, Picks(l, os, f, b)
  PROVE  Steps(l, os, f, b)
<1>1. \A n \in 0..b : f[n] = IF n = 0 THEN <<>> ELSE Pick(l, os, n, f[n - 1])
  BY DEF Picks
<1>2. 0 \in 0..b /\ \A n \in 1..b : n \in 0..b /\ n # 0
  OBVIOUS
<1> QED
  BY <1>1, <1>2 DEF Steps

\* Two lists of offsets that begin alike, and logs that agree there, give the same.
Alike(l, os, k, us, d) == \A n \in 1..d : os[n] = us[n] /\ l[os[n] + 1] = k[os[n] + 1]

LEMMA PicksAgree ==
  ASSUME NEW l, NEW os, NEW b \in Nat, NEW f, Picks(l, os, f, b),
         NEW k, NEW us, NEW c \in Nat, NEW g, Picks(k, us, g, c),
         NEW d \in Nat, d <= b, d <= c, Alike(l, os, k, us, d)
  PROVE  f[d] = g[d]
<1> DEFINE G == {n \in 0..d : f[n] = g[n]}
<1>1. /\ f[0] = <<>> /\ \A n \in 1..b : f[n] = Pick(l, os, n, f[n - 1])
      /\ g[0] = <<>> /\ \A n \in 1..c : g[n] = Pick(k, us, n, g[n - 1])
  <2>1. Steps(l, os, f, b)
    BY PicksStep
  <2>2. Steps(k, us, g, c)
    BY PicksStep
  <2> QED
    BY <2>1, <2>2 DEF Steps
<1>2. 0 \in G
  BY <1>1
<1>3. ASSUME NEW n \in 0..(d - 1), n \in G PROVE n + 1 \in G
  <2>1. n + 1 \in 1..d /\ n + 1 \in 1..b /\ n + 1 \in 1..c /\ n + 1 - 1 = n /\ n + 1 \in 0..d
    OBVIOUS
  <2>2. f[n + 1] = Pick(l, os, n + 1, f[n]) /\ g[n + 1] = Pick(k, us, n + 1, g[n]) /\ f[n] = g[n]
    BY <1>1, <1>3, <2>1
  <2>3. os[n + 1] = us[n + 1] /\ l[os[n + 1] + 1] = k[os[n + 1] + 1]
    BY <2>1 DEF Alike
  <2>4. f[n + 1] = g[n + 1]
    BY <2>2, <2>3 DEF Pick
  <2> QED
    BY <2>1, <2>4
<1> HIDE DEF G
<1>4. d \in G
  BY <1>2, <1>3, UpTo
<1> QED
  BY <1>4 DEF G

\* What n records from offset a on give.
From(a, n) == [i \in 1..n |-> a + i - 1]
Part(l, a, n) == Picked(l, From(a, n))

\* They are offsets.
LEMMA FromIs ==
  ASSUME NEW a \in Nat, NEW n \in Nat
  PROVE  /\ From(a, n) \in Seq(Nat) /\ Len(From(a, n)) = n
         /\ \A i \in 1..n : From(a, n)[i] = a + i - 1
<1>1. From(a, n) \in [1..n -> Nat]
  BY DEF From
<1>2. From(a, n) \in Seq(Nat) /\ Len(From(a, n)) = n
  BY <1>1
<1> QED
  BY <1>2 DEF From

\* It is the last value of a solution.
LEMMA PartIs ==
  ASSUME NEW l, NEW a \in Nat, NEW n \in Nat
  PROVE  \E f : Picks(l, From(a, n), f, n) /\ Part(l, a, n) = f[n]
<1>1. Len(From(a, n)) = n
  BY FromIs
<1>2. \E f : Picks(l, From(a, n), f, n)
  BY PicksExist
<1> DEFINE f == CHOOSE f : Picks(l, From(a, n), f, n)
<1>3. Picks(l, From(a, n), f, n)
  BY <1>2
<1>4. Part(l, a, n) = f[n]
  BY <1>1 DEF Part, Picked
<1> QED
  BY <1>3, <1>4

\* One record more.
LEMMA PartStep ==
  ASSUME NEW l, NEW a \in Nat, NEW n \in Nat
  PROVE  /\ Part(l, a, 0) = <<>>
         /\ Part(l, a, n + 1) = IF l[a + n + 1] THEN Append(Part(l, a, n), a + n) ELSE Part(l, a, n)
<1>1. Part(l, a, 0) = <<>>
  <2>1. PICK f : Picks(l, From(a, 0), f, 0) /\ Part(l, a, 0) = f[0]
    BY PartIs
  <2> QED
    <3>1. Steps(l, From(a, 0), f, 0)
      BY <2>1, PicksStep
    <3> QED
      BY <2>1, <3>1 DEF Steps
<1>2. PICK f : Picks(l, From(a, n), f, n) /\ Part(l, a, n) = f[n]
  BY PartIs
<1> DEFINE m == n + 1
<1>3. m \in Nat /\ n <= n /\ n <= m /\ m \in 1..m /\ m - 1 = n /\ a + m - 1 = a + n /\ 1..n \subseteq 1..m
  OBVIOUS
<1> HIDE DEF m
<1>4. PICK g : Picks(l, From(a, m), g, m) /\ Part(l, a, m) = g[m]
  BY <1>3, PartIs
<1>5. Alike(l, From(a, n), l, From(a, m), n)
  BY <1>3, FromIs DEF Alike
<1>6. f[n] = g[n]
  BY <1>2, <1>3, <1>4, <1>5, PicksAgree
<1>7. g[m] = Pick(l, From(a, m), m, g[n])
  <2>1. g[m] = Pick(l, From(a, m), m, g[m - 1])
    <3>1. \A i \in 1..m : g[i] = Pick(l, From(a, m), i, g[i - 1])
      <4>1. Steps(l, From(a, m), g, m)
        BY <1>3, <1>4, PicksStep
      <4> QED
        BY <4>1 DEF Steps
    <3> QED
      BY <1>3, <3>1
  <2> QED
    BY <1>3, <2>1
<1>8. From(a, m)[m] = a + n
  BY <1>3, FromIs
<1> QED
  BY <1>1, <1>2, <1>4, <1>6, <1>7, <1>8 DEF Pick, m

\* What it gives are offsets of those records.
LEMMA PartType ==
  ASSUME NEW l, NEW a \in Nat, NEW b \in Nat
  PROVE  Part(l, a, b) \in Seq(a..(a + b - 1)) /\ Len(Part(l, a, b)) <= b
<1> DEFINE S == a..(a + b - 1)
           G == {n \in 0..b : Part(l, a, n) \in Seq(S) /\ Len(Part(l, a, n)) <= n}
<1>1. 0 \in G
  <2>1. Part(l, a, 0) = <<>>
    BY PartStep
  <2> HIDE DEF S
  <2>2. <<>> \in Seq(S) /\ Len(<<>>) <= 0 /\ 0 \in 0..b
    OBVIOUS
  <2> QED
    BY <2>1, <2>2
<1>2. ASSUME NEW n \in 0..(b - 1), n \in G PROVE n + 1 \in G
  <2>1. a + n \in S /\ n \in Nat /\ n + 1 \in 0..b
    OBVIOUS
  <2> HIDE DEF S
  <2>2. Part(l, a, n) \in Seq(S) /\ Len(Part(l, a, n)) <= n
    BY <1>2
  <2>3. Append(Part(l, a, n), a + n) \in Seq(S) /\ Len(Append(Part(l, a, n), a + n)) = Len(Part(l, a, n)) + 1
    BY <2>1, <2>2, AppendProperties
  <2>4. Part(l, a, n + 1) \in {Part(l, a, n), Append(Part(l, a, n), a + n)}
    BY <2>1, PartStep
  <2>5. Part(l, a, n + 1) \in Seq(S) /\ Len(Part(l, a, n + 1)) <= n + 1
    BY <2>1, <2>2, <2>3, <2>4, LenProperties
  <2> QED
    BY <2>1, <2>5
<1> HIDE DEF G
<1>3. b \in G
  BY <1>1, <1>2, UpTo
<1> QED
  BY <1>3 DEF G

\* It does not depend on what comes later in the log.
LEMMA PartSame ==
  ASSUME NEW l, NEW k, NEW a \in Nat, NEW b \in Nat, \A i \in 1..b : l[a + i] = k[a + i]
  PROVE  Part(l, a, b) = Part(k, a, b)
<1>1. PICK f : Picks(l, From(a, b), f, b) /\ Part(l, a, b) = f[b]
  BY PartIs
<1>2. PICK g : Picks(k, From(a, b), g, b) /\ Part(k, a, b) = g[b]
  BY PartIs
<1>3. Alike(l, From(a, b), k, From(a, b), b)
  <2>1. \A i \in 1..b : From(a, b)[i] = a + i - 1 /\ a + i - 1 + 1 = a + i
    BY FromIs
  <2> QED
    BY <2>1 DEF Alike
<1>4. b <= b
  OBVIOUS
<1>5. f[b] = g[b]
  BY <1>1, <1>2, <1>3, <1>4, PicksAgree
<1> QED
  BY <1>1, <1>2, <1>5

\* The first a records and then b more are the first a + b.
LEMMA PartJoin ==
  ASSUME NEW l, NEW a \in Nat, NEW b \in Nat
  PROVE  Part(l, 0, a) \o Part(l, a, b) = Part(l, 0, a + b)
<1> DEFINE G == {n \in 0..b : Part(l, 0, a) \o Part(l, a, n) = Part(l, 0, a + n)}
<1>1. \A n \in Nat : Part(l, 0, n) \in Seq(Nat) /\ Part(l, a, n) \in Seq(Nat)
  <2> SUFFICES ASSUME NEW n \in Nat PROVE Part(l, 0, n) \in Seq(Nat) /\ Part(l, a, n) \in Seq(Nat)
    OBVIOUS
  <2>1. Part(l, 0, n) \in Seq(0..(0 + n - 1)) /\ Part(l, a, n) \in Seq(a..(a + n - 1))
    BY PartType
  <2>2. 0..(0 + n - 1) \subseteq Nat /\ a..(a + n - 1) \subseteq Nat
    OBVIOUS
  <2> QED
    BY <2>1, <2>2, SeqMonotonic
<1>2. 0 \in G
  <2>1. Part(l, a, 0) = <<>> /\ a + 0 = a /\ 0 \in 0..b
    BY PartStep
  <2>2. Part(l, 0, a) \o <<>> = Part(l, 0, a)
    BY <1>1, ConcatEmptySeq
  <2> QED
    BY <2>1, <2>2
<1>3. ASSUME NEW n \in 0..(b - 1), n \in G PROVE n + 1 \in G
  <2>1. n \in Nat /\ n + 1 \in 0..b /\ a + n \in Nat /\ 0 + (a + n) = a + n /\ a + (n + 1) = (a + n) + 1
    OBVIOUS
  <2>2. Part(l, 0, a) \o Part(l, a, n) = Part(l, 0, a + n)
    BY <1>3
  <2>3. /\ Part(l, a, n + 1) = IF l[a + n + 1] THEN Append(Part(l, a, n), a + n) ELSE Part(l, a, n)
        /\ Part(l, 0, (a + n) + 1) = IF l[a + n + 1] THEN Append(Part(l, 0, a + n), a + n) ELSE Part(l, 0, a + n)
    <3>1. Part(l, a, n + 1) = IF l[a + n + 1] THEN Append(Part(l, a, n), a + n) ELSE Part(l, a, n)
      BY <2>1, PartStep
    <3> DEFINE c == a + n
    <3>2. c \in Nat /\ 0 + c = c
      BY <2>1
    <3> HIDE DEF c
    <3>3. Part(l, 0, c + 1) = IF l[0 + c + 1] THEN Append(Part(l, 0, c), 0 + c) ELSE Part(l, 0, c)
      BY <3>2, PartStep
    <3> QED
      BY <3>1, <3>2, <3>3 DEF c
  <2>4. Part(l, 0, a) \o Append(Part(l, a, n), a + n) = Append(Part(l, 0, a) \o Part(l, a, n), a + n)
    <3> DEFINE p == Part(l, 0, a)
               q == Part(l, a, n)
    <3>1. p \in Seq(Nat) /\ q \in Seq(Nat) /\ a + n \in Nat /\ <<a + n>> \in Seq(Nat)
      BY <1>1, <2>1
    <3> HIDE DEF p, q
    <3>2. Append(q, a + n) = q \o <<a + n>> /\ p \o q \in Seq(Nat)
      BY <3>1, AppendIsConcat, ConcatProperties
    <3>3. Append(p \o q, a + n) = (p \o q) \o <<a + n>>
      BY <3>1, <3>2, AppendIsConcat
    <3>4. (p \o q) \o <<a + n>> = p \o (q \o <<a + n>>)
      BY <3>1, ConcatAssociative
    <3> QED
      BY <3>2, <3>3, <3>4 DEF p, q
  <2>5. Part(l, 0, a) \o Part(l, a, n + 1) = Part(l, 0, a + (n + 1))
    BY <2>1, <2>2, <2>3, <2>4
  <2> QED
    BY <2>1, <2>5
<1> HIDE DEF G
<1>4. b \in G
  BY <1>2, <1>3, UpTo
<1> QED
  BY <1>4 DEF G

\* Up to the last offset it gives, it is the same.
LEMMA PartEnd ==
  ASSUME NEW l, NEW a \in Nat, NEW b \in Nat, Part(l, a, b) # <<>>
  PROVE  LET m == Part(l, a, b)[Len(Part(l, a, b))] + 1 - a
         IN  m \in 1..b /\ Part(l, a, m) = Part(l, a, b)
<1> DEFINE End(n) == Part(l, a, n)[Len(Part(l, a, n))] + 1 - a
           G == {n \in 0..b : Part(l, a, n) # <<>> => End(n) \in 1..n /\ Part(l, a, End(n)) = Part(l, a, n)}
<1>1. 0 \in G
  BY PartStep
<1>2. ASSUME NEW n \in 0..(b - 1), n \in G PROVE n + 1 \in G
  <2>1. n \in Nat /\ n + 1 \in 0..b /\ a + n \in Nat /\ 1..n \subseteq 1..(n + 1) /\ n + 1 \in 1..(n + 1)
    OBVIOUS
  <2>2. Part(l, a, n + 1) = IF l[a + n + 1] THEN Append(Part(l, a, n), a + n) ELSE Part(l, a, n)
    BY <2>1, PartStep
  <2>3. CASE Part(l, a, n + 1) = Part(l, a, n)
    BY <1>2, <2>1, <2>3
  <2>4. CASE Part(l, a, n + 1) = Append(Part(l, a, n), a + n)
    <3>1. Part(l, a, n) \in Seq(a..(a + n - 1)) /\ a..(a + n - 1) \subseteq Nat
      BY <2>1, PartType
    <3>2. Part(l, a, n) \in Seq(Nat)
      BY <3>1, SeqMonotonic
    <3>3. Len(Append(Part(l, a, n), a + n)) = Len(Part(l, a, n)) + 1 /\ Append(Part(l, a, n), a + n)[Len(Part(l, a, n)) + 1] = a + n
      BY <2>1, <3>2, AppendProperties
    <3>4. End(n + 1) = (a + n) + 1 - a
      BY <2>4, <3>3
    <3>5. (a + n) + 1 - a = n + 1
      BY <2>1
    <3> HIDE DEF End
    <3>6. End(n + 1) = n + 1
      BY <3>4, <3>5
    <3> QED
      BY <2>1, <3>6
  <2> QED
    BY <2>2, <2>3, <2>4
<1> HIDE DEF G, End
<1>3. \A n \in 0..(b - 1) : n \in G => n + 1 \in G
  BY <1>2
<1>4. \A n \in 0..b : n \in G
  BY <1>1, <1>3, UpTo, Zenon
<1>5. b \in G
  BY <1>4
<1> QED
  BY <1>5 DEF G, End

-----------------------------------------------------------------------------
\* What Fetch reads.  Of numbers the least, and the larger of one and zero.
LEMMA MinIn ==
  ASSUME NEW a \in Int, NEW b \in Int, NEW c \in Int
  PROVE  Min({a, b, c}) \in {a, b, c} /\ Min({a, b, c}) <= c
<1> DEFINE m == IF a <= b /\ a <= c THEN a ELSE IF b <= c THEN b ELSE c
<1>1. m \in {a, b, c} /\ \A y \in {a, b, c} : m <= y
  OBVIOUS
<1> HIDE DEF m
<1>2. \E x \in {a, b, c} : \A y \in {a, b, c} : x <= y
  BY <1>1
<1> DEFINE x == Min({a, b, c})
<1>3. x \in {a, b, c} /\ \A y \in {a, b, c} : x <= y
  BY <1>2 DEF Min
<1> QED
  BY <1>3

LEMMA MaxIs ==
  ASSUME NEW a \in Int
  PROVE  Max({0, a}) = IF a > 0 THEN a ELSE 0
<1> DEFINE m == IF a > 0 THEN a ELSE 0
<1>1. m \in {0, a} /\ \A y \in {0, a} : m >= y
  OBVIOUS
<1>2. \A x \in {0, a} : (\A y \in {0, a} : x >= y) => x = m
  OBVIOUS
<1> HIDE DEF m
<1>3. Max({0, a}) = m
  BY <1>1, <1>2 DEF Max
<1> QED
  BY <1>3 DEF m

\* No records.
LEMMA NothingFrom ==
  ASSUME NEW a \in Nat
  PROVE  From(a, 0) = <<>>
<1>1. From(a, 0) \in Seq(Nat) /\ Len(From(a, 0)) = 0
  BY FromIs
<1> QED
  BY <1>1, EmptySeq

\* ReadRange gives records that are in the log, from the first one asked for.
LEMMA RangeRead ==
  ASSUME TypeOK, NEW a \in Nat, a <= Len(log), NEW b \in Nat
  PROVE  \E n \in Nat : a + n <= Len(log) /\ ReadRange(a, b) = From(a, n)
<1>1. MaxFetch \in Nat /\ Len(log) \in Nat /\ start \in Nat
  BY LenProperties, StreamSessionAssumption DEF TypeOK
<1>2. CASE a < start
  <2>1. ReadRange(a, b) = From(a, 0)
    BY <1>2, NothingFrom DEF ReadRange
  <2>2. 0 \in Nat /\ a + 0 <= Len(log)
    OBVIOUS
  <2> QED
    BY <2>1, <2>2
<1>3. CASE ~(a < start)
  <2> DEFINE to == Min({b, a + MaxFetch - 1, Len(log) - 1})
             n  == Max({0, to - a + 1})
  <2>1. a + MaxFetch - 1 \in Int /\ Len(log) - 1 \in Int /\ b \in Int
    BY <1>1
  <2>2. to \in Int /\ to <= Len(log) - 1
    BY <2>1, MinIn
  <2>3. ReadRange(a, b) = From(a, n)
    BY <1>3 DEF ReadRange, From
  <2> HIDE DEF to
  <2>4. to - a + 1 \in Int
    BY <2>2
  <2>5. n = IF to - a + 1 > 0 THEN to - a + 1 ELSE 0
    BY <2>4, MaxIs
  <2> HIDE DEF n
  <2>6. n \in Nat /\ a + n <= Len(log)
    BY <1>1, <2>2, <2>5
  <2> QED
    BY <2>3, <2>6
<1> QED
  BY <1>2, <1>3

\* What a client has been sent, in these terms.
LEMMA SentIs ==
  ASSUME TypeOK
  PROVE  SentOnce <=> (protocol = "ws" => \A s \in Subs : sent[s] = Part(log, 0, offset[s]))
<1>1. \A n \in Nat : [i \in 1..n |-> i - 1] = From(0, n)
  BY DEF From
<1>2. \A os : Decoded(os) = Picked(log, os)
  BY DEF Decoded, Picked, Picks, Pick
<1>3. \A s \in Subs : offset[s] \in Nat
  BY LenProperties DEF TypeOK
<1>4. \A s \in Subs : Decoded([i \in 1..offset[s] |-> i - 1]) = Part(log, 0, offset[s])
  BY <1>1, <1>2, <1>3 DEF Part
<1> QED
  BY <1>4 DEF SentOnce

\* The same of the next state.
LEMMA SentIsNext ==
  ASSUME TypeOK'
  PROVE  SentOnce' <=> (protocol' = "ws" => \A s \in Subs : sent'[s] = Part(log', 0, offset'[s]))
<1>1. \A n \in Nat : [i \in 1..n |-> i - 1] = From(0, n)
  BY DEF From
<1>2. \A s \in Subs : offset'[s] \in Nat
  BY LenProperties DEF TypeOK
<1>3. \A s \in Subs : Decoded([i \in 1..offset[s] |-> i - 1])' = Picked(log', [i \in 1..offset'[s] |-> i - 1])
  BY DEF Decoded, Picked, Picks, Pick
<1>4. \A s \in Subs : Decoded([i \in 1..offset[s] |-> i - 1])' = Part(log', 0, offset'[s])
  BY <1>1, <1>2, <1>3 DEF Part
<1> QED
  BY <1>4 DEF SentOnce

-----------------------------------------------------------------------------
\* Every step keeps the types, and that what was sent is what was read.
StreamInv == TypeOK /\ SentOnce

\* At first nothing is sent.
LEMMA StreamInit ==
  ASSUME Init
  PROVE  StreamInv
<1>1. TypeOK
  <2>1. <<>> \in Seq(Records) /\ Len(<<>>) = 0 /\ <<>> \in Seq(0..(MaxMessages - 1))
    OBVIOUS
  <2>2. MaxMessages \in Nat /\ MaxStart \in Nat /\ 0 \in 0..MaxMessages /\ 0 \in 0..MaxStart /\ 0 \in 0..0
    BY StreamSessionAssumption
  <2> QED
    BY <2>1, <2>2 DEF Init, TypeOK
<1>2. \A s \in Subs : sent[s] = <<>> /\ offset[s] = 0
  BY DEF Init
<1>3. Part(log, 0, 0) = <<>>
  BY PartStep
<1>4. SentOnce
  BY <1>1, <1>2, <1>3, SentIs
<1> QED
  BY <1>1, <1>4 DEF StreamInv

\* Publishing adds to the end of the log, which nobody has read yet.
LEMMA StreamAppend ==
  ASSUME StreamInv, NEW d \in Records, Append1(d)
  PROVE  StreamInv'
<1>1. /\ Len(log) < MaxMessages /\ log' = Append(log, d) /\ unnotified' = unnotified + 1
      /\ UNCHANGED <<start, pc, offset, hw, woken, sent, current, stopped, members, protocol, committed>>
      /\ TypeOK /\ SentOnce
  BY DEF Append1, fetch, session, StreamInv
<1>2. /\ log \in Seq(Records) /\ Len(log) \in Nat /\ MaxMessages \in Nat
      /\ \A s \in Subs : offset[s] \in 0..Len(log)
  BY <1>1, LenProperties, StreamSessionAssumption DEF TypeOK
<1>3. /\ log' \in Seq(Records) /\ Len(log') = Len(log) + 1
      /\ \A i \in 1..Len(log) : log'[i] = log[i]
  BY <1>1, <1>2, AppendProperties
<1>4. TypeOK'
  <2>1. offset' \in [Subs -> 0..Len(log')]
    <3>1. 0..Len(log) \subseteq 0..Len(log')
      BY <1>2, <1>3
    <3>2. offset \in [Subs -> 0..Len(log)]
      BY <1>1 DEF TypeOK
    <3> QED
      BY <1>1, <3>1, <3>2
  <2>2. Len(log') <= MaxMessages
    BY <1>1, <1>2, <1>3
  <2>3. unnotified' \in 0..Len(log')
    <3>1. unnotified \in 0..Len(log)
      BY <1>1 DEF TypeOK
    <3> QED
      BY <1>1, <1>2, <1>3, <3>1
  <2> QED
    BY <1>1, <1>3, <2>1, <2>2, <2>3 DEF TypeOK, Subs
<1>5. ASSUME NEW s \in Subs
      PROVE  Part(log', 0, offset[s]) = Part(log, 0, offset[s])
  <2>1. 0 \in Nat /\ offset[s] \in Nat /\ \A i \in 1..offset[s] : log'[0 + i] = log[0 + i]
    BY <1>2, <1>3
  <2> QED
    BY <2>1, PartSame
<1>6. SentOnce'
  <2>1. protocol = "ws" => \A s \in Subs : sent[s] = Part(log, 0, offset[s])
    BY <1>1, SentIs
  <2>2. protocol' = "ws" => \A s \in Subs : sent'[s] = Part(log', 0, offset'[s])
    BY <1>1, <1>5, <2>1
  <2> QED
    BY <1>4, <2>2, SentIsNext
<1> QED
  BY <1>4, <1>6 DEF StreamInv

\* A loop sends what it has read, and goes on behind the last message it sent.
LEMMA StreamRead ==
  ASSUME StreamInv, NEW s \in Subs, ReadMessages(s)
  PROVE  StreamInv'
<1> DEFINE a == offset[s]
           msgs == Decoded(ReadRange(a, hw[s]))
           next == NextOffset(a, msgs)
<1>1. /\ sent' = [sent EXCEPT ![s] = @ \o msgs] /\ offset' = [offset EXCEPT ![s] = next]
      /\ committed' = (IF protocol = "ws" /\ a + Len(msgs) > next THEN a + Len(msgs) ELSE committed)
      /\ pc' = [pc EXCEPT ![s] = "check"]
      /\ UNCHANGED <<log, start, unnotified, hw, woken, current, stopped, members, protocol>>
      /\ TypeOK /\ SentOnce
  BY DEF ReadMessages, partition, session, StreamInv
<1>2. /\ a \in Nat /\ a <= Len(log) /\ hw[s] \in Nat /\ Len(log) \in Nat /\ Len(log) <= MaxMessages
      /\ MaxMessages \in Nat
  BY <1>1, LenProperties, StreamSessionAssumption DEF TypeOK
<1>3. PICK n \in Nat : a + n <= Len(log) /\ ReadRange(a, hw[s]) = From(a, n)
  BY <1>1, <1>2, RangeRead
<1>4. msgs = Part(log, a, n)
  <2>1. \A os : Decoded(os) = Picked(log, os)
    BY DEF Decoded, Picked, Picks, Pick
  <2> QED
    BY <1>3, <2>1 DEF Part
<1>5. msgs \in Seq(a..(a + n - 1)) /\ Len(msgs) <= n /\ Len(msgs) \in Nat
  BY <1>2, <1>4, PartType, LenProperties
<1>6. msgs \in Seq(0..(MaxMessages - 1))
  <2>1. a..(a + n - 1) \subseteq 0..(MaxMessages - 1)
    BY <1>2, <1>3
  <2> QED
    BY <1>5, <2>1, SeqMonotonic
<1>7. \/ protocol # "ws" /\ next = a
      \/ msgs = <<>> /\ next = a
      \/ \E m \in 1..n : protocol = "ws" /\ next = a + m /\ Part(log, a, m) = msgs
  <2>1. CASE protocol # "ws" \/ msgs = <<>>
    BY <2>1 DEF NextOffset
  <2>2. CASE protocol = "ws" /\ msgs # <<>>
    <3> DEFINE e == msgs[Len(msgs)]
               m == e + 1 - a
    <3>1. next = e + 1
      BY <2>2 DEF NextOffset, Last
    <3>2. m \in 1..n /\ Part(log, a, m) = msgs
      BY <1>2, <1>4, <2>2, PartEnd
    <3>3. e \in Int
      <4>1. Len(msgs) \in 1..Len(msgs)
        BY <1>5, <2>2, EmptySeq
      <4>2. e \in a..(a + n - 1)
        BY <1>5, <4>1, ElementOfSeq
      <4> QED
        BY <1>2, <1>3, <4>2
    <3> HIDE DEF e, msgs, next
    <3>4. next = a + m
      BY <1>2, <3>1, <3>3
    <3> QED
      BY <2>2, <3>2, <3>4
  <2> QED
    BY <2>1, <2>2
<1> HIDE DEF msgs, next
<1>8. next \in 0..Len(log)
  BY <1>2, <1>3, <1>7
<1>9. TypeOK'
  <2>1. offset' \in [Subs -> 0..Len(log')]
    <3>1. offset \in [Subs -> 0..Len(log)]
      BY <1>1 DEF TypeOK
    <3> QED
      BY <1>1, <1>8, <3>1
  <2>2. sent' \in [Subs -> Seq(0..(MaxMessages - 1))]
    <3>1. sent \in [Subs -> Seq(0..(MaxMessages - 1))]
      BY <1>1 DEF TypeOK
    <3>2. sent[s] \o msgs \in Seq(0..(MaxMessages - 1))
      BY <1>6, <3>1, ConcatProperties
    <3> QED
      BY <1>1, <3>1, <3>2
  <2>3. committed' \in 0..MaxMessages
    <3>1. committed \in 0..MaxMessages
      BY <1>1 DEF TypeOK
    <3>2. a + Len(msgs) \in 0..MaxMessages
      BY <1>2, <1>3, <1>5
    <3> HIDE DEF a
    <3> QED
      BY <1>1, <3>1, <3>2
  <2>4. pc' \in [Subs -> {"none", "check", "watermark", "read", "register", "wait", "done"}]
    BY <1>1 DEF TypeOK
  <2> QED
    BY <1>1, <2>1, <2>2, <2>3, <2>4 DEF TypeOK, Subs
<1>10. ASSUME protocol = "ws", NEW t \in Subs
       PROVE  sent'[t] = Part(log, 0, offset'[t])
  <2>1. sent[t] = Part(log, 0, offset[t])
    BY <1>1, <1>10, SentIs
  <2>2. sent \in [Subs -> Seq(0..(MaxMessages - 1))] /\ offset \in [Subs -> 0..Len(log)]
    BY <1>1 DEF TypeOK
  <2>3. CASE t # s
    BY <1>1, <2>1, <2>2, <2>3
  <2>4. CASE t = s
    <3>1. sent'[s] = sent[s] \o msgs /\ offset'[s] = next /\ sent[s] = Part(log, 0, a)
      BY <1>1, <2>1, <2>2, <2>4
    <3>2. CASE msgs = <<>> /\ next = a
      <4>1. sent[s] \o <<>> = sent[s]
        BY <2>2, ConcatEmptySeq
      <4> QED
        BY <2>4, <3>1, <3>2, <4>1
    <3>3. ASSUME NEW m \in 1..n, next = a + m, Part(log, a, m) = msgs
          PROVE  sent'[s] = Part(log, 0, offset'[s])
      <4>1. m \in Nat
        BY <1>3
      <4>2. Part(log, 0, a) \o Part(log, a, m) = Part(log, 0, a + m)
        BY <1>2, <4>1, PartJoin
      <4> QED
        BY <3>1, <3>3, <4>2
    <3> QED
      BY <1>7, <1>10, <2>4, <3>2, <3>3
  <2> QED
    BY <2>3, <2>4
<1>11. SentOnce'
  <2>1. protocol' = "ws" => \A t \in Subs : sent'[t] = Part(log', 0, offset'[t])
    BY <1>1, <1>10
  <2> QED
    BY <1>9, <2>1, SentIsNext
<1> QED
  BY <1>9, <1>11 DEF StreamInv

\* No other step touches the log, what was sent or where a loop goes on.
LEMMA StreamElse ==
  ASSUME StreamInv, TypeOK', UNCHANGED <<log, offset, sent, protocol>>
  PROVE  StreamInv'
<1>1. protocol = "ws" => \A s \in Subs : sent[s] = Part(log, 0, offset[s])
  BY SentIs DEF StreamInv
<1>2. SentOnce'
  BY <1>1, SentIsNext
<1> QED
  BY <1>2 DEF StreamInv

\* Every step.
LEMMA StreamStep ==
  ASSUME StreamInv, [Next]_vars
  PROVE  StreamInv'
<1>1. TypeOK
  BY DEF StreamInv
<1>2. /\ log \in Seq(Records) /\ Len(log) \in Nat /\ Len(log) <= MaxMessages /\ MaxMessages \in Nat /\ MaxStart \in Nat
      /\ HighWatermark \in 0..MaxMessages
  <2>1. log \in Seq(Records) /\ Len(log) \in Nat /\ Len(log) <= MaxMessages /\ MaxMessages \in Nat /\ MaxStart \in Nat
    BY <1>1, LenProperties, StreamSessionAssumption DEF TypeOK
  <2>2. log # <<>> => Len(log) \in Nat \ {0}
    BY <2>1, EmptySeq
  <2> QED
    BY <2>1, <2>2 DEF HighWatermark
<1>3. CASE UNCHANGED vars
  <2>1. UNCHANGED <<log, start, unnotified, pc, offset, hw, woken, sent, current, stopped, members, protocol, committed>>
    BY <1>3 DEF vars, partition, fetch, session
  <2>2. TypeOK'
    BY <1>1, <2>1 DEF TypeOK, Subs
  <2> QED
    BY <2>1, <2>2, StreamElse
<1>4. ASSUME NEW d \in Records, Append1(d) PROVE StreamInv'
  BY <1>4, StreamAppend
<1>5. CASE Notify
  <2>1. TypeOK' /\ UNCHANGED <<log, offset, sent, protocol>>
    <3>1. /\ unnotified > 0 /\ unnotified' = unnotified - 1
          /\ woken' = [s \in Subs |-> woken[s] \/ pc[s] = "wait"]
          /\ UNCHANGED <<log, start, pc, offset, hw, sent, current, stopped, members, protocol, committed>>
      BY <1>5 DEF Notify, partition, session
    <3>2. unnotified' \in 0..Len(log)
      <4>1. unnotified \in 0..Len(log)
        BY <1>1 DEF TypeOK
      <4> QED
        BY <1>2, <3>1, <4>1
    <3>3. woken' \in [Subs -> BOOLEAN]
      BY <3>1
    <3> QED
      BY <1>1, <3>1, <3>2, <3>3 DEF TypeOK, Subs
  <2> QED
    BY <2>1, StreamElse
<1>6. CASE Trim
  <2>1. TypeOK' /\ UNCHANGED <<log, offset, sent, protocol>>
    <3>1. /\ start < MaxStart /\ start' = start + 1
          /\ UNCHANGED <<log, unnotified, pc, offset, hw, woken, sent, current, stopped, members, protocol, committed>>
      BY <1>6 DEF Trim, fetch, session
    <3>2. start' \in 0..MaxStart
      <4>1. start \in 0..MaxStart
        BY <1>1 DEF TypeOK
      <4> QED
        BY <1>2, <3>1, <4>1
    <3> QED
      BY <1>1, <3>1, <3>2 DEF TypeOK, Subs
  <2> QED
    BY <2>1, StreamElse
<1>7. CASE Cancel \/ ClearID
  <2>1. TypeOK' /\ UNCHANGED <<log, offset, sent, protocol>>
    BY <1>1, <1>7 DEF Cancel, ClearID, partition, fetch, TypeOK, Subs
  <2> QED
    BY <2>1, StreamElse
<1>8. ASSUME NEW s \in Subs, Subscribe(s) PROVE StreamInv'
  <2>1. TypeOK' /\ UNCHANGED <<log, offset, sent, protocol>>
    BY <1>1, <1>8 DEF Subscribe, partition, TypeOK, Subs
  <2> QED
    BY <2>1, StreamElse
<1>9. ASSUME NEW s \in Subs, Check(s) PROVE StreamInv'
  <2>1. TypeOK' /\ UNCHANGED <<log, offset, sent, protocol>>
    BY <1>1, <1>9 DEF Check, partition, TypeOK, Subs
  <2> QED
    BY <2>1, StreamElse
<1>10. ASSUME NEW s \in Subs, ReadWatermark(s) \/ Wake(s) PROVE StreamInv'
  <2>1. TypeOK' /\ UNCHANGED <<log, offset, sent, protocol>>
    <3>1. /\ hw' = [hw EXCEPT ![s] = HighWatermark]
          /\ woken' \in {woken, [woken EXCEPT ![s] = FALSE]}
          /\ \E p \in {"read", "register"} : pc' = [pc EXCEPT ![s] = p]
          /\ UNCHANGED <<log, start, unnotified, offset, sent, current, stopped, members, protocol, committed>>
      BY <1>10 DEF ReadWatermark, Wake, partition, session
    <3> DEFINE h == HighWatermark
    <3>2. h \in 0..MaxMessages
      BY <1>2
    <3> HIDE DEF h
    <3>3. hw' \in [Subs -> 0..MaxMessages]
      <4>1. hw \in [Subs -> 0..MaxMessages] /\ hw' = [hw EXCEPT ![s] = h]
        BY <1>1, <3>1 DEF TypeOK, h
      <4> QED
        BY <3>2, <4>1
    <3>4. /\ woken' \in [Subs -> BOOLEAN]
          /\ pc' \in [Subs -> {"none", "check", "watermark", "read", "register", "wait", "done"}]
      BY <1>1, <3>1 DEF TypeOK
    <3> QED
      BY <1>1, <3>1, <3>3, <3>4 DEF TypeOK, Subs
  <2> QED
    BY <2>1, StreamElse
<1>11. ASSUME NEW s \in Subs, Register(s) \/ Timeout(s) PROVE StreamInv'
  <2>1. TypeOK' /\ UNCHANGED <<log, offset, sent, protocol>>
    BY <1>1, <1>11 DEF Register, Timeout, partition, session, TypeOK, Subs
  <2> QED
    BY <2>1, StreamElse
<1>12. ASSUME NEW s \in Subs, ReadMessages(s) PROVE StreamInv'
  BY <1>12, StreamRead
<1> QED
  BY <1>3, <1>4, <1>5, <1>6, <1>7, <1>8, <1>9, <1>10, <1>11, <1>12 DEF Next, Loop

\* Every variable of a session keeps its type, for any number of subscriptions one after
\* the other: no loop gets ahead of the log it reads (Fetch, readMessages).
THEOREM StreamTypeCorrect == Spec => []TypeOK
<1>1. Init => StreamInv
  BY StreamInit
<1>2. StreamInv /\ [Next]_vars => StreamInv'
  BY StreamStep
<1>3. StreamInv => TypeOK
  BY DEF StreamInv
<1> QED
  BY <1>1, <1>2, <1>3, PTL DEF Spec

\* A WebSocket client gets, in order and once each, the messages below its loop's offset
\* that can be decoded, for every order of publishing, trimming, waking, timing out and
\* cancelling (runStreamSubscription, Engine.Fetch).
THEOREM StreamSentOnce == Spec => []SentOnce
<1>1. Init => StreamInv
  BY StreamInit
<1>2. StreamInv /\ [Next]_vars => StreamInv'
  BY StreamStep
<1>3. StreamInv => SentOnce
  BY DEF StreamInv
<1> QED
  BY <1>1, <1>2, <1>3, PTL DEF Spec
=============================================================================
