------------------------------- MODULE Deduper -------------------------------
(***************************************************************************)
(* The idempotent producer's memory: internal/idempotent/deduper.go.       *)
(*                                                                         *)
(* Each call reads the clock once and no two calls read the same time.  A  *)
(* window is a function from the sequence numbers it holds to the time     *)
(* they were seen.  Init, Next and the like carry the module's name, since *)
(* OnceProofs extends StreamSession as well.                               *)
(***************************************************************************)
EXTENDS Integers, FiniteSetsExt, Functions

CONSTANTS Producers, Seqs,
          MaxEntries,    \* Config.MaxEntries
          MaxProducers,
          WindowSize,
          ProducerTTL,
          MaxTime,       \* bound: the clock
          Never          \* no time

ASSUME DeduperAssumption ==
  /\ IsFiniteSet(Producers) /\ IsFiniteSet(Seqs)
  /\ MaxEntries \in Nat \ {0} /\ MaxProducers \in Nat \ {0}
  /\ WindowSize \in Nat \ {0} /\ ProducerTTL \in Nat /\ WindowSize <= ProducerTTL
  /\ MaxTime \in Nat
  /\ Never \notin Nat

VARIABLES
  now,           \* the clock
  tracked,       \* producers that have a window
  seen,          \* dedupWindow.seen
  lastActivity,  \* dedupWindow.lastActivity
  accepted       \* when a message that is still to be remembered was accepted (history)

deduperVars == <<now, tracked, seen, lastActivity, accepted>>

Time == 0..MaxTime
Window == UNION {[ks -> Time] : ks \in SUBSET Seqs}
Empty == [k \in {} |-> 0]

\* One entry per variable; a producer without a window has an empty one.
DeduperTypeOK ==
  /\ now \in Time
  /\ tracked \subseteq Producers
  /\ seen \in [Producers -> Window]
  /\ \A p \in Producers \ tracked : seen[p] = Empty
  /\ lastActivity \in [Producers -> Time]
  /\ accepted \in [Producers \X Seqs -> Time \cup {Never}]

DeduperInit ==
  /\ now = 0
  /\ tracked = {}
  /\ seen = [p \in Producers |-> Empty]
  /\ lastActivity = [p \in Producers |-> 0]
  /\ accepted = [ps \in Producers \X Seqs |-> Never]

-----------------------------------------------------------------------------
\* A time exactly one window ago counts as within it, and so does one before.
Expired_Early(t, at) == at - t >= WindowSize - 1

Expired(t, at) == at - t >= WindowSize

evictExpired(w, at) == Restrict(w, {k \in DOMAIN w : ~Expired(w[k], at)})

\* What evictOldest may remove: it walks the map in an order of Go's choosing
\* and collects, up to toRemove, each entry older than all those before it.
Evictions(w) ==
  LET toRemove == Max({1, MaxEntries \div 4})
      oldest == {k \in DOMAIN w : \A j \in DOMAIN w : w[k] <= w[j]}
  IN  {ks \in SUBSET DOMAIN w :
         \/ Cardinality(ks) = toRemove
         \/ ks # {} /\ Cardinality(ks) < toRemove /\ oldest \subseteq ks}

Full(w) == Cardinality(DOMAIN w) >= MaxEntries

\* The windows that are possible once there is room for one more entry.
MadeRoom(w, at) ==
  LET unexpired == evictExpired(w, at)
  IN  IF ~Full(w) THEN {w}
      ELSE IF ~Full(unexpired) THEN {unexpired}
      ELSE {Restrict(unexpired, DOMAIN unexpired \ ks) : ks \in Evictions(unexpired)}

\* evictOldestProducer; times are distinct, so there is one.
OldestProducer == CHOOSE p \in tracked : \A q \in tracked : lastActivity[p] <= lastActivity[q]

\* The producers that stay when p calls.
Kept(p) ==
  IF p \in tracked \/ Cardinality(tracked) < MaxProducers THEN tracked
  ELSE tracked \ {OldestProducer}

\* The window p has once it is found or created.
WindowOf(p) == IF p \in tracked THEN seen[p] ELSE Empty

IsDuplicate(p, s) ==
  s \in DOMAIN WindowOf(p) /\ ~Expired(WindowOf(p)[s], now + 1)

\* What the window of p loses, when it becomes w, only to make room.
Displaced(p, w) == {k \in DOMAIN WindowOf(p) \ DOMAIN w : ~Expired(WindowOf(p)[k], now + 1)}

\* Deduper.Check of a message that is not known.
Accept(p, s) ==
  /\ now < MaxTime
  /\ ~IsDuplicate(p, s)
  /\ now' = now + 1
  /\ tracked' = Kept(p) \cup {p}
  /\ lastActivity' = [lastActivity EXCEPT ![p] = now']
  /\ \E w \in MadeRoom(WindowOf(p), now') :
       /\ seen' = [q \in Producers |->
                     IF q = p THEN [k \in DOMAIN w \cup {s} |-> IF k = s THEN now' ELSE w[k]]
                     ELSE IF q \in Kept(p) THEN seen[q] ELSE Empty]
       /\ accepted' = [m \in Producers \X Seqs |->
                         IF m = <<p, s>> THEN now'
                         ELSE IF m[1] \in tracked \ Kept(p) THEN Never
                         ELSE IF m[1] = p /\ m[2] \in Displaced(p, w) THEN Never
                         ELSE accepted[m]]

\* Deduper.Check of a message seen within the window.
Reject(p, s) ==
  /\ now < MaxTime
  /\ IsDuplicate(p, s)
  /\ now' = now + 1
  /\ lastActivity' = [lastActivity EXCEPT ![p] = now']
  /\ UNCHANGED <<tracked, seen, accepted>>

\* Deduper.EvictExpired.
EvictExpired ==
  LET live == {p \in tracked : now + 1 - lastActivity[p] <= ProducerTTL}
  IN  /\ now < MaxTime
      /\ now' = now + 1
      /\ tracked' = live
      /\ seen' = [p \in Producers |-> IF p \in live THEN evictExpired(seen[p], now') ELSE Empty]
      /\ UNCHANGED <<lastActivity, accepted>>

\* Deduper.RemoveProducer: what it published before may be published again.
RemoveProducer(p) ==
  /\ p \in tracked
  /\ tracked' = tracked \ {p}
  /\ seen' = [seen EXCEPT ![p] = Empty]
  /\ accepted' = [ps \in Producers \X Seqs |-> IF ps[1] = p THEN Never ELSE accepted[ps]]
  /\ UNCHANGED <<now, lastActivity>>

DeduperNext ==
  \/ EvictExpired
  \/ \E p \in Producers : RemoveProducer(p) \/ \E s \in Seqs : Accept(p, s) \/ Reject(p, s)

DeduperSpec == DeduperInit /\ [][DeduperNext]_deduperVars

-----------------------------------------------------------------------------
\* A message that is accepted again is so after a window's time.
NoRepeat ==
  \A m \in Producers \X Seqs :
    accepted'[m] # accepted[m] /\ accepted[m] # Never /\ accepted'[m] # Never
      => accepted'[m] - accepted[m] >= WindowSize

\* No message is accepted twice within the window, unless it was forgotten to make
\* room in a full window or in the full table of producers, or on request.
RejectsRepeats == [][NoRepeat]_deduperVars

-----------------------------------------------------------------------------
\* Statements of documents and comments that the code does not meet (README, "Known
\* divergences").

\* What a full window drops to make room is older than all it keeps.
EvictsOldest ==
  [][\A p \in tracked \cap tracked' :
       \A k \in DOMAIN seen[p] \ DOMAIN seen'[p] :
         \A j \in DOMAIN seen[p] \cap DOMAIN seen'[p] : seen[p][k] <= seen[p][j]]_deduperVars
=============================================================================
