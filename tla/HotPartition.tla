----------------------------- MODULE HotPartition -----------------------------
(***************************************************************************)
(* One partition of the hot tier: internal/storage/hot (segment chain,     *)
(* rollover, recovery, retention, key compaction) with the TTL expirer of  *)
(* internal/engine/ttl that trims it.                                      *)
(*                                                                         *)
(* Partition.segments is kept as old \o <<active>>: Partition.active is    *)
(* always its last element.  A segment holds policy.segCap records (the    *)
(* code bounds bytes); WriteAt goes straight to the file, so a process     *)
(* crash loses nothing that was written, and Restart is crash plus         *)
(* OpenPartition.  Frozen flags live in memory only.                       *)
(*                                                                         *)
(* What is not atomic: the expirer reads a batch and trims later, and      *)
(* compaction reads the frozen segments without the partition's lock and   *)
(* swaps them under it.                                                    *)
(***************************************************************************)
EXTENDS Integers, Sequences, FiniteSets

CONSTANTS Key,               \* routing keys
          NoKey,             \* the empty routing key
          Policies,          \* ways to configure the topic (see Policy)
          MaxOffset,         \* bound: highest offset handed out
          MaxClock,          \* bound: ticks of the clock
          MaxRestarts,       \* bound: restarts of the process
          ScanBatch,         \* messages the expirer looks at per tick (100)
          MaxCompactionKeys, \* key limit of a compaction (1000000)
          NoRecord           \* a failed read

Record == [off : 0..MaxOffset, key : Key \cup {NoKey}, exp : Nat]

\* keys, ttls: the routing keys its messages have and their Envelope.TTL, in ticks
\* (0: never expires); segCap: records per segment; maxSegments, maxSize:
\* RetentionPolicy, the size in records (0: no limit); compact: LogCompactor.enabled.
Policy == [keys : SUBSET (Key \cup {NoKey}), ttls : SUBSET Nat, segCap : Nat \ {0},
           maxSegments : Nat, maxSize : Nat, compact : BOOLEAN]

Segment == [base : Nat, recs : Seq(Record), frozen : BOOLEAN, compacted : BOOLEAN]

ASSUME HotAssumption ==
  /\ NoKey \notin Key
  /\ Policies \subseteq Policy
  /\ MaxOffset \in Nat
  /\ MaxClock \in Nat
  /\ MaxRestarts \in Nat
  /\ ScanBatch \in Nat \ {0}
  /\ MaxCompactionKeys \in Nat \ {0}
  /\ NoRecord \notin Record

VARIABLES
  policy,     \* the topic's configuration; it does not change
  old,        \* the segments before the active one
  active,     \* Partition.active
  highWater,  \* Partition.highWater
  clock,
  log,        \* every record whose Append returned, by offset (history)
  trim,       \* what the expirer is about to pass to AdvanceLogStart; 0: nothing
  comp,       \* the compaction between its reading and its swap
  restarts

vars == <<policy, old, active, highWater, clock, log, trim, comp, restarts>>

NextOffset(seg) == seg.base + Len(seg.recs)
Fresh(base) == [base |-> base, recs |-> <<>>, frozen |-> FALSE, compacted |-> FALSE]
Idle == [on |-> FALSE, base |-> 0, again |-> FALSE, snap |-> {}, result |-> <<>>]

\* One entry per variable.
TypeOK ==
  /\ policy \in Policies
  /\ old \in Seq(Segment)
  /\ active \in Segment
  /\ highWater \in Nat
  /\ clock \in 0..MaxClock
  /\ log \in Seq(Record)
  /\ trim \in Nat
  /\ comp \in [on : BOOLEAN, base : Nat, again : BOOLEAN,
               snap : SUBSET Segment, result : Seq(Record)]
  /\ restarts \in 0..MaxRestarts

Init ==
  /\ policy \in Policies
  /\ old = <<>>
  /\ active = Fresh(0)
  /\ highWater = 0
  /\ clock = 0
  /\ log = <<>>
  /\ trim = 0
  /\ comp = Idle
  /\ restarts = 0

-----------------------------------------------------------------------------
\* Reading.

Chain == Append(old, active)

\* A binary search of the segments ch for offset o, between the two positions of a
\* window w, that goes right whenever it is not told to go left; 0: not found.
Search(ch, o) ==
  LET search[w \in (1..(Len(ch) + 1)) \X (0..Len(ch))] ==
        IF w[1] > w[2] THEN 0
        ELSE LET mid == (w[1] + w[2]) \div 2
             IN  IF o >= ch[mid].base /\ o < NextOffset(ch[mid]) THEN mid
                 ELSE IF o < ch[mid].base THEN search[<<w[1], mid - 1>>]
                 ELSE search[<<mid + 1, w[2]>>]
  IN  search

FindSegment(o) == Search(Chain, o)[<<1, Len(Chain)>>]

\* Partition.Read: a record is found by counting from the base of its segment.
Read(o) ==
  LET k == FindSegment(o)
  IN  IF k = 0 THEN NoRecord ELSE Chain[k].recs[o - Chain[k].base + 1]

LogStartOffset == Chain[1].base

-----------------------------------------------------------------------------
\* Appending.

Full(seg) == Len(seg.recs) >= policy.segCap

\* Append with a rollover that forgets to move the base on.
RollBase_Stale == active.base

\* The base of the segment a rollover creates.
RollBase == NextOffset(active)

\* Partition.Append: roll over if the active segment is full.  The message lives t ticks
\* from stamp on: Envelope.Timestamp was read from the clock before the partition's lock
\* was taken, so publishers may come here in another order, or was set by the publisher
\* itself and can be any time.
AppendRecord(k, t, stamp) ==
  /\ Len(log) <= MaxOffset
  /\ LET off == IF Full(active) THEN RollBase ELSE NextOffset(active)
         rec == [off |-> Len(log), key |-> k, exp |-> IF t = 0 THEN 0 ELSE stamp + t]
     IN  /\ IF Full(active)
            THEN /\ old' = Append(old, [active EXCEPT !.frozen = TRUE])
                 /\ active' = [Fresh(off) EXCEPT !.recs = <<rec>>]
            ELSE /\ active' = [active EXCEPT !.recs = Append(@, rec)]
                 /\ UNCHANGED old
         /\ highWater' = off
         /\ log' = Append(log, rec)
  /\ UNCHANGED <<policy, clock, trim, comp, restarts>>

-----------------------------------------------------------------------------
\* Restart.

\* Selected(s, idx)[n]: the elements of s at those of the first n positions that are in
\* idx, in order.
Selected(s, idx) ==
  LET upTo[n \in 0..Len(s)] ==
        IF n = 0 THEN <<>>
        ELSE IF n \in idx THEN Append(upTo[n - 1], s[n]) ELSE upTo[n - 1]
  IN  upTo

Select(s, idx) == Selected(s, idx)[Len(s)]

\* The loop over the directory ends one entry early.
Loaded_ButLast(segs) == SubSeq(segs, 1, Len(segs) - 1)

\* loadSegments parses names with "%d.log": "N.compacted.log" does not match and
\* is skipped.
Loaded(segs) == Select(segs, {i \in 1..Len(segs) : ~segs[i].compacted})

Thawed(seg) == [seg EXCEPT !.frozen = FALSE]

\* The process dies and OpenPartition loads the files.  If it died in a rollover,
\* the next segment's file may already be there, empty.
Restart(rolled) ==
  /\ restarts < MaxRestarts
  /\ rolled => Full(active)
  /\ LET files == IF rolled THEN Append(old, active) ELSE old
         kept == Loaded(files)
     IN  /\ old' = [i \in 1..Len(kept) |-> Thawed(kept[i])]
         /\ active' = IF rolled THEN Fresh(RollBase) ELSE active
  /\ highWater' = IF NextOffset(active') > 0 THEN NextOffset(active') - 1 ELSE 0
  /\ trim' = 0
  /\ comp' = Idle
  /\ restarts' = restarts + 1
  /\ UNCHANGED <<policy, clock, log>>

-----------------------------------------------------------------------------
\* Expiry.

Tick ==
  /\ clock < MaxClock
  /\ clock' = clock + 1
  /\ UNCHANGED <<policy, old, active, highWater, log, trim, comp, restarts>>

Expired(r) == r.exp # 0 /\ r.exp < clock

\* The offsets one scan looks at: the readable ones from the log start to the high
\* watermark, at most ScanBatch of them.
Scanned ==
  LET readable == {o \in LogStartOffset..highWater : Read(o) # NoRecord}
  IN  {o \in readable : Cardinality({p \in readable : p <= o}) <= ScanBatch}

FirstExpired ==
  CHOOSE f \in Scanned : /\ Expired(Read(f))
                         /\ \A p \in Scanned : Expired(Read(p)) => f <= p

\* Messages that are not expired are passed over until the first expired one; the
\* scan stops at the first one after it.
ExpiredRun ==
  {o \in Scanned : /\ o >= FirstExpired
                   /\ \A p \in Scanned : FirstExpired <= p /\ p <= o => Expired(Read(p))}

LastExpired == CHOOSE o \in ExpiredRun : \A p \in ExpiredRun : p <= o

\* Expirer.scan up to the trimming; nothing is trimmed for offset 0 alone.
ScanRead ==
  /\ trim = 0
  /\ \E o \in Scanned : Expired(Read(o))
  /\ LastExpired > 0
  /\ trim' = LastExpired + 1
  /\ UNCHANGED <<policy, old, active, highWater, clock, log, comp, restarts>>

\* A segment is judged by its first offset.
Leading_ByBase(target) ==
  CHOOSE n \in 0..Len(old) :
    /\ \A i \in 1..n : old[i].base <= target
    /\ n < Len(old) => old[n + 1].base > target

\* How many leading segments AdvanceLogStart(target) removes; the active one stays.
Leading(target) ==
  CHOOSE n \in 0..Len(old) :
    /\ \A i \in 1..n : NextOffset(old[i]) <= target
    /\ n < Len(old) => NextOffset(old[n + 1]) > target

\* Expirer.scan, the end: Partition.AdvanceLogStart.
ScanTrim ==
  /\ trim > 0
  /\ old' = SubSeq(old, Leading(trim) + 1, Len(old))
  /\ trim' = 0
  /\ UNCHANGED <<policy, active, highWater, clock, log, comp, restarts>>

-----------------------------------------------------------------------------
\* Retention.

FrozenAt == {i \in 1..Len(old) : old[i].frozen}

\* The n oldest of the frozen segments.
Oldest(n) == {i \in FrozenAt : Cardinality({j \in FrozenAt : j <= i}) <= n}

Records(segs, idx) == UNION {{<<i, j>> : j \in 1..Len(segs[i].recs)} : i \in idx}

\* Whether removing n segments is enough for both limits.
RetentionMet(n) ==
  /\ policy.maxSegments > 0 => Cardinality(FrozenAt) - n <= policy.maxSegments
  /\ policy.maxSize > 0 =>
       Cardinality(Records(Chain, (1..Len(Chain)) \ Oldest(n))) <= policy.maxSize

\* EnforceRetention: the oldest frozen segments go, until the limits are met or none
\* is left.
EnforceRetention ==
  /\ \E n \in 1..Cardinality(FrozenAt) :
       /\ RetentionMet(n) \/ n = Cardinality(FrozenAt)
       /\ \A m \in 0..(n - 1) : ~RetentionMet(m)
       /\ old' = Select(old, (1..Len(old)) \ Oldest(n))
  /\ UNCHANGED <<policy, active, highWater, clock, log, trim, comp, restarts>>

-----------------------------------------------------------------------------
\* Compaction.

Elems(s) == {s[i] : i \in 1..Len(s)}

Orders(S) == {s \in [1..Cardinality(S) -> S] :
                \A j, k \in 1..Cardinality(S) : s[j] = s[k] => j = k}

\* ReadUpTo(segs)[n]: the records of the first n segments, in reading order.
ReadUpTo(segs) ==
  LET upTo[n \in 0..Len(segs)] == IF n = 0 THEN <<>> ELSE upTo[n - 1] \o segs[n].recs
  IN  upTo

AllRecords(segs) == ReadUpTo(segs)[Len(segs)]

\* Whether the record at position i finds fewer than MaxCompactionKeys keys in the
\* map; from the first one that does not, no keyed record enters it any more.
UnderKeyLimit(all, i) ==
  Cardinality({all[j].key : j \in 1..(i - 1)} \ {NoKey}) < MaxCompactionKeys

\* The map "latest" after all records were read.
LatestByKey(all) ==
  {all[i] : i \in {i \in 1..Len(all) :
     /\ all[i].key # NoKey
     /\ UnderKeyLimit(all, i)
     /\ \A j \in (i + 1)..Len(all) : all[j].key = all[i].key => ~UnderKeyLimit(all, j)}}

\* Compact, phases 1 and 2: snapshot the frozen segments and read them.  The result
\* has the records without key, then the latest of each key in map order.
CompactRead ==
  /\ policy.compact
  /\ ~comp.on
  /\ Cardinality(FrozenAt) >= 2
  /\ LET frozen == Select(old, FrozenAt)
         all == AllRecords(frozen)
         keyless == Select(all, {i \in 1..Len(all) : all[i].key = NoKey})
     IN  /\ all # <<>>
         /\ \E s \in Orders(LatestByKey(all)) :
              comp' = [on |-> TRUE, base |-> frozen[1].base, again |-> frozen[1].compacted,
                       snap |-> Elems(frozen), result |-> keyless \o s]
  /\ UNCHANGED <<policy, old, active, highWater, clock, log, trim, restarts>>

\* The new chain: the compacted segment, then what is not frozen now.
Swapped(seg) == <<seg>> \o Select(old, (1..Len(old)) \ FrozenAt)

\* Compact, phase 3: every segment that is frozen by now goes.  The new file has the
\* name "<base>.compacted.log"; if the first segment was itself the product of a
\* compaction, removing its file removes the new one, and opening it makes it empty.
CompactSwap ==
  /\ comp.on
  /\ old' = Swapped([base |-> comp.base, frozen |-> TRUE, compacted |-> TRUE,
                     recs |-> IF comp.again /\ \E i \in FrozenAt : /\ old[i].compacted
                                                                   /\ old[i].base = comp.base
                              THEN <<>> ELSE comp.result])
  /\ comp' = Idle
  /\ UNCHANGED <<policy, active, highWater, clock, log, trim, restarts>>

-----------------------------------------------------------------------------
Next ==
  \/ \E k \in policy.keys, t \in policy.ttls, stamp \in 0..MaxClock :
       AppendRecord(k, t, stamp)
  \/ \E rolled \in BOOLEAN : Restart(rolled)
  \/ Tick
  \/ ScanRead
  \/ ScanTrim
  \/ EnforceRetention
  \/ CompactRead
  \/ CompactSwap

Spec == Init /\ [][Next]_vars

-----------------------------------------------------------------------------
\* Properties.

Stored == UNION {Elems(Chain[i].recs) : i \in 1..Len(Chain)}

\* An offset is handed out once: through rollovers, trims, compactions and restarts
\* the next offset is the number of messages ever accepted, and the high watermark is
\* the last of them.
OffsetsNeverReused ==
  /\ NextOffset(active) = Len(log)
  /\ log # <<>> => highWater = Len(log) - 1

\* Read finds every message of the active segment at the offset Append returned,
\* whatever was trimmed, compacted or reloaded in front of it.
ActiveReadable ==
  \A i \in 1..Len(active.recs) :
    /\ Read(active.base + i - 1) = log[active.base + i]
    /\ active.recs[i] = log[active.base + i]

\* "LogStartOffset returns the earliest available offset": from there to the high
\* watermark there is no hole, and every message is the one that was appended.
\* Compaction makes holes, and so does retention after a restart, which has made
\* the older segments unfrozen and passes them over.
NoHoles ==
  ~policy.compact /\ (restarts = 0 \/ policy.maxSegments + policy.maxSize = 0) =>
    \A o \in LogStartOffset..(Len(log) - 1) : Read(o) = log[o + 1]

\* A restart loses no stored message, unless it was compacted.
LosesNothing == ~policy.compact /\ restarts' # restarts => Stored \subseteq Stored'

RestartKeeps == [][LosesNothing]_vars

\* expirer.go: "messages are ordered by time ... subsequent messages are newer": of two
\* messages up to position n, the later one has no deadline or not the earlier deadline.
InTimeOrder(n) ==
  \A i, j \in 1..n : i < j /\ log[j].exp # 0 => log[i].exp \in 1..log[j].exp

\* expirer.go: "Delete expired messages by advancing the log start": trimming removes no
\* message that has not expired, if the messages it trims to were in time order; nothing
\* makes them so (TrimsNothingLive).  A compacted segment is read in another order than
\* it was written, so the promise is for topics that are not compacted.
KeepsLive ==
  ~policy.compact /\ trim # 0 /\ InTimeOrder(trim) /\ trim' = 0 /\ restarts' = restarts =>
    \A r \in Stored \ Stored' : Expired(r)

TrimsOnlyExpired == [][KeepsLive]_vars

-----------------------------------------------------------------------------
\* Statements of documents and comments that the code does not meet (README, "Known
\* divergences").

\* compaction.go: "Re-verify frozen segments still exist (no concurrent changes)": the
\* swap removes no segment that the compaction did not read.
SwapKeepsUnread ==
  [][comp.on /\ ~comp'.on /\ restarts' = restarts =>
       \A i \in 1..Len(old) : old[i] \notin comp.snap =>
         Elems(old[i].recs) \subseteq Stored']_vars

\* compaction.go: Compact "writes a new compacted segment": what it wrote is stored
\* after the swap.
SwapStoresResult ==
  [][comp.on /\ ~comp'.on /\ restarts' = restarts => Elems(comp.result) \subseteq Stored']_vars

\* partition.go: "Read reads a message at the given offset": what is read at an offset
\* is the message that was appended there.
ReadFaithful == \A o \in 0..highWater : Read(o) # NoRecord => Read(o) = log[o + 1]

\* expirer.go: "messages are ordered by time": trimming removes no message that has not
\* expired, whatever the order of the deadlines.
TrimsNothingLive ==
  [][~policy.compact /\ trim # 0 /\ trim' = 0 /\ restarts' = restarts =>
       \A r \in Stored \ Stored' : Expired(r)]_vars

\* RetentionPolicy: "Max frozen segments to keep", where frozen means not active: once
\* no more segment is removed, no more than that are left.
RetentionBound ==
  policy.maxSegments > 0 /\ (RetentionMet(0) \/ FrozenAt = {}) =>
    Len(old) <= policy.maxSegments

\* compaction.go: "keeps only the latest message per routing key": what is written
\* for a key is the newest of the records that were read.
CompactsToLatest ==
  comp.on => \A r \in Elems(comp.result), seg \in comp.snap :
    r.key # NoKey => \A q \in Elems(seg.recs) : q.key = r.key => q.off <= r.off
=============================================================================
