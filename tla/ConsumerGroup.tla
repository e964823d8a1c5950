---------------------------- MODULE ConsumerGroup ----------------------------
(***************************************************************************)
(* A consumer group of the stream engine: internal/engine/stream,          *)
(* consumer_group.go, offset.go and the calls of engine.go that reach the  *)
(* group.                                                                  *)
(*                                                                         *)
(* Join, Leave and the heartbeat loop change the members in one critical   *)
(* section and rebalance in another; CommitOffset sets the offset in one   *)
(* and saves it in another.  Time is abstracted to whether a member's last *)
(* heartbeat is within the session timeout.                                *)
(***************************************************************************)
EXTENDS Integers, Sequences, SequencesExt, FiniteSetsExt

CONSTANTS Members,         \* member IDs: integers, ordered as the strings are
          PartitionCount,
          Strategies,      \* strategies a group may be created with
          Committers,      \* goroutines that commit offsets
          MaxOffset,       \* bound: offsets committed
          MaxLeaving,      \* bound: calls of Leave that have not rebalanced yet
          Scopes,          \* bounds, in the combinations to be explored (see Scope)
          None             \* no member, no call

Partition == 0..(PartitionCount - 1)

\* members, strategies: who joins, and how; commits, by: partitions offsets are
\* committed for, and by whom; starts: starts of the broker; valid: is the group's name
\* one that ValidateGroupName accepts?  (Only OffsetStore asks.)  failing: may the offset
\* file not be written?
Scope == [members : SUBSET Members, strategies : SUBSET Strategies,
          commits : SUBSET Partition, by : SUBSET Committers,
          starts : Nat \ {0}, valid : BOOLEAN, failing : BOOLEAN]

ASSUME ConsumerGroupAssumption ==
  /\ Members \subseteq Int /\ IsFiniteSet(Members)
  /\ PartitionCount \in Nat \ {0}
  /\ Strategies \subseteq {"range", "roundrobin", "sticky"} \ {None}
  /\ MaxOffset \in Nat
  /\ MaxLeaving \in Nat
  /\ Scopes \subseteq Scope
  /\ None \notin Members /\ None \notin Partition \X Nat

VARIABLES
  strategy,     \* ConsumerGroup.strategy; None: the group does not exist
  members,      \* IDs in ConsumerGroup.members
  fresh,        \* those whose LastHeartbeat is within the session timeout
  parts,        \* GroupMember.Partitions
  assignments,  \* ConsumerGroup.assignments; None: not assigned
  joining,      \* JoinGroup, which holds Engine.mu throughout, has yet to rebalance
  leaving,      \* calls of Leave that have yet to rebalance
  loop,         \* heartbeatLoop: waiting for a "tick" or about to "rebalance"
  committed,    \* ConsumerGroup.committed; 0: no entry
  store,        \* OffsetStore.cache of the group
  file,         \* its offsets.json
  saving,       \* saving[c]: the commit c has made and not yet saved
  mixed,        \* partitions whose last commits overlapped (history)
  unwritten,    \* the last Save returned an error (history)
  dropped,      \* partitions whose last commit was acknowledged and dropped (history)
  starts,       \* starts of the broker so far
  scope         \* the bounds of this behaviour; they do not change

group   == <<strategy, members, fresh, parts, assignments, joining, leaving, loop>>
offsets == <<committed, store, file, saving, mixed, unwritten, dropped>>
vars == <<group, offsets, starts, scope>>

\* One entry per variable.
TypeOK ==
  /\ strategy \in Strategies \cup {None}
  /\ members \subseteq Members
  /\ fresh \subseteq members
  /\ parts \in [Members -> Seq(Partition)]
  /\ assignments \in [Partition -> Members \cup {None}]
  /\ joining \in BOOLEAN
  /\ leaving \in 0..MaxLeaving
  /\ loop \in {"tick", "rebalance"}
  /\ committed \in [Partition -> 0..MaxOffset]
  /\ store \in [Partition -> 0..MaxOffset]
  /\ file \in [Partition -> 0..MaxOffset]
  /\ mixed \subseteq Partition
  /\ unwritten \in BOOLEAN
  /\ saving \in [Committers -> (Partition \X (1..MaxOffset)) \cup {None}]
  /\ dropped \subseteq Partition
  /\ starts \in Nat
  /\ scope \in Scopes

NoParts == [m \in Members |-> <<>>]
Unassigned == [p \in Partition |-> None]

Init ==
  /\ strategy = None
  /\ members = {}
  /\ fresh = {}
  /\ parts = NoParts
  /\ assignments = Unassigned
  /\ joining = FALSE
  /\ leaving = 0
  /\ loop = "tick"
  /\ committed = [p \in Partition |-> 0]
  /\ store = [p \in Partition |-> 0]
  /\ file = [p \in Partition |-> 0]
  /\ mixed = {}
  /\ unwritten = FALSE
  /\ saving = [c \in Committers |-> None]
  /\ dropped = {}
  /\ starts = 1
  /\ scope \in Scopes

-----------------------------------------------------------------------------
\* The assignment algorithms: from the sorted members ms to their partitions.

Position(ms, m) == CHOOSE i \in DOMAIN ms : ms[i] = m

Interval(a, b) == [i \in 1..(b - a) |-> a + i - 1]

\* Every member gets the rounded-up share while it lasts.
rebalanceRange_Ceiling(ms) ==
  LET share == (PartitionCount + Len(ms) - 1) \div Len(ms)
      First(i) == Min({PartitionCount, (i - 1) * share})
  IN  [m \in Members |-> IF m \notin ToSet(ms) THEN <<>>
                         ELSE Interval(First(Position(ms, m)), First(Position(ms, m) + 1))]

\* The first of n members get one partition more when they cannot all get the same:
\* where the partitions of the i-th begin.
RangeStart(n, i) == (i - 1) * (PartitionCount \div n) + Min({i - 1, PartitionCount % n})

rebalanceRange(ms) ==
  [m \in Members |-> IF m \notin ToSet(ms) THEN <<>>
                     ELSE Interval(RangeStart(Len(ms), Position(ms, m)),
                                   RangeStart(Len(ms), Position(ms, m) + 1))]

Give(ps, m, p) == [ps EXCEPT ![m] = Append(@, p)]

\* The members' lists after n partitions: each is appended to the list of to[p], and to
\* none if that is None.
Dealt(to) ==
  LET dealt[n \in 0..PartitionCount] ==
        IF n = 0 THEN NoParts
        ELSE IF to[n - 1] = None THEN dealt[n - 1]
        ELSE Give(dealt[n - 1], to[n - 1], n - 1)
  IN  dealt

rebalanceRoundRobin(ms) ==
  Dealt([p \in Partition |-> ms[(p % Len(ms)) + 1]])[PartitionCount]

\* The first of ms with the fewest partitions.
memberWithFewest(ms, ps) ==
  ms[Min({i \in DOMAIN ms : \A j \in DOMAIN ms : Len(ps[ms[i]]) <= Len(ps[ms[j]])})]

\* The element of a singleton; TLC evaluates what is bound in one only once.
The(S) == CHOOSE x \in S : TRUE

\* Phase 1: members that stay keep their partitions.
Kept(ms, prev) ==
  Dealt([p \in Partition |-> IF prev[p] \in ToSet(ms) THEN prev[p] ELSE None])[PartitionCount]

\* Phases 2 and 3, after n partitions: those of the others go one by one to the member
\* with the fewest.
Distributed(ms, prev) ==
  LET after[n \in 0..PartitionCount] ==
        IF n = 0 THEN Kept(ms, prev)
        ELSE IF prev[n - 1] \in ToSet(ms) THEN after[n - 1]
        ELSE The({Give(ps, memberWithFewest(ms, ps), n - 1) : ps \in {after[n - 1]}})
  IN  after

\* One step of phase 4: the last partition of the most overloaded member goes
\* to the most underloaded one, if there are both.
Steal(ms, ps) ==
  LET target == PartitionCount \div Len(ms)
      over   == {i \in DOMAIN ms : Len(ps[ms[i]]) > target + 1}
      under  == {i \in DOMAIN ms : Len(ps[ms[i]]) < target}
  IN  IF over = {} \/ under = {} THEN ps
      ELSE LET a == ms[Min({i \in over : \A j \in over : Len(ps[ms[i]]) >= Len(ps[ms[j]])})]
               b == ms[Min({i \in under : \A j \in under : Len(ps[ms[i]]) <= Len(ps[ms[j]])})]
           IN  Give([ps EXCEPT ![a] = Front(@)], b, Last(ps[a]))

\* Phase 4 goes on until nobody is overloaded or nobody is underloaded; each step moves
\* a partition that stays where it is then.
Stolen(ms, prev) ==
  LET stolen[n \in 0..PartitionCount] ==
        IF n = 0 THEN Distributed(ms, prev)[PartitionCount]
        ELSE The({Steal(ms, ps) : ps \in {stolen[n - 1]}})
  IN  stolen

rebalanceSticky(ms, prev) == Stolen(ms, prev)[PartitionCount]

Balance(ms, prev) ==
  CASE strategy = "range"      -> rebalanceRange(ms)
    [] strategy = "sticky"     -> rebalanceSticky(ms, prev)
    [] strategy = "roundrobin" -> rebalanceRoundRobin(ms)

SortedMembers ==
  [i \in 1..Cardinality(members) |->
     CHOOSE m \in members : Cardinality({k \in members : k <= m}) = i]

\* ConsumerGroup.rebalance, by Join, by Leave or by heartbeatLoop.
rebalance(by) ==
  /\ \/ by = "join" /\ joining /\ joining' = FALSE /\ UNCHANGED <<leaving, loop>>
     \/ by = "leave" /\ leaving > 0 /\ leaving' = leaving - 1 /\ UNCHANGED <<joining, loop>>
     \/ by = "loop" /\ loop = "rebalance" /\ loop' = "tick" /\ UNCHANGED <<joining, leaving>>
  /\ parts' = IF members = {} THEN NoParts
              ELSE The({Balance(ms, assignments) : ms \in {SortedMembers}})
  /\ assignments' = [p \in Partition |->
       LET owners == {m \in Members : p \in ToSet(parts'[m])}
       IN  IF owners = {} THEN None ELSE CHOOSE m \in owners : TRUE]
  /\ UNCHANGED <<strategy, members, fresh, offsets, starts, scope>>

-----------------------------------------------------------------------------
\* Engine.JoinGroup: the group is created on the first call, with the offsets
\* that are stored; the strategy of later calls is ignored.
Join(m, s) ==
  /\ ~joining
  /\ strategy' = IF strategy = None THEN s ELSE strategy
  /\ committed' = IF strategy = None THEN store ELSE committed
  /\ members' = members \cup {m}
  /\ fresh' = fresh \cup {m}
  /\ parts' = [parts EXCEPT ![m] = <<>>]
  /\ joining' = TRUE
  /\ UNCHANGED <<assignments, leaving, loop, store, file, saving, mixed, unwritten, dropped,
                 starts, scope>>

\* The members change, the assignment does not.
Leave_NoRebalance(m) ==
  /\ strategy # None
  /\ members' = members \ {m}
  /\ fresh' = fresh \ {m}
  /\ parts' = [parts EXCEPT ![m] = <<>>]
  /\ UNCHANGED <<strategy, assignments, joining, leaving, loop, offsets, starts, scope>>

\* Engine.LeaveGroup.
Leave(m) ==
  /\ strategy # None
  /\ leaving < MaxLeaving
  /\ members' = members \ {m}
  /\ fresh' = fresh \ {m}
  /\ parts' = [parts EXCEPT ![m] = <<>>]
  /\ leaving' = leaving + 1
  /\ UNCHANGED <<strategy, assignments, joining, loop, offsets, starts, scope>>

\* The heartbeat of a member that is not in the group is an error.
Heartbeat(m) ==
  /\ m \in members
  /\ fresh' = fresh \cup {m}
  /\ UNCHANGED <<strategy, members, parts, assignments, joining, leaving, loop, offsets, starts, scope>>

\* The session timeout passes without a heartbeat of m.
TimesOut(m) ==
  /\ m \in fresh
  /\ fresh' = fresh \ {m}
  /\ UNCHANGED <<strategy, members, parts, assignments, joining, leaving, loop, offsets, starts, scope>>

\* The members are dropped and nobody rebalances.
Expire_NoRebalance ==
  /\ loop = "tick"
  /\ members # fresh
  /\ members' = fresh
  /\ parts' = [m \in Members |-> IF m \in fresh THEN parts[m] ELSE <<>>]
  /\ UNCHANGED <<strategy, fresh, assignments, joining, leaving, loop, offsets, starts, scope>>

\* A tick of heartbeatLoop that finds expired members.
Expire ==
  /\ loop = "tick"
  /\ members # fresh
  /\ members' = fresh
  /\ parts' = [m \in Members |-> IF m \in fresh THEN parts[m] ELSE <<>>]
  /\ loop' = "rebalance"
  /\ UNCHANGED <<strategy, fresh, assignments, joining, leaving, offsets, starts, scope>>

-----------------------------------------------------------------------------
\* Engine.CommitOffset: without a group it succeeds and does nothing.
CommitDropped(p) ==
  /\ strategy = None
  /\ dropped' = dropped \cup {p}
  /\ UNCHANGED <<group, committed, store, file, saving, mixed, unwritten, starts, scope>>

Pending(c, p) == saving[c] # None /\ saving[c][1] = p

\* The first critical section of ConsumerGroup.CommitOffset.
Commit(c, p, o) ==
  /\ strategy # None
  /\ saving[c] = None
  /\ committed' = [committed EXCEPT ![p] = o]
  /\ saving' = [saving EXCEPT ![c] = <<p, o>>]
  /\ mixed' = IF \E d \in Committers : Pending(d, p) THEN mixed \cup {p} ELSE mixed \ {p}
  /\ UNCHANGED <<group, store, file, unwritten, dropped, starts, scope>>

\* The file is written before the offset is in the cache.
Save_FileFirst(c) ==
  /\ saving[c] # None
  /\ saving' = [saving EXCEPT ![c] = None]
  /\ scope.valid
  /\ store' = [store EXCEPT ![saving[c][1]] = saving[c][2]]
  /\ file' = store
  /\ dropped' = dropped \ {saving[c][1]}
  /\ unwritten' = FALSE
  /\ UNCHANGED <<group, committed, mixed, starts, scope>>

\* OffsetStore.Save: the cache, then the file with all offsets of the group.  A name it
\* does not accept leaves both alone, a file that cannot be written only the file; the
\* offset is in committed by then, and the caller has an error.
Save(c) ==
  /\ saving[c] # None
  /\ saving' = [saving EXCEPT ![c] = None]
  /\ store' = IF scope.valid THEN [store EXCEPT ![saving[c][1]] = saving[c][2]] ELSE store
  /\ \/ /\ scope.valid
        /\ file' = store'
        /\ dropped' = dropped \ {saving[c][1]}
        /\ unwritten' = FALSE
     \/ /\ scope.valid => scope.failing
        /\ unwritten' = TRUE
        /\ UNCHANGED <<file, dropped>>
  /\ UNCHANGED <<group, committed, mixed, starts, scope>>

\* The broker stops or crashes and starts again: groups are gone, files stay and are
\* loaded (NewOffsetStore).
Restart ==
  /\ starts < scope.starts
  /\ starts' = starts + 1
  /\ strategy' = None
  /\ members' = {}
  /\ fresh' = {}
  /\ parts' = NoParts
  /\ assignments' = Unassigned
  /\ joining' = FALSE
  /\ leaving' = 0
  /\ loop' = "tick"
  /\ committed' = [p \in Partition |-> 0]
  /\ saving' = [c \in Committers |-> None]
  /\ store' = file
  /\ mixed' = {}
  /\ unwritten' = FALSE
  /\ UNCHANGED <<file, dropped, scope>>

Rebalancers == {"join", "leave", "loop"}

Next ==
  \/ Expire \/ Restart
  \/ \E by \in Rebalancers : rebalance(by)
  \/ \E m \in scope.members : Leave(m) \/ Heartbeat(m) \/ TimesOut(m)
                        \/ \E s \in scope.strategies : Join(m, s)
  \/ \E p \in scope.commits :
       \/ CommitDropped(p)
       \/ \E c \in scope.by, o \in 1..MaxOffset : Commit(c, p, o)
  \/ \E c \in Committers : Save(c)

Spec == Init /\ [][Next]_vars

\* The ticker of heartbeatLoop, and calls that have begun.
Fairness ==
  /\ WF_vars(Expire)
  /\ \A by \in Rebalancers : WF_vars(rebalance(by))
  /\ \A c \in Committers : WF_vars(Save(c))

LiveSpec == Spec /\ Fairness

-----------------------------------------------------------------------------
Settled == ~joining /\ leaving = 0 /\ loop = "tick" /\ members # {}

\* Once the rebalances have run every partition belongs to one member, which
\* has it in its list once, whatever joins, leaves and expiries overlapped.
EveryPartitionOwned ==
  Settled => /\ \A p \in Partition : assignments[p] \in members
             /\ \A m \in Members : \A p \in Partition :
                  Cardinality({i \in DOMAIN parts[m] : parts[m][i] = p})
                    = IF assignments[p] = m THEN 1 ELSE 0

\* Under range and round robin members differ by at most one partition (sticky may
\* leave one member with two more than another).
Balanced ==
  Settled /\ strategy # "sticky" => \A a, b \in members : Len(parts[a]) <= Len(parts[b]) + 1

\* While the group exists and no commit is under way, the offsets it answers with are
\* those a restart would load, unless the last write failed; partitions whose last
\* commits overlapped are excepted.  A write that succeeds also makes up for the failed
\* ones before it, of whatever partition.
StoreAgrees ==
  strategy # None /\ ~unwritten /\ (\A c \in Committers : saving[c] = None) =>
    \A p \in Partition \ mixed : file[p] = committed[p]

\* A member that goes silent loses its partitions.
SilentMembersDrop ==
  \A m \in Members :
    m \in members /\ m \notin fresh
      ~> m \in fresh \/ \A p \in Partition : assignments[p] # m

-----------------------------------------------------------------------------
\* Statements of documents and comments that the code does not meet (README, "Known
\* divergences").

\* consumer_group.go: "CommitOffset persists a committed offset": the offsets that the
\* group answers with are in the file.
CommitPersists ==
  strategy # None /\ (\A c \in Committers : saving[c] = None) => file = committed

\* engine.go: "CommitOffset persists a consumer group offset": none is acknowledged and
\* dropped.
NoneDropped == dropped = {}
=============================================================================
