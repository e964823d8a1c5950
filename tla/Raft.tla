-------------------------------- MODULE Raft --------------------------------
(***************************************************************************)
(* The metadata consensus: internal/cluster/raft.                          *)
(*                                                                         *)
(* A step is what the code does while it holds RaftNode.mu.  RPCs travel   *)
(* over one connection per ordered pair of nodes (TCPTransport.conns); the *)
(* server answers the requests of a connection in order, and an answer     *)
(* carries nothing that says which request it is for: whichever caller     *)
(* reads the connection first takes it.                                    *)
(*                                                                         *)
(* A node's term and vote are on disk as soon as they are set, its log     *)
(* when the step that changed it ends; but TakeSnapshot, which runs next   *)
(* to the steps without their lock, may replace log.bin by an older log.   *)
(* What goes wrong without an error is recorded in mishaps, so that the    *)
(* properties can say what they depend on.  The peers of a round are       *)
(* visited in any order (cfg.Peers is the operator's list).                *)
(***************************************************************************)
EXTENDS Integers, Sequences, SequencesExt, FiniteSetsExt

CONSTANTS Node,           \* the members of the group
          Nil,            \* no node
          Rounds,         \* goroutines of a node that may be in replicateLog
          MaxTerm,        \* bound: terms
          Scopes          \* the other bounds, in the combinations to be explored (see Scope)

\* snapshotAt: cfg.MaxLogEntries; terms: terms there are elections for; log: a leader
\* proposes entries up to this index; crashes, failures: crashes of nodes and failed
\* calls; overlap: may a call start before the last one to the peer ended?  torn: may a
\* crash leave state.json unreadable?
Scope == [snapshotAt : Nat, terms : 0..MaxTerm, log : Nat, crashes : Nat, failures : Nat,
          overlap : BOOLEAN, torn : BOOLEAN]

ASSUME RaftAssumption ==
  /\ Node # {} /\ IsFiniteSet(Node)
  /\ Nil \notin Node
  /\ MaxTerm \in Nat
  /\ Scopes \subseteq Scope

VARIABLES
  state,          \* RaftNode.state; "Shutdown" for a process that is down
  currentTerm, votedFor,                \* state.json has the same
  log,            \* RaftNode.log
  disk,           \* log.bin
  overwritten,    \* nodes whose log.bin a TakeSnapshot has replaced by an older log (history)
  commitIndex, lastApplied, fsm,        \* fsm: the commands applied, in order
  nextIndex, matchIndex, votesReceived,
  voteCalls,      \* voteCalls[n][p]: terms whose RequestVote to p is unanswered
  round,          \* round[n][r]: the replicateLog running in goroutine r
  conn,           \* conn[n][p]: requests under way from n to p, and the answers
  snapshotting,   \* the TakeSnapshot under way
  snapshot,       \* snapshot.json and meta.json
  elected,        \* <<term, node>> of every election won (history)
  applied,        \* every <<index, entry>> some node applied (history)
  mishaps,        \* what went wrong so far (history, see Mishaps)
  crashes,        \* crashes so far
  failures,       \* failed calls so far
  scope           \* the bounds of this behaviour; they do not change

persistent == <<currentTerm, votedFor, log, disk, overwritten>>
machine    == <<commitIndex, lastApplied, fsm>>
leader     == <<nextIndex, matchIndex>>
calls      == <<voteCalls, round>>
snaps      == <<snapshotting, snapshot>>
faults     == <<mishaps, crashes, failures>>
vars == <<state, persistent, machine, leader, votesReceived, calls, conn, snaps,
          elected, applied, faults, scope>>

\* crossed: a node called a peer before it had the answer to its last call; miscounted: a
\* candidate counted a vote that was given in another term; torn: a crash left state.json
\* unreadable; reverted: a crash found another log in log.bin than was in memory; restored:
\* a node started from a snapshot.
Mishaps == {"crossed", "miscounted", "torn", "reverted", "restored"}

\* Bound: a log that grows without end (see EntriesInPlace) is not followed further.
MaxEntries == scope.log + MaxTerm

Peers(n) == Node \ {n}
Majority == Cardinality(Node) \div 2 + 1

\* LogEntry.
Entry == [index: Nat, term: Nat, type: {"NoOp", "Command"}]

Idle == [term |-> 0, commit |-> 0, todo |-> {}, peer |-> Nil, last |-> 0]
NoConn == [reqs |-> <<>>, resps |-> <<>>]
NoSnapshot == [index |-> 0, data |-> <<>>]
EmptyLog == [first |-> 1, entries |-> <<>>]
NotTaking == [step |-> "none", index |-> 0, data |-> <<>>, image |-> EmptyLog]

\* RequestVoteRequest, AppendEntriesRequest, and either response: ok is
\* VoteGranted or Success.
Request ==
  [type: {"vote"}, term: 0..MaxTerm, from: Node, lastIndex: Nat, lastTerm: Nat] \cup
  [type: {"append"}, term: 0..MaxTerm, from: Node, prev: Nat, prevTerm: Nat,
   entries: Seq(Entry), commit: Nat]
Response == [type: {"vote", "append"}, term: 0..MaxTerm, ok: BOOLEAN, conflict: Nat]

Log        == [first: Nat \ {0}, entries: Seq(Entry)]
Round      == [term: 0..MaxTerm, commit: Nat, todo: SUBSET Node, peer: Node \cup {Nil}, last: Nat]
Connection == [reqs: Seq(Request), resps: Seq(Response)]
Taking     == [step: {"none", "captured", "written", "labelled", "compacted", "encoded"},
               index: Nat, data: Seq(Entry), image: Log]
Snapshot   == [index: Nat, data: Seq(Entry)]

\* One entry per variable.
TypeOK ==
  /\ state \in [Node -> {"Follower", "Candidate", "Leader", "Shutdown"}]
  /\ currentTerm \in [Node -> 0..MaxTerm]
  /\ votedFor \in [Node -> Node \cup {Nil}]
  /\ log \in [Node -> Log]
  /\ disk \in [Node -> Log]
  /\ overwritten \subseteq Node
  /\ commitIndex \in [Node -> Nat]
  /\ lastApplied \in [Node -> Nat]
  /\ fsm \in [Node -> Seq(Entry)]
  /\ nextIndex \in [Node -> [Node -> Nat \ {0}]]
  /\ matchIndex \in [Node -> [Node -> Nat]]
  /\ votesReceived \in [Node -> Nat]
  /\ voteCalls \in [Node -> [Node -> SUBSET (1..MaxTerm)]]
  /\ round \in [Node -> [Rounds -> Round]]
  /\ conn \in [Node -> [Node -> Connection]]
  /\ snapshotting \in [Node -> Taking]
  /\ snapshot \in [Node -> Snapshot]
  /\ elected \subseteq (1..MaxTerm) \X Node
  /\ applied \subseteq Nat \X Entry
  /\ mishaps \subseteq Mishaps
  /\ crashes \in 0..scope.crashes
  /\ failures \in 0..scope.failures
  /\ scope \in Scopes

Init ==
  /\ state = [n \in Node |-> "Follower"]
  /\ currentTerm = [n \in Node |-> 0]
  /\ votedFor = [n \in Node |-> Nil]
  /\ log = [n \in Node |-> EmptyLog]
  /\ disk = [n \in Node |-> EmptyLog]
  /\ overwritten = {}
  /\ commitIndex = [n \in Node |-> 0]
  /\ lastApplied = [n \in Node |-> 0]
  /\ fsm = [n \in Node |-> <<>>]
  /\ nextIndex = [n \in Node |-> [p \in Node |-> 1]]
  /\ matchIndex = [n \in Node |-> [p \in Node |-> 0]]
  /\ votesReceived = [n \in Node |-> 0]
  /\ voteCalls = [n \in Node |-> [p \in Node |-> {}]]
  /\ round = [n \in Node |-> [r \in Rounds |-> Idle]]
  /\ conn = [n \in Node |-> [p \in Node |-> NoConn]]
  /\ snapshotting = [n \in Node |-> NotTaking]
  /\ snapshot = [n \in Node |-> NoSnapshot]
  /\ elected = {}
  /\ applied = {}
  /\ mishaps = {}
  /\ crashes = 0
  /\ failures = 0
  /\ scope \in Scopes

-----------------------------------------------------------------------------
\* RaftLog.  Entries are found by their position, LastIndex reads the Index
\* stored in the last one.

LastIndex(l) == IF l.entries = <<>> THEN l.first - 1 ELSE Last(l.entries).index
LastTerm(l)  == IF l.entries = <<>> THEN 0 ELSE Last(l.entries).term
Has(l, i)    == i >= l.first /\ i - l.first < Len(l.entries)
Get(l, i)    == l.entries[i - l.first + 1]
TermAt(l, i) == IF Has(l, i) THEN Get(l, i).term ELSE 0

\* Everything from index i on; what is no longer in the log is left out.
From(l, i) == SubSeq(l.entries, Max({i, l.first}) - l.first + 1,
                     Min({LastIndex(l) + 1 - l.first, Len(l.entries)}))

Append1(l, e) == [l EXCEPT !.entries = Append(@, e)]

TruncateAfter(l, i) ==
  IF i - l.first + 1 > Len(l.entries) THEN l
  ELSE [l EXCEPT !.entries = SubSeq(@, 1, i - l.first + 1)]

\* The log may be emptied.
Compact_All(l, through) ==
  IF through < l.first THEN l
  ELSE [first |-> through + 1, entries |-> SubSeq(l.entries, through - l.first + 2, Len(l.entries))]

\* Nothing is removed when that would empty the log.
Compact(l, through) ==
  LET cut == through - l.first + 1
  IN  IF through < l.first \/ cut >= Len(l.entries) THEN l
      ELSE [first |-> through + 1, entries |-> SubSeq(l.entries, cut + 1, Len(l.entries))]

\* One entry of an AppendEntries, for index i.
Store(l, i, e) ==
  IF ~Has(l, i) THEN Append1(l, e)
  ELSE IF Get(l, i).term # e.term THEN Append1(TruncateAfter(l, i - 1), e)
  ELSE l

StoreAll(l, prev, es) ==
  LET stored[k \in 0..Len(es)] == IF k = 0 THEN l ELSE Store(stored[k - 1], prev + k, es[k])
  IN  stored[Len(es)]

findConflictIndex(l, i) ==
  Max({1} \cup {k \in 1..i : Has(l, k) /\ (~Has(l, k - 1) \/ TermAt(l, k - 1) # TermAt(l, k))})

-----------------------------------------------------------------------------
\* applyCommitted: node n, whose log is l, commits up to index c.  Entries that
\* are not in the log are passed over.
Present(l, a, c) == {i \in a + 1..c : Has(l, i)}

\* The state machine f after the commands at a + 1..c.
Apply(f, l, a, c) ==
  LET after[i \in 0..c] ==
        IF i <= a THEN f
        ELSE IF i \in Present(l, a, c) /\ Get(l, i).type = "Command"
             THEN Append(after[i - 1], Get(l, i))
             ELSE after[i - 1]
  IN  after[c]

ApplyUpTo(n, l, c) ==
  /\ commitIndex' = [commitIndex EXCEPT ![n] = c]
  /\ lastApplied' = [lastApplied EXCEPT ![n] = Max({@, c})]
  /\ fsm' = [fsm EXCEPT ![n] = Apply(@, l, lastApplied[n], c)]
  /\ applied' = applied \cup {<<i, Get(l, i)>> : i \in Present(l, lastApplied[n], c)}

\* becomeFollower, as far as the term and the vote are concerned.
StepDown(n, term) ==
  /\ state' = [state EXCEPT ![n] = "Follower"]
  /\ currentTerm' = [currentTerm EXCEPT ![n] = Max({@, term})]
  /\ votedFor' = [votedFor EXCEPT ![n] = IF term > currentTerm[n] THEN Nil ELSE @]

\* RaftLog.Save, where the log of n becomes l.
Save(n, l) ==
  /\ log' = [log EXCEPT ![n] = l]
  /\ disk' = [disk EXCEPT ![n] = l]
  /\ overwritten' = overwritten \ {n}

\* n leads its current term, to which it adds a no-op.
becomeLeader(n, term) ==
  /\ state' = [state EXCEPT ![n] = "Leader"]
  /\ nextIndex' = [nextIndex EXCEPT ![n] = [p \in Node |-> LastIndex(log[n]) + 1]]
  /\ matchIndex' = [matchIndex EXCEPT ![n] = [p \in Node |-> 0]]
  /\ Save(n, Append1(log[n], [index |-> LastIndex(log[n]) + 1, term |-> term,
                              type |-> "NoOp"]))
  /\ elected' = elected \cup {<<term, n>>}

Calling(n, p) == voteCalls[n][p] # {} \/ \E r \in Rounds : round[n][r].peer = p
MayCall(n, p) == scope.overlap \/ ~Calling(n, p)

\* n calls the peers ps.
Called(n, ps) ==
  mishaps' = IF \E p \in ps : Calling(n, p) THEN mishaps \cup {"crossed"} ELSE mishaps

\* A request to a node that is down goes nowhere; the caller will see an error.
Send(c, p, m) == IF state[p] = "Shutdown" THEN c ELSE [c EXCEPT !.reqs = Append(@, m)]

\* p's answer to the oldest request of n.
Answer(n, p, m) ==
  conn' = [conn EXCEPT ![n][p] = [reqs  |-> Tail(@.reqs), resps |-> Append(@.resps, m)]]

\* Some caller of n reads the oldest answer of p.
Read(n, p) == [conn[n][p] EXCEPT !.resps = Tail(@)]

-----------------------------------------------------------------------------
\* The election timer of n fires.  A leader is left alone, but run does not look again
\* when it has the lock: a candidate may have won meanwhile.
startElection(n) ==
  LET term == currentTerm[n] + 1
      req  == [type |-> "vote", term |-> term, from |-> n,
               lastIndex |-> LastIndex(log[n]), lastTerm |-> LastTerm(log[n])]
  IN  /\ state[n] # "Shutdown"
      /\ state[n] = "Leader" => Majority > 1
      /\ term <= scope.terms
      /\ \A p \in Peers(n) : MayCall(n, p)
      /\ Called(n, Peers(n))
      /\ currentTerm' = [currentTerm EXCEPT ![n] = term]
      /\ votedFor' = [votedFor EXCEPT ![n] = n]
      /\ votesReceived' = [votesReceived EXCEPT ![n] = 1]
      /\ IF Majority <= 1
         THEN becomeLeader(n, term) /\ UNCHANGED <<voteCalls, conn>>
         ELSE /\ state' = [state EXCEPT ![n] = "Candidate"]
              /\ voteCalls' = [voteCalls EXCEPT ![n] =
                                 [p \in Node |-> IF p = n THEN {} ELSE @[p] \cup {term}]]
              /\ conn' = [conn EXCEPT ![n] =
                            [p \in Node |-> IF p = n THEN NoConn ELSE Send(@[p], p, req)]]
              /\ UNCHANGED <<log, disk, overwritten, leader, elected>>
      /\ UNCHANGED <<machine, round, snaps, applied, crashes, failures, scope>>

\* The vote goes to whoever asks in a new term.
UpToDate_Always(req, l) == TRUE

UpToDate(req, l) ==
  \/ req.lastTerm > LastTerm(l)
  \/ req.lastTerm = LastTerm(l) /\ req.lastIndex >= LastIndex(l)

\* The vote of an earlier candidate of the term is forgotten.
MayVote_Again(n, req) == req.term >= currentTerm[n] /\ UpToDate(req, log[n])

MayVote(n, req) ==
  /\ req.term >= currentTerm[n]
  /\ req.term > currentTerm[n] \/ votedFor[n] \in {Nil, req.from}
  /\ UpToDate(req, log[n])

\* p serves the RequestVote of n.
HandleRequestVote(n, p) ==
  LET req == Head(conn[n][p].reqs)
  IN  /\ state[p] # "Shutdown"
      /\ conn[n][p].reqs # <<>>
      /\ req.type = "vote"
      /\ state' = [state EXCEPT ![p] = IF req.term > currentTerm[p] THEN "Follower" ELSE @]
      /\ currentTerm' = [currentTerm EXCEPT ![p] = Max({@, req.term})]
      /\ votedFor' = [votedFor EXCEPT ![p] = IF MayVote(p, req) THEN n
                                             ELSE IF req.term > currentTerm[p] THEN Nil ELSE @]
      /\ Answer(n, p, [type |-> "vote", term |-> Max({currentTerm[p], req.term}),
                       ok |-> MayVote(p, req), conflict |-> 0])
      /\ UNCHANGED <<log, disk, overwritten, machine, leader, votesReceived, calls, snaps,
                     elected, applied, faults, scope>>

\* A RequestVote of n for term t ends with an answer of p.  The field
\* VoteGranted is missing, so false, in the answer to an AppendEntries.
VoteReply(n, p, t) ==
  LET resp == Head(conn[n][p].resps)
      won  == /\ resp.term <= currentTerm[n]
              /\ state[n] = "Candidate" /\ currentTerm[n] = t
              /\ resp.type = "vote" /\ resp.ok
  IN  /\ t \in voteCalls[n][p]
      /\ conn[n][p].resps # <<>>
      /\ conn' = [conn EXCEPT ![n][p] = Read(n, p)]
      /\ voteCalls' = [voteCalls EXCEPT ![n][p] = @ \ {t}]
      /\ votesReceived' = [votesReceived EXCEPT ![n] = IF won THEN @ + 1 ELSE @]
      /\ mishaps' = IF won /\ resp.term # t THEN mishaps \cup {"miscounted"} ELSE mishaps
      /\ IF resp.term > currentTerm[n]
         THEN StepDown(n, resp.term) /\ UNCHANGED <<log, disk, overwritten, leader, elected>>
         ELSE /\ IF won /\ votesReceived[n] + 1 >= Majority
                 THEN becomeLeader(n, t)
                 ELSE UNCHANGED <<state, log, disk, overwritten, leader, elected>>
              /\ UNCHANGED <<currentTerm, votedFor>>
      /\ UNCHANGED <<machine, round, snaps, applied, crashes, failures, scope>>

-----------------------------------------------------------------------------
\* Propose appends a command; the replicateLog it starts is StartRound.
Propose(n) ==
  /\ state[n] = "Leader"
  /\ LastIndex(log[n]) < scope.log
  /\ Save(n, Append1(log[n], [index |-> LastIndex(log[n]) + 1, term |-> currentTerm[n],
                              type |-> "Command"]))
  /\ UNCHANGED <<state, currentTerm, votedFor, machine, leader, votesReceived, calls, conn,
                 snaps, elected, applied, faults, scope>>

\* The request that round rd of n sends to p, with the term and the commit
\* index the round began with and the log and nextIndex (ni) of now.
AppendRequest(n, p, rd, ni) ==
  [type |-> "append", term |-> rd.term, from |-> n, prev |-> ni - 1,
   prevTerm |-> TermAt(log[n], ni - 1), entries |-> From(log[n], ni), commit |-> rd.commit]

\* Round r of n, which is rd, goes on to some peer of rd.todo, or ends.  cn is
\* the connections of n after what was read, ni its nextIndex by now.
NextPeer(n, r, rd, cn, ni) ==
  \/ /\ rd.todo = {}
     /\ Called(n, {})
     /\ round' = [round EXCEPT ![n][r] = Idle]
     /\ conn' = [conn EXCEPT ![n] = cn]
  \/ \E p \in rd.todo :
       LET req == AppendRequest(n, p, rd, ni[p])
       IN  /\ MayCall(n, p)
           /\ Called(n, {p})
           /\ round' = [round EXCEPT ![n][r] =
                          [rd EXCEPT !.todo = @ \ {p}, !.peer = p,
                                     !.last = IF req.entries = <<>> THEN 0
                                              ELSE Last(req.entries).index]]
           /\ conn' = [conn EXCEPT ![n] = [cn EXCEPT ![p] = Send(@, p, req)]]

\* A heartbeat, or the goroutine of a Propose, enters replicateLog.
StartRound(n, r) ==
  /\ state[n] = "Leader"
  /\ round[n][r] = Idle
  /\ NextPeer(n, r, [Idle EXCEPT !.term = currentTerm[n], !.commit = commitIndex[n],
                                 !.todo = Peers(n)], conn[n], nextIndex[n])
  /\ UNCHANGED <<state, persistent, machine, leader, votesReceived, voteCalls, snaps, elected,
                 applied, crashes, failures, scope>>

\* How many nodes have entry i, as far as n knows.
Replicated(n, mi, i) == 1 + Cardinality({p \in Peers(n) : mi[p] >= i})

\* advanceCommitIndex: the largest index n may commit, 0 if there is none.
Committable(n, mi) ==
  Max({0} \cup {i \in commitIndex[n] + 1..LastIndex(log[n]) :
                  /\ TermAt(log[n], i) = currentTerm[n]
                  /\ Replicated(n, mi, i) > Cardinality(Node) \div 2})

\* nextIndex after the answer resp of p to a request that ended at index last.
NextAfter(old, last, resp) ==
  IF resp.type = "append" /\ resp.ok THEN IF last > 0 THEN last + 1 ELSE old
  ELSE IF resp.conflict > 0 THEN resp.conflict
  ELSE Max({1, old - 1})

\* An AppendEntries of round r ends with an answer.  Success is false in the
\* answer to a RequestVote.
AppendReply(n, r) ==
  LET rd   == round[n][r]
      p    == rd.peer
      resp == Head(conn[n][p].resps)
      ok   == resp.type = "append" /\ resp.ok
      cn   == [conn[n] EXCEPT ![p] = Read(n, p)]
      ni   == [nextIndex[n] EXCEPT ![p] = NextAfter(@, rd.last, resp)]
      mi   == [matchIndex[n] EXCEPT ![p] = IF ok /\ rd.last > 0 THEN rd.last ELSE @]
      c    == IF ok THEN Committable(n, mi) ELSE 0
  IN  /\ p # Nil
      /\ conn[n][p].resps # <<>>
      /\ IF resp.term > currentTerm[n]
         THEN /\ StepDown(n, resp.term)
              /\ round' = [round EXCEPT ![n][r] = Idle]
              /\ conn' = [conn EXCEPT ![n] = cn]
              /\ UNCHANGED <<leader, machine, applied, mishaps>>
         ELSE /\ nextIndex' = [nextIndex EXCEPT ![n] = ni]
              /\ matchIndex' = [matchIndex EXCEPT ![n] = mi]
              /\ IF c > 0 THEN ApplyUpTo(n, log[n], c) ELSE UNCHANGED <<machine, applied>>
              /\ NextPeer(n, r, rd, cn, ni)
              /\ UNCHANGED <<state, currentTerm, votedFor>>
      /\ UNCHANGED <<log, disk, overwritten, votesReceived, voteCalls, snaps, elected,
                     crashes, failures, scope>>

\* Followers never learn of a commit.
CommitAfter_Never(old, req) == old

CommitAfter(old, req) ==
  IF req.commit > old THEN Min({req.commit, req.prev + Len(req.entries)}) ELSE old

\* The consistency check is skipped.
Consistent_Skipped(l, req) == TRUE

Consistent(l, req) == req.prev = 0 \/ TermAt(l, req.prev) = req.prevTerm

\* p serves the AppendEntries of n.  A candidate of the same term stays one.
HandleAppendEntries(n, p) ==
  LET req  == Head(conn[n][p].reqs)
      ok   == req.term >= currentTerm[p] /\ Consistent(log[p], req)
      l    == StoreAll(log[p], req.prev, req.entries)
  IN  /\ state[p] # "Shutdown"
      /\ conn[n][p].reqs # <<>>
      /\ req.type = "append"
      /\ Len(l.entries) <= MaxEntries
      /\ IF req.term > currentTerm[p] THEN StepDown(p, req.term)
                                      ELSE UNCHANGED <<state, currentTerm, votedFor>>
      /\ IF ok THEN /\ Save(p, l)
                    /\ IF req.commit > commitIndex[p]
                       THEN ApplyUpTo(p, l, CommitAfter(commitIndex[p], req))
                       ELSE UNCHANGED <<machine, applied>>
               ELSE UNCHANGED <<log, disk, overwritten, machine, applied>>
      /\ Answer(n, p, [type |-> "append", term |-> Max({currentTerm[p], req.term}), ok |-> ok,
                       conflict |-> IF ok \/ req.term < currentTerm[p] THEN 0
                                    ELSE findConflictIndex(log[p], req.prev)])
      /\ UNCHANGED <<leader, votesReceived, calls, snaps, elected, faults, scope>>

-----------------------------------------------------------------------------
\* maybeSnapshot: TakeSnapshot reads the state machine and the end of the log.
\* It does not hold RaftNode.mu.
CaptureSnapshot(n) ==
  /\ state[n] # "Shutdown"
  /\ snapshotting[n].step = "none"
  /\ Len(log[n].entries) > scope.snapshotAt
  /\ snapshotting' = [snapshotting EXCEPT ![n] =
       [step |-> "captured", index |-> LastIndex(log[n]), data |-> fsm[n], image |-> EmptyLog]]
  /\ UNCHANGED <<state, persistent, machine, leader, votesReceived, calls, conn, snapshot,
                 elected, applied, faults, scope>>

\* snapshot.json is replaced.
WriteSnapshot(n) ==
  /\ snapshotting[n].step = "captured"
  /\ snapshotting' = [snapshotting EXCEPT ![n].step = "written"]
  /\ snapshot' = [snapshot EXCEPT ![n].data = snapshotting[n].data]
  /\ UNCHANGED <<state, persistent, machine, leader, votesReceived, calls, conn, elected,
                 applied, faults, scope>>

\* meta.json is replaced.
LabelSnapshot(n) ==
  /\ snapshotting[n].step = "written"
  /\ snapshotting' = [snapshotting EXCEPT ![n].step = "labelled"]
  /\ snapshot' = [snapshot EXCEPT ![n].index = snapshotting[n].index]
  /\ UNCHANGED <<state, persistent, machine, leader, votesReceived, calls, conn, elected,
                 applied, faults, scope>>

\* The log is compacted as it is by now.
CompactLog(n) ==
  /\ snapshotting[n].step = "labelled"
  /\ snapshotting' = [snapshotting EXCEPT ![n].step = "compacted"]
  /\ log' = [log EXCEPT ![n] = Compact(@, snapshotting[n].index)]
  /\ UNCHANGED <<state, currentTerm, votedFor, disk, overwritten, machine, leader,
                 votesReceived, calls, conn, snapshot, elected, applied, faults, scope>>

\* saveLogBinary encodes the log ...
EncodeLog(n) ==
  /\ snapshotting[n].step = "compacted"
  /\ snapshotting' = [snapshotting EXCEPT ![n].step = "encoded", ![n].image = log[n]]
  /\ UNCHANGED <<state, persistent, machine, leader, votesReceived, calls, conn, snapshot,
                 elected, applied, faults, scope>>

\* ... and replaces log.bin, whatever was saved there since.
ReplaceLog(n) ==
  /\ snapshotting[n].step = "encoded"
  /\ snapshotting' = [snapshotting EXCEPT ![n] = NotTaking]
  /\ disk' = [disk EXCEPT ![n] = snapshotting[n].image]
  /\ overwritten' = IF snapshotting[n].image = log[n] THEN overwritten \ {n}
                    ELSE overwritten \cup {n}
  /\ UNCHANGED <<state, currentTerm, votedFor, log, machine, leader, votesReceived, calls,
                 conn, snapshot, elected, applied, faults, scope>>

-----------------------------------------------------------------------------
\* What a crash of n leaves.  Requests of n that reached its peers are still
\* served, unless the connection lost them (lost); n's own connections close.
\* torn: the crash struck in os.WriteFile of state.json, where the file has no
\* content yet; loadState then leaves term and vote at zero.  A leader writes it when it
\* steps down or starts an election.
Down(n, lost, torn) ==
  /\ log' = [log EXCEPT ![n] = disk[n]]
  /\ overwritten' = overwritten \ {n}
  /\ mishaps' = mishaps \cup (IF torn THEN {"torn"} ELSE {})
                        \cup (IF log[n] # disk[n] THEN {"reverted"} ELSE {})
  /\ torn /\ state[n] = "Leader" => Majority > 1
  /\ state' = [state EXCEPT ![n] = "Shutdown"]
  /\ currentTerm' = [currentTerm EXCEPT ![n] = IF torn THEN 0 ELSE @]
  /\ votedFor' = [votedFor EXCEPT ![n] = IF torn THEN Nil ELSE @]
  /\ commitIndex' = [commitIndex EXCEPT ![n] = 0]
  /\ lastApplied' = [lastApplied EXCEPT ![n] = 0]
  /\ fsm' = [fsm EXCEPT ![n] = <<>>]
  /\ nextIndex' = [nextIndex EXCEPT ![n] = [p \in Node |-> 1]]
  /\ matchIndex' = [matchIndex EXCEPT ![n] = [p \in Node |-> 0]]
  /\ votesReceived' = [votesReceived EXCEPT ![n] = 0]
  /\ voteCalls' = [voteCalls EXCEPT ![n] = [p \in Node |-> {}]]
  /\ round' = [round EXCEPT ![n] = [r \in Rounds |-> Idle]]
  /\ snapshotting' = [snapshotting EXCEPT ![n] = NotTaking]
  /\ conn' = [a \in Node |-> [b \in Node |->
                IF b = n THEN NoConn
                ELSE IF a = n THEN IF b \in lost THEN NoConn ELSE [conn[n][b] EXCEPT !.resps = <<>>]
                ELSE conn[a][b]]]
  /\ UNCHANGED <<disk, snapshot, elected, applied>>

Crash(n) ==
  /\ state[n] # "Shutdown"
  /\ crashes < scope.crashes
  /\ crashes' = crashes + 1
  /\ UNCHANGED <<failures, scope>>
  /\ \E lost \in SUBSET {p \in Peers(n) : conn[n][p].reqs # <<>>}, torn \in {FALSE, scope.torn} :
       Down(n, lost, torn)

\* A call of n to p fails: a refused connection, a timeout, a closed connection.
\* replicateLog unlocks RaftNode.mu once more than it locked it, which ends the
\* process; a RequestVote just returns.
CallFails(n, p) ==
  /\ Calling(n, p)
  /\ failures < scope.failures
  /\ failures' = failures + 1
  /\ UNCHANGED <<crashes, scope>>
  /\ IF \E r \in Rounds : round[n][r].peer = p
     THEN \E lost \in SUBSET {p} : Down(n, lost, FALSE)
     ELSE /\ voteCalls' = [voteCalls EXCEPT ![n][p] = {}]
          /\ conn' = [conn EXCEPT ![n][p] = NoConn]
          /\ UNCHANGED <<state, persistent, machine, leader, votesReceived, round, snaps,
                         elected, applied, mishaps>>

\* Everything in the log counts as committed.
Restart_FromLog(n) ==
  /\ state[n] = "Shutdown"
  /\ \A p \in Peers(n) : conn[n][p].reqs = <<>>
  /\ state' = [state EXCEPT ![n] = "Follower"]
  /\ commitIndex' = [commitIndex EXCEPT ![n] = LastIndex(log[n])]
  /\ lastApplied' = [lastApplied EXCEPT ![n] = LastIndex(log[n])]
  /\ fsm' = [fsm EXCEPT ![n] = SelectSeq(log[n].entries, LAMBDA e : e.type = "Command")]
  /\ nextIndex' = [nextIndex EXCEPT ![n] = [p \in Node |-> LastIndex(log[n]) + 1]]
  /\ conn' = [conn EXCEPT ![n] = [p \in Node |-> NoConn]]
  /\ mishaps' = IF snapshot[n].index > 0 THEN mishaps \cup {"restored"} ELSE mishaps
  /\ UNCHANGED <<persistent, matchIndex, votesReceived, calls, snaps, elected, applied,
                 crashes, failures, scope>>

\* Start.  What n sent before the crash has been served by now.
Restart(n) ==
  /\ state[n] = "Shutdown"
  /\ \A p \in Peers(n) : conn[n][p].reqs = <<>>
  /\ state' = [state EXCEPT ![n] = "Follower"]
  /\ commitIndex' = [commitIndex EXCEPT ![n] = snapshot[n].index]
  /\ lastApplied' = [lastApplied EXCEPT ![n] = snapshot[n].index]
  /\ fsm' = [fsm EXCEPT ![n] = IF snapshot[n].index = 0 THEN <<>> ELSE snapshot[n].data]
  /\ nextIndex' = [nextIndex EXCEPT ![n] = [p \in Node |-> LastIndex(log[n]) + 1]]
  /\ conn' = [conn EXCEPT ![n] = [p \in Node |-> NoConn]]
  /\ mishaps' = IF snapshot[n].index > 0 THEN mishaps \cup {"restored"} ELSE mishaps
  /\ UNCHANGED <<persistent, matchIndex, votesReceived, calls, snaps, elected, applied,
                 crashes, failures, scope>>

Next ==
  \/ \E n \in Node :
       \/ startElection(n) \/ Propose(n)
       \/ CaptureSnapshot(n) \/ WriteSnapshot(n) \/ LabelSnapshot(n)
       \/ CompactLog(n) \/ EncodeLog(n) \/ ReplaceLog(n)
       \/ Crash(n) \/ Restart(n)
       \/ \E r \in Rounds : StartRound(n, r) \/ AppendReply(n, r)
       \/ \E p \in Peers(n) :
            \/ HandleRequestVote(n, p) \/ HandleAppendEntries(n, p)
            \/ CallFails(n, p)
            \/ \E t \in 1..MaxTerm : VoteReply(n, p, t)

Spec == Init /\ [][Next]_vars

\* A leader's heartbeats, the servers and the readers of answers keep running.
Fairness ==
  \A n \in Node :
    /\ \A r \in Rounds : WF_vars(StartRound(n, r) \/ AppendReply(n, r))
    /\ \A p \in Peers(n) :
         /\ WF_vars(HandleRequestVote(n, p) \/ HandleAppendEntries(n, p))
         /\ WF_vars(\E t \in 1..MaxTerm : VoteReply(n, p, t))

LiveSpec == Spec /\ Fairness
-----------------------------------------------------------------------------
\* No log lost its beginning to a snapshot.  Where one has, a leader sends a follower
\* that needs the beginning the rest of its log as if it were the beginning.
Uncompacted == \A n \in Node : log[n].first = 1

\* None of these happened so far.
Without(ms) == mishaps \cap ms = {}

\* What the logs depend on.
Sound == Uncompacted /\ Without({"crossed", "miscounted", "torn", "reverted"})

\* As long as every vote counted was given in the candidate's term and no state.json was
\* torn, a term has at most one leader, over all elections of the term, whatever calls
\* crossed and whoever crashed in between (HandleRequestVote, startElection).
ElectionSafety ==
  Without({"miscounted", "torn"}) => \A a, b \in elected : a[1] = b[1] => a[2] = b[2]

\* Where two logs have an entry of the same term they agree on everything up to it (the
\* consistency check and the truncation of HandleAppendEntries).
LogMatching ==
  Sound =>
    \A n, m \in Node : \A i \in DOMAIN log[n].entries \cap DOMAIN log[m].entries :
      log[n].entries[i].term = log[m].entries[i].term =>
        SubSeq(log[n].entries, 1, i) = SubSeq(log[m].entries, 1, i)

\* No two nodes ever apply different entries for one index, in one life or in different
\* ones (advanceCommitIndex, applyCommitted).
StateMachineSafety == Sound => \A x, y \in applied : x[1] = y[1] => x[2] = y[2]

HasEntry(n, x) == Has(log[n], x[1]) /\ Get(log[n], x[1]) = x[2]

\* The newest leader has everything that was ever applied, as it will force its log on
\* the others (HandleRequestVote compares logs).
LeaderCompleteness ==
  Sound =>
    \A n \in Node :
      state[n] = "Leader" /\ (\A e \in elected : e[1] <= currentTerm[n]) =>
        \A x \in applied : HasEntry(n, x)

\* As long as nothing started from a snapshot, a state machine has seen exactly the
\* committed commands up to lastApplied, each once, also after a restart.
AppliedCommands(c) == {x[2] : x \in {y \in applied : y[1] <= c /\ y[2].type = "Command"}}
StateMachineComplete ==
  Sound /\ Without({"restored"}) =>
    \A n \in Node :
      /\ Len(fsm[n]) = Cardinality(AppliedCommands(lastApplied[n]))
      /\ ToSet(fsm[n]) = AppliedCommands(lastApplied[n])
      /\ \A i \in 1..lastApplied[n] : \E x \in applied : x[1] = i

\* As long as nothing started from a snapshot, the commit index of a node that runs does
\* not move back and what it committed stays in its log as it is (HandleAppendEntries
\* takes the smaller of two indices, and truncates).
CommittedKept ==
  Sound /\ Without({"restored"}) => \A n \in Node : state[n] # "Shutdown" /\ state'[n] # "Shutdown" =>
    /\ commitIndex'[n] >= commitIndex[n]
    /\ \A i \in 1..commitIndex[n] :
         Has(log[n], i) /\ Has(log'[n], i) => Get(log'[n], i) = Get(log[n], i)

CommittedStays == [][CommittedKept]_vars

\* A crash would find in log.bin every entry that is in memory, and the same end, by which
\* candidates are judged, while logs are compacted and saved by two goroutines: unless
\* TakeSnapshot has put an older log there and nothing was saved since (Compact, Save).
LogOnDisk ==
  \A n \in Node \ overwritten :
    /\ LastIndex(disk[n]) = LastIndex(log[n])
    /\ LastTerm(disk[n]) = LastTerm(log[n])
    /\ \A i \in 1..LastIndex(log[n]) :
         Has(log[n], i) => Has(disk[n], i) /\ Get(disk[n], i) = Get(log[n], i)

\* What the leader of the last term has in its log is applied everywhere, by
\* heartbeats alone, unless a node crashes, a call fails or a log is compacted (what
\* a follower needs may then be gone).
Replicates ==
  \A n \in Node :
    state[n] = "Leader" /\ currentTerm[n] = scope.terms
      ~> \/ \A m \in Node : lastApplied[m] >= LastIndex(log[n])
         \/ crashes + failures > 0
         \/ ~Uncompacted

-----------------------------------------------------------------------------
\* Statements of documents and comments that the code does not meet (README, "Known
\* divergences").

\* failover_test.go: "Only one leader exists at a time".  No term ever has two leaders,
\* whatever answer transport.go hands to startElection for its request.
OneLeaderPerTerm == \A a, b \in elected : a[1] = b[1] => a[2] = b[2]

\* log_binary.go: log.bin is written atomically.  A TakeSnapshot puts no older log there
\* than a step has saved.
NothingOverwritten == overwritten = {}

\* Only as many nodes are down as have crashed: that a call to a peer fails does
\* not take the caller down (replicateLog).
OnlyCrashesStop == Cardinality({n \in Node : state[n] = "Shutdown"}) <= crashes

\* An entry is found under its own index (RaftLog.Get, Range).
EntriesInPlace ==
  \A n \in Node : \A k \in DOMAIN log[n].entries :
    log[n].entries[k].index = log[n].first + k - 1

\* A node that takes entries from the leader of its term is no candidate.
CandidateYields ==
  \A n \in Node : state[n] = "Candidate" => LastTerm(log[n]) < currentTerm[n]

\* After a snapshot the log is within its limit again (TakeSnapshot, Compact).
SnapshotTruncates ==
  [][\A n \in Node : snapshotting[n].step = "labelled" /\ snapshotting'[n].step = "compacted" =>
       \A k \in DOMAIN log'[n].entries : log'[n].entries[k].index >= snapshotting[n].index]_vars

\* RaftNode.LeaderID.
LeaderID(n) == IF state[n] = "Leader" THEN n ELSE votedFor[n]

\* The leader a node names was elected.
NamesLeader ==
  \A n \in Node : LeaderID(n) # Nil => <<currentTerm[n], LeaderID(n)>> \in elected

\* What was applied anywhere stays in the logs of a majority: it survives the
\* loss of any minority.
CommittedOnMajority ==
  \A x \in applied : Cardinality({n \in Node : HasEntry(n, x)}) >= Majority
=============================================================================
