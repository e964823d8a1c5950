----------------------------- MODULE RaftProofs -----------------------------
(***************************************************************************)
(* The metadata consensus, for any number of nodes, terms, entries,        *)
(* crashes and failed calls: elections, types and logs.                    *)
(*                                                                         *)
(* A vote is only remembered until the voter's next term, so that no       *)
(* statement about the present votes says who was elected before.  The     *)
(* argument therefore is about ballots, a record of every vote ever given  *)
(* that is consistent with the present state (Tally): whoever is elected   *)
(* has a majority of them.  Which answer a connection hands to which call  *)
(* does not matter to that: a granted vote that waits on a connection is a *)
(* ballot of its sender for the candidate and the term it carries, and a   *)
(* vote is counted in the term it carries unless it is miscounted, which   *)
(* the model records.                                                      *)
(*                                                                         *)
(* What the logs depend on does need that a connection carries one call at *)
(* a time (Wires); this, and that a crash takes nothing back, holds until  *)
(* a mishap (Calm), and everything below is of the form that it holds      *)
(* while the behaviour so far was calm (Ordinary, Accounted).              *)
(*                                                                         *)
(* Logs match each other because each matches a book, a record of the log  *)
(* every leader had when it last added to it (Matching).  The log of a     *)
(* deposed leader may be gone by the time an entry it sent is stored, and  *)
(* a round it began sends what its log has become since: what is under     *)
(* way is only known to match the book (Shipped), not to be the book's     *)
(* entry for the term of the request.                                      *)
(*                                                                         *)
(* For what is applied the book does not suffice: a vote is safe because   *)
(* of what the voter had before, and truncation may have taken that away.  *)
(* The last part therefore keeps, next to ballots and book, a set of       *)
(* copies: who ever had which entry of which term while it was not yet     *)
(* beyond that term.  Two nodes having an entry is what a commit needs     *)
(* (Settled), and what two nodes have, or still can have (Firm), is in the *)
(* log of every later leader (Complete): where there are at most four      *)
(* nodes, one of any two is in every majority, and its ballot went to a    *)
(* candidate that has the entry (Votes).  With five nodes it is not so,    *)
(* and the code does lose what it applied (README, "Known divergences").   *)
(* What is left is that leaders count and send what two nodes have         *)
(* (Sending), that all that was applied is such (Known) and, if nothing    *)
(* started from a snapshot, all that is committed (Covered).               *)
(*                                                                         *)
(* The file of a log is a matter of its own: memory and file are the same, *)
(* or the one is the other compacted, unless a snapshot has put an older   *)
(* log there (AllSaved).                                                   *)
(***************************************************************************)
EXTENDS Raft, TLAPS, FiniteSetTheorems, SequenceTheorems, WellFoundedInduction

\* The larger of two numbers.
LEMMA MaxOfTwo ==
  ASSUME NEW a \in Nat, NEW b \in Nat
  PROVE  Max({a, b}) = IF a >= b THEN a ELSE b
<1>1. \A y \in {a, b} : (IF a >= b THEN a ELSE b) >= y
  OBVIOUS
<1>2. \A x \in {a, b} : (\A y \in {a, b} : x >= y) => x = (IF a >= b THEN a ELSE b)
  OBVIOUS
<1> QED
  BY <1>1, <1>2 DEF Max

\* Queues of one message.
LEMMA OneMessage ==
  ASSUME NEW m
  PROVE  Head(<<m>>) = m /\ Tail(<<m>>) = <<>> /\ Append(<<>>, m) = <<m>> /\ <<m>> # <<>>
OBVIOUS

-----------------------------------------------------------------------------
\* Types, as far as they are needed: nothing is said of logs.
Types ==
  /\ state \in [Node -> {"Follower", "Candidate", "Leader", "Shutdown"}]
  /\ currentTerm \in [Node -> Nat]
  /\ votedFor \in [Node -> Node \cup {Nil}]
  /\ votesReceived \in [Node -> Nat]
  /\ voteCalls \in [Node -> [Node -> SUBSET Nat]]
  /\ DOMAIN round = Node /\ \A n \in Node : DOMAIN round[n] = Rounds
  /\ DOMAIN conn = Node /\ \A n \in Node : DOMAIN conn[n] = Node

IsRequest(n, m) ==
  m.type \in {"vote", "append"} /\ m.term \in Nat /\ (m.type = "vote" => m.from = n)

\* A round of n; what it sends is of no concern.
IsRound(n, rd) ==
  /\ rd = [term |-> rd.term, commit |-> rd.commit, todo |-> rd.todo, peer |-> rd.peer,
           last |-> rd.last]
  /\ rd.term \in Nat /\ rd.todo \subseteq Peers(n) /\ rd.peer \in Peers(n) \cup {Nil}

\* A connection carries at most one message.
Carries(c, n) ==
  /\ c = [reqs |-> c.reqs, resps |-> c.resps]
  /\ c.reqs = <<>> \/ c.resps = <<>>
  /\ c.reqs = <<>> \/ (c.reqs = <<Head(c.reqs)>> /\ IsRequest(n, Head(c.reqs)))
  /\ c.resps = <<>> \/ (c.resps = <<Head(c.resps)>> /\ Head(c.resps).term \in Nat)

\* It carries none unless its owner is waiting for the answer, or is down; it waits
\* with one goroutine, in one call.
Wire(n, p) ==
  /\ Carries(conn[n][p], n)
  /\ conn[n][p] = NoConn \/ Calling(n, p) \/ state[n] = "Shutdown"
  /\ voteCalls[n][p] # {} => \A r \in Rounds : round[n][r].peer # p
  /\ \A r, s \in Rounds : round[n][r].peer = p /\ round[n][s].peer = p => r = s
  /\ \A t, u \in voteCalls[n][p] : t = u
  /\ state[n] = "Shutdown" => ~Calling(n, p)

Wires ==
  /\ Types
  /\ \A n \in Node, r \in Rounds : IsRound(n, round[n][r])
  /\ \A n \in Node, p \in Node : n # p => Wire(n, p)

\* A connection with a request, and one with an answer.
LEMMA CarriesRequest ==
  ASSUME NEW n, NEW c, Carries(c, n), c.reqs # <<>>, NEW m
  PROVE  /\ IsRequest(n, Head(c.reqs)) /\ c # NoConn
         /\ Tail(c.reqs) = <<>> /\ Append(c.resps, m) = <<m>>
<1>1. c.reqs = <<Head(c.reqs)>> /\ IsRequest(n, Head(c.reqs)) /\ c.resps = <<>>
  BY DEF Carries
<1>2. Tail(<<Head(c.reqs)>>) = <<>> /\ Append(<<>>, m) = <<m>>
  BY OneMessage
<1>3. NoConn.reqs = <<>>
  BY DEF NoConn
<1>4. c # NoConn
  BY <1>3
<1> QED
  BY <1>1, <1>2, <1>4

LEMMA CarriesAnswer ==
  ASSUME NEW n, NEW c, Carries(c, n), c.resps # <<>>
  PROVE  /\ Head(c.resps).term \in Nat /\ c # NoConn
         /\ [c EXCEPT !.resps = Tail(@)] = NoConn
<1>1. c.resps = <<Head(c.resps)>> /\ Head(c.resps).term \in Nat /\ c.reqs = <<>>
  BY DEF Carries
<1>2. Tail(<<Head(c.resps)>>) = <<>>
  BY OneMessage
<1>3. [c EXCEPT !.resps = Tail(@)] = [reqs |-> c.reqs, resps |-> Tail(c.resps)]
  BY DEF Carries
<1> QED
  BY <1>1, <1>2, <1>3 DEF NoConn

\* New connections carry one message, or none.
LEMMA CarriesNew ==
  ASSUME NEW n, NEW m
  PROVE  /\ Carries(NoConn, n)
         /\ IsRequest(n, m) => Carries([reqs |-> <<m>>, resps |-> <<>>], n)
         /\ m.term \in Nat => Carries([reqs |-> <<>>, resps |-> <<m>>], n)
BY OneMessage DEF Carries, NoConn

\* Initially nothing is under way.
LEMMA WiresInit == Init => Wires
<1> SUFFICES ASSUME Init PROVE Wires
  OBVIOUS
<1>1. Types
  BY DEF Init, Types
<1>2. ASSUME NEW n \in Node, NEW r \in Rounds
      PROVE  IsRound(n, round[n][r]) /\ round[n][r].peer = Nil
  BY DEF Init, IsRound, Idle
<1>3. ASSUME NEW n \in Node, NEW p \in Node
      PROVE  Wire(n, p)
  <2>1. conn[n][p] = NoConn /\ voteCalls[n][p] = {} /\ state[n] = "Follower" /\ p # Nil
    BY RaftAssumption DEF Init
  <2> QED
    BY <1>2, <2>1, CarriesNew DEF Wire, Calling
<1> QED
  BY <1>1, <1>2, <1>3 DEF Wires

\* What the argument is about.
view == <<state, currentTerm, votedFor, votesReceived, voteCalls, round, conn>>

\* What n does without its peers, with its log and the snapshot.
Snapshots(n) ==
  \/ CaptureSnapshot(n) \/ WriteSnapshot(n) \/ LabelSnapshot(n)
  \/ CompactLog(n) \/ EncodeLog(n) \/ ReplaceLog(n)
Local(n) == Propose(n) \/ Snapshots(n)

LEMMA LocalView ==
  ASSUME NEW n \in Node, Local(n)
  PROVE  /\ UNCHANGED view
         /\ UNCHANGED <<matchIndex, nextIndex, commitIndex, lastApplied, fsm, elected, applied, faults>>
BY DEF Local, Snapshots, Propose, CaptureSnapshot, WriteSnapshot, LabelSnapshot, CompactLog,
       EncodeLog, ReplaceLog, view, persistent, calls, machine, leader

LEMMA WiresStutter == Wires /\ UNCHANGED view => Wires'
BY DEF Wires, Types, Wire, Calling, view

\* Who is down, and which calls of n to p are under way, as before.
SameDown == \A q \in Node : state'[q] = "Shutdown" <=> state[q] = "Shutdown"

LEMMA WireUntouched ==
  ASSUME NEW n \in Node, NEW p \in Node, Wire(n, p),
         conn'[n][p] = conn[n][p], voteCalls'[n][p] = voteCalls[n][p], round'[n] = round[n],
         state'[n] = "Shutdown" <=> state[n] = "Shutdown"
  PROVE  Wire(n, p)'
BY DEF Wire, Calling

\* p takes the request of n and answers.
LEMMA Served ==
  ASSUME Wires, NEW n \in Node, NEW p \in Node, n # p, conn[n][p].reqs # <<>>,
         NEW m, m.term \in Nat, Answer(n, p, m),
         voteCalls' = voteCalls, round' = round, SameDown
  PROVE  /\ IsRequest(n, Head(conn[n][p].reqs))
         /\ conn'[n][p] = [reqs |-> <<>>, resps |-> <<m>>]
         /\ \A a, b \in Node : <<a, b>> # <<n, p>> => conn'[a][b] = conn[a][b]
         /\ DOMAIN conn' = Node /\ \A a \in Node : DOMAIN conn'[a] = Node
         /\ \A a, b \in Node : a # b => Wire(a, b)'
<1>1. Wire(n, p)
  BY DEF Wires
<1>2. Carries(conn[n][p], n)
  BY <1>1 DEF Wire
<1>3. /\ IsRequest(n, Head(conn[n][p].reqs)) /\ conn[n][p] # NoConn
      /\ Tail(conn[n][p].reqs) = <<>> /\ Append(conn[n][p].resps, m) = <<m>>
  BY <1>2, CarriesRequest
<1>4. conn' = [conn EXCEPT ![n][p] = [reqs |-> <<>>, resps |-> <<m>>]]
  BY <1>3 DEF Answer
<1>5. /\ conn'[n][p] = [reqs |-> <<>>, resps |-> <<m>>]
      /\ \A a, b \in Node : <<a, b>> # <<n, p>> => conn'[a][b] = conn[a][b]
      /\ DOMAIN conn' = Node /\ \A a \in Node : DOMAIN conn'[a] = Node
  BY <1>4 DEF Wires, Types
<1>6. Wire(n, p)'
  <2>1. Carries(conn'[n][p], n)
    <3>1. Carries([reqs |-> <<>>, resps |-> <<m>>], n)
      BY CarriesNew
    <3> QED
      BY <1>5, <3>1
  <2>2. Calling(n, p) \/ state[n] = "Shutdown"
    BY <1>1, <1>3 DEF Wire
  <2> QED
    BY <1>1, <2>1, <2>2 DEF Wire, Calling, SameDown
<1>7. ASSUME NEW a \in Node, NEW b \in Node, a # b, <<a, b>> # <<n, p>>
      PROVE  Wire(a, b)'
  BY <1>5, <1>7, WireUntouched DEF Wires, SameDown
<1> QED
  BY <1>3, <1>5, <1>6, <1>7

\* A caller of n reads the answer of p.
LEMMA ReadOne ==
  ASSUME Wires, NEW n \in Node, NEW p \in Node, n # p, conn[n][p].resps # <<>>
  PROVE  Head(conn[n][p].resps).term \in Nat /\ Read(n, p) = NoConn
BY CarriesAnswer DEF Wires, Wire, Read

\* HandleRequestVote.
LEMMA WiresRequestVote ==
  ASSUME Wires, NEW n \in Node, NEW p \in Node, n # p, HandleRequestVote(n, p)
  PROVE  Wires'
<1> DEFINE req == Head(conn[n][p].reqs)
           m == [type |-> "vote", term |-> Max({currentTerm[p], req.term}),
                 ok |-> MayVote(p, req), conflict |-> 0]
<1>1. IsRequest(n, req)
  <2>1. Carries(conn[n][p], n) /\ conn[n][p].reqs # <<>>
    BY DEF HandleRequestVote, Wires, Wire
  <2> QED
    BY <2>1, CarriesRequest
<1>2. Max({currentTerm[p], req.term}) \in Nat
  <2>1. currentTerm[p] \in Nat /\ req.term \in Nat
    BY <1>1 DEF IsRequest, Wires, Types
  <2> HIDE DEF req
  <2> QED
    BY <2>1, MaxOfTwo
<1>3. /\ state \in [Node -> {"Follower", "Candidate", "Leader", "Shutdown"}]
      /\ state' = [state EXCEPT ![p] = IF req.term > currentTerm[p] THEN "Follower" ELSE @]
      /\ state[p] # "Shutdown"
  BY DEF HandleRequestVote, Wires, Types
<1>4. SameDown /\ state' \in [Node -> {"Follower", "Candidate", "Leader", "Shutdown"}]
  BY <1>3 DEF SameDown
<1>5. currentTerm' \in [Node -> Nat] /\ votedFor' \in [Node -> Node \cup {Nil}]
  BY <1>2 DEF HandleRequestVote, Wires, Types
<1>6. UNCHANGED <<votesReceived, voteCalls, round>> /\ Answer(n, p, m) /\ conn[n][p].reqs # <<>>
  BY DEF HandleRequestVote, calls
<1>7. m.term \in Nat
  BY <1>2
<1> HIDE DEF m
<1>8. /\ DOMAIN conn' = Node /\ \A a \in Node : DOMAIN conn'[a] = Node
      /\ \A a, b \in Node : a # b => Wire(a, b)'
  BY <1>4, <1>6, <1>7, Served
<1> QED
  BY <1>4, <1>5, <1>6, <1>8 DEF Wires, Types

\* becomeFollower of a node that runs.
LEMMA SteppedDown ==
  ASSUME Types, NEW n \in Node, state[n] # "Shutdown", NEW t \in Nat, StepDown(n, t)
  PROVE  /\ SameDown
         /\ state' \in [Node -> {"Follower", "Candidate", "Leader", "Shutdown"}]
         /\ currentTerm' \in [Node -> Nat] /\ votedFor' \in [Node -> Node \cup {Nil}]
<1>1. currentTerm[n] \in Nat
  BY DEF Types
<1>2. Max({currentTerm[n], t}) \in Nat
  BY <1>1, MaxOfTwo
<1> QED
  BY <1>2 DEF StepDown, SameDown, Types

\* HandleAppendEntries.
LEMMA WiresAppendEntries ==
  ASSUME Wires, NEW n \in Node, NEW p \in Node, n # p, HandleAppendEntries(n, p)
  PROVE  Wires'
<1>1. Carries(conn[n][p], n) /\ conn[n][p].reqs # <<>> /\ state[p] # "Shutdown" /\ Types
  BY DEF HandleAppendEntries, Wires, Wire
<1>2. Head(conn[n][p].reqs).term \in Nat
  BY <1>1, CarriesRequest DEF IsRequest
<1>3. /\ SameDown
      /\ state' \in [Node -> {"Follower", "Candidate", "Leader", "Shutdown"}]
      /\ currentTerm' \in [Node -> Nat] /\ votedFor' \in [Node -> Node \cup {Nil}]
  <2>1. CASE StepDown(p, Head(conn[n][p].reqs).term)
    BY <1>1, <1>2, <2>1, SteppedDown
  <2>2. CASE UNCHANGED <<state, currentTerm, votedFor>>
    BY <1>1, <2>2 DEF Types, SameDown
  <2> QED
    BY <2>1, <2>2 DEF HandleAppendEntries
<1>4. UNCHANGED <<votesReceived, voteCalls, round>>
  BY DEF HandleAppendEntries, calls
<1>5. PICK m : Answer(n, p, m) /\ m.term = Max({currentTerm[p], Head(conn[n][p].reqs).term})
  <2> DEFINE req == Head(conn[n][p].reqs)
             ok == req.term >= currentTerm[p] /\ Consistent(log[p], req)
             a == [type |-> "append", term |-> Max({currentTerm[p], req.term}), ok |-> ok,
                   conflict |-> IF ok \/ req.term < currentTerm[p] THEN 0
                                ELSE findConflictIndex(log[p], req.prev)]
  <2>1. Answer(n, p, a)
    BY DEF HandleAppendEntries
  <2>2. a.term = Max({currentTerm[p], req.term})
    OBVIOUS
  <2> QED
    BY <2>1, <2>2
<1>6. m.term \in Nat
  <2>1. currentTerm[p] \in Nat
    BY <1>1 DEF Types
  <2> QED
    BY <2>1, <1>2, <1>5, MaxOfTwo
<1>7. /\ DOMAIN conn' = Node /\ \A a \in Node : DOMAIN conn'[a] = Node
      /\ \A a, b \in Node : a # b => Wire(a, b)'
  BY <1>1, <1>3, <1>4, <1>5, <1>6, Served
<1> QED
  BY <1>3, <1>4, <1>7 DEF Wires, Types

\* A RequestVote of n to p ends.
LEMMA VoteCallEnds ==
  ASSUME Wires, NEW n \in Node, NEW p \in Node, n # p, SameDown, round' = round,
         voteCalls' = [voteCalls EXCEPT ![n][p] = {}],
         conn' = [conn EXCEPT ![n][p] = NoConn]
  PROVE  /\ DOMAIN conn' = Node /\ \A a \in Node : DOMAIN conn'[a] = Node
         /\ voteCalls' \in [Node -> [Node -> SUBSET Nat]]
         /\ \A a, b \in Node : a # b => Wire(a, b)'
<1>1. /\ conn'[n][p] = NoConn /\ voteCalls'[n][p] = {}
      /\ \A a, b \in Node : <<a, b>> # <<n, p>> =>
            conn'[a][b] = conn[a][b] /\ voteCalls'[a][b] = voteCalls[a][b]
      /\ DOMAIN conn' = Node /\ \A a \in Node : DOMAIN conn'[a] = Node
      /\ voteCalls' \in [Node -> [Node -> SUBSET Nat]]
  BY DEF Wires, Types
<1>2. Wire(n, p)'
  <2>1. Wire(n, p) /\ Carries(NoConn, n)
    BY CarriesNew DEF Wires
  <2> QED
    BY <1>1, <2>1 DEF Wire, Calling, SameDown
<1>3. ASSUME NEW a \in Node, NEW b \in Node, a # b, <<a, b>> # <<n, p>>
      PROVE  Wire(a, b)'
  BY <1>1, <1>3, WireUntouched DEF Wires, SameDown
<1> QED
  BY <1>1, <1>2, <1>3

\* The goroutine of a RequestVote gets its answer.
LEMMA WiresVoteReply ==
  ASSUME Wires, NEW n \in Node, NEW p \in Node, n # p, NEW t \in Nat, VoteReply(n, p, t)
  PROVE  Wires'
<1> DEFINE resp == Head(conn[n][p].resps)
<1>1. t \in voteCalls[n][p] /\ conn[n][p].resps # <<>> /\ Types /\ Wire(n, p)
  BY DEF VoteReply, Wires
<1>2. state[n] # "Shutdown"
  BY <1>1 DEF Wire, Calling
<1>3. resp.term \in Nat /\ Read(n, p) = NoConn
  BY <1>1, ReadOne
<1>4. voteCalls[n][p] \ {t} = {}
  BY <1>1 DEF Wire
<1>5. /\ conn' = [conn EXCEPT ![n][p] = NoConn]
      /\ voteCalls' = [voteCalls EXCEPT ![n][p] = {}]
      /\ round' = round
      /\ votesReceived' \in [Node -> Nat]
  <2>1. conn' = [conn EXCEPT ![n][p] = Read(n, p)] /\ round' = round
    BY DEF VoteReply
  <2>2. voteCalls' = [voteCalls EXCEPT ![n][p] = voteCalls[n][p] \ {t}]
    BY DEF VoteReply
  <2>3. \E k \in {votesReceived[n], votesReceived[n] + 1} :
          votesReceived' = [votesReceived EXCEPT ![n] = k]
    BY DEF VoteReply
  <2>4. votesReceived' \in [Node -> Nat]
    BY <1>1, <2>3 DEF Types
  <2> QED
    BY <1>3, <1>4, <2>1, <2>2, <2>4
<1>6. /\ SameDown
      /\ state' \in [Node -> {"Follower", "Candidate", "Leader", "Shutdown"}]
      /\ currentTerm' \in [Node -> Nat] /\ votedFor' \in [Node -> Node \cup {Nil}]
  <2>1. CASE StepDown(n, resp.term)
    BY <1>1, <1>2, <1>3, <2>1, SteppedDown
  <2>2. CASE UNCHANGED <<state, currentTerm, votedFor>>
    BY <1>1, <2>2 DEF Types, SameDown
  <2>3. CASE becomeLeader(n, t) /\ UNCHANGED <<currentTerm, votedFor>>
    BY <1>1, <1>2, <2>3 DEF becomeLeader, Types, SameDown
  <2> QED
    BY <2>1, <2>2, <2>3 DEF VoteReply
<1>7. /\ DOMAIN conn' = Node /\ \A a \in Node : DOMAIN conn'[a] = Node
      /\ voteCalls' \in [Node -> [Node -> SUBSET Nat]]
      /\ \A a, b \in Node : a # b => Wire(a, b)'
  BY <1>5, <1>6, VoteCallEnds
<1> QED
  BY <1>5, <1>6, <1>7 DEF Wires, Types

\* What Wires says of calls and connections.
Wired ==
  /\ DOMAIN conn = Node /\ \A n \in Node : DOMAIN conn[n] = Node
  /\ DOMAIN round = Node /\ \A n \in Node : DOMAIN round[n] = Rounds
  /\ \A n \in Node, r \in Rounds : IsRound(n, round[n][r])
  /\ \A n, p \in Node : n # p => Wire(n, p)

\* With the connections row, n may wait in round r, which is rd.
RowOK(n, r, rd, row) ==
  \A q \in Peers(n) :
    /\ Carries(row[q], n)
    /\ row[q] = NoConn \/ voteCalls[n][q] # {} \/ rd.peer = q
         \/ \E s \in Rounds \ {r} : round[n][s].peer = q
    /\ rd.peer = q => voteCalls[n][q] = {} /\ \A s \in Rounds \ {r} : round[n][s].peer # q

\* Round r of n becomes rd, and the connections of n become row.
LEMMA RoundMoves ==
  ASSUME Wires, NEW n \in Node, NEW r \in Rounds, NEW rd, IsRound(n, rd),
         NEW row, DOMAIN row = Node,
         state[n] # "Shutdown", SameDown, voteCalls' = voteCalls,
         round' = [round EXCEPT ![n][r] = rd], conn' = [conn EXCEPT ![n] = row],
         RowOK(n, r, rd, row)
  PROVE  Wired'
<1>1. /\ conn'[n] = row /\ \A a \in Node \ {n} : conn'[a] = conn[a]
      /\ DOMAIN conn' = Node /\ \A a \in Node : DOMAIN conn'[a] = Node
  BY DEF Wires, Types
<1>2. /\ round'[n][r] = rd
      /\ \A s \in Rounds \ {r} : round'[n][s] = round[n][s]
      /\ \A a \in Node \ {n} : round'[a] = round[a]
      /\ DOMAIN round' = Node /\ \A a \in Node : DOMAIN round'[a] = Rounds
  BY DEF Wires, Types
<1>3. \A a \in Node, s \in Rounds : IsRound(a, round'[a][s])
  BY <1>2 DEF Wires
<1>4. ASSUME NEW q \in Node, q # n
      PROVE  Wire(n, q)'
  <2>1. /\ q \in Peers(n) /\ Wire(n, q)
        /\ Carries(row[q], n)
        /\ row[q] = NoConn \/ voteCalls[n][q] # {} \/ rd.peer = q
             \/ \E s \in Rounds \ {r} : round[n][s].peer = q
        /\ rd.peer = q => voteCalls[n][q] = {} /\ \A s \in Rounds \ {r} : round[n][s].peer # q
    BY <1>4 DEF Peers, Wires, RowOK
  <2>2. state'[n] # "Shutdown"
    BY DEF SameDown
  <2>3. conn'[n][q] = NoConn \/ Calling(n, q)'
    BY <1>1, <1>2, <2>1 DEF Calling
  <2>4. voteCalls[n][q] # {} => \A s \in Rounds : round'[n][s].peer # q
    BY <1>2, <2>1 DEF Wire
  <2>5. \A s, u \in Rounds : round'[n][s].peer = q /\ round'[n][u].peer = q => s = u
    BY <1>2, <2>1 DEF Wire
  <2> QED
    BY <1>1, <2>1, <2>2, <2>3, <2>4, <2>5 DEF Wire
<1>5. ASSUME NEW a \in Node, NEW b \in Node, a # b, a # n
      PROVE  Wire(a, b)'
  BY <1>1, <1>2, <1>5, WireUntouched DEF Wires, SameDown
<1> QED
  BY <1>1, <1>2, <1>3, <1>4, <1>5 DEF Wired

\* A round that has ended.
LEMMA IdleRound == ASSUME NEW n \in Node PROVE IsRound(n, Idle) /\ Idle.peer = Nil
BY DEF IsRound, Idle

\* With the connections row, n waits in other calls than round r's only.
FreeOf(n, r, row) ==
  \A q \in Peers(n) :
    /\ Carries(row[q], n)
    /\ row[q] = NoConn \/ voteCalls[n][q] # {} \/ \E s \in Rounds \ {r} : round[n][s].peer = q

\* A call that crosses no other is made to a peer nobody waits for.
LEMMA NotCrossed ==
  ASSUME NEW n \in Node, NEW ps, Called(n, ps), "crossed" \notin mishaps'
  PROVE  \A p \in ps : ~Calling(n, p)
BY DEF Called

\* Round r, so far rd and its call over, goes on to the next peer.
LEMMA NextPeerMoves ==
  ASSUME Wires, "crossed" \notin mishaps', NEW n \in Node, NEW r \in Rounds, NEW rd, IsRound(n, rd),
         NEW cn, DOMAIN cn = Node, NEW ni, NextPeer(n, r, rd, cn, ni),
         state[n] # "Shutdown", SameDown, voteCalls' = voteCalls, FreeOf(n, r, cn)
  PROVE  Wired'
<1>1. CASE round' = [round EXCEPT ![n][r] = Idle] /\ conn' = [conn EXCEPT ![n] = cn]
  <2>1. IsRound(n, Idle) /\ \A q \in Peers(n) : Idle.peer # q
    BY IdleRound, RaftAssumption DEF Peers
  <2>2. RowOK(n, r, Idle, cn)
    BY <2>1 DEF RowOK, FreeOf
  <2> QED
    BY <1>1, <2>1, <2>2, RoundMoves
<1>2. ASSUME NEW p \in rd.todo, ~Calling(n, p),
             NEW new, NEW req, IsRequest(n, req),
             new = [rd EXCEPT !.todo = @ \ {p}, !.peer = p, !.last = new.last],
             round' = [round EXCEPT ![n][r] = new],
             conn' = [conn EXCEPT ![n] = [cn EXCEPT ![p] = Send(@, p, req)]]
      PROVE  Wired'
  <2> DEFINE row == [cn EXCEPT ![p] = Send(@, p, req)]
  <2>1. p \in Peers(n) /\ p \in Node
    BY DEF IsRound, Peers
  <2>2. IsRound(n, new) /\ new.peer = p
    BY <1>2, <2>1 DEF IsRound
  <2>3. voteCalls[n][p] = {} /\ \A s \in Rounds : round[n][s].peer # p
    BY <1>2 DEF Calling
  <2>4. cn[p] = NoConn
    BY <2>1, <2>3 DEF FreeOf
  <2>5. Carries(Send(NoConn, p, req), n)
    <3>1. Send(NoConn, p, req) \in {NoConn, [reqs |-> <<req>>, resps |-> <<>>]}
      BY OneMessage DEF Send, NoConn
    <3>2. Carries(NoConn, n) /\ Carries([reqs |-> <<req>>, resps |-> <<>>], n)
      BY <1>2, CarriesNew
    <3> QED
      BY <3>1, <3>2
  <2>6. row[p] = Send(NoConn, p, req) /\ DOMAIN row = Node
        /\ \A q \in Node \ {p} : row[q] = cn[q]
    BY <2>1, <2>4
  <2>7. conn' = [conn EXCEPT ![n] = row]
    BY <1>2
  <2> HIDE DEF row
  <2>8. RowOK(n, r, new, row)
    BY <2>2, <2>3, <2>5, <2>6 DEF Peers, RowOK, FreeOf
  <2> QED
    BY <1>2, <2>2, <2>6, <2>7, <2>8, RoundMoves
<1>3. ASSUME NEW p \in rd.todo,
             LET req == AppendRequest(n, p, rd, ni[p])
             IN  /\ Called(n, {p})
                 /\ round' = [round EXCEPT ![n][r] =
                                [rd EXCEPT !.todo = @ \ {p}, !.peer = p,
                                           !.last = IF req.entries = <<>> THEN 0
                                                    ELSE Last(req.entries).index]]
                 /\ conn' = [conn EXCEPT ![n] = [cn EXCEPT ![p] = Send(@, p, req)]]
      PROVE  Wired'
  <2> DEFINE req == AppendRequest(n, p, rd, ni[p])
             last == IF req.entries = <<>> THEN 0 ELSE Last(req.entries).index
             new == [rd EXCEPT !.todo = @ \ {p}, !.peer = p, !.last = last]
  <2>1. IsRequest(n, req)
    BY DEF IsRequest, AppendRequest, IsRound
  <2>2. /\ Called(n, {p})
        /\ round' = [round EXCEPT ![n][r] = new]
        /\ conn' = [conn EXCEPT ![n] = [cn EXCEPT ![p] = Send(@, p, req)]]
    BY <1>3
  <2>4. ~Calling(n, p)
    BY <2>2, NotCrossed
  <2> HIDE DEF req, last
  <2>3. new = [rd EXCEPT !.todo = @ \ {p}, !.peer = p, !.last = new.last]
    BY DEF IsRound
  <2> QED
    BY <1>2, <2>1, <2>2, <2>3, <2>4
<1> QED
  BY <1>1, <1>3 DEF NextPeer

\* A round as it begins.
LEMMA BegunRound ==
  ASSUME NEW t, NEW c, NEW ps
  PROVE  [Idle EXCEPT !.term = t, !.commit = c, !.todo = ps] =
         [term |-> t, commit |-> c, todo |-> ps, peer |-> Nil, last |-> 0]
<1>1. [Idle EXCEPT !.term = t] = [term |-> t, commit |-> 0, todo |-> {}, peer |-> Nil, last |-> 0]
  BY DEF Idle
<1>2. [[term |-> t, commit |-> 0, todo |-> {}, peer |-> Nil, last |-> 0] EXCEPT !.commit = c] =
      [term |-> t, commit |-> c, todo |-> {}, peer |-> Nil, last |-> 0]
  OBVIOUS
<1>3. [[term |-> t, commit |-> c, todo |-> {}, peer |-> Nil, last |-> 0] EXCEPT !.todo = ps] =
      [term |-> t, commit |-> c, todo |-> ps, peer |-> Nil, last |-> 0]
  OBVIOUS
<1> QED
  BY <1>1, <1>2, <1>3

\* A goroutine may begin a round, and one that read an answer go on.
LEMMA FreeToBegin ==
  ASSUME Wires, NEW n \in Node, NEW r \in Rounds, state[n] # "Shutdown", round[n][r] = Idle
  PROVE  FreeOf(n, r, conn[n])
<1>1. ASSUME NEW q \in Peers(n)
      PROVE  /\ Carries(conn[n][q], n)
             /\ conn[n][q] = NoConn \/ voteCalls[n][q] # {}
                  \/ \E s \in Rounds \ {r} : round[n][s].peer = q
  <2>1. Wire(n, q) /\ q # Nil
    BY RaftAssumption DEF Wires, Peers
  <2>2. round[n][r].peer # q
    BY <2>1 DEF Idle
  <2> QED
    BY <2>1, <2>2 DEF Wire, Calling
<1> QED
  BY <1>1 DEF FreeOf

LEMMA FreeToGoOn ==
  ASSUME Wires, NEW n \in Node, NEW r \in Rounds, NEW p \in Peers(n), p = round[n][r].peer,
         conn[n][p].resps # <<>>,
         NEW cn, cn[p] = Read(n, p), \A q \in Node \ {p} : cn[q] = conn[n][q]
  PROVE  cn[p] = NoConn /\ FreeOf(n, r, cn)
<1>1. p \in Node /\ p # n
  BY DEF Peers
<1>2. Wire(n, p) /\ Read(n, p) = NoConn
  BY <1>1, ReadOne DEF Wires
<1>3. state[n] # "Shutdown"
  BY <1>2 DEF Wire, Calling
<1>4. ASSUME NEW q \in Peers(n)
      PROVE  /\ Carries(cn[q], n)
             /\ cn[q] = NoConn \/ voteCalls[n][q] # {}
                  \/ \E s \in Rounds \ {r} : round[n][s].peer = q
  <2>1. Wire(n, q) /\ Carries(NoConn, n) /\ q \in Node
    BY CarriesNew DEF Wires, Peers
  <2>2. CASE q = p
    BY <1>2, <2>1, <2>2
  <2>3. CASE q # p
    BY <1>3, <2>1, <2>3 DEF Wire, Calling
  <2> QED
    BY <2>2, <2>3
<1> QED
  BY <1>2, <1>4 DEF FreeOf

\* A leader begins a round.
LEMMA WiresStartRound ==
  ASSUME Wires, "crossed" \notin mishaps', NEW n \in Node, NEW r \in Rounds, StartRound(n, r)
  PROVE  Wires'
<1> DEFINE rd == [Idle EXCEPT !.term = currentTerm[n], !.commit = commitIndex[n],
                              !.todo = Peers(n)]
<1>1. /\ state[n] # "Shutdown" /\ round[n][r] = Idle /\ Types
      /\ NextPeer(n, r, rd, conn[n], nextIndex[n])
      /\ UNCHANGED <<state, currentTerm, votedFor, votesReceived, voteCalls>>
  BY DEF StartRound, persistent, Wires
<1>2. IsRound(n, rd)
  <2>1. rd = [term |-> currentTerm[n], commit |-> commitIndex[n], todo |-> Peers(n),
              peer |-> Nil, last |-> 0]
    BY BegunRound
  <2>2. currentTerm[n] \in Nat
    BY <1>1 DEF Types
  <2> HIDE DEF rd
  <2> QED
    BY <2>1, <2>2 DEF IsRound
<1>3. DOMAIN conn[n] = Node /\ SameDown
  BY <1>1 DEF Types, SameDown
<1>4. FreeOf(n, r, conn[n])
  BY <1>1, FreeToBegin
<1> HIDE DEF rd
<1>5. Wired'
  BY <1>1, <1>2, <1>3, <1>4, NextPeerMoves, Zenon
<1>6. Types
  BY <1>1
<1> QED
  BY <1>1, <1>5, <1>6 DEF Wired, Wires, Types

\* A round gets an answer.
LEMMA WiresAppendReply ==
  ASSUME Wires, "crossed" \notin mishaps', NEW n \in Node, NEW r \in Rounds, AppendReply(n, r)
  PROVE  Wires'
<1> DEFINE rd == round[n][r]
           p == rd.peer
           resp == Head(conn[n][p].resps)
           cn == [conn[n] EXCEPT ![p] = Read(n, p)]
           ni == [nextIndex[n] EXCEPT ![p] = NextAfter(@, rd.last, resp)]
<1>1. p # Nil /\ conn[n][p].resps # <<>> /\ Types /\ IsRound(n, rd)
  BY Zenon DEF AppendReply, Wires
<1>2. p \in Peers(n) /\ p \in Node /\ p # n
  BY <1>1 DEF IsRound, Peers
<1>3. Wire(n, p)
  BY <1>2 DEF Wires
<1>4. state[n] # "Shutdown" /\ voteCalls[n][p] = {}
  BY <1>3 DEF Wire, Calling
<1>5. resp.term \in Nat /\ Read(n, p) = NoConn
  BY <1>1, <1>2, ReadOne
<1>6. DOMAIN cn = Node /\ cn[p] = NoConn /\ \A q \in Node \ {p} : cn[q] = conn[n][q]
  BY <1>1, <1>2, <1>5 DEF Types
<1>7. UNCHANGED <<votesReceived, voteCalls>>
  BY Zenon DEF AppendReply
<1>8. FreeOf(n, r, cn)
  <2>1. cn[p] = Read(n, p) /\ conn[n][p].resps # <<>> /\ p = round[n][r].peer
    BY <1>1, <1>5, <1>6
  <2> HIDE DEF cn, p, rd, ni, resp
  <2> QED
    BY <1>2, <1>6, <2>1, FreeToGoOn
<1>9. CASE /\ StepDown(n, resp.term)
           /\ round' = [round EXCEPT ![n][r] = Idle]
           /\ conn' = [conn EXCEPT ![n] = cn]
  <2>1. /\ SameDown
        /\ state' \in [Node -> {"Follower", "Candidate", "Leader", "Shutdown"}]
        /\ currentTerm' \in [Node -> Nat] /\ votedFor' \in [Node -> Node \cup {Nil}]
    BY <1>1, <1>4, <1>5, <1>9, SteppedDown, Zenon
  <2>2. IsRound(n, Idle) /\ \A q \in Peers(n) : Idle.peer # q
    BY IdleRound, RaftAssumption DEF Peers
  <2>3. round' = [round EXCEPT ![n][r] = Idle] /\ conn' = [conn EXCEPT ![n] = cn]
    BY <1>9
  <2> HIDE DEF cn
  <2>4. RowOK(n, r, Idle, cn)
    BY <1>8, <2>2 DEF RowOK, FreeOf
  <2>5. Wired'
    BY <1>4, <1>6, <1>7, <2>1, <2>2, <2>3, <2>4, RoundMoves
  <2> QED
    BY <1>1, <1>7, <2>1, <2>5 DEF Wired, Wires, Types
<1>10. CASE NextPeer(n, r, rd, cn, ni) /\ UNCHANGED <<state, currentTerm, votedFor>>
  <2>1. SameDown
    BY <1>10 DEF SameDown
  <2> HIDE DEF cn, ni, rd
  <2>2. Wired'
    BY <1>1, <1>4, <1>6, <1>7, <1>8, <1>10, <2>1, NextPeerMoves
  <2> QED
    BY <1>1, <1>7, <1>10, <2>2 DEF Wired, Wires, Types
<1> QED
  BY <1>9, <1>10, Zenon DEF AppendReply

\* The election timer fires.
LEMMA WiresElection ==
  ASSUME Wires, "crossed" \notin mishaps', NEW n \in Node, startElection(n)
  PROVE  Wires'
<1> DEFINE term == currentTerm[n] + 1
           req == [type |-> "vote", term |-> term, from |-> n,
                   lastIndex |-> LastIndex(log[n]), lastTerm |-> LastTerm(log[n])]
<1>1. /\ state[n] # "Shutdown" /\ Types
      /\ \A p \in Peers(n) : voteCalls[n][p] = {} /\ \A r \in Rounds : round[n][r].peer # p
      /\ round' = round
  BY NotCrossed DEF startElection, Calling, Wires
<1>2. /\ currentTerm' \in [Node -> Nat]
      /\ votedFor' \in [Node -> Node \cup {Nil}]
      /\ votesReceived' \in [Node -> Nat]
  BY <1>1 DEF startElection, Types
<1>3. /\ SameDown
      /\ state' \in [Node -> {"Follower", "Candidate", "Leader", "Shutdown"}]
  <2>1. PICK s \in {"Candidate", "Leader"} : state' = [state EXCEPT ![n] = s]
    BY DEF startElection, becomeLeader
  <2> QED
    BY <1>1, <2>1 DEF Types, SameDown
<1>4. CASE UNCHANGED <<voteCalls, conn>>
  <2>1. \A a, b \in Node : a # b => Wire(a, b)'
    BY <1>1, <1>3, <1>4, WireUntouched DEF Wires, SameDown
  <2> QED
    BY <1>1, <1>2, <1>3, <1>4, <2>1 DEF Wires, Types
<1>5. CASE /\ voteCalls' = [voteCalls EXCEPT ![n] =
                              [p \in Node |-> IF p = n THEN {} ELSE @[p] \cup {term}]]
           /\ conn' = [conn EXCEPT ![n] =
                         [p \in Node |-> IF p = n THEN NoConn ELSE Send(@[p], p, req)]]
  <2>1. IsRequest(n, req)
    BY <1>1 DEF IsRequest, Types
  <2>2. term \in Nat
    BY <1>1 DEF Types
  <2> HIDE DEF req, term
  <2>3. /\ voteCalls' \in [Node -> [Node -> SUBSET Nat]]
        /\ \A p \in Node \ {n} : voteCalls'[n][p] = {term}
        /\ \A a \in Node \ {n} : voteCalls'[a] = voteCalls[a]
    BY <1>1, <1>5, <2>2 DEF Types, Peers
  <2>4. /\ DOMAIN conn' = Node /\ \A a \in Node : DOMAIN conn'[a] = Node
        /\ \A p \in Node \ {n} : conn'[n][p] = Send(conn[n][p], p, req)
        /\ \A a \in Node \ {n} : conn'[a] = conn[a]
    BY <1>1, <1>5 DEF Types
  <2>5. ASSUME NEW p \in Node, p # n
        PROVE  Wire(n, p)'
    <3>1. conn[n][p] = NoConn
      BY <1>1, <2>5 DEF Wires, Wire, Calling, Peers
    <3>2. Send(NoConn, p, req) \in {NoConn, [reqs |-> <<req>>, resps |-> <<>>]}
      BY OneMessage DEF Send, NoConn
    <3>3. Carries(NoConn, n) /\ Carries([reqs |-> <<req>>, resps |-> <<>>], n)
      BY <2>1, CarriesNew
    <3>4. Carries(conn'[n][p], n) /\ voteCalls'[n][p] = {term}
      BY <2>3, <2>4, <2>5, <3>1, <3>2, <3>3
    <3>5. p \in Peers(n) /\ state'[n] # "Shutdown"
      BY <1>1, <1>3, <2>5 DEF Peers, SameDown
    <3> QED
      BY <1>1, <3>4, <3>5 DEF Wire, Calling
  <2>6. ASSUME NEW a \in Node, NEW b \in Node, a # b, a # n
        PROVE  Wire(a, b)'
    BY <1>1, <1>3, <2>3, <2>4, <2>6, WireUntouched DEF Wires, SameDown
  <2> QED
    BY <1>1, <1>2, <1>3, <2>3, <2>4, <2>5, <2>6 DEF Wires, Types
<1> QED
  BY <1>4, <1>5 DEF startElection

\* n goes down.
LEMMA WiresDown ==
  ASSUME Wires, NEW n \in Node, NEW lost, NEW torn, Down(n, lost, torn)
  PROVE  Wires'
<1>1. /\ state' = [state EXCEPT ![n] = "Shutdown"]
      /\ votesReceived' = [votesReceived EXCEPT ![n] = 0]
      /\ voteCalls' = [voteCalls EXCEPT ![n] = [p \in Node |-> {}]]
      /\ round' = [round EXCEPT ![n] = [r \in Rounds |-> Idle]]
      /\ conn' = [a \in Node |-> [b \in Node |->
                    IF b = n THEN NoConn
                    ELSE IF a = n THEN IF b \in lost THEN NoConn
                                       ELSE [conn[n][b] EXCEPT !.resps = <<>>]
                    ELSE conn[a][b]]]
      /\ Types
  BY DEF Down, Wires
<1>2. /\ \E t \in {0, currentTerm[n]} : currentTerm' = [currentTerm EXCEPT ![n] = t]
      /\ \E v \in {Nil, votedFor[n]} : votedFor' = [votedFor EXCEPT ![n] = v]
  BY DEF Down
<1>3. Types'
  <2>1. /\ currentTerm' \in [Node -> Nat]
        /\ votedFor' \in [Node -> Node \cup {Nil}]
    BY <1>1, <1>2 DEF Types
  <2>2. voteCalls' \in [Node -> [Node -> SUBSET Nat]]
    BY <1>1 DEF Types
  <2>3. /\ DOMAIN round' = Node /\ \A a \in Node : DOMAIN round'[a] = Rounds
        /\ DOMAIN conn' = Node /\ \A a \in Node : DOMAIN conn'[a] = Node
    BY <1>1 DEF Types
  <2> QED
    BY <1>1, <2>1, <2>2, <2>3 DEF Types
<1>4. /\ \A r \in Rounds : round'[n][r] = Idle
      /\ \A a \in Node \ {n} : round'[a] = round[a]
  BY <1>1 DEF Types
<1>5. \A a \in Node, r \in Rounds : IsRound(a, round'[a][r])
  BY <1>4, IdleRound DEF Wires
<1>6. ASSUME NEW b \in Node, b # n
      PROVE  Wire(n, b)'
  <2>1. voteCalls'[n][b] = {} /\ state'[n] = "Shutdown"
    BY <1>1 DEF Types
  <2>2. \A r \in Rounds : round'[n][r].peer # b
    BY <1>4, IdleRound, RaftAssumption
  <2>3. conn'[n][b] \in {NoConn, [conn[n][b] EXCEPT !.resps = <<>>]}
    BY <1>1, <1>6
  <2>4. Carries(conn[n][b], n) /\ Carries(NoConn, n)
    BY <1>6, CarriesNew DEF Wires, Wire
  <2>5. Carries([conn[n][b] EXCEPT !.resps = <<>>], n)
    BY <2>4 DEF Carries
  <2> QED
    BY <2>1, <2>2, <2>3, <2>4, <2>5 DEF Wire, Calling
<1>7. ASSUME NEW a \in Node, NEW b \in Node, a # b, a # n
      PROVE  Wire(a, b)'
  <2>1. /\ voteCalls'[a] = voteCalls[a] /\ state'[a] = state[a] /\ round'[a] = round[a]
        /\ conn'[a][b] = IF b = n THEN NoConn ELSE conn[a][b]
    BY <1>1, <1>4, <1>7 DEF Types
  <2>2. Wire(a, b) /\ Carries(NoConn, a)
    BY <1>7, CarriesNew DEF Wires
  <2> QED
    BY <2>1, <2>2 DEF Wire, Calling
<1> QED
  BY <1>3, <1>5, <1>6, <1>7 DEF Wires

\* n comes up again.
LEMMA WiresRestart ==
  ASSUME Wires, NEW n \in Node, Restart(n)
  PROVE  Wires'
<1>1. /\ state[n] = "Shutdown"
      /\ state' = [state EXCEPT ![n] = "Follower"]
      /\ conn' = [conn EXCEPT ![n] = [p \in Node |-> NoConn]]
      /\ UNCHANGED <<currentTerm, votedFor, votesReceived, voteCalls, round>>
      /\ Types
  BY DEF Restart, persistent, calls, Wires
<1>2. Types'
  BY <1>1 DEF Types
<1>3. ASSUME NEW b \in Node, b # n
      PROVE  Wire(n, b)'
  <2>1. Wire(n, b) /\ conn'[n][b] = NoConn /\ state'[n] = "Follower" /\ Carries(NoConn, n)
    BY <1>1, <1>3, CarriesNew DEF Wires, Types
  <2> QED
    BY <1>1, <2>1 DEF Wire, Calling
<1>4. ASSUME NEW a \in Node, NEW b \in Node, a # b, a # n
      PROVE  Wire(a, b)'
  <2>1. state'[a] = state[a] /\ conn'[a][b] = conn[a][b]
    BY <1>1, <1>4 DEF Types
  <2> QED
    BY <1>1, <1>4, <2>1, WireUntouched DEF Wires
<1> QED
  BY <1>1, <1>2, <1>3, <1>4 DEF Wires

\* A call fails.
LEMMA WiresCallFails ==
  ASSUME Wires, NEW n \in Node, NEW p \in Node, n # p, CallFails(n, p)
  PROVE  Wires'
<1>1. CASE \E lost \in SUBSET {p} : Down(n, lost, FALSE)
  BY <1>1, WiresDown
<1>2. CASE /\ voteCalls' = [voteCalls EXCEPT ![n][p] = {}]
           /\ conn' = [conn EXCEPT ![n][p] = NoConn]
           /\ UNCHANGED <<state, persistent, votesReceived, round>>
  <2>1. SameDown
    BY <1>2 DEF SameDown
  <2>2. /\ DOMAIN conn' = Node /\ \A a \in Node : DOMAIN conn'[a] = Node
        /\ voteCalls' \in [Node -> [Node -> SUBSET Nat]]
        /\ \A a, b \in Node : a # b => Wire(a, b)'
    BY <1>2, <2>1, VoteCallEnds
  <2> QED
    BY <1>2, <2>2 DEF persistent, Wires, Types
<1> QED
  BY <1>1, <1>2 DEF CallFails

\* No step puts a second message on a connection, or a second caller behind one.
LEMMA WiresKept ==
  ASSUME Wires, "crossed" \notin mishaps', [Next]_vars
  PROVE  Wires'
<1>1. CASE UNCHANGED vars
  BY <1>1, WiresStutter DEF vars, view, persistent, calls
<1>2. ASSUME NEW n \in Node, Local(n)
      PROVE  Wires'
  BY <1>2, LocalView, WiresStutter
<1>3. ASSUME NEW n \in Node, Crash(n)
      PROVE  Wires'
  BY <1>3, WiresDown DEF Crash
<1>4. ASSUME NEW n \in Node, NEW p \in Peers(n),
             \/ HandleRequestVote(n, p) \/ HandleAppendEntries(n, p) \/ CallFails(n, p)
             \/ \E t \in 1..MaxTerm : VoteReply(n, p, t)
      PROVE  Wires'
  <2>1. p \in Node /\ n # p /\ 1..MaxTerm \subseteq Nat
    BY DEF Peers
  <2> QED
    BY <1>4, <2>1, WiresRequestVote, WiresAppendEntries, WiresCallFails, WiresVoteReply
<1> QED
  BY <1>1, <1>2, <1>3, <1>4, WiresElection, WiresRestart, WiresStartRound, WiresAppendReply
     DEF Next, Local, Snapshots

-----------------------------------------------------------------------------
\* Numbers.

\* A set of natural numbers that is not empty has a least one.
LEMMA LeastNat ==
  ASSUME NEW T \in SUBSET Nat, T # {}
  PROVE  \E n \in T : \A m \in T : n <= m
<1> DEFINE R == OpToRel(<, Nat)
<1>1. IsWellFoundedOn(R, Nat)
  BY NatLessThanWellFounded
<1>2. \A x, y \in Nat : y < x => <<y, x>> \in R
  BY DEF OpToRel
<1> HIDE DEF R
<1>3. PICK x \in T : \A y \in T : ~(<<y, x>> \in R)
  BY <1>1, WFMin
<1>4. \A y \in T : ~(y < x)
  BY <1>2, <1>3
<1> QED
  BY <1>3, <1>4

\* A set that has 0, and n + 1 whenever it has n, has all numbers up to a bound.
LEMMA UpTo ==
  ASSUME NEW b \in Nat, NEW G, 0 \in G, \A n \in 0..(b - 1) : n \in G => n + 1 \in G
  PROVE  \A n \in 0..b : n \in G
<1> DEFINE T == {n \in 0..b : n \notin G}
<1> SUFFICES ASSUME T # {} PROVE FALSE
  OBVIOUS
<1>1. PICK n \in T : \A m \in T : n <= m
  <2>1. T \in SUBSET Nat
    OBVIOUS
  <2> HIDE DEF T
  <2> QED
    BY <2>1, LeastNat
<1>2. n \in 0..b /\ n \notin G /\ n # 0
  BY <1>1
<1>3. n - 1 \in 0..(b - 1) /\ n - 1 \notin T
  BY <1>1, <1>2
<1>4. n - 1 \in G
  BY <1>2, <1>3
<1>5. (n - 1) + 1 = n
  BY <1>2
<1> QED
  BY <1>2, <1>3, <1>4, <1>5

\* The largest element of a bounded set.
LEMMA MaxBounded ==
  ASSUME NEW b \in Nat, NEW S \in SUBSET (0..b), S # {}
  PROVE  Max(S) \in S /\ \A y \in S : Max(S) >= y
<1> DEFINE T == {b - x : x \in S}
<1>1. T \in SUBSET Nat /\ T # {}
  <2>1. \A x \in S : x \in 0..b
    OBVIOUS
  <2>2. \A x \in S : b - x \in Nat
    BY <2>1
  <2> QED
    BY <2>2
<1>2. PICK m \in T : \A k \in T : m <= k
  <2> HIDE DEF T
  <2> QED
    BY <1>1, LeastNat
<1>3. PICK x \in S : m = b - x
  BY <1>2
<1>4. \A y \in S : x >= y
  <2> TAKE y \in S
  <2>1. b - y \in T
    OBVIOUS
  <2>2. b - x <= b - y
    BY <1>2, <1>3, <2>1
  <2>3. x \in 0..b /\ y \in 0..b
    BY <1>3
  <2> QED
    BY <2>2, <2>3
<1>5. \A z \in S : (\A y \in S : z >= y) => z = x
  BY <1>3, <1>4
<1> QED
  BY <1>3, <1>4 DEF Max

\* The smaller of two numbers.
LEMMA MinOfTwo ==
  ASSUME NEW a \in Int, NEW b \in Int
  PROVE  Min({a, b}) = IF a <= b THEN a ELSE b
<1>1. \A y \in {a, b} : (IF a <= b THEN a ELSE b) <= y
  OBVIOUS
<1>2. \A x \in {a, b} : (\A y \in {a, b} : x <= y) => x = (IF a <= b THEN a ELSE b)
  OBVIOUS
<1> QED
  BY <1>1, <1>2 DEF Min

-----------------------------------------------------------------------------
\* x is taken through b steps, of which the k-th is F[k].
Steps(f, b, x, F) == f[0] = x /\ \A k \in 1..b : f[k] = F[k][f[k - 1]]

LEMMA Iterates ==
  ASSUME NEW X, NEW b \in Nat, NEW x \in X, NEW F \in [1..b -> [X -> X]]
  PROVE  \E f \in [0..b -> X] : Steps(f, b, x, F)
<1> DEFINE G == {c \in 0..b : \E f \in [0..c -> X] : Steps(f, c, x, F)}
<1>1. 0 \in G
  <2>1. Steps([k \in 0..0 |-> x], 0, x, F)
    BY DEF Steps
  <2> QED
    BY <2>1
<1>2. ASSUME NEW c \in 0..(b - 1), c \in G PROVE c + 1 \in G
  <2>1. PICK f \in [0..c -> X] : Steps(f, c, x, F)
    BY <1>2
  <2> DEFINE g == [k \in 0..(c + 1) |-> IF k = c + 1 THEN F[k][f[c]] ELSE f[k]]
  <2>2. c \in Nat /\ c + 1 \in 1..b /\ c + 1 \in 0..b
    OBVIOUS
  <2>3. F[c + 1][f[c]] \in X
    BY <2>1, <2>2
  <2>4. g \in [0..(c + 1) -> X]
    BY <2>2, <2>3
  <2>5. g[c + 1] = F[c + 1][f[c]] /\ \A k \in 0..c : g[k] = f[k]
    BY <2>2
  <2> HIDE DEF g
  <2>6. Steps(g, c + 1, x, F)
    <3>1. g[0] = x
      BY <2>1, <2>2, <2>5 DEF Steps
    <3>2. ASSUME NEW k \in 1..(c + 1) PROVE g[k] = F[k][g[k - 1]]
      <4>1. CASE k = c + 1
        <5>1. k - 1 = c /\ c \in 0..c
          BY <2>2, <4>1
        <5> QED
          BY <2>5, <4>1, <5>1
      <4>2. CASE k # c + 1
        <5>1. k \in 1..c /\ k \in 0..c /\ k - 1 \in 0..c
          BY <2>2, <4>2
        <5> QED
          BY <2>1, <2>5, <5>1 DEF Steps
      <4> QED
        BY <4>1, <4>2
    <3> QED
      BY <3>1, <3>2 DEF Steps
  <2> QED
    BY <2>2, <2>4, <2>6
<1>3. b \in G
  <2> HIDE DEF G
  <2>1. \A c \in 0..b : c \in G
    BY <1>1, <1>2, UpTo
  <2> QED
    BY <2>1
<1> QED
  BY <1>3

-----------------------------------------------------------------------------
\* RaftLog.

\* The entries of a log.
LEMMA EntriesOf ==
  ASSUME NEW l \in Log
  PROVE  /\ l.first \in Nat \ {0} /\ l.entries \in Seq(Entry) /\ Len(l.entries) \in Nat
         /\ \A k \in 1..Len(l.entries) : l.entries[k] \in Entry
         /\ l.entries # <<>> => Len(l.entries) \in Nat \ {0} /\ Last(l.entries) = l.entries[Len(l.entries)]
<1>1. l.first \in Nat \ {0} /\ l.entries \in Seq(Entry)
  BY DEF Log
<1>2. Len(l.entries) \in Nat /\ \A k \in 1..Len(l.entries) : l.entries[k] \in Entry
  BY <1>1, LenProperties, ElementOfSeq
<1>3. l.entries # <<>> => Len(l.entries) \in Nat \ {0}
  BY <1>1, EmptySeq
<1> QED
  BY <1>1, <1>2, <1>3 DEF Last

LEMMA EndOf ==
  ASSUME NEW l \in Log
  PROVE  LastIndex(l) \in Nat /\ LastTerm(l) \in Nat /\ LastIndex(l) + 1 \in Nat \ {0}
<1>1. CASE l.entries = <<>>
  BY <1>1, EntriesOf DEF LastIndex, LastTerm
<1>2. CASE l.entries # <<>>
  <2>1. Last(l.entries) \in Entry
    BY <1>2, EntriesOf
  <2> QED
    BY <1>2, <2>1 DEF LastIndex, LastTerm, Entry
<1> QED
  BY <1>1, <1>2

\* What is found at an index.
LEMMA GetType ==
  ASSUME NEW l \in Log, NEW i \in Int
  PROVE  /\ Has(l, i) => i \in Nat \ {0} /\ Get(l, i) \in Entry
         /\ TermAt(l, i) \in Nat
<1>1. ASSUME Has(l, i) PROVE i \in Nat \ {0} /\ Get(l, i) \in Entry
  <2>1. i \in Nat \ {0} /\ i - l.first + 1 \in 1..Len(l.entries)
    BY <1>1, EntriesOf DEF Has
  <2> QED
    BY <2>1, EntriesOf DEF Get
<1> QED
  BY <1>1 DEF TermAt, Entry

LEMMA FromType ==
  ASSUME NEW l \in Log, NEW i \in Nat
  PROVE  From(l, i) \in Seq(Entry)
<1> DEFINE a == Max({i, l.first}) - l.first + 1
           b == Min({LastIndex(l) + 1 - l.first, Len(l.entries)})
<1>1. l.first \in Nat /\ Len(l.entries) \in Nat /\ LastIndex(l) \in Nat
  BY EntriesOf, EndOf
<1>2. a \in Nat \ {0}
  BY <1>1, MaxOfTwo
<1>3. b \in Int /\ b <= Len(l.entries)
  <2> DEFINE x == LastIndex(l) + 1 - l.first
             y == Len(l.entries)
  <2>1. x \in Int /\ y \in Int
    BY <1>1
  <2> HIDE DEF x, y
  <2>2. Min({x, y}) \in Int /\ Min({x, y}) <= y
    BY <2>1, MinOfTwo
  <2> QED
    BY <2>2 DEF x, y
<1>4. From(l, i) = SubSeq(l.entries, a, b)
  BY DEF From
<1> HIDE DEF a, b
<1>5. ASSUME NEW k \in a..b PROVE l.entries[k] \in Entry
  <2>1. k \in 1..Len(l.entries)
    BY <1>1, <1>2, <1>3
  <2> QED
    BY <2>1, EntriesOf
<1>6. a \in Int
  BY <1>2
<1>7. SubSeq(l.entries, a, b) \in Seq(Entry)
  BY <1>3, <1>5, <1>6, SubSeqProperties
<1> QED
  BY <1>4, <1>7

\* The first k entries.
LEMMA PrefixType ==
  ASSUME NEW l \in Log, NEW k \in Int, k <= Len(l.entries)
  PROVE  [l EXCEPT !.entries = SubSeq(@, 1, k)] \in Log
<1>1. \A j \in 1..k : l.entries[j] \in Entry
  BY EntriesOf
<1>2. SubSeq(l.entries, 1, k) \in Seq(Entry)
  BY <1>1, SubSeqProperties
<1> QED
  BY <1>2 DEF Log

LEMMA Append1Type ==
  ASSUME NEW l \in Log, NEW e \in Entry
  PROVE  Append1(l, e) \in Log
<1>1. Append(l.entries, e) \in Seq(Entry)
  BY EntriesOf, AppendProperties
<1> QED
  BY <1>1 DEF Append1, Log

LEMMA StoreType ==
  ASSUME NEW l \in Log, NEW i \in Nat, NEW e \in Entry
  PROVE  Store(l, i, e) \in Log
<1>1. TruncateAfter(l, i - 1) \in Log
  <2> DEFINE k == (i - 1) - l.first + 1
  <2>1. k \in Int /\ Len(l.entries) \in Nat
    BY EntriesOf
  <2>2. TruncateAfter(l, i - 1) = IF k > Len(l.entries) THEN l
                                  ELSE [l EXCEPT !.entries = SubSeq(@, 1, k)]
    BY DEF TruncateAfter
  <2> HIDE DEF k
  <2>3. k > Len(l.entries) \/ k <= Len(l.entries)
    BY <2>1
  <2> QED
    BY <2>1, <2>2, <2>3, PrefixType
<1> QED
  BY <1>1, Append1Type DEF Store

\* StoreAll takes l through the entries one by one.
Storing(l, prev, es) == [k \in 1..Len(es) |-> [x \in Log |-> Store(x, prev + k, es[k])]]

LEMMA StoreAllSteps ==
  ASSUME NEW l \in Log, NEW prev \in Nat, NEW es \in Seq(Entry)
  PROVE  \E f \in [0..Len(es) -> Log] :
           /\ StoreAll(l, prev, es) = f[Len(es)]
           /\ f[0] = l
           /\ \A k \in 1..Len(es) : f[k] = Store(f[k - 1], prev + k, es[k])
<1> DEFINE F == Storing(l, prev, es)
           b == Len(es)
           Rec(f) == f = [k \in 0..b |-> IF k = 0 THEN l ELSE Store(f[k - 1], prev + k, es[k])]
<1>1. b \in Nat /\ \A k \in 1..b : es[k] \in Entry
  BY LenProperties, ElementOfSeq
<1>2. F \in [1..b -> [Log -> Log]]
  <2>1. \A k \in 1..b, x \in Log : Store(x, prev + k, es[k]) \in Log
    BY <1>1, StoreType
  <2>2. \A k \in 1..b : [x \in Log |-> Store(x, prev + k, es[k])] \in [Log -> Log]
    BY <2>1
  <2> QED
    BY <2>2 DEF Storing
<1>3. \A k \in 1..b : \A x \in Log : F[k][x] = Store(x, prev + k, es[k])
  BY DEF Storing
<1> HIDE DEF F, b
<1>4. PICK f \in [0..b -> Log] : Steps(f, b, l, F)
  BY <1>1, <1>2, Iterates
<1>5. ASSUME NEW k \in 0..b
      PROVE  f[k] = IF k = 0 THEN l ELSE Store(f[k - 1], prev + k, es[k])
  <2>1. k = 0 \/ (k \in 1..b /\ k - 1 \in 0..b)
    BY <1>1
  <2>2. CASE k = 0
    BY <1>4, <2>2 DEF Steps
  <2>3. CASE k \in 1..b /\ k - 1 \in 0..b
    <3>1. f[k - 1] \in Log /\ f[k] = F[k][f[k - 1]]
      BY <1>4, <2>3 DEF Steps
    <3> QED
      BY <1>3, <2>3, <3>1
  <2> QED
    BY <2>1, <2>2, <2>3
<1>6. Rec(f)
  <2> DEFINE g == [k \in 0..b |-> IF k = 0 THEN l ELSE Store(f[k - 1], prev + k, es[k])]
  <2>1. \A k \in 0..b : f[k] = g[k]
    BY <1>5
  <2>2. g = [k \in 0..b |-> g[k]] /\ DOMAIN f = 0..b
    BY <1>4
  <2> HIDE DEF g
  <2>3. f = [k \in 0..b |-> f[k]]
    BY <1>4
  <2>4. f = g
    BY <2>1, <2>2, <2>3
  <2> QED
    BY <2>4 DEF g
<1> DEFINE h == CHOOSE g : Rec(g)
<1>7. Rec(h)
  BY <1>6
<1>8. StoreAll(l, prev, es) = h[b]
  BY DEF StoreAll, b
<1> HIDE DEF h
<1>9. DOMAIN h = 0..b /\ \A k \in 0..b : h[k] = IF k = 0 THEN l ELSE Store(h[k - 1], prev + k, es[k])
  BY <1>7
<1> DEFINE G == {k \in 0..b : h[k] \in Log}
<1>10. \A k \in 0..b : k \in G
  <2>1. 0 \in G
    BY <1>1, <1>9
  <2>2. ASSUME NEW k \in 0..(b - 1), k \in G PROVE k + 1 \in G
    <3>1. k + 1 \in 1..b /\ k + 1 \in 0..b /\ (k + 1) - 1 = k /\ h[k] \in Log /\ prev + (k + 1) \in Nat
      BY <1>1, <2>2
    <3>2. h[k + 1] = Store(h[k], prev + (k + 1), es[k + 1])
      BY <1>9, <3>1
    <3> QED
      BY <1>1, <3>1, <3>2, StoreType
  <2> HIDE DEF G
  <2> QED
    BY <1>1, <2>1, <2>2, UpTo
<1>11. h \in [0..b -> Log]
  <2>1. h = [k \in 0..b |-> h[k]]
    <3> DEFINE g == [k \in 0..b |-> IF k = 0 THEN l ELSE Store(h[k - 1], prev + k, es[k])]
    <3>1. h = g /\ g = [k \in 0..b |-> g[k]]
      BY <1>7
    <3> HIDE DEF g
    <3> QED
      BY <3>1
  <2> QED
    BY <1>10, <2>1
<1>12. h[0] = l /\ \A k \in 1..b : h[k] = Store(h[k - 1], prev + k, es[k])
  BY <1>1, <1>9
<1> QED
  BY <1>8, <1>11, <1>12 DEF b

LEMMA StoreAllType ==
  ASSUME NEW l \in Log, NEW prev \in Nat, NEW es \in Seq(Entry)
  PROVE  StoreAll(l, prev, es) \in Log
<1>1. PICK f \in [0..Len(es) -> Log] : StoreAll(l, prev, es) = f[Len(es)]
  BY StoreAllSteps
<1>2. Len(es) \in 0..Len(es)
  BY LenProperties
<1> QED
  BY <1>1, <1>2

\* Compact leaves the end of the log.
LEMMA CompactEnd ==
  ASSUME NEW l \in Log, NEW through \in Nat
  PROVE  /\ Compact(l, through) \in Log
         /\ LastIndex(Compact(l, through)) = LastIndex(l)
         /\ LastTerm(Compact(l, through)) = LastTerm(l)
         /\ Compact(l, through) = l \/ Compact(l, through).first > l.first
<1> DEFINE cut == through - l.first + 1
           rest == SubSeq(l.entries, cut + 1, Len(l.entries))
<1>1. CASE through < l.first \/ cut >= Len(l.entries)
  BY <1>1 DEF Compact
<1>2. CASE ~(through < l.first \/ cut >= Len(l.entries))
  <2>1. l.first \in Nat \ {0} /\ Len(l.entries) \in Nat
    BY EntriesOf
  <2>2. cut \in Nat \ {0} /\ cut < Len(l.entries)
    BY <1>2, <2>1
  <2>3. Compact(l, through) = [first |-> through + 1, entries |-> rest]
    BY <1>2 DEF Compact
  <2>4. \A k \in (cut + 1)..Len(l.entries) : l.entries[k] \in Entry
    BY <2>1, <2>2, EntriesOf
  <2> DEFINE a == cut + 1
             b == Len(l.entries)
  <2>5. a \in Int /\ b \in Int /\ a <= b
    BY <2>1, <2>2
  <2>6. \A k \in a..b : l.entries[k] \in Entry
    BY <2>4
  <2>7. rest = SubSeq(l.entries, a, b)
    OBVIOUS
  <2> HIDE DEF a, b, rest
  <2>8. /\ rest \in Seq(Entry) /\ Len(rest) = b - a + 1
        /\ \A i \in 1..(b - a + 1) : rest[i] = l.entries[a + i - 1]
    BY <2>5, <2>6, <2>7, SubSeqProperties
  <2>9. Len(rest) \in Nat \ {0} /\ rest[Len(rest)] = l.entries[b]
    <3>1. b - a + 1 \in 1..(b - a + 1) /\ a + (b - a + 1) - 1 = b
      BY <2>5
    <3> QED
      BY <2>8, <3>1
  <2>10. rest # <<>> /\ l.entries # <<>>
    BY <2>1, <2>2, <2>9, EmptySeq
  <2>11. Last(rest) = Last(l.entries)
    BY <2>9 DEF Last, b
  <2>12. Compact(l, through).first = through + 1 /\ Compact(l, through).entries = rest
    BY <2>3
  <2>13. through + 1 \in Nat \ {0} /\ through + 1 > l.first
    BY <1>2, <2>1
  <2>14. Compact(l, through) \in Log
    BY <2>3, <2>8, <2>13 DEF Log
  <2> QED
    BY <2>10, <2>11, <2>12, <2>13, <2>14 DEF LastIndex, LastTerm
<1> QED
  BY <1>1, <1>2

LEMMA ConflictType ==
  ASSUME NEW l, NEW i \in Nat
  PROVE  findConflictIndex(l, i) \in Nat
<1> DEFINE S == {1} \cup {k \in 1..i : Has(l, k) /\ (~Has(l, k - 1) \/ TermAt(l, k - 1) # TermAt(l, k))}
           b == i + 1
<1>1. S \in SUBSET (0..b) /\ S # {} /\ b \in Nat /\ \A x \in S : x \in Nat
  OBVIOUS
<1>2. findConflictIndex(l, i) = Max(S)
  BY DEF findConflictIndex
<1> HIDE DEF S, b
<1>3. Max(S) \in S
  BY <1>1, MaxBounded
<1> QED
  BY <1>1, <1>2, <1>3

LEMMA CommittableType ==
  ASSUME TypeOK, NEW n \in Node, NEW mi
  PROVE  Committable(n, mi) \in Nat
<1> DEFINE S == {0} \cup {i \in commitIndex[n] + 1..LastIndex(log[n]) :
                            /\ TermAt(log[n], i) = currentTerm[n]
                            /\ Replicated(n, mi, i) > Cardinality(Node) \div 2}
           b == LastIndex(log[n])
<1>1. b \in Nat /\ commitIndex[n] \in Nat
  BY EndOf DEF TypeOK
<1>2. S \in SUBSET (0..b) /\ S # {} /\ \A x \in S : x \in Nat
  BY <1>1
<1>3. Committable(n, mi) = Max(S)
  BY DEF Committable
<1> HIDE DEF S, b
<1>4. Max(S) \in S
  BY <1>1, <1>2, MaxBounded
<1> QED
  BY <1>1, <1>2, <1>3, <1>4

LEMMA ApplySteps ==
  ASSUME NEW f \in Seq(Entry), NEW l \in Log, NEW a \in Nat, NEW c \in Nat
  PROVE  \E h : /\ Apply(f, l, a, c) = h[c]
                /\ \A i \in 0..c :
                     /\ h[i] \in Seq(Entry)
                     /\ h[i] = IF i <= a THEN f
                               ELSE IF i \in Present(l, a, c) /\ Get(l, i).type = "Command"
                                    THEN Append(h[i - 1], Get(l, i))
                                    ELSE h[i - 1]
<1> DEFINE one(i, x) == IF i <= a THEN f
                        ELSE IF i \in Present(l, a, c) /\ Get(l, i).type = "Command"
                             THEN Append(x, Get(l, i))
                             ELSE x
           F == [i \in 1..c |-> [x \in Seq(Entry) |-> one(i, x)]]
           h == CHOOSE g : g = [i \in 0..c |-> one(i, g[i - 1])]
<1>1. \A i \in 1..c, x \in Seq(Entry) : one(i, x) \in Seq(Entry)
  <2> TAKE i \in 1..c, x \in Seq(Entry)
  <2>1. i \in Present(l, a, c) => Get(l, i) \in Entry
    BY GetType DEF Present
  <2>2. i \in Present(l, a, c) => Append(x, Get(l, i)) \in Seq(Entry)
    BY <2>1, AppendProperties
  <2> QED
    BY <2>2
<1>2. F \in [1..c -> [Seq(Entry) -> Seq(Entry)]]
  <2>1. \A i \in 1..c : [x \in Seq(Entry) |-> one(i, x)] \in [Seq(Entry) -> Seq(Entry)]
    BY <1>1
  <2> HIDE DEF one
  <2> QED
    BY <2>1
<1>3. \A i \in 1..c : \A x \in Seq(Entry) : F[i][x] = one(i, x)
  OBVIOUS
<1>4. one(0, f) = f
  OBVIOUS
<1>5. Apply(f, l, a, c) = h[c]
  BY DEF Apply
<1> HIDE DEF F, one
<1>6. PICK g \in [0..c -> Seq(Entry)] : Steps(g, c, f, F)
  BY <1>2, Iterates
<1>7. ASSUME NEW i \in 0..c
      PROVE  g[i] = one(i, g[i - 1])
  <2>1. i = 0 \/ (i \in 1..c /\ i - 1 \in 0..c)
    OBVIOUS
  <2>2. CASE i = 0
    BY <1>4, <1>6, <2>2 DEF Steps, one
  <2>3. CASE i \in 1..c /\ i - 1 \in 0..c
    <3>1. g[i - 1] \in Seq(Entry) /\ g[i] = F[i][g[i - 1]]
      BY <1>6, <2>3 DEF Steps
    <3> QED
      BY <1>3, <2>3, <3>1
  <2> QED
    BY <2>1, <2>2, <2>3
<1>8. g = [i \in 0..c |-> one(i, g[i - 1])]
  <2> DEFINE k == [i \in 0..c |-> one(i, g[i - 1])]
  <2>1. \A i \in 0..c : g[i] = k[i]
    BY <1>7
  <2>2. k = [i \in 0..c |-> k[i]] /\ g = [i \in 0..c |-> g[i]]
    BY <1>6
  <2> HIDE DEF k
  <2>3. g = k
    BY <2>1, <2>2
  <2> QED
    BY <2>3 DEF k
<1>9. h = [i \in 0..c |-> one(i, h[i - 1])]
  BY <1>8
<1> HIDE DEF h
<1>10. \A i \in 0..c : h[i] = one(i, h[i - 1])
  BY <1>9
<1> DEFINE G == {i \in 0..c : h[i] \in Seq(Entry)}
<1>11. \A i \in 0..c : i \in G
  <2>1. 0 \in G
    BY <1>10 DEF one
  <2>2. ASSUME NEW i \in 0..(c - 1), i \in G PROVE i + 1 \in G
    <3>1. i + 1 \in 1..c /\ i + 1 \in 0..c /\ (i + 1) - 1 = i /\ h[i] \in Seq(Entry)
      BY <2>2
    <3> QED
      BY <1>1, <1>10, <3>1
  <2> HIDE DEF G
  <2> QED
    BY <2>1, <2>2, UpTo
<1>12. \A i \in 0..c : h[i] \in Seq(Entry)
  BY <1>11
<1> QED
  BY <1>5, <1>10, <1>12 DEF one

LEMMA ApplyType ==
  ASSUME NEW f \in Seq(Entry), NEW l \in Log, NEW a \in Nat, NEW c \in Nat
  PROVE  Apply(f, l, a, c) \in Seq(Entry)
<1>1. c \in 0..c
  OBVIOUS
<1> QED
  BY <1>1, ApplySteps

\* applyCommitted.
LEMMA ApplyUpToType ==
  ASSUME TypeOK, NEW n \in Node, NEW l \in Log, NEW c \in Nat, ApplyUpTo(n, l, c)
  PROVE  /\ commitIndex' \in [Node -> Nat] /\ lastApplied' \in [Node -> Nat]
         /\ fsm' \in [Node -> Seq(Entry)] /\ applied' \subseteq Nat \X Entry
<1>1. /\ commitIndex \in [Node -> Nat] /\ lastApplied \in [Node -> Nat]
      /\ fsm \in [Node -> Seq(Entry)] /\ applied \subseteq Nat \X Entry
      /\ lastApplied[n] \in Nat /\ fsm[n] \in Seq(Entry)
  BY DEF TypeOK
<1>2. Apply(fsm[n], l, lastApplied[n], c) \in Seq(Entry)
  BY <1>1, ApplyType
<1>3. Max({lastApplied[n], c}) \in Nat
  BY <1>1, MaxOfTwo
<1>4. ASSUME NEW i \in Present(l, lastApplied[n], c) PROVE <<i, Get(l, i)>> \in Nat \X Entry
  <2>1. i \in Int /\ i \in Nat /\ Has(l, i)
    BY <1>1 DEF Present
  <2> QED
    BY <2>1, GetType
<1>5. fsm' = [fsm EXCEPT ![n] = Apply(fsm[n], l, lastApplied[n], c)]
  BY DEF ApplyUpTo
<1>6. lastApplied' = [lastApplied EXCEPT ![n] = Max({lastApplied[n], c})]
  BY DEF ApplyUpTo
<1>7. applied' = applied \cup {<<i, Get(l, i)>> : i \in Present(l, lastApplied[n], c)}
      /\ commitIndex' = [commitIndex EXCEPT ![n] = c]
  BY DEF ApplyUpTo
<1>8. applied' \subseteq Nat \X Entry
  BY <1>1, <1>4, <1>7
<1>9. commitIndex' \in [Node -> Nat] /\ lastApplied' \in [Node -> Nat]
  BY <1>1, <1>3, <1>6, <1>7
<1>10. fsm' \in [Node -> Seq(Entry)]
  BY <1>1, <1>2, <1>5
<1> QED
  BY <1>8, <1>9, <1>10

-----------------------------------------------------------------------------
\* Messages.

LEMMA MaxTermOfTwo ==
  ASSUME NEW a \in 0..MaxTerm, NEW b \in 0..MaxTerm
  PROVE  Max({a, b}) \in 0..MaxTerm
<1>1. a \in Nat /\ b \in Nat
  BY RaftAssumption
<1> QED
  BY <1>1, MaxOfTwo

LEMMA RequestType ==
  ASSUME NEW m \in Request
  PROVE  /\ m.term \in 0..MaxTerm /\ m.from \in Node
         /\ m.type = "append" => m.prev \in Nat /\ m.entries \in Seq(Entry) /\ m.commit \in Nat
<1>1. CASE m \in [type: {"vote"}, term: 0..MaxTerm, from: Node, lastIndex: Nat, lastTerm: Nat]
  BY <1>1
<1>2. CASE m \in [type: {"append"}, term: 0..MaxTerm, from: Node, prev: Nat, prevTerm: Nat,
                  entries: Seq(Entry), commit: Nat]
  BY <1>2
<1> QED
  BY <1>1, <1>2 DEF Request

LEMMA ConnectionType ==
  ASSUME NEW c \in Connection
  PROVE  /\ c.reqs \in Seq(Request) /\ c.resps \in Seq(Response)
         /\ c.reqs # <<>> => Head(c.reqs) \in Request /\ Tail(c.reqs) \in Seq(Request)
         /\ c.resps # <<>> => Head(c.resps) \in Response /\ Tail(c.resps) \in Seq(Response)
<1>1. c.reqs \in Seq(Request) /\ c.resps \in Seq(Response)
  BY DEF Connection
<1> QED
  BY <1>1, HeadTailProperties

LEMMA NoConnType == NoConn \in Connection
<1>1. <<>> \in Seq(Request) /\ <<>> \in Seq(Response)
  BY EmptySeq
<1> QED
  BY <1>1 DEF NoConn, Connection

LEMMA SendType ==
  ASSUME NEW c \in Connection, NEW p, NEW m \in Request
  PROVE  Send(c, p, m) \in Connection
<1>1. Append(c.reqs, m) \in Seq(Request)
  BY ConnectionType, AppendProperties
<1> QED
  BY <1>1 DEF Send, Connection

LEMMA ReadType ==
  ASSUME TypeOK, NEW n \in Node, NEW p \in Node, conn[n][p].resps # <<>>
  PROVE  Read(n, p) \in Connection /\ Head(conn[n][p].resps) \in Response
<1>1. conn[n][p] \in Connection
  BY DEF TypeOK
<1>2. Tail(conn[n][p].resps) \in Seq(Response) /\ Head(conn[n][p].resps) \in Response
  BY <1>1, ConnectionType
<1> QED
  BY <1>1, <1>2 DEF Read, Connection

LEMMA AnswerType ==
  ASSUME TypeOK, NEW n \in Node, NEW p \in Node, conn[n][p].reqs # <<>>,
         NEW m \in Response, Answer(n, p, m)
  PROVE  conn' \in [Node -> [Node -> Connection]] /\ Head(conn[n][p].reqs) \in Request
<1>1. conn[n][p] \in Connection
  BY DEF TypeOK
<1>2. /\ Tail(conn[n][p].reqs) \in Seq(Request) /\ Head(conn[n][p].reqs) \in Request
      /\ Append(conn[n][p].resps, m) \in Seq(Response)
  BY <1>1, ConnectionType, AppendProperties
<1>3. [reqs |-> Tail(conn[n][p].reqs), resps |-> Append(conn[n][p].resps, m)] \in Connection
  BY <1>2 DEF Connection
<1> QED
  BY <1>2, <1>3 DEF Answer, TypeOK

LEMMA StepDownType ==
  ASSUME TypeOK, NEW n \in Node, NEW t \in 0..MaxTerm, StepDown(n, t)
  PROVE  /\ state' \in [Node -> {"Follower", "Candidate", "Leader", "Shutdown"}]
         /\ currentTerm' \in [Node -> 0..MaxTerm]
         /\ votedFor' \in [Node -> Node \cup {Nil}]
<1>1. Max({currentTerm[n], t}) \in 0..MaxTerm
  BY MaxTermOfTwo DEF TypeOK
<1>2. currentTerm' = [currentTerm EXCEPT ![n] = Max({currentTerm[n], t})]
  BY DEF StepDown
<1> QED
  BY <1>1, <1>2 DEF StepDown, TypeOK

LEMMA SaveType ==
  ASSUME TypeOK, NEW n \in Node, NEW l \in Log, Save(n, l)
  PROVE  log' \in [Node -> Log] /\ disk' \in [Node -> Log] /\ overwritten' \subseteq Node
BY DEF Save, TypeOK

LEMMA CalledType ==
  ASSUME TypeOK, NEW n, NEW ps, Called(n, ps)
  PROVE  mishaps' \subseteq Mishaps
BY DEF Called, TypeOK, Mishaps

LEMMA BecomeLeaderType ==
  ASSUME TypeOK, NEW n \in Node, NEW t \in 1..MaxTerm, becomeLeader(n, t)
  PROVE  /\ state' \in [Node -> {"Follower", "Candidate", "Leader", "Shutdown"}]
         /\ log' \in [Node -> Log] /\ disk' \in [Node -> Log] /\ overwritten' \subseteq Node
         /\ nextIndex' \in [Node -> [Node -> Nat \ {0}]] /\ matchIndex' \in [Node -> [Node -> Nat]]
         /\ elected' \subseteq (1..MaxTerm) \X Node
<1> DEFINE e == [index |-> LastIndex(log[n]) + 1, term |-> t, type |-> "NoOp"]
<1>1. log[n] \in Log
  BY DEF TypeOK
<1>2. LastIndex(log[n]) + 1 \in Nat \ {0}
  BY <1>1, EndOf
<1>3. e \in Entry
  BY <1>2 DEF Entry
<1>4. Save(n, Append1(log[n], e))
  BY DEF becomeLeader
<1> HIDE DEF e
<1>5. log' \in [Node -> Log] /\ disk' \in [Node -> Log] /\ overwritten' \subseteq Node
  BY <1>1, <1>3, <1>4, Append1Type, SaveType
<1>6. nextIndex' \in [Node -> [Node -> Nat \ {0}]] /\ matchIndex' \in [Node -> [Node -> Nat]]
  BY <1>2 DEF becomeLeader, TypeOK
<1> QED
  BY <1>5, <1>6 DEF becomeLeader, TypeOK

-----------------------------------------------------------------------------
LEMMA TypeInit == Init => TypeOK
<1> SUFFICES ASSUME Init PROVE TypeOK
  OBVIOUS
<1>1. <<>> \in Seq(Entry)
  BY EmptySeq
<1>2. /\ log \in [Node -> Log] /\ disk \in [Node -> Log] /\ snapshotting \in [Node -> Taking]
      /\ snapshot \in [Node -> Snapshot] /\ fsm \in [Node -> Seq(Entry)]
  BY <1>1 DEF Init, Log, Taking, Snapshot, NotTaking, NoSnapshot, EmptyLog
<1>3. round \in [Node -> [Rounds -> Round]]
  BY RaftAssumption DEF Init, Round, Idle
<1>4. conn \in [Node -> [Node -> Connection]]
  BY NoConnType DEF Init
<1>5. 0 \in 0..scope.crashes /\ 0 \in 0..scope.failures
  BY RaftAssumption DEF Init, Scope
<1> QED
  BY <1>2, <1>3, <1>4, <1>5, RaftAssumption DEF Init, TypeOK

LEMMA TypeElection ==
  ASSUME TypeOK, NEW n \in Node, startElection(n)
  PROVE  TypeOK'
<1> DEFINE term == currentTerm[n] + 1
           req == [type |-> "vote", term |-> term, from |-> n,
                   lastIndex |-> LastIndex(log[n]), lastTerm |-> LastTerm(log[n])]
<1>1. term \in 1..MaxTerm
  <2>1. scope.terms \in 0..MaxTerm /\ term <= scope.terms /\ currentTerm[n] \in 0..MaxTerm
    BY RaftAssumption DEF startElection, TypeOK, Scope
  <2> QED
    BY <2>1, RaftAssumption
<1>2. LastIndex(log[n]) \in Nat /\ LastTerm(log[n]) \in Nat
  BY EndOf DEF TypeOK
<1>3. term \in 0..MaxTerm
  BY <1>1
<1>4. /\ currentTerm' = [currentTerm EXCEPT ![n] = term]
      /\ votedFor' = [votedFor EXCEPT ![n] = n]
      /\ votesReceived' = [votesReceived EXCEPT ![n] = 1]
      /\ \/ becomeLeader(n, term) /\ UNCHANGED <<voteCalls, conn>>
         \/ /\ state' = [state EXCEPT ![n] = "Candidate"]
            /\ voteCalls' = [voteCalls EXCEPT ![n] =
                               [p \in Node |-> IF p = n THEN {} ELSE voteCalls[n][p] \cup {term}]]
            /\ conn' = [conn EXCEPT ![n] =
                          [p \in Node |-> IF p = n THEN NoConn ELSE Send(conn[n][p], p, req)]]
            /\ UNCHANGED <<log, disk, overwritten, nextIndex, matchIndex, elected>>
      /\ UNCHANGED <<commitIndex, lastApplied, fsm, round, snapshotting, snapshot, applied,
                     crashes, failures, scope>>
      /\ Called(n, Peers(n))
  BY DEF startElection, machine, leader, snaps
<1>5. req \in Request
  BY <1>2, <1>3 DEF Request
<1> HIDE DEF term, req
<1>6. /\ currentTerm' \in [Node -> 0..MaxTerm] /\ votedFor' \in [Node -> Node \cup {Nil}]
      /\ votesReceived' \in [Node -> Nat]
  BY <1>3, <1>4 DEF TypeOK
<1>9. mishaps' \subseteq Mishaps
  BY <1>4, CalledType
<1>7. CASE becomeLeader(n, term) /\ UNCHANGED <<voteCalls, conn>>
  BY <1>1, <1>4, <1>6, <1>7, <1>9, BecomeLeaderType DEF TypeOK
<1>8. CASE /\ state' = [state EXCEPT ![n] = "Candidate"]
           /\ voteCalls' = [voteCalls EXCEPT ![n] =
                              [p \in Node |-> IF p = n THEN {} ELSE voteCalls[n][p] \cup {term}]]
           /\ conn' = [conn EXCEPT ![n] =
                         [p \in Node |-> IF p = n THEN NoConn ELSE Send(conn[n][p], p, req)]]
           /\ UNCHANGED <<log, disk, overwritten, nextIndex, matchIndex, elected>>
  <2>1. voteCalls' \in [Node -> [Node -> SUBSET (1..MaxTerm)]]
    BY <1>1, <1>8 DEF TypeOK
  <2>2. ASSUME NEW p \in Node PROVE Send(conn[n][p], p, req) \in Connection
    <3>1. conn[n][p] \in Connection
      BY DEF TypeOK
    <3> QED
      BY <1>5, <3>1, SendType
  <2>3. conn' \in [Node -> [Node -> Connection]]
    BY <1>8, <2>2, NoConnType DEF TypeOK
  <2> QED
    BY <1>4, <1>6, <1>8, <1>9, <2>1, <2>3 DEF TypeOK
<1> QED
  BY <1>4, <1>7, <1>8

LEMMA TypeRequestVote ==
  ASSUME TypeOK, NEW n \in Node, NEW p \in Node, HandleRequestVote(n, p)
  PROVE  TypeOK'
<1> DEFINE req == Head(conn[n][p].reqs)
           t == Max({currentTerm[p], req.term})
           m == [type |-> "vote", term |-> t, ok |-> MayVote(p, req), conflict |-> 0]
<1>1. /\ conn[n][p].reqs # <<>> /\ conn[n][p] \in Connection
      /\ Answer(n, p, m)
      /\ state' = [state EXCEPT ![p] = IF req.term > currentTerm[p] THEN "Follower" ELSE state[p]]
      /\ currentTerm' = [currentTerm EXCEPT ![p] = t]
      /\ votedFor' = [votedFor EXCEPT ![p] = IF MayVote(p, req) THEN n
                                             ELSE IF req.term > currentTerm[p] THEN Nil
                                             ELSE votedFor[p]]
      /\ UNCHANGED <<log, disk, overwritten, commitIndex, lastApplied, fsm, nextIndex,
                     matchIndex, votesReceived, voteCalls, round, snapshotting, snapshot,
                     elected, applied, mishaps, crashes, failures, scope>>
  BY DEF HandleRequestVote, TypeOK, machine, leader, calls, snaps, faults
<1>2. req.term \in 0..MaxTerm
  BY <1>1, ConnectionType, RequestType
<1>3. t \in 0..MaxTerm
  <2> HIDE DEF req
  <2> QED
    BY <1>2, MaxTermOfTwo DEF TypeOK
<1>4. MayVote(p, req) \in BOOLEAN
  BY DEF MayVote
<1> HIDE DEF req, t
<1>5. m \in Response
  BY <1>3, <1>4 DEF Response
<1> HIDE DEF m
<1>6. conn' \in [Node -> [Node -> Connection]]
  BY <1>1, <1>5, AnswerType
<1>7. /\ state' \in [Node -> {"Follower", "Candidate", "Leader", "Shutdown"}]
      /\ currentTerm' \in [Node -> 0..MaxTerm] /\ votedFor' \in [Node -> Node \cup {Nil}]
  BY <1>1, <1>3 DEF TypeOK
<1> QED
  BY <1>1, <1>6, <1>7 DEF TypeOK

LEMMA TypeVoteReply ==
  ASSUME TypeOK, NEW n \in Node, NEW p \in Node, NEW t \in 1..MaxTerm, VoteReply(n, p, t)
  PROVE  TypeOK'
<1> DEFINE resp == Head(conn[n][p].resps)
<1>1. /\ conn[n][p].resps # <<>>
      /\ conn' = [conn EXCEPT ![n][p] = Read(n, p)]
      /\ voteCalls' = [voteCalls EXCEPT ![n][p] = voteCalls[n][p] \ {t}]
      /\ \E k \in {votesReceived[n], votesReceived[n] + 1} :
            votesReceived' = [votesReceived EXCEPT ![n] = k]
      /\ \/ StepDown(n, resp.term) /\ UNCHANGED <<log, disk, overwritten, nextIndex, matchIndex, elected>>
         \/ becomeLeader(n, t) /\ UNCHANGED <<currentTerm, votedFor>>
         \/ UNCHANGED <<state, log, disk, overwritten, nextIndex, matchIndex, elected,
                        currentTerm, votedFor>>
      /\ UNCHANGED <<commitIndex, lastApplied, fsm, round, snapshotting, snapshot, applied,
                     crashes, failures, scope>>
      /\ mishaps' \in {mishaps, mishaps \cup {"miscounted"}}
  BY DEF VoteReply, machine, leader, snaps
<1>2. Read(n, p) \in Connection /\ resp \in Response
  BY <1>1, ReadType
<1>3. resp.term \in 0..MaxTerm
  BY <1>2 DEF Response
<1> HIDE DEF resp
<1>4. /\ conn' \in [Node -> [Node -> Connection]]
      /\ voteCalls' \in [Node -> [Node -> SUBSET (1..MaxTerm)]]
      /\ votesReceived' \in [Node -> Nat] /\ mishaps' \subseteq Mishaps
  <2>1. conn' \in [Node -> [Node -> Connection]]
    BY <1>1, <1>2 DEF TypeOK
  <2>4. mishaps' \subseteq Mishaps
    BY <1>1 DEF TypeOK, Mishaps
  <2>2. voteCalls' \in [Node -> [Node -> SUBSET (1..MaxTerm)]]
    <3>1. voteCalls[n][p] \ {t} \in SUBSET (1..MaxTerm)
      BY DEF TypeOK
    <3> QED
      BY <1>1, <3>1 DEF TypeOK
  <2>3. votesReceived' \in [Node -> Nat]
    <3>1. votesReceived[n] \in Nat /\ votesReceived \in [Node -> Nat]
      BY DEF TypeOK
    <3>2. PICK k \in {votesReceived[n], votesReceived[n] + 1} :
             votesReceived' = [votesReceived EXCEPT ![n] = k]
      BY <1>1
    <3>3. k \in Nat
      BY <3>1
    <3> QED
      BY <3>1, <3>2, <3>3
  <2> QED
    BY <2>1, <2>2, <2>3, <2>4
<1>5. CASE StepDown(n, resp.term) /\ UNCHANGED <<log, disk, overwritten, nextIndex, matchIndex, elected>>
  BY <1>1, <1>3, <1>4, <1>5, StepDownType DEF TypeOK
<1>6. CASE becomeLeader(n, t) /\ UNCHANGED <<currentTerm, votedFor>>
  BY <1>1, <1>4, <1>6, BecomeLeaderType DEF TypeOK
<1>7. CASE UNCHANGED <<state, log, disk, overwritten, nextIndex, matchIndex, elected,
                      currentTerm, votedFor>>
  BY <1>1, <1>4, <1>7 DEF TypeOK
<1> QED
  BY <1>1, <1>5, <1>6, <1>7

LEMMA TypePropose ==
  ASSUME TypeOK, NEW n \in Node, Propose(n)
  PROVE  TypeOK'
<1> DEFINE e == [index |-> LastIndex(log[n]) + 1, term |-> currentTerm[n], type |-> "Command"]
<1>1. log[n] \in Log /\ currentTerm[n] \in Nat
  BY RaftAssumption DEF TypeOK
<1>2. e \in Entry
  BY <1>1, EndOf DEF Entry
<1>3. Save(n, Append1(log[n], e))
  BY DEF Propose
<1> HIDE DEF e
<1>4. log' \in [Node -> Log] /\ disk' \in [Node -> Log] /\ overwritten' \subseteq Node
  BY <1>1, <1>2, <1>3, Append1Type, SaveType
<1> QED
  BY <1>4 DEF Propose, TypeOK, machine, leader, calls, snaps, faults

LEMMA AppendRequestType ==
  ASSUME TypeOK, NEW n \in Node, NEW p, NEW rd \in Round, NEW ni \in Nat \ {0}
  PROVE  /\ AppendRequest(n, p, rd, ni) \in Request
         /\ AppendRequest(n, p, rd, ni).entries # <<>> =>
              Last(AppendRequest(n, p, rd, ni).entries).index \in Nat
<1>1. log[n] \in Log /\ rd.term \in 0..MaxTerm /\ rd.commit \in Nat /\ ni - 1 \in Nat
  BY DEF TypeOK, Round
<1>2. TermAt(log[n], ni - 1) \in Nat /\ From(log[n], ni) \in Seq(Entry)
  <2>1. ni - 1 \in Int /\ ni \in Nat
    OBVIOUS
  <2>2. \A i \in Int : TermAt(log[n], i) \in Nat
    BY <1>1, GetType
  <2>3. TermAt(log[n], ni - 1) \in Nat
    BY <2>1, <2>2
  <2> QED
    BY <1>1, <2>1, <2>3, FromType
<1>3. AppendRequest(n, p, rd, ni) \in Request
  BY <1>1, <1>2 DEF AppendRequest, Request
<1>4. From(log[n], ni) # <<>> => Last(From(log[n], ni)) \in Entry
  <2>1. From(log[n], ni) # <<>> => Len(From(log[n], ni)) \in 1..Len(From(log[n], ni))
    BY <1>2, EmptySeq
  <2> QED
    BY <1>2, <2>1, ElementOfSeq DEF Last
<1>5. AppendRequest(n, p, rd, ni).entries = From(log[n], ni)
  BY DEF AppendRequest
<1> QED
  BY <1>3, <1>4, <1>5 DEF Entry

LEMMA NextPeerType ==
  ASSUME TypeOK, NEW n \in Node, NEW r \in Rounds, NEW rd \in Round,
         NEW cn \in [Node -> Connection], NEW ni \in [Node -> Nat \ {0}],
         NextPeer(n, r, rd, cn, ni)
  PROVE  /\ round' \in [Node -> [Rounds -> Round]] /\ conn' \in [Node -> [Node -> Connection]]
         /\ mishaps' \subseteq Mishaps
<1>1. ASSUME round' = [round EXCEPT ![n][r] = Idle], conn' = [conn EXCEPT ![n] = cn]
      PROVE  round' \in [Node -> [Rounds -> Round]] /\ conn' \in [Node -> [Node -> Connection]]
  <2>1. Idle \in Round
    BY RaftAssumption DEF Idle, Round
  <2> QED
    BY <1>1, <2>1 DEF TypeOK
<1>2. ASSUME NEW p \in rd.todo, NEW req \in Request, NEW last \in Nat,
             round' = [round EXCEPT ![n][r] = [rd EXCEPT !.todo = rd.todo \ {p}, !.peer = p, !.last = last]],
             conn' = [conn EXCEPT ![n] = [cn EXCEPT ![p] = Send(cn[p], p, req)]]
      PROVE  round' \in [Node -> [Rounds -> Round]] /\ conn' \in [Node -> [Node -> Connection]]
  <2>1. rd.todo \in SUBSET Node /\ p \in Node
    BY DEF Round
  <2>2. [rd EXCEPT !.todo = rd.todo \ {p}, !.peer = p, !.last = last] \in Round
    BY <2>1 DEF Round
  <2>3. Send(cn[p], p, req) \in Connection
    BY <2>1, SendType
  <2> QED
    BY <1>2, <2>2, <2>3 DEF TypeOK
<1>3. ASSUME NEW p \in rd.todo,
             LET req == AppendRequest(n, p, rd, ni[p])
             IN  /\ round' = [round EXCEPT ![n][r] =
                                [rd EXCEPT !.todo = @ \ {p}, !.peer = p,
                                           !.last = IF req.entries = <<>> THEN 0
                                                    ELSE Last(req.entries).index]]
                 /\ conn' = [conn EXCEPT ![n] = [cn EXCEPT ![p] = Send(@, p, req)]]
      PROVE  round' \in [Node -> [Rounds -> Round]] /\ conn' \in [Node -> [Node -> Connection]]
  <2> DEFINE req == AppendRequest(n, p, rd, ni[p])
             last == IF req.entries = <<>> THEN 0 ELSE Last(req.entries).index
  <2>1. p \in Node /\ ni[p] \in Nat \ {0}
    BY DEF Round
  <2>2. req \in Request /\ (req.entries # <<>> => Last(req.entries).index \in Nat)
    BY <2>1, AppendRequestType
  <2>3. /\ round' = [round EXCEPT ![n][r] = [rd EXCEPT !.todo = rd.todo \ {p}, !.peer = p, !.last = last]]
        /\ conn' = [conn EXCEPT ![n] = [cn EXCEPT ![p] = Send(cn[p], p, req)]]
    BY <1>3
  <2> HIDE DEF req
  <2>4. last \in Nat
    BY <2>2
  <2> HIDE DEF last
  <2> QED
    BY <1>2, <2>2, <2>3, <2>4
<1>4. mishaps' \subseteq Mishaps
  <2>1. \E ps : Called(n, ps)
    BY DEF NextPeer
  <2> QED
    BY <2>1, CalledType
<1> QED
  BY <1>1, <1>3, <1>4 DEF NextPeer

LEMMA TypeStartRound ==
  ASSUME TypeOK, NEW n \in Node, NEW r \in Rounds, StartRound(n, r)
  PROVE  TypeOK'
<1> DEFINE rd == [Idle EXCEPT !.term = currentTerm[n], !.commit = commitIndex[n],
                              !.todo = Peers(n)]
<1>1. /\ NextPeer(n, r, rd, conn[n], nextIndex[n])
      /\ UNCHANGED <<state, currentTerm, votedFor, log, disk, overwritten, commitIndex,
                     lastApplied, fsm, nextIndex, matchIndex, votesReceived, voteCalls,
                     snapshotting, snapshot, elected, applied, crashes, failures, scope>>
  BY DEF StartRound, persistent, machine, leader, snaps
<1>2. rd = [term |-> currentTerm[n], commit |-> commitIndex[n], todo |-> Peers(n),
            peer |-> Nil, last |-> 0]
  BY BegunRound
<1> HIDE DEF rd
<1>3. rd \in Round
  BY <1>2 DEF Round, Peers, TypeOK
<1>4. conn[n] \in [Node -> Connection] /\ nextIndex[n] \in [Node -> Nat \ {0}]
  BY DEF TypeOK
<1>5. /\ round' \in [Node -> [Rounds -> Round]] /\ conn' \in [Node -> [Node -> Connection]]
      /\ mishaps' \subseteq Mishaps
  BY <1>1, <1>3, <1>4, NextPeerType
<1> QED
  BY <1>1, <1>5 DEF TypeOK

LEMMA TypeAppendReply ==
  ASSUME TypeOK, NEW n \in Node, NEW r \in Rounds, AppendReply(n, r)
  PROVE  TypeOK'
<1> DEFINE rd == round[n][r]
           p == rd.peer
           resp == Head(conn[n][p].resps)
           ok == resp.type = "append" /\ resp.ok
           cn == [conn[n] EXCEPT ![p] = Read(n, p)]
           after == NextAfter(nextIndex[n][p], rd.last, resp)
           ni == [nextIndex[n] EXCEPT ![p] = after]
           mi == [matchIndex[n] EXCEPT ![p] = IF ok /\ rd.last > 0 THEN rd.last ELSE matchIndex[n][p]]
           c == IF ok THEN Committable(n, mi) ELSE 0
<1>1. /\ p # Nil /\ conn[n][p].resps # <<>>
      /\ \/ /\ StepDown(n, resp.term)
            /\ round' = [round EXCEPT ![n][r] = Idle]
            /\ conn' = [conn EXCEPT ![n] = cn]
            /\ UNCHANGED <<nextIndex, matchIndex, commitIndex, lastApplied, fsm, applied, mishaps>>
         \/ /\ nextIndex' = [nextIndex EXCEPT ![n] = ni]
            /\ matchIndex' = [matchIndex EXCEPT ![n] = mi]
            /\ \/ ApplyUpTo(n, log[n], c)
               \/ UNCHANGED <<commitIndex, lastApplied, fsm, applied>>
            /\ NextPeer(n, r, rd, cn, ni)
            /\ UNCHANGED <<state, currentTerm, votedFor>>
      /\ UNCHANGED <<log, disk, overwritten, votesReceived, voteCalls, snapshotting, snapshot,
                     elected, crashes, failures, scope>>
  BY Zenon DEF AppendReply, machine, leader, snaps
<1>2. rd \in Round /\ p \in Node /\ rd.last \in Nat
  <2>1. rd \in Round
    BY DEF TypeOK
  <2> QED
    BY <1>1, <2>1, Zenon DEF Round
<1>3. Read(n, p) \in Connection /\ resp \in Response
  BY <1>1, <1>2, ReadType, Zenon
<1>4. resp.term \in 0..MaxTerm /\ resp.conflict \in Nat
  BY <1>3, Zenon DEF Response
<1>5. cn \in [Node -> Connection]
  BY <1>2, <1>3 DEF TypeOK
<1>6. after \in Nat \ {0}
  <2>1. nextIndex[n][p] \in Nat \ {0}
    BY <1>2 DEF TypeOK
  <2> DEFINE old == nextIndex[n][p]
  <2>2. old \in Nat \ {0} /\ after = NextAfter(old, rd.last, resp)
    BY <2>1
  <2> HIDE DEF old, after, resp, rd
  <2>3. 1 \in Nat /\ old - 1 \in Nat
    BY <2>2
  <2>4. Max({1, old - 1}) \in Nat \ {0}
    BY <2>3, MaxOfTwo
  <2> QED
    BY <1>2, <1>4, <2>2, <2>4 DEF NextAfter
<1>7. ni \in [Node -> Nat \ {0}]
  <2> HIDE DEF after
  <2> QED
    BY <1>2, <1>6 DEF TypeOK
<1>8. mi \in [Node -> Nat]
  <2> DEFINE v == IF ok /\ rd.last > 0 THEN rd.last ELSE matchIndex[n][p]
  <2>1. v \in Nat
    <3>1. matchIndex[n][p] \in Nat
      BY <1>2 DEF TypeOK
    <3> HIDE DEF ok, p
    <3> QED
      BY <1>2, <3>1
  <2>2. mi = [matchIndex[n] EXCEPT ![p] = v]
    OBVIOUS
  <2> HIDE DEF v, mi
  <2> QED
    BY <1>2, <2>1, <2>2 DEF TypeOK
<1>9. c \in Nat
  <2> HIDE DEF mi
  <2> QED
    BY CommittableType
<1> HIDE DEF c, mi, ni, cn, resp
<1>10. CASE /\ StepDown(n, resp.term)
            /\ round' = [round EXCEPT ![n][r] = Idle]
            /\ conn' = [conn EXCEPT ![n] = cn]
            /\ UNCHANGED <<nextIndex, matchIndex, commitIndex, lastApplied, fsm, applied, mishaps>>
  <2>1. Idle \in Round
    BY RaftAssumption DEF Idle, Round
  <2>2. /\ state' \in [Node -> {"Follower", "Candidate", "Leader", "Shutdown"}]
        /\ currentTerm' \in [Node -> 0..MaxTerm]
        /\ votedFor' \in [Node -> Node \cup {Nil}]
    BY <1>4, <1>10, StepDownType
  <2>3. round' \in [Node -> [Rounds -> Round]] /\ conn' \in [Node -> [Node -> Connection]]
    BY <1>5, <1>10, <2>1 DEF TypeOK
  <2> QED
    BY <1>1, <1>10, <2>2, <2>3 DEF TypeOK
<1>11. CASE /\ nextIndex' = [nextIndex EXCEPT ![n] = ni]
            /\ matchIndex' = [matchIndex EXCEPT ![n] = mi]
            /\ \/ ApplyUpTo(n, log[n], c)
               \/ UNCHANGED <<commitIndex, lastApplied, fsm, applied>>
            /\ NextPeer(n, r, rd, cn, ni)
            /\ UNCHANGED <<state, currentTerm, votedFor>>
  <2> HIDE DEF rd
  <2>1. /\ round' \in [Node -> [Rounds -> Round]] /\ conn' \in [Node -> [Node -> Connection]]
        /\ mishaps' \subseteq Mishaps
    BY <1>2, <1>5, <1>7, <1>11, NextPeerType
  <2>2. nextIndex' \in [Node -> [Node -> Nat \ {0}]] /\ matchIndex' \in [Node -> [Node -> Nat]]
    BY <1>7, <1>8, <1>11 DEF TypeOK
  <2>3. /\ commitIndex' \in [Node -> Nat] /\ lastApplied' \in [Node -> Nat]
        /\ fsm' \in [Node -> Seq(Entry)] /\ applied' \subseteq Nat \X Entry
    <3>1. CASE ApplyUpTo(n, log[n], c)
      <4>1. log[n] \in Log
        BY DEF TypeOK
      <4> QED
        BY <1>9, <3>1, <4>1, ApplyUpToType
    <3>2. CASE UNCHANGED <<commitIndex, lastApplied, fsm, applied>>
      BY <3>2 DEF TypeOK
    <3> QED
      BY <1>11, <3>1, <3>2
  <2> QED
    BY <1>1, <1>11, <2>1, <2>2, <2>3 DEF TypeOK
<1> QED
  BY <1>1, <1>10, <1>11

LEMMA TypeAppendEntries ==
  ASSUME TypeOK, NEW n \in Node, NEW p \in Node, HandleAppendEntries(n, p)
  PROVE  TypeOK'
<1> DEFINE req == Head(conn[n][p].reqs)
           ok == req.term >= currentTerm[p] /\ Consistent(log[p], req)
           l == StoreAll(log[p], req.prev, req.entries)
           t == Max({currentTerm[p], req.term})
           back == IF ok \/ req.term < currentTerm[p] THEN 0
                   ELSE findConflictIndex(log[p], req.prev)
           m == [type |-> "append", term |-> t, ok |-> ok, conflict |-> back]
           c == CommitAfter(commitIndex[p], req)
<1>1. /\ conn[n][p].reqs # <<>> /\ conn[n][p] \in Connection /\ req.type = "append"
      /\ StepDown(p, req.term) \/ UNCHANGED <<state, currentTerm, votedFor>>
      /\ \/ /\ Save(p, l)
            /\ ApplyUpTo(p, l, c) \/ UNCHANGED <<commitIndex, lastApplied, fsm, applied>>
         \/ UNCHANGED <<log, disk, overwritten, commitIndex, lastApplied, fsm, applied>>
      /\ Answer(n, p, m)
      /\ UNCHANGED <<nextIndex, matchIndex, votesReceived, voteCalls, round, snapshotting,
                     snapshot, elected, mishaps, crashes, failures, scope>>
  BY Zenon DEF HandleAppendEntries, TypeOK, machine, leader, calls, snaps, faults
<1>2. req \in Request
  BY <1>1, ConnectionType
<1>3. /\ req.term \in 0..MaxTerm /\ req.prev \in Nat /\ req.entries \in Seq(Entry)
      /\ req.commit \in Nat
  BY <1>1, <1>2, RequestType
<1>4. l \in Log
  <2> HIDE DEF req
  <2> QED
    BY <1>3, StoreAllType DEF TypeOK
<1>5. t \in 0..MaxTerm
  <2> HIDE DEF req
  <2> QED
    BY <1>3, MaxTermOfTwo DEF TypeOK
<1>6. ok \in BOOLEAN
  OBVIOUS
<1>7. back \in Nat
  <2> HIDE DEF req, ok
  <2> QED
    BY <1>3, ConflictType
<1>8. c \in Nat
  <2>1. commitIndex[p] \in Nat /\ Len(req.entries) \in Nat
    BY <1>3, LenProperties DEF TypeOK
  <2> HIDE DEF req
  <2> DEFINE a == req.commit
             b == req.prev + Len(req.entries)
  <2>2. a \in Int /\ b \in Int /\ a \in Nat /\ b \in Nat
    BY <1>3, <2>1
  <2> HIDE DEF a, b
  <2>3. Min({a, b}) \in Nat
    BY <2>2, MinOfTwo
  <2> QED
    BY <2>1, <2>3 DEF CommitAfter, a, b
<1> HIDE DEF l, c, t, ok, back, req
<1>9. m \in Response
  BY <1>5, <1>6, <1>7 DEF Response
<1> HIDE DEF m
<1>10. conn' \in [Node -> [Node -> Connection]]
  BY <1>1, <1>9, AnswerType
<1>11. /\ state' \in [Node -> {"Follower", "Candidate", "Leader", "Shutdown"}]
       /\ currentTerm' \in [Node -> 0..MaxTerm]
       /\ votedFor' \in [Node -> Node \cup {Nil}]
  <2>1. CASE StepDown(p, req.term)
    BY <1>3, <2>1, StepDownType
  <2>2. CASE UNCHANGED <<state, currentTerm, votedFor>>
    BY <2>2 DEF TypeOK
  <2> QED
    BY <1>1, <2>1, <2>2
<1>12. /\ log' \in [Node -> Log] /\ disk' \in [Node -> Log] /\ overwritten' \subseteq Node
       /\ commitIndex' \in [Node -> Nat] /\ lastApplied' \in [Node -> Nat]
       /\ fsm' \in [Node -> Seq(Entry)] /\ applied' \subseteq Nat \X Entry
  <2>1. CASE Save(p, l) /\ ApplyUpTo(p, l, c)
    <3>1. log' \in [Node -> Log] /\ disk' \in [Node -> Log] /\ overwritten' \subseteq Node
      BY <1>4, <2>1, SaveType
    <3> QED
      BY <1>4, <1>8, <2>1, <3>1, ApplyUpToType
  <2>2. CASE Save(p, l) /\ UNCHANGED <<commitIndex, lastApplied, fsm, applied>>
    <3>1. log' \in [Node -> Log] /\ disk' \in [Node -> Log] /\ overwritten' \subseteq Node
      BY <1>4, <2>2, SaveType
    <3> QED
      BY <2>2, <3>1 DEF TypeOK
  <2>3. CASE UNCHANGED <<log, disk, overwritten, commitIndex, lastApplied, fsm, applied>>
    BY <2>3 DEF TypeOK
  <2> QED
    BY <1>1, <2>1, <2>2, <2>3
<1> QED
  BY <1>1, <1>10, <1>11, <1>12, Zenon DEF TypeOK

LEMMA TypeSnapshot ==
  ASSUME TypeOK, NEW n \in Node, Snapshots(n)
  PROVE  TypeOK'
<1>1. /\ log[n] \in Log /\ fsm[n] \in Seq(Entry)
      /\ snapshotting[n] \in Taking /\ snapshot[n] \in Snapshot
  BY DEF TypeOK
<1>2. EmptyLog \in Log /\ NotTaking \in Taking
  BY EmptySeq DEF EmptyLog, Log, NotTaking, Taking
<1>3. CASE CaptureSnapshot(n)
  <2>1. [step |-> "captured", index |-> LastIndex(log[n]), data |-> fsm[n], image |-> EmptyLog]
          \in Taking
    BY <1>1, <1>2, EndOf DEF Taking
  <2>2. snapshotting' \in [Node -> Taking]
    BY <1>3, <2>1 DEF CaptureSnapshot, TypeOK
  <2> QED
    BY <1>3, <2>2 DEF CaptureSnapshot, TypeOK, persistent, machine, leader, calls, faults
<1>4. CASE WriteSnapshot(n)
  <2>1. [snapshotting[n] EXCEPT !.step = "written"] \in Taking
    BY <1>1 DEF Taking
  <2>2. [snapshot[n] EXCEPT !.data = snapshotting[n].data] \in Snapshot
    BY <1>1 DEF Taking, Snapshot
  <2>3. snapshotting' \in [Node -> Taking] /\ snapshot' \in [Node -> Snapshot]
    BY <1>4, <2>1, <2>2 DEF WriteSnapshot, TypeOK
  <2> QED
    BY <1>4, <2>3 DEF WriteSnapshot, TypeOK, persistent, machine, leader, calls, faults
<1>5. CASE LabelSnapshot(n)
  <2>1. [snapshotting[n] EXCEPT !.step = "labelled"] \in Taking
    BY <1>1 DEF Taking
  <2>2. [snapshot[n] EXCEPT !.index = snapshotting[n].index] \in Snapshot
    BY <1>1 DEF Taking, Snapshot
  <2>3. snapshotting' \in [Node -> Taking] /\ snapshot' \in [Node -> Snapshot]
    BY <1>5, <2>1, <2>2 DEF LabelSnapshot, TypeOK
  <2> QED
    BY <1>5, <2>3 DEF LabelSnapshot, TypeOK, persistent, machine, leader, calls, faults
<1>6. CASE CompactLog(n)
  <2>1. [snapshotting[n] EXCEPT !.step = "compacted"] \in Taking
    BY <1>1 DEF Taking
  <2>2. Compact(log[n], snapshotting[n].index) \in Log
    BY <1>1, CompactEnd DEF Taking
  <2>3. log' = [log EXCEPT ![n] = Compact(log[n], snapshotting[n].index)]
    BY <1>6 DEF CompactLog
  <2>4. snapshotting' \in [Node -> Taking] /\ log' \in [Node -> Log]
    BY <1>6, <2>1, <2>2, <2>3 DEF CompactLog, TypeOK
  <2> QED
    BY <1>6, <2>4 DEF CompactLog, TypeOK, machine, leader, calls, faults
<1>7. CASE EncodeLog(n)
  <2>1. [snapshotting[n] EXCEPT !.step = "encoded", !.image = log[n]] \in Taking
    BY <1>1 DEF Taking
  <2>2. snapshotting' \in [Node -> Taking]
    BY <1>7, <2>1 DEF EncodeLog, TypeOK
  <2> QED
    BY <1>7, <2>2 DEF EncodeLog, TypeOK, persistent, machine, leader, calls, faults
<1>8. CASE ReplaceLog(n)
  <2>1. snapshotting[n].image \in Log
    BY <1>1 DEF Taking
  <2>2. /\ snapshotting' \in [Node -> Taking] /\ disk' \in [Node -> Log]
        /\ overwritten' \subseteq Node
    BY <1>2, <1>8, <2>1 DEF ReplaceLog, TypeOK
  <2> QED
    BY <1>8, <2>2 DEF ReplaceLog, TypeOK, machine, leader, calls, faults
<1> QED
  BY <1>3, <1>4, <1>5, <1>6, <1>7, <1>8 DEF Snapshots

\* What a crash leaves.
LEMMA TypeDown ==
  ASSUME TypeOK, NEW n \in Node, NEW lost, NEW torn \in BOOLEAN, Down(n, lost, torn),
         crashes' \in 0..scope.crashes, failures' \in 0..scope.failures, scope' = scope
  PROVE  TypeOK'
<1>1. /\ state' = [state EXCEPT ![n] = "Shutdown"]
      /\ currentTerm' = [currentTerm EXCEPT ![n] = IF torn THEN 0 ELSE currentTerm[n]]
      /\ votedFor' = [votedFor EXCEPT ![n] = IF torn THEN Nil ELSE votedFor[n]]
      /\ commitIndex' = [commitIndex EXCEPT ![n] = 0]
      /\ lastApplied' = [lastApplied EXCEPT ![n] = 0]
      /\ fsm' = [fsm EXCEPT ![n] = <<>>]
      /\ nextIndex' = [nextIndex EXCEPT ![n] = [p \in Node |-> 1]]
      /\ matchIndex' = [matchIndex EXCEPT ![n] = [p \in Node |-> 0]]
      /\ votesReceived' = [votesReceived EXCEPT ![n] = 0]
      /\ voteCalls' = [voteCalls EXCEPT ![n] = [p \in Node |-> {}]]
      /\ round' = [round EXCEPT ![n] = [r \in Rounds |-> Idle]]
      /\ snapshotting' = [snapshotting EXCEPT ![n] = NotTaking]
      /\ log' = [log EXCEPT ![n] = disk[n]]
      /\ overwritten' = overwritten \ {n}
      /\ mishaps' \subseteq mishaps \cup {"torn", "reverted"}
      /\ UNCHANGED <<disk, snapshot, elected, applied>>
  BY DEF Down
<1>2. NotTaking \in Taking /\ <<>> \in Seq(Entry)
  BY EmptySeq DEF NotTaking, Taking, EmptyLog, Log
<1>8. log' \in [Node -> Log] /\ overwritten' \subseteq Node /\ mishaps' \subseteq Mishaps
  BY <1>1 DEF TypeOK, Mishaps
<1>3. Idle \in Round
  BY RaftAssumption DEF Idle, Round
<1>4. /\ state' \in [Node -> {"Follower", "Candidate", "Leader", "Shutdown"}]
      /\ currentTerm' \in [Node -> 0..MaxTerm]
      /\ votedFor' \in [Node -> Node \cup {Nil}]
  <2>1. /\ (IF torn THEN 0 ELSE currentTerm[n]) \in 0..MaxTerm
        /\ (IF torn THEN Nil ELSE votedFor[n]) \in Node \cup {Nil}
    BY RaftAssumption DEF TypeOK
  <2> QED
    BY <1>1, <2>1 DEF TypeOK
<1>5. /\ commitIndex' \in [Node -> Nat] /\ lastApplied' \in [Node -> Nat]
      /\ fsm' \in [Node -> Seq(Entry)] /\ votesReceived' \in [Node -> Nat]
      /\ nextIndex' \in [Node -> [Node -> Nat \ {0}]] /\ matchIndex' \in [Node -> [Node -> Nat]]
  BY <1>1, <1>2 DEF TypeOK
<1>6. /\ voteCalls' \in [Node -> [Node -> SUBSET (1..MaxTerm)]]
      /\ round' \in [Node -> [Rounds -> Round]] /\ snapshotting' \in [Node -> Taking]
  BY <1>1, <1>2, <1>3 DEF TypeOK
<1>7. conn' \in [Node -> [Node -> Connection]]
  <2>1. ASSUME NEW b \in Node PROVE [conn[n][b] EXCEPT !.resps = <<>>] \in Connection
    <3>1. conn[n][b] \in Connection /\ <<>> \in Seq(Response)
      BY EmptySeq DEF TypeOK
    <3> QED
      BY <3>1 DEF Connection
  <2>2. conn' = [a \in Node |-> [b \in Node |->
                   IF b = n THEN NoConn
                   ELSE IF a = n THEN IF b \in lost THEN NoConn
                                      ELSE [conn[n][b] EXCEPT !.resps = <<>>]
                   ELSE conn[a][b]]]
    BY DEF Down
  <2>3. \A a, b \in Node : conn[a][b] \in Connection
    BY DEF TypeOK
  <2> QED
    BY <2>1, <2>2, <2>3, NoConnType
<1> QED
  BY <1>1, <1>4, <1>5, <1>6, <1>7, <1>8 DEF TypeOK

LEMMA TypeCrash ==
  ASSUME TypeOK, NEW n \in Node, Crash(n)
  PROVE  TypeOK'
<1>1. PICK lost \in SUBSET {p \in Peers(n) : conn[n][p].reqs # <<>>},
             torn \in {FALSE, scope.torn} : Down(n, lost, torn)
  BY DEF Crash
<1>2. torn \in BOOLEAN
  <2>1. scope.torn \in BOOLEAN
    BY RaftAssumption DEF TypeOK, Scope
  <2> QED
    BY <2>1
<1>3. crashes' \in 0..scope.crashes /\ failures' \in 0..scope.failures /\ scope' = scope
  <2>1. /\ crashes \in 0..scope.crashes /\ crashes < scope.crashes /\ crashes' = crashes + 1
        /\ scope.crashes \in Nat /\ UNCHANGED <<failures, scope>> /\ failures \in 0..scope.failures
    BY RaftAssumption DEF Crash, TypeOK, Scope
  <2> QED
    BY <2>1
<1> QED
  BY <1>1, <1>2, <1>3, TypeDown

LEMMA TypeCallFails ==
  ASSUME TypeOK, NEW n \in Node, NEW p \in Node, CallFails(n, p)
  PROVE  TypeOK'
<1>1. crashes' \in 0..scope.crashes /\ failures' \in 0..scope.failures /\ scope' = scope
  <2>1. /\ failures \in 0..scope.failures /\ failures < scope.failures /\ failures' = failures + 1
        /\ scope.failures \in Nat /\ UNCHANGED <<crashes, scope>> /\ crashes \in 0..scope.crashes
    BY RaftAssumption DEF CallFails, TypeOK, Scope
  <2> QED
    BY <2>1
<1>2. CASE \E lost \in SUBSET {p} : Down(n, lost, FALSE)
  BY <1>1, <1>2, TypeDown
<1>3. CASE /\ voteCalls' = [voteCalls EXCEPT ![n][p] = {}]
           /\ conn' = [conn EXCEPT ![n][p] = NoConn]
           /\ UNCHANGED <<state, persistent, machine, leader, votesReceived, round, snaps,
                          elected, applied, mishaps>>
  <2>1. /\ voteCalls' \in [Node -> [Node -> SUBSET (1..MaxTerm)]]
        /\ conn' \in [Node -> [Node -> Connection]]
    BY <1>3, NoConnType DEF TypeOK
  <2> QED
    BY <1>1, <1>3, <2>1 DEF TypeOK, persistent, machine, leader, snaps
<1> QED
  BY <1>2, <1>3 DEF CallFails

LEMMA TypeRestart ==
  ASSUME TypeOK, NEW n \in Node, Restart(n)
  PROVE  TypeOK'
<1>1. snapshot[n] \in Snapshot /\ log[n] \in Log
  BY DEF TypeOK
<1>2. snapshot[n].index \in Nat /\ snapshot[n].data \in Seq(Entry) /\ <<>> \in Seq(Entry)
  BY <1>1, EmptySeq DEF Snapshot
<1>3. LastIndex(log[n]) + 1 \in Nat \ {0}
  BY <1>1, EndOf
<1>4. /\ state' \in [Node -> {"Follower", "Candidate", "Leader", "Shutdown"}]
      /\ commitIndex' \in [Node -> Nat] /\ lastApplied' \in [Node -> Nat]
      /\ nextIndex' \in [Node -> [Node -> Nat \ {0}]]
  BY <1>2, <1>3 DEF Restart, TypeOK
<1>5. fsm' \in [Node -> Seq(Entry)]
  BY <1>2 DEF Restart, TypeOK
<1>6. conn' \in [Node -> [Node -> Connection]] /\ mishaps' \subseteq Mishaps
  BY NoConnType DEF Restart, TypeOK, Mishaps
<1> QED
  BY <1>4, <1>5, <1>6 DEF Restart, TypeOK, persistent, calls, snaps

LEMMA TypeStutter == TypeOK /\ UNCHANGED vars => TypeOK'
BY DEF TypeOK, vars, persistent, machine, leader, calls, snaps, faults

LEMMA TypeKept == TypeOK /\ [Next]_vars => TypeOK'
<1> SUFFICES ASSUME TypeOK, Next PROVE TypeOK'
  BY TypeStutter
<1>1. ASSUME NEW n \in Node, startElection(n) \/ Propose(n) \/ Crash(n) \/ Restart(n)
      PROVE  TypeOK'
  BY <1>1, TypeElection, TypePropose, TypeCrash, TypeRestart
<1>2. ASSUME NEW n \in Node, Snapshots(n)
      PROVE  TypeOK'
  BY <1>2, TypeSnapshot
<1>3. ASSUME NEW n \in Node, NEW r \in Rounds, StartRound(n, r) \/ AppendReply(n, r)
      PROVE  TypeOK'
  BY <1>3, TypeStartRound, TypeAppendReply
<1>4. ASSUME NEW n \in Node, NEW p \in Peers(n),
             \/ HandleRequestVote(n, p) \/ HandleAppendEntries(n, p) \/ CallFails(n, p)
             \/ \E t \in 1..MaxTerm : VoteReply(n, p, t)
      PROVE  TypeOK'
  <2>1. p \in Node
    BY DEF Peers
  <2> QED
    BY <1>4, <2>1, TypeRequestVote, TypeAppendEntries, TypeCallFails, TypeVoteReply
<1> QED
  BY <1>1, <1>2, <1>3, <1>4 DEF Next, Snapshots

\* Every variable keeps its type, for any number of nodes, rounds in parallel and
\* bounds, whoever reads whose answer and whatever a crash leaves: no next index falls
\* to zero, no commit index below zero, and no term runs past the bound (NextAfter,
\* advanceCommitIndex, becomeFollower).
THEOREM TypeCorrect == Spec => []TypeOK
<1> QED
  BY TypeInit, TypeKept, PTL DEF Spec

-----------------------------------------------------------------------------
\* What went wrong is not forgotten.
LEMMA MishapsStay == [Next]_vars => mishaps \subseteq mishaps'
<1> SUFFICES ASSUME [Next]_vars PROVE mishaps \subseteq mishaps'
  OBVIOUS
<1>1. CASE UNCHANGED vars
  BY <1>1 DEF vars, faults
<1>2. ASSUME NEW n \in Node, startElection(n) \/ Restart(n) \/ Crash(n) \/ Local(n)
      PROVE  mishaps \subseteq mishaps'
  <2>1. startElection(n) => mishaps \subseteq mishaps'
    BY DEF startElection, Called
  <2>2. Restart(n) => mishaps \subseteq mishaps'
    BY DEF Restart
  <2>3. Crash(n) => mishaps \subseteq mishaps'
    BY DEF Crash, Down
  <2>4. Local(n) => mishaps \subseteq mishaps'
    BY LocalView DEF faults
  <2> QED
    BY <1>2, <2>1, <2>2, <2>3, <2>4
<1>3. ASSUME NEW n \in Node, NEW r \in Rounds, StartRound(n, r) \/ AppendReply(n, r)
      PROVE  mishaps \subseteq mishaps'
  <2>1. ASSUME NEW rd, NEW cn, NEW ni, NextPeer(n, r, rd, cn, ni)
        PROVE  mishaps \subseteq mishaps'
    BY <2>1 DEF NextPeer, Called
  <2>2. StartRound(n, r) => mishaps \subseteq mishaps'
    BY <2>1 DEF StartRound
  <2>3. AppendReply(n, r) => mishaps \subseteq mishaps'
    <3>1. AppendReply(n, r) => mishaps' = mishaps \/ \E rd, cn, ni : NextPeer(n, r, rd, cn, ni)
      BY Zenon DEF AppendReply
    <3> QED
      BY <2>1, <3>1
  <2> QED
    BY <1>3, <2>2, <2>3
<1>4. ASSUME NEW n \in Node, NEW p \in Peers(n),
             \/ HandleRequestVote(n, p) \/ HandleAppendEntries(n, p) \/ CallFails(n, p)
             \/ \E t \in 1..MaxTerm : VoteReply(n, p, t)
      PROVE  mishaps \subseteq mishaps'
  <2>1. HandleRequestVote(n, p) => mishaps \subseteq mishaps'
    BY DEF HandleRequestVote, faults
  <2>2. HandleAppendEntries(n, p) => mishaps \subseteq mishaps'
    BY DEF HandleAppendEntries, faults
  <2>3. CallFails(n, p) => mishaps \subseteq mishaps'
    BY DEF CallFails, Down
  <2>4. ASSUME NEW t \in 1..MaxTerm, VoteReply(n, p, t) PROVE mishaps \subseteq mishaps'
    BY <2>4 DEF VoteReply
  <2> QED
    BY <1>4, <2>1, <2>2, <2>3, <2>4
<1> QED
  BY <1>1, <1>2, <1>3, <1>4 DEF Next, Local, Snapshots

-----------------------------------------------------------------------------
\* Votes under way, in a queue of messages s; V is what counts as one.
Terms(V, s)  == {s[i].term : i \in {j \in 1..Len(s) : s[j] \in V}}
Single(V, s) == \A i, j \in 1..Len(s) :
                  s[i] \in V /\ s[j] \in V /\ s[i].term = s[j].term => i = j

\* Queue u has no vote that s has not.
Thins(V, s, u) ==
  \/ u = s
  \/ u = <<>>
  \/ s # <<>> /\ u = Tail(s)
  \/ \E m : m \notin V /\ u = Append(s, m)

LEMMA VotesTail ==
  ASSUME NEW S, NEW s \in Seq(S), s # <<>>, NEW V
  PROVE  /\ \A i \in 1..Len(Tail(s)) : i + 1 \in 1..Len(s) /\ Tail(s)[i] = s[i + 1]
         /\ Terms(V, Tail(s)) \subseteq Terms(V, s)
         /\ Single(V, s) => Single(V, Tail(s))
         /\ Head(s) \in V => Head(s).term \in Terms(V, s)
         /\ Single(V, s) /\ Head(s) \in V => Head(s).term \notin Terms(V, Tail(s))
<1>1. Len(s) \in Nat /\ Len(s) >= 1 /\ Len(Tail(s)) = Len(s) - 1 /\ Head(s) = s[1]
  BY HeadTailProperties, EmptySeq, LenProperties
<1>2. \A i \in 1..Len(Tail(s)) : i + 1 \in 1..Len(s) /\ Tail(s)[i] = s[i + 1]
  BY <1>1, HeadTailProperties
<1>3. Terms(V, Tail(s)) \subseteq Terms(V, s)
  BY <1>2 DEF Terms
<1>4. Single(V, s) => Single(V, Tail(s))
  <2> SUFFICES ASSUME Single(V, s), NEW i \in 1..Len(Tail(s)), NEW j \in 1..Len(Tail(s)),
                      Tail(s)[i] \in V, Tail(s)[j] \in V, Tail(s)[i].term = Tail(s)[j].term
               PROVE  i = j
    BY DEF Single
  <2>1. i + 1 = j + 1
    BY <1>2 DEF Single
  <2> QED
    BY <1>1, <2>1
<1>5. 1 \in 1..Len(s)
  BY <1>1
<1>6. Head(s) \in V => Head(s).term \in Terms(V, s)
  BY <1>1, <1>5 DEF Terms
<1>7. ASSUME Single(V, s), Head(s) \in V, Head(s).term \in Terms(V, Tail(s))
      PROVE  FALSE
  <2>1. PICK i \in 1..Len(Tail(s)) : Tail(s)[i] \in V /\ Tail(s)[i].term = Head(s).term
    BY <1>7 DEF Terms
  <2>2. i + 1 = 1
    BY <1>1, <1>2, <1>5, <1>7, <2>1 DEF Single
  <2> QED
    BY <1>1, <2>2
<1> QED
  BY <1>2, <1>3, <1>4, <1>6, <1>7

LEMMA VotesAppend ==
  ASSUME NEW S, NEW s \in Seq(S), NEW V, NEW m
  PROVE  /\ \A i \in 1..Len(Append(s, m)) :
              Append(s, m)[i] = m \/ (i \in 1..Len(s) /\ Append(s, m)[i] = s[i])
         /\ Terms(V, Append(s, m)) = Terms(V, s) \cup (IF m \in V THEN {m.term} ELSE {})
         /\ Single(V, s) /\ (m \in V => m.term \notin Terms(V, s)) => Single(V, Append(s, m))
<1> DEFINE u == Append(s, m)
<1>1. /\ Len(s) \in Nat /\ Len(u) = Len(s) + 1 /\ u[Len(s) + 1] = m
      /\ \A i \in 1..Len(s) : u[i] = s[i]
  <2>1. s \in Seq(S \cup {m}) /\ m \in S \cup {m}
    OBVIOUS
  <2> QED
    BY <2>1, AppendProperties, LenProperties
<1> HIDE DEF u
<1>2. \A i \in 1..Len(u) : (i = Len(s) + 1 /\ u[i] = m) \/ (i \in 1..Len(s) /\ u[i] = s[i])
  BY <1>1
<1>3. Terms(V, u) = Terms(V, s) \cup (IF m \in V THEN {m.term} ELSE {})
  <2>1. Terms(V, u) \subseteq Terms(V, s) \cup (IF m \in V THEN {m.term} ELSE {})
    BY <1>2 DEF Terms
  <2>2. Terms(V, s) \subseteq Terms(V, u)
    <3>1. \A i \in 1..Len(s) : i \in 1..Len(u)
      BY <1>1
    <3> QED
      BY <1>1, <3>1 DEF Terms
  <2>3. m \in V => m.term \in Terms(V, u)
    <3>1. Len(s) + 1 \in 1..Len(u)
      BY <1>1
    <3> QED
      BY <1>1, <3>1 DEF Terms
  <2> QED
    BY <2>1, <2>2, <2>3
<1>4. ASSUME Single(V, s), m \in V => m.term \notin Terms(V, s)
      PROVE  Single(V, u)
  <2> SUFFICES ASSUME NEW i \in 1..Len(u), NEW j \in 1..Len(u),
                      u[i] \in V, u[j] \in V, u[i].term = u[j].term
               PROVE  i = j
    BY DEF Single
  <2>1. CASE i \in 1..Len(s) /\ j \in 1..Len(s)
    BY <1>1, <1>4, <2>1 DEF Single
  <2>2. ASSUME NEW a \in 1..Len(s), m \in V, s[a] \in V, s[a].term = m.term
        PROVE  FALSE
    BY <1>4, <2>2 DEF Terms
  <2>3. CASE i = Len(s) + 1 /\ j \in 1..Len(s)
    <3>1. u[i] = m /\ u[j] = s[j]
      BY <1>1, <2>3
    <3> QED
      BY <2>2, <2>3, <3>1
  <2>4. CASE j = Len(s) + 1 /\ i \in 1..Len(s)
    <3>1. u[j] = m /\ u[i] = s[i]
      BY <1>1, <2>4
    <3> QED
      BY <2>2, <2>4, <3>1
  <2> QED
    BY <1>2, <2>1, <2>3, <2>4
<1> QED
  BY <1>2, <1>3, <1>4 DEF u

LEMMA VotesNone ==
  ASSUME NEW V
  PROVE  Terms(V, <<>>) = {} /\ Single(V, <<>>) /\ Len(<<>>) = 0
<1>1. Len(<<>>) = 0 /\ 1..0 = {}
  OBVIOUS
<1> QED
  BY <1>1 DEF Terms, Single

LEMMA VotesThinned ==
  ASSUME NEW S, NEW s \in Seq(S), NEW V, NEW u, Thins(V, s, u)
  PROVE  /\ Terms(V, u) \subseteq Terms(V, s)
         /\ Single(V, s) => Single(V, u)
         /\ \A i \in 1..Len(u) : u[i] \in V => \E j \in 1..Len(s) : u[i] = s[j]
<1>1. CASE u = s
  BY <1>1
<1>2. CASE u = <<>>
  BY <1>2, VotesNone
<1>3. CASE s # <<>> /\ u = Tail(s)
  BY <1>3, VotesTail
<1>4. ASSUME NEW m, m \notin V, u = Append(s, m)
      PROVE  /\ Terms(V, u) \subseteq Terms(V, s)
             /\ Single(V, s) => Single(V, u)
             /\ \A i \in 1..Len(u) : u[i] \in V => \E j \in 1..Len(s) : u[i] = s[j]
  BY <1>4, VotesAppend
<1> QED
  BY <1>1, <1>2, <1>3, <1>4 DEF Thins

-----------------------------------------------------------------------------
\* B[t][v] is the node v voted for in term t, Nil if none.
Ballots == [Nat -> [Node -> Node \cup {Nil}]]

\* Of its own ballots, a node still knows the one of its current term.
Honest(B) ==
  \A t \in Nat, v \in Node : B[t][v] # Nil =>
    t < currentTerm[v] \/ (t = currentTerm[v] /\ votedFor[v] = B[t][v])

\* The terms in which n has asked p, and p has granted, a vote that n does not know of yet.
VoteRequests == {m \in Request : m.type = "vote"}
GrantedVotes == {m \in Response : m.type = "vote" /\ m.ok}
Sought(n, p)   == Terms(VoteRequests, conn[n][p].reqs)
Given(n, p)   == Terms(GrantedVotes, conn[n][p].resps)
Pending(n, p) == Sought(n, p) \cup Given(n, p)

\* There is one such vote for a term, n's own.
Orderly(n, p) ==
  /\ Single(VoteRequests, conn[n][p].reqs)
  /\ Single(GrantedVotes, conn[n][p].resps)
  /\ Sought(n, p) \cap Given(n, p) = {}
  /\ \A i \in 1..Len(conn[n][p].reqs) :
       conn[n][p].reqs[i] \in VoteRequests => conn[n][p].reqs[i].from = n

\* n has been in its term, and what was granted is a ballot.
Posted(B, n, p) ==
  /\ Orderly(n, p)
  /\ \A t \in Pending(n, p) : t <= currentTerm[n]
  /\ \A t \in Given(n, p) : B[t][p] = n

\* A candidate has the ballots it counted, none of a vote that is still under way.
Counted(B, n) ==
  state[n] = "Candidate" =>
    \E C \in SUBSET Node :
      /\ Cardinality(C) >= votesReceived[n]
      /\ \A v \in C : /\ B[currentTerm[n]][v] = n
                      /\ v # n => currentTerm[n] \notin Pending(n, v)

\* n has the ballots of a majority for term t.
Won(B, t, n) ==
  \E Q \in SUBSET Node : Cardinality(Q) >= Majority /\ \A v \in Q : B[t][v] = n

Tally(B) ==
  /\ Honest(B)
  /\ \A n \in Node : Counted(B, n)
  /\ elected \subseteq Nat \X Node /\ \A e \in elected : Won(B, e[1], e[2])
  /\ \A n, p \in Node : n # p => Posted(B, n, p)

\* Initially there are no ballots.
LEMMA TallyInit == Init => \E B \in Ballots : Tally(B)
<1> SUFFICES ASSUME Init PROVE \E B \in Ballots : Tally(B)
  OBVIOUS
<1> DEFINE B == [t \in Nat |-> [v \in Node |-> Nil]]
<1>1. B \in Ballots
  BY DEF Ballots
<1>2. \A t \in Nat, v \in Node : B[t][v] = Nil
  OBVIOUS
<1> HIDE DEF B
<1>3. Honest(B)
  BY <1>2 DEF Honest
<1>4. \A n \in Node : Counted(B, n)
  BY DEF Init, Counted
<1>5. elected = {}
  BY DEF Init
<1>6. ASSUME NEW n \in Node, NEW p \in Node PROVE Posted(B, n, p)
  <2>1. conn[n][p].reqs = <<>> /\ conn[n][p].resps = <<>>
    BY DEF Init, NoConn
  <2>2. Sought(n, p) = {} /\ Given(n, p) = {}
    BY <2>1, VotesNone DEF Sought, Given
  <2> QED
    BY <2>1, <2>2, VotesNone DEF Posted, Orderly, Pending
<1>7. Tally(B)
  BY <1>3, <1>4, <1>5, <1>6 DEF Tally
<1> QED
  BY <1>1, <1>7

\* A step in which nobody votes, counts a vote or wins.
Quiet ==
  /\ elected' = elected
  /\ \A v \in Node : \/ currentTerm'[v] = currentTerm[v] /\ votedFor'[v] = votedFor[v]
                     \/ currentTerm'[v] > currentTerm[v]
  /\ \A n \in Node : state'[n] = "Candidate" =>
       /\ state[n] = "Candidate" /\ currentTerm'[n] = currentTerm[n]
       /\ votesReceived'[n] = votesReceived[n]
  /\ \A n, p \in Node : n # p =>
       /\ Thins(VoteRequests, conn[n][p].reqs, conn'[n][p].reqs)
       /\ Thins(GrantedVotes, conn[n][p].resps, conn'[n][p].resps)

\* The votes under way from n to p are among those of before.
LEMMA OrderlyThins ==
  ASSUME TypeOK, NEW n \in Node, NEW p \in Node,
         Thins(VoteRequests, conn[n][p].reqs, conn'[n][p].reqs),
         Thins(GrantedVotes, conn[n][p].resps, conn'[n][p].resps)
  PROVE  /\ Sought(n, p)' \subseteq Sought(n, p) /\ Given(n, p)' \subseteq Given(n, p)
         /\ Pending(n, p)' \subseteq Pending(n, p)
         /\ Orderly(n, p) => Orderly(n, p)'
<1>1. conn[n][p].reqs \in Seq(Request) /\ conn[n][p].resps \in Seq(Response)
  BY ConnectionType DEF TypeOK
<1> DEFINE s == conn[n][p].reqs
           u == conn'[n][p].reqs
<1>2. /\ Terms(VoteRequests, u) \subseteq Terms(VoteRequests, s)
      /\ Single(VoteRequests, s) => Single(VoteRequests, u)
      /\ \A i \in 1..Len(u) : u[i] \in VoteRequests => \E j \in 1..Len(s) : u[i] = s[j]
  <2>1. s \in Seq(Request) /\ Thins(VoteRequests, s, u)
    BY <1>1
  <2> HIDE DEF s, u
  <2> QED
    BY <2>1, VotesThinned
<1> DEFINE a == conn[n][p].resps
           b == conn'[n][p].resps
<1>3. /\ Terms(GrantedVotes, b) \subseteq Terms(GrantedVotes, a)
      /\ Single(GrantedVotes, a) => Single(GrantedVotes, b)
  <2>1. a \in Seq(Response) /\ Thins(GrantedVotes, a, b)
    BY <1>1
  <2> HIDE DEF a, b
  <2> QED
    BY <2>1, VotesThinned
<1>4. VoteRequests' = VoteRequests /\ GrantedVotes' = GrantedVotes
  BY DEF VoteRequests, GrantedVotes, Request, Response, Entry
<1>5. Sought(n, p)' \subseteq Sought(n, p) /\ Given(n, p)' \subseteq Given(n, p)
  BY <1>2, <1>3, <1>4 DEF Sought, Given
<1>6. ASSUME Orderly(n, p) PROVE Orderly(n, p)'
  <2>1. \A i \in 1..Len(u) : u[i] \in VoteRequests => u[i].from = n
    BY <1>2, <1>6 DEF Orderly
  <2> QED
    BY <1>2, <1>3, <1>4, <1>5, <1>6, <2>1 DEF Orderly
<1> QED
  BY <1>5, <1>6 DEF Pending

LEMMA TallyQuiet ==
  ASSUME TypeOK, TypeOK', Quiet, NEW B \in Ballots, Tally(B)
  PROVE  Tally(B)'
<1>1. \A v \in Node : currentTerm[v] \in Nat /\ currentTerm'[v] \in Nat
  BY RaftAssumption DEF TypeOK
<1>2. Honest(B)'
  <2>1. Honest(B)
    BY DEF Tally
  <2> SUFFICES ASSUME NEW t \in Nat, NEW v \in Node, B[t][v] # Nil
               PROVE  t < currentTerm'[v] \/ (t = currentTerm'[v] /\ votedFor'[v] = B[t][v])
    BY DEF Honest
  <2>2. t < currentTerm[v] \/ (t = currentTerm[v] /\ votedFor[v] = B[t][v])
    BY <2>1 DEF Honest
  <2>3. \/ currentTerm'[v] = currentTerm[v] /\ votedFor'[v] = votedFor[v]
        \/ currentTerm'[v] > currentTerm[v]
    BY DEF Quiet
  <2> QED
    BY <1>1, <2>2, <2>3
<1>3. ASSUME NEW n \in Node, NEW p \in Node, n # p
      PROVE  /\ Sought(n, p)' \subseteq Sought(n, p) /\ Given(n, p)' \subseteq Given(n, p)
             /\ Pending(n, p)' \subseteq Pending(n, p)
             /\ Orderly(n, p) => Orderly(n, p)'
  BY <1>3, OrderlyThins DEF Quiet
<1>4. ASSUME NEW n \in Node
      PROVE  Counted(B, n)'
  <2>1. SUFFICES ASSUME state'[n] = "Candidate"
                 PROVE  Counted(B, n)'
    BY DEF Counted
  <2>2. /\ state[n] = "Candidate" /\ currentTerm'[n] = currentTerm[n]
        /\ votesReceived'[n] = votesReceived[n]
    BY <2>1 DEF Quiet
  <2>3. PICK C \in SUBSET Node :
          /\ Cardinality(C) >= votesReceived[n]
          /\ \A v \in C : /\ B[currentTerm[n]][v] = n
                          /\ v # n => currentTerm[n] \notin Pending(n, v)
    BY <2>2 DEF Tally, Counted
  <2>4. \A v \in C : /\ B[currentTerm'[n]][v] = n
                     /\ v # n => currentTerm'[n] \notin Pending(n, v)'
    BY <1>3, <2>2, <2>3
  <2> QED
    BY <2>2, <2>3, <2>4 DEF Counted
<1>5. ASSUME NEW n \in Node, NEW p \in Node, n # p
      PROVE  Posted(B, n, p)'
  <2>1. Posted(B, n, p)
    BY <1>5 DEF Tally
  <2>2. \A t \in Pending(n, p) : t \in Nat
    <3>1. \A s, V : V \subseteq Request \/ V \subseteq Response => Terms(V, s) \subseteq Nat
      BY RaftAssumption DEF Terms, Request, Response
    <3> QED
      BY <3>1 DEF Pending, Sought, Given, VoteRequests, GrantedVotes
  <2>3. currentTerm'[n] >= currentTerm[n]
    BY <1>1 DEF Quiet
  <2>4. \A t \in Pending(n, p)' : t <= currentTerm'[n]
    BY <1>1, <1>3, <1>5, <2>1, <2>2, <2>3 DEF Posted
  <2> QED
    BY <1>3, <1>5, <2>1, <2>4 DEF Posted
<1>6. elected' \subseteq Nat \X Node /\ \A e \in elected' : Won(B, e[1], e[2])
  BY DEF Tally, Quiet
<1> QED
  BY <1>2, <1>4, <1>5, <1>6 DEF Tally, Won

\* Every ballot of B is one of A.
Extends(A, B) == \A t \in Nat, v \in Node : B[t][v] # Nil => A[t][v] = B[t][v]

\* A has one ballot that B may not have, that of v for n in term t.
NewBallot(A, B, t, v, n) ==
  A[t][v] = n /\ \A u \in Nat, w \in Node : u # t \/ w # v => A[u][w] = B[u][w]

\* The ballot is a candidate's own, of a term it goes on to, or granted to a request, by
\* who is not beyond the term.
Own(t, v, n) == v = n /\ t = currentTerm'[n] /\ t > currentTerm[n]

Granted(t, v, n) ==
  /\ n # v /\ conn[n][v].reqs # <<>> /\ t >= currentTerm[v]
  /\ LET req == Head(conn[n][v].reqs)
     IN  req.type = "vote" /\ req.term = t /\ UpToDate(req, log[v])

\* The ballots after a step are those of before, and at most one more.
Cast(A, B) ==
  A = B \/ \E t \in Nat, v, n \in Node : NewBallot(A, B, t, v, n) /\ (Own(t, v, n) \/ Granted(t, v, n))

\* v votes for n in term t, in which it has not voted for anyone else.
LEMMA BallotCast ==
  ASSUME NEW B \in Ballots, NEW t \in Nat, NEW v \in Node, NEW n \in Node, B[t][v] \in {Nil, n}
  PROVE  \E A \in Ballots :
           /\ Extends(A, B) /\ A[t][v] = n
           /\ \A u \in Nat, w \in Node : u # t \/ w # v => A[u][w] = B[u][w]
<1> DEFINE A == [B EXCEPT ![t][v] = n]
<1>1. A \in Ballots
  BY DEF Ballots
<1>2. A[t][v] = n /\ \A u \in Nat, w \in Node : u # t \/ w # v => A[u][w] = B[u][w]
  BY DEF Ballots
<1> HIDE DEF A
<1>3. Extends(A, B)
  BY <1>2 DEF Extends
<1> QED
  BY <1>1, <1>2, <1>3

\* More ballots do not hurt who won, who counted some, nor whose are under way.
LEMMA WonExtends ==
  ASSUME NEW A, NEW B, Extends(A, B), NEW t \in Nat, NEW n \in Node, Won(B, t, n)
  PROVE  Won(A, t, n)
<1>1. n # Nil
  BY RaftAssumption
<1> QED
  BY <1>1 DEF Won, Extends

LEMMA CountedExtends ==
  ASSUME NEW A, NEW B, Extends(A, B), TypeOK, NEW n \in Node, Counted(B, n)
  PROVE  Counted(A, n)
<1>1. n # Nil /\ currentTerm[n] \in Nat
  BY RaftAssumption DEF TypeOK
<1> QED
  BY <1>1 DEF Counted, Extends

LEMMA PendingNat ==
  ASSUME NEW n, NEW p
  PROVE  Pending(n, p) \subseteq Nat /\ Given(n, p) \subseteq Nat
<1>1. \A s, V : V \subseteq Request \/ V \subseteq Response => Terms(V, s) \subseteq Nat
  BY RaftAssumption DEF Terms, Request, Response
<1> QED
  BY <1>1 DEF Pending, Sought, Given, VoteRequests, GrantedVotes

\* The term of the owner may have grown.
LEMMA PostedExtends ==
  ASSUME NEW A, NEW B, Extends(A, B), TypeOK, TypeOK', NEW n \in Node, NEW p \in Node,
         Posted(B, n, p), conn'[n][p] = conn[n][p], currentTerm'[n] >= currentTerm[n]
  PROVE  Posted(A, n, p)'
<1>1. n # Nil /\ currentTerm[n] \in Nat /\ currentTerm'[n] \in Nat
  BY RaftAssumption DEF TypeOK
<1>2. /\ Pending(n, p)' = Pending(n, p) /\ Given(n, p)' = Given(n, p)
      /\ Orderly(n, p)' <=> Orderly(n, p)
  BY DEF Pending, Sought, Given, Orderly
<1>3. Pending(n, p) \subseteq Nat /\ Given(n, p) \subseteq Nat
  BY PendingNat
<1>4. \A t \in Pending(n, p)' : t <= currentTerm'[n]
  BY <1>1, <1>2, <1>3 DEF Posted
<1>5. \A t \in Given(n, p)' : A[t][p] = n
  BY <1>1, <1>2, <1>3 DEF Posted, Extends
<1> QED
  BY <1>2, <1>4, <1>5 DEF Posted

\* What is served, and what is answered.
LEMMA AnswerParts ==
  ASSUME TypeOK, NEW n \in Node, NEW p \in Node, NEW m, Answer(n, p, m)
  PROVE  /\ conn'[n][p].reqs = Tail(conn[n][p].reqs)
         /\ conn'[n][p].resps = Append(conn[n][p].resps, m)
         /\ \A a, b \in Node : <<a, b>> # <<n, p>> => conn'[a][b] = conn[a][b]
BY DEF Answer, TypeOK

LEMMA QuietServed ==
  ASSUME TypeOK, NEW n \in Node, NEW p \in Node, conn[n][p].reqs # <<>>, NEW m,
         Answer(n, p, m), m \notin GrantedVotes
  PROVE  \A a, b \in Node : a # b =>
           /\ Thins(VoteRequests, conn[a][b].reqs, conn'[a][b].reqs)
           /\ Thins(GrantedVotes, conn[a][b].resps, conn'[a][b].resps)
<1>1. /\ conn'[n][p].reqs = Tail(conn[n][p].reqs)
      /\ conn'[n][p].resps = Append(conn[n][p].resps, m)
      /\ \A a, b \in Node : <<a, b>> # <<n, p>> => conn'[a][b] = conn[a][b]
  BY AnswerParts
<1>2. \A a, b \in Node : <<a, b>> = <<n, p>> => a = n /\ b = p
  OBVIOUS
<1> QED
  BY <1>1, <1>2 DEF Thins

\* HandleRequestVote grants the vote or does not.
LEMMA TallyRequestVote ==
  ASSUME TypeOK, TypeOK', NEW n \in Node, NEW p \in Node, n # p, HandleRequestVote(n, p),
         NEW B \in Ballots, Tally(B)
  PROVE  \E A \in Ballots : Tally(A)' /\ Cast(A, B)
<1> DEFINE req == Head(conn[n][p].reqs)
           s == conn[n][p].reqs
           m == [type |-> "vote", term |-> Max({currentTerm[p], req.term}),
                 ok |-> MayVote(p, req), conflict |-> 0]
<1>1. /\ s # <<>> /\ s \in Seq(Request) /\ req.type = "vote" /\ req \in Request
      /\ conn[n][p].resps \in Seq(Response)
  <2>1. s # <<>> /\ req.type = "vote"
    BY DEF HandleRequestVote
  <2>2. s \in Seq(Request) /\ conn[n][p].resps \in Seq(Response)
    BY ConnectionType DEF TypeOK
  <2>3. req \in Request
    <3> HIDE DEF s
    <3>1. Head(s) \in Request
      BY <2>1, <2>2, HeadTailProperties
    <3> QED
      BY <3>1 DEF s
  <2> HIDE DEF s, req
  <2> QED
    BY <2>1, <2>2, <2>3
<1>2. req \in VoteRequests /\ req.term \in Nat /\ req.term \in 0..MaxTerm
  BY <1>1, RequestType, RaftAssumption DEF VoteRequests
<1>3. currentTerm[p] \in Nat /\ votedFor[p] \in Node \cup {Nil} /\ currentTerm[n] \in Nat
  BY RaftAssumption DEF TypeOK
<1>4. Posted(B, n, p)
  BY DEF Tally
<1>5. req.from = n
  <2>1. Len(s) \in Nat /\ 1 \in 1..Len(s) /\ req = s[1]
    BY <1>1, HeadTailProperties, EmptySeq, LenProperties
  <2> QED
    BY <1>2, <1>4, <2>1 DEF Posted, Orderly
<1> DEFINE top == IF currentTerm[p] >= req.term THEN currentTerm[p] ELSE req.term
<1>6. Max({currentTerm[p], req.term}) = top
  <2> HIDE DEF req
  <2> QED
    BY <1>2, <1>3, MaxOfTwo
<1>7. /\ state' = [state EXCEPT ![p] = IF req.term > currentTerm[p] THEN "Follower" ELSE @]
      /\ currentTerm' = [currentTerm EXCEPT ![p] = top]
      /\ votedFor' = [votedFor EXCEPT ![p] = IF MayVote(p, req) THEN n
                                             ELSE IF req.term > currentTerm[p] THEN Nil ELSE @]
      /\ UNCHANGED <<votesReceived, elected>>
      /\ Answer(n, p, m) /\ state[p] # "Shutdown"
  BY <1>6 DEF HandleRequestVote
<1>8. m.type = "vote" /\ m.ok = MayVote(p, req) /\ m.term = top /\ MayVote(p, req) \in BOOLEAN
  BY <1>6 DEF MayVote
<1>9. m \in Response
  <2>1. Max({currentTerm[p], req.term}) \in 0..MaxTerm
    <3> HIDE DEF req
    <3> QED
      BY <1>2, MaxTermOfTwo DEF TypeOK
  <2> HIDE DEF req
  <2> QED
    BY <1>8, <2>1 DEF Response
<1>10. /\ conn'[n][p].reqs = Tail(s)
       /\ conn'[n][p].resps = Append(conn[n][p].resps, m)
       /\ \A a, b \in Node : <<a, b>> # <<n, p>> => conn'[a][b] = conn[a][b]
  BY <1>7, AnswerParts
<1>11. s # <<>> => \/ m \in GrantedVotes
                   \/ \A a, b \in Node : a # b =>
                        /\ Thins(VoteRequests, conn[a][b].reqs, conn'[a][b].reqs)
                        /\ Thins(GrantedVotes, conn[a][b].resps, conn'[a][b].resps)
  BY <1>7, QuietServed
<1> HIDE DEF m, req
<1>12. ASSUME NEW v \in Node
       PROVE  /\ v # p => /\ state'[v] = state[v] /\ currentTerm'[v] = currentTerm[v]
                          /\ votedFor'[v] = votedFor[v]
              /\ v = p => /\ state'[v] = IF req.term > currentTerm[p] THEN "Follower" ELSE state[p]
                          /\ currentTerm'[v] = top
                          /\ votedFor'[v] = IF MayVote(p, req) THEN n
                                            ELSE IF req.term > currentTerm[p] THEN Nil ELSE votedFor[p]
  BY <1>7 DEF TypeOK
<1>13. ASSUME NEW a \in Node, state'[a] = "Candidate"
       PROVE  state[a] = "Candidate" /\ currentTerm'[a] = currentTerm[a]
  BY <1>2, <1>3, <1>12, <1>13
<1>14. CASE ~MayVote(p, req)
  <2>1. \A v \in Node : \/ currentTerm'[v] = currentTerm[v] /\ votedFor'[v] = votedFor[v]
                        \/ currentTerm'[v] > currentTerm[v]
    BY <1>2, <1>3, <1>12, <1>14
  <2>2. m \notin GrantedVotes
    BY <1>8, <1>14 DEF GrantedVotes
  <2>3. Quiet
    BY <1>1, <1>7, <1>11, <1>13, <2>1, <2>2 DEF Quiet
  <2> QED
    BY <2>3, TallyQuiet DEF Cast
<1>15. CASE MayVote(p, req)
  <2>1. /\ req.term >= currentTerm[p]
        /\ req.term > currentTerm[p] \/ votedFor[p] \in {Nil, n}
    BY <1>5, <1>15 DEF MayVote
  <2>2. B[req.term][p] \in {Nil, n}
    BY <1>2, <1>3, <2>1 DEF Tally, Honest
  <2>3. PICK A \in Ballots :
          /\ Extends(A, B) /\ A[req.term][p] = n
          /\ \A u \in Nat, w \in Node : u # req.term \/ w # p => A[u][w] = B[u][w]
    BY <1>2, <2>2, BallotCast
  <2>4. currentTerm'[p] = req.term /\ votedFor'[p] = n /\ top = req.term
    BY <1>2, <1>3, <1>12, <1>15, <2>1
  <2>5. ASSUME NEW u \in Nat, NEW w \in Node, A[u][w] # Nil
        PROVE  u < currentTerm'[w] \/ (u = currentTerm'[w] /\ votedFor'[w] = A[u][w])
    <3>1. CASE w = p /\ u = req.term
      BY <2>3, <2>4, <3>1
    <3>2. CASE w # p
      BY <1>12, <2>3, <2>5, <3>2 DEF Tally, Honest
    <3>3. CASE w = p /\ u # req.term
      <4>1. u <= currentTerm[p]
        BY <1>3, <2>3, <2>5, <3>3 DEF Tally, Honest
      <4> QED
        BY <1>2, <1>3, <2>1, <2>4, <3>3, <4>1
    <3> QED
      BY <3>1, <3>2, <3>3
  <2>6. /\ Sought(n, p)' \subseteq Sought(n, p) /\ req.term \in Sought(n, p)
        /\ req.term \notin Sought(n, p)'
        /\ Given(n, p)' = Given(n, p) \cup {req.term}
        /\ Orderly(n, p)'
    <3>1. Orderly(n, p) /\ Single(VoteRequests, s) /\ Single(GrantedVotes, conn[n][p].resps)
      BY <1>4 DEF Posted, Orderly
    <3>2. /\ \A i \in 1..Len(Tail(s)) : i + 1 \in 1..Len(s) /\ Tail(s)[i] = s[i + 1]
          /\ Terms(VoteRequests, Tail(s)) \subseteq Terms(VoteRequests, s)
          /\ Single(VoteRequests, Tail(s))
          /\ req.term \in Terms(VoteRequests, s)
          /\ req.term \notin Terms(VoteRequests, Tail(s))
      <4> HIDE DEF s
      <4>1. Head(s) = req
        BY DEF s, req
      <4> QED
        BY <1>1, <1>2, <3>1, <4>1, VotesTail
    <3>3. m \in GrantedVotes /\ m.term = req.term
      BY <1>8, <1>9, <1>15, <2>4 DEF GrantedVotes
    <3>4. req.term \notin Given(n, p)
      BY <3>1, <3>2 DEF Orderly, Sought
    <3>5. /\ Terms(GrantedVotes, Append(conn[n][p].resps, m)) = Given(n, p) \cup {req.term}
          /\ Single(GrantedVotes, Append(conn[n][p].resps, m))
      BY <1>1, <3>1, <3>3, <3>4, VotesAppend DEF Given
    <3>6. VoteRequests' = VoteRequests /\ GrantedVotes' = GrantedVotes
      BY DEF VoteRequests, GrantedVotes
    <3>7. /\ Sought(n, p)' = Terms(VoteRequests, Tail(s))
          /\ Given(n, p)' = Given(n, p) \cup {req.term}
      BY <1>10, <3>5, <3>6 DEF Sought, Given
    <3>8. Sought(n, p)' \cap Given(n, p)' = {}
      BY <3>1, <3>2, <3>7 DEF Orderly, Sought
    <3>9. \A i \in 1..Len(Tail(s)) : Tail(s)[i] \in VoteRequests => Tail(s)[i].from = n
      BY <3>1, <3>2 DEF Orderly
    <3>10. Orderly(n, p)'
      BY <1>10, <3>2, <3>5, <3>6, <3>8, <3>9 DEF Orderly
    <3> QED
      BY <3>2, <3>7, <3>10 DEF Sought
  <2>7. Pending(n, p)' \subseteq Pending(n, p)
    BY <2>6 DEF Pending
  <2>8. \A a, b \in Node : a # b => Pending(a, b)' \subseteq Pending(a, b)
    BY <1>10, <2>7 DEF Pending, Sought, Given
  <2>9. ASSUME NEW a \in Node
        PROVE  Counted(A, a)'
    <3>1. Counted(A, a)
      BY <2>3, CountedExtends DEF Tally
    <3>2. SUFFICES ASSUME state'[a] = "Candidate" PROVE Counted(A, a)'
      BY DEF Counted
    <3>3. state[a] = "Candidate" /\ currentTerm'[a] = currentTerm[a]
      BY <1>13, <3>2
    <3>4. PICK C \in SUBSET Node :
            /\ Cardinality(C) >= votesReceived[a]
            /\ \A v \in C : /\ A[currentTerm[a]][v] = a
                            /\ v # a => currentTerm[a] \notin Pending(a, v)
      BY <3>1, <3>3 DEF Counted
    <3>5. \A v \in C : /\ A[currentTerm'[a]][v] = a
                       /\ v # a => currentTerm'[a] \notin Pending(a, v)'
      BY <2>8, <3>3, <3>4
    <3> QED
      BY <1>7, <3>4, <3>5 DEF Counted
  <2>10. ASSUME NEW a \in Node, NEW b \in Node, a # b
         PROVE  Posted(A, a, b)'
    <3>1. CASE <<a, b>> = <<n, p>>
      <4>1. a = n /\ b = p /\ currentTerm'[n] = currentTerm[n]
        BY <1>12, <3>1
      <4>2. \A t \in Pending(n, p)' : t <= currentTerm'[n]
        BY <1>4, <2>7, <4>1 DEF Posted
      <4>3. \A t \in Given(n, p)' : A[t][p] = n
        <5>1. n # Nil
          BY RaftAssumption
        <5> QED
          BY <1>4, <2>3, <2>6, <5>1, PendingNat DEF Posted, Extends
      <4> QED
        BY <2>6, <4>1, <4>2, <4>3 DEF Posted
    <3>2. CASE <<a, b>> # <<n, p>>
      <4>1. currentTerm'[a] >= currentTerm[a]
        <5>1. currentTerm[a] \in Nat
          BY RaftAssumption DEF TypeOK
        <5> QED
          BY <1>2, <1>3, <1>12, <2>1, <2>4, <5>1
      <4>2. Posted(B, a, b)
        BY <2>10 DEF Tally
      <4>3. conn'[a][b] = conn[a][b]
        BY <1>10, <3>2
      <4> QED
        BY <2>3, <4>1, <4>2, <4>3, PostedExtends
    <3> QED
      BY <3>1, <3>2
  <2>11. /\ elected' \subseteq Nat \X Node
         /\ \A e \in elected' : Won(A, e[1], e[2])
    BY <1>7, <2>3, WonExtends DEF Tally
  <2>12. Tally(A)'
    BY <2>5, <2>9, <2>10, <2>11 DEF Tally, Honest, Won
  <2>13. Cast(A, B)
    <3>1. Granted(req.term, p, n)
      BY <1>1, <1>15, <2>1 DEF Granted, MayVote, req
    <3> QED
      BY <1>2, <2>3, <3>1 DEF Cast, NewBallot
  <2> QED
    BY <2>12, <2>13
<1> QED
  BY <1>14, <1>15

\* Two majorities are more than all nodes.
LEMMA MajoritySize == Majority \in Nat /\ 2 * Majority > Cardinality(Node)
<1>1. Cardinality(Node) \in Nat
  BY RaftAssumption, FS_CardinalityType
<1> QED
  BY <1>1 DEF Majority

\* A node's own ballot.
LEMMA OneBallot ==
  ASSUME NEW A \in Ballots, NEW t \in Nat, NEW n \in Node, A[t][n] = n
  PROVE  \E C \in SUBSET Node :
           Cardinality(C) = 1 /\ \A v \in C : v = n /\ A[t][v] = n
<1>1. {n} \in SUBSET Node /\ Cardinality({n}) = 1
  BY FS_Singleton
<1> QED
  BY <1>1

\* startElection: a node votes for itself, and asks the others.
LEMMA TallyElection ==
  ASSUME TypeOK, TypeOK', NEW n \in Node, startElection(n), NEW B \in Ballots, Tally(B)
  PROVE  \E A \in Ballots : Tally(A)' /\ Cast(A, B)
<1> DEFINE term == currentTerm[n] + 1
           req == [type |-> "vote", term |-> term, from |-> n,
                   lastIndex |-> LastIndex(log[n]), lastTerm |-> LastTerm(log[n])]
<1>1. currentTerm[n] \in Nat /\ term \in Nat
  <2>1. currentTerm[n] \in Nat
    BY RaftAssumption DEF TypeOK
  <2> QED
    BY <2>1
<1>2. /\ currentTerm' = [currentTerm EXCEPT ![n] = term]
      /\ votedFor' = [votedFor EXCEPT ![n] = n]
      /\ votesReceived' = [votesReceived EXCEPT ![n] = 1]
  BY DEF startElection
<1>3. /\ currentTerm'[n] = term /\ votedFor'[n] = n /\ votesReceived'[n] = 1
      /\ \A v \in Node \ {n} : /\ currentTerm'[v] = currentTerm[v] /\ votedFor'[v] = votedFor[v]
                               /\ votesReceived'[v] = votesReceived[v]
  BY <1>2 DEF TypeOK
<1>4. B[term][n] = Nil
  BY <1>1 DEF Tally, Honest
<1>5. PICK A \in Ballots :
        /\ Extends(A, B) /\ A[term][n] = n
        /\ \A u \in Nat, w \in Node : u # term \/ w # n => A[u][w] = B[u][w]
  BY <1>1, <1>4, BallotCast
<1>6. Honest(A)'
  <2> SUFFICES ASSUME NEW u \in Nat, NEW w \in Node, A[u][w] # Nil
               PROVE  u < currentTerm'[w] \/ (u = currentTerm'[w] /\ votedFor'[w] = A[u][w])
    BY DEF Honest
  <2>1. CASE w = n /\ u = term
    BY <1>3, <1>5, <2>1
  <2>2. CASE w # n
    BY <1>3, <1>5, <2>2 DEF Tally, Honest
  <2>3. CASE w = n /\ u # term
    <3>1. u <= currentTerm[n]
      BY <1>1, <1>5, <2>3 DEF Tally, Honest
    <3> QED
      BY <1>1, <1>3, <2>3, <3>1
  <2> QED
    BY <2>1, <2>2, <2>3
<1>7. PICK C \in SUBSET Node :
        Cardinality(C) = 1 /\ \A v \in C : v = n /\ A[term][v] = n
  BY <1>1, <1>5, OneBallot, SMTT(20)
<1>8. \A e \in elected : e \in Nat \X Node /\ Won(A, e[1], e[2])
  BY <1>5, WonExtends DEF Tally
<1>9. ASSUME NEW a \in Node, a # n, state'[a] = state[a], conn'[a] = conn[a]
      PROVE  Counted(A, a)'
  <2>1. Counted(A, a)
    BY <1>5, CountedExtends DEF Tally
  <2>2. \A v : Pending(a, v)' = Pending(a, v)
    BY <1>9 DEF Pending, Sought, Given
  <2> QED
    BY <1>3, <1>9, <2>1, <2>2 DEF Counted
<1>10. Cast(A, B)
  <2>1. term > currentTerm[n]
    BY <1>1
  <2> HIDE DEF term
  <2>2. Own(term, n, n)
    BY <1>3, <2>1 DEF Own
  <2> QED
    BY <1>1, <1>5, <2>2 DEF Cast, NewBallot
<1>11. \A a \in Node : currentTerm'[a] >= currentTerm[a]
  <2>1. \A a \in Node : currentTerm[a] \in Nat
    BY RaftAssumption DEF TypeOK
  <2> QED
    BY <1>1, <1>3, <2>1
<1>12. ASSUME NEW a \in Node, NEW b \in Node, a # b, conn'[a][b] = conn[a][b]
       PROVE  Posted(A, a, b)'
  <2>1. Posted(B, a, b)
    BY <1>12 DEF Tally
  <2> QED
    BY <1>5, <1>11, <1>12, <2>1, PostedExtends
<1>13. CASE Majority <= 1 /\ becomeLeader(n, term) /\ UNCHANGED <<voteCalls, conn>>
  <2>1. /\ elected' = elected \cup {<<term, n>>}
        /\ state' = [state EXCEPT ![n] = "Leader"]
    BY <1>13 DEF becomeLeader
  <2>2. state'[n] = "Leader" /\ \A a \in Node \ {n} : state'[a] = state[a]
    BY <2>1 DEF TypeOK
  <2>3. Won(A, term, n)
    BY <1>7, <1>13, MajoritySize DEF Won
  <2>4. \A e \in elected' : e \in Nat \X Node /\ Won(A, e[1], e[2])
    BY <1>1, <1>8, <2>1, <2>3
  <2>5. \A a \in Node : Counted(A, a)'
    BY <1>9, <1>13, <2>2 DEF Counted
  <2>6. \A a, b \in Node : a # b => Posted(A, a, b)'
    BY <1>12, <1>13
  <2>7. Tally(A)'
    BY <1>6, <2>4, <2>5, <2>6 DEF Tally, Won
  <2> QED
    BY <1>10, <2>7
<1>14. CASE /\ state' = [state EXCEPT ![n] = "Candidate"]
            /\ conn' = [conn EXCEPT ![n] =
                          [p \in Node |-> IF p = n THEN NoConn ELSE Send(@[p], p, req)]]
            /\ elected' = elected
  <2>1. \A a \in Node \ {n} : state'[a] = state[a] /\ conn'[a] = conn[a]
    BY <1>14 DEF TypeOK
  <2>2. \A p \in Node \ {n} : conn'[n][p] = Send(conn[n][p], p, req)
    BY <1>14 DEF TypeOK
  <2>3. req.type = "vote" /\ req.term = term /\ req.from = n
    OBVIOUS
  <2> HIDE DEF req
  <2>4. ASSUME NEW p \in Node, p # n
        PROVE  Posted(A, n, p)'
    <3> DEFINE s == conn[n][p].reqs
    <3>1. /\ s \in Seq(Request) /\ conn'[n][p] \in Connection /\ conn[n][p] \in Connection
      BY ConnectionType DEF TypeOK
    <3>2. Posted(B, n, p)
      BY <2>4 DEF Tally
    <3>3. CASE conn'[n][p] = conn[n][p]
      BY <1>12, <2>4, <3>3
    <3>4. CASE conn'[n][p] = [conn[n][p] EXCEPT !.reqs = Append(@, req)]
      <4>1. conn'[n][p].reqs = Append(s, req) /\ conn'[n][p].resps = conn[n][p].resps
        BY <3>1, <3>4 DEF Connection
      <4>2. term \notin Pending(n, p)
        BY <1>1, <3>2 DEF Posted
      <4>3. /\ \A i \in 1..Len(Append(s, req)) :
                 Append(s, req)[i] = req \/ (i \in 1..Len(s) /\ Append(s, req)[i] = s[i])
            /\ Terms(VoteRequests, Append(s, req)) \subseteq Sought(n, p) \cup {term}
            /\ Single(VoteRequests, Append(s, req))
        <5>1. /\ \A i \in 1..Len(Append(s, req)) :
                   Append(s, req)[i] = req \/ (i \in 1..Len(s) /\ Append(s, req)[i] = s[i])
              /\ Terms(VoteRequests, Append(s, req)) =
                   Terms(VoteRequests, s) \cup (IF req \in VoteRequests THEN {req.term} ELSE {})
              /\ Single(VoteRequests, s) /\ (req \in VoteRequests => req.term \notin Terms(VoteRequests, s))
                   => Single(VoteRequests, Append(s, req))
          <6> HIDE DEF s
          <6> QED
            BY <3>1, VotesAppend
        <5> QED
          BY <2>3, <3>2, <4>2, <5>1 DEF Posted, Orderly, Pending, Sought
      <4>4. VoteRequests' = VoteRequests /\ GrantedVotes' = GrantedVotes
        BY DEF VoteRequests, GrantedVotes
      <4>5. Sought(n, p)' \subseteq Sought(n, p) \cup {term} /\ Given(n, p)' = Given(n, p)
        BY <4>1, <4>3, <4>4 DEF Sought, Given
      <4>6. Orderly(n, p)'
        <5>1. \A i \in 1..Len(Append(s, req)) :
                Append(s, req)[i] \in VoteRequests => Append(s, req)[i].from = n
          BY <2>3, <3>2, <4>3 DEF Posted, Orderly
        <5>2. Sought(n, p)' \cap Given(n, p)' = {}
          BY <3>2, <4>2, <4>5 DEF Posted, Orderly, Pending
        <5>3. Single(GrantedVotes, conn[n][p].resps)
          BY <3>2 DEF Posted, Orderly
        <5> QED
          BY <4>1, <4>3, <4>4, <5>1, <5>2, <5>3 DEF Orderly
      <4>7. \A t \in Pending(n, p)' : t <= currentTerm'[n]
        <5>1. \A t \in Pending(n, p) : t \in Nat /\ t <= currentTerm[n]
          BY <3>2, PendingNat DEF Posted
        <5>2. Pending(n, p)' \subseteq Pending(n, p) \cup {term}
          BY <4>5 DEF Pending
        <5> QED
          BY <1>1, <1>3, <5>1, <5>2
      <4>8. \A t \in Given(n, p)' : A[t][p] = n
        <5>1. n # Nil /\ Given(n, p) \subseteq Nat
          BY RaftAssumption, PendingNat
        <5> QED
          BY <1>5, <3>2, <4>5, <5>1 DEF Posted, Extends
      <4> QED
        BY <4>6, <4>7, <4>8 DEF Posted
    <3> QED
      BY <2>2, <2>4, <3>3, <3>4 DEF Send
  <2>5. Counted(A, n)'
    BY <1>3, <1>7 DEF Counted
  <2>6. \A a \in Node : Counted(A, a)'
    BY <1>9, <2>1, <2>5
  <2>7. \A a, b \in Node : a # b => Posted(A, a, b)'
    BY <1>12, <2>1, <2>4
  <2>8. elected' \subseteq Nat \X Node /\ \A e \in elected' : Won(A, e[1], e[2])
    BY <1>8, <1>14
  <2>9. Tally(A)'
    BY <1>6, <2>6, <2>7, <2>8 DEF Tally, Won
  <2> QED
    BY <1>10, <2>9
<1> QED
  BY <1>13, <1>14 DEF startElection

\* A step with which no vote request and no granted vote comes onto a connection, between
\* the terms and votes of before.
LEMMA QuietStep ==
  ASSUME UNCHANGED <<state, currentTerm, votedFor, votesReceived, elected>>,
         \A a, b \in Node : a # b =>
           /\ Thins(VoteRequests, conn[a][b].reqs, conn'[a][b].reqs)
           /\ Thins(GrantedVotes, conn[a][b].resps, conn'[a][b].resps)
  PROVE  Quiet
BY DEF Quiet

\* A node that takes a higher term is no candidate, and has not voted in it.
LEMMA QuietStepDown ==
  ASSUME TypeOK, NEW p \in Node, NEW t \in 0..MaxTerm, t > currentTerm[p], StepDown(p, t),
         UNCHANGED <<votesReceived, elected>>,
         \A a, b \in Node : a # b =>
           /\ Thins(VoteRequests, conn[a][b].reqs, conn'[a][b].reqs)
           /\ Thins(GrantedVotes, conn[a][b].resps, conn'[a][b].resps)
  PROVE  Quiet
<1>1. currentTerm[p] \in Nat /\ t \in Nat
  BY RaftAssumption DEF TypeOK
<1>2. Max({currentTerm[p], t}) = t
  BY <1>1, MaxOfTwo
<1>3. currentTerm' = [currentTerm EXCEPT ![p] = t]
  BY <1>2 DEF StepDown
<1>4. /\ state' = [state EXCEPT ![p] = "Follower"]
      /\ votedFor' = [votedFor EXCEPT ![p] = Nil]
  BY DEF StepDown
<1>5. \A v \in Node \ {p} : /\ currentTerm'[v] = currentTerm[v] /\ votedFor'[v] = votedFor[v]
                            /\ state'[v] = state[v]
  BY <1>3, <1>4 DEF TypeOK
<1>6. currentTerm'[p] = t /\ state'[p] = "Follower"
  BY <1>3, <1>4 DEF TypeOK
<1> QED
  BY <1>1, <1>5, <1>6 DEF Quiet

\* HandleAppendEntries.
LEMMA QuietAppendEntries ==
  ASSUME TypeOK, NEW n \in Node, NEW p \in Node, n # p, HandleAppendEntries(n, p)
  PROVE  Quiet
<1> DEFINE req == Head(conn[n][p].reqs)
<1>1. /\ conn[n][p].reqs # <<>>
      /\ UNCHANGED <<votesReceived, elected>>
      /\ \E m : m.type = "append" /\ Answer(n, p, m)
      /\ IF req.term > currentTerm[p] THEN StepDown(p, req.term)
                                      ELSE UNCHANGED <<state, currentTerm, votedFor>>
  BY DEF HandleAppendEntries
<1>2. PICK m : m.type = "append" /\ Answer(n, p, m)
  BY <1>1
<1>3. m \notin GrantedVotes
  BY <1>2 DEF GrantedVotes
<1>4. \A a, b \in Node : a # b =>
           /\ Thins(VoteRequests, conn[a][b].reqs, conn'[a][b].reqs)
           /\ Thins(GrantedVotes, conn[a][b].resps, conn'[a][b].resps)
  BY <1>1, <1>2, <1>3, QuietServed
<1>5. req.term \in 0..MaxTerm
  <2>1. conn[n][p] \in Connection
    BY DEF TypeOK
  <2>2. req \in Request
    BY <1>1, <2>1, ConnectionType
  <2> HIDE DEF req
  <2> QED
    BY <2>2, RequestType
<1> HIDE DEF req
<1>6. CASE req.term > currentTerm[p] /\ StepDown(p, req.term)
  BY <1>1, <1>4, <1>5, <1>6, QuietStepDown
<1>7. CASE UNCHANGED <<state, currentTerm, votedFor>>
  BY <1>1, <1>4, <1>7, QuietStep
<1> QED
  BY <1>1, <1>6, <1>7

\* What a round sends is no vote request.
LEMMA QuietNextPeer ==
  ASSUME TypeOK, NEW n \in Node, NEW r, NEW rd \in Round, NEW ni,
         NEW cn \in [Node -> Connection], NextPeer(n, r, rd, cn, ni),
         \A q \in Node : /\ cn[q].reqs = conn[n][q].reqs
                         /\ Thins(GrantedVotes, conn[n][q].resps, cn[q].resps)
  PROVE  \A a, b \in Node : a # b =>
           /\ Thins(VoteRequests, conn[a][b].reqs, conn'[a][b].reqs)
           /\ Thins(GrantedVotes, conn[a][b].resps, conn'[a][b].resps)
<1>1. ASSUME NEW row, conn' = [conn EXCEPT ![n] = row],
             \A q \in Node : /\ Thins(VoteRequests, conn[n][q].reqs, row[q].reqs)
                             /\ Thins(GrantedVotes, conn[n][q].resps, row[q].resps)
      PROVE  \A a, b \in Node :
               /\ Thins(VoteRequests, conn[a][b].reqs, conn'[a][b].reqs)
               /\ Thins(GrantedVotes, conn[a][b].resps, conn'[a][b].resps)
  <2>1. conn'[n] = row /\ \A a \in Node \ {n} : conn'[a] = conn[a]
    BY <1>1 DEF TypeOK
  <2>2. \A V, s : Thins(V, s, s)
    BY DEF Thins
  <2> QED
    BY <1>1, <2>1, <2>2
<1>2. CASE conn' = [conn EXCEPT ![n] = cn]
  <2>1. \A q \in Node : Thins(VoteRequests, conn[n][q].reqs, cn[q].reqs)
    BY DEF Thins
  <2> QED
    BY <1>1, <1>2, <2>1
<1>3. ASSUME NEW p \in rd.todo, NEW req, req.type = "append",
             conn' = [conn EXCEPT ![n] = [cn EXCEPT ![p] = Send(cn[p], p, req)]]
      PROVE  \A a, b \in Node :
               /\ Thins(VoteRequests, conn[a][b].reqs, conn'[a][b].reqs)
               /\ Thins(GrantedVotes, conn[a][b].resps, conn'[a][b].resps)
  <2> DEFINE row == [cn EXCEPT ![p] = Send(cn[p], p, req)]
  <2>1. req \notin VoteRequests
    BY <1>3 DEF VoteRequests
  <2>2. p \in Node
    BY DEF Round
  <2>3. row[p] = Send(cn[p], p, req) /\ \A q \in Node \ {p} : row[q] = cn[q]
    BY <2>2
  <2>4. /\ row[p].reqs = cn[p].reqs \/ row[p].reqs = Append(cn[p].reqs, req)
        /\ row[p].resps = cn[p].resps
    BY <2>2, <2>3 DEF Send, Connection
  <2> HIDE DEF row
  <2>5. \A q \in Node : Thins(VoteRequests, conn[n][q].reqs, row[q].reqs)
    BY <2>1, <2>2, <2>3, <2>4 DEF Thins
  <2>6. \A q \in Node : Thins(GrantedVotes, conn[n][q].resps, row[q].resps)
    BY <2>2, <2>3, <2>4
  <2>7. conn' = [conn EXCEPT ![n] = row]
    BY <1>3 DEF row
  <2> QED
    BY <1>1, <2>5, <2>6, <2>7
<1>4. ASSUME NEW p \in rd.todo,
             LET req == AppendRequest(n, p, rd, ni[p])
             IN  conn' = [conn EXCEPT ![n] = [cn EXCEPT ![p] = Send(@, p, req)]]
      PROVE  \A a, b \in Node :
               /\ Thins(VoteRequests, conn[a][b].reqs, conn'[a][b].reqs)
               /\ Thins(GrantedVotes, conn[a][b].resps, conn'[a][b].resps)
  <2>1. AppendRequest(n, p, rd, ni[p]).type = "append"
    BY DEF AppendRequest
  <2> QED
    BY <1>3, <1>4, <2>1
<1> QED
  BY <1>2, <1>4 DEF NextPeer

LEMMA QuietStartRound ==
  ASSUME TypeOK, NEW n \in Node, NEW r \in Rounds, StartRound(n, r)
  PROVE  Quiet
<1> DEFINE rd == [Idle EXCEPT !.term = currentTerm[n], !.commit = commitIndex[n],
                              !.todo = Peers(n)]
<1>1. /\ NextPeer(n, r, rd, conn[n], nextIndex[n])
      /\ UNCHANGED <<state, currentTerm, votedFor, votesReceived, elected>>
  BY DEF StartRound, persistent
<1>2. rd = [term |-> currentTerm[n], commit |-> commitIndex[n], todo |-> Peers(n),
            peer |-> Nil, last |-> 0]
  BY BegunRound
<1> HIDE DEF rd
<1>3. rd \in Round
  BY <1>2 DEF Round, Peers, TypeOK
<1>4. conn[n] \in [Node -> Connection]
  BY DEF TypeOK
<1>5. \A q \in Node : Thins(GrantedVotes, conn[n][q].resps, conn[n][q].resps)
  BY DEF Thins
<1> QED
  BY <1>1, <1>3, <1>4, <1>5, QuietNextPeer, QuietStep

LEMMA QuietAppendReply ==
  ASSUME TypeOK, NEW n \in Node, NEW r \in Rounds, AppendReply(n, r)
  PROVE  Quiet
<1> DEFINE rd == round[n][r]
           p == rd.peer
           resp == Head(conn[n][p].resps)
           cn == [conn[n] EXCEPT ![p] = Read(n, p)]
<1>1. /\ p # Nil /\ conn[n][p].resps # <<>>
      /\ UNCHANGED <<votesReceived, elected>>
      /\ \/ /\ resp.term > currentTerm[n] /\ StepDown(n, resp.term)
            /\ conn' = [conn EXCEPT ![n] = cn]
         \/ /\ UNCHANGED <<state, currentTerm, votedFor>>
            /\ \E ni : NextPeer(n, r, rd, cn, ni)
  BY DEF AppendReply
<1>2. rd \in Round /\ p \in Node
  <2>1. rd \in Round
    BY DEF TypeOK
  <2> QED
    BY <1>1, <2>1 DEF Round
<1>3. Read(n, p) \in Connection /\ resp \in Response
  <2> HIDE DEF p
  <2> QED
    BY <1>1, <1>2, ReadType
<1>4. /\ cn \in [Node -> Connection] /\ cn[p] = Read(n, p)
      /\ \A q \in Node \ {p} : cn[q] = conn[n][q]
  <2> HIDE DEF p
  <2> QED
    BY <1>2, <1>3 DEF TypeOK
<1>5. Read(n, p).reqs = conn[n][p].reqs /\ Read(n, p).resps = Tail(conn[n][p].resps)
  <2> HIDE DEF p
  <2>1. conn[n][p] \in Connection
    BY <1>2 DEF TypeOK
  <2> QED
    BY <2>1 DEF Read, Connection
<1>6. resp.term \in 0..MaxTerm
  BY <1>3 DEF Response
<1> HIDE DEF rd, p, resp, cn
<1>7. \A q \in Node : /\ cn[q].reqs = conn[n][q].reqs
                      /\ Thins(GrantedVotes, conn[n][q].resps, cn[q].resps)
  BY <1>1, <1>2, <1>4, <1>5 DEF Thins
<1>8. CASE resp.term > currentTerm[n] /\ StepDown(n, resp.term) /\ conn' = [conn EXCEPT ![n] = cn]
  <2>1. conn'[n] = cn /\ \A a \in Node \ {n} : conn'[a] = conn[a]
    BY <1>8 DEF TypeOK
  <2>2. \A V, s : Thins(V, s, s)
    BY DEF Thins
  <2>3. \A a, b \in Node : a # b =>
           /\ Thins(VoteRequests, conn[a][b].reqs, conn'[a][b].reqs)
           /\ Thins(GrantedVotes, conn[a][b].resps, conn'[a][b].resps)
    BY <1>7, <2>1, <2>2
  <2> QED
    BY <1>1, <1>6, <1>8, <2>3, QuietStepDown
<1>9. ASSUME NEW ni, NextPeer(n, r, rd, cn, ni), UNCHANGED <<state, currentTerm, votedFor>>
      PROVE  Quiet
  BY <1>1, <1>2, <1>4, <1>7, <1>9, QuietNextPeer, QuietStep
<1> QED
  BY <1>1, <1>8, <1>9

\* A crash that leaves state.json as it was.
LEMMA QuietDown ==
  ASSUME TypeOK, NEW n \in Node, NEW lost, NEW torn \in BOOLEAN, Down(n, lost, torn),
         "torn" \notin mishaps'
  PROVE  Quiet
<1>1. torn = FALSE
  BY DEF Down
<1>2. /\ state' = [state EXCEPT ![n] = "Shutdown"] /\ elected' = elected
      /\ currentTerm' = [currentTerm EXCEPT ![n] = currentTerm[n]]
      /\ votedFor' = [votedFor EXCEPT ![n] = votedFor[n]]
      /\ votesReceived' = [votesReceived EXCEPT ![n] = 0]
      /\ conn' = [a \in Node |-> [b \in Node |->
                IF b = n THEN NoConn
                ELSE IF a = n THEN IF b \in lost THEN NoConn ELSE [conn[n][b] EXCEPT !.resps = <<>>]
                ELSE conn[a][b]]]
  BY <1>1 DEF Down
<1>3. \A v \in Node : currentTerm'[v] = currentTerm[v] /\ votedFor'[v] = votedFor[v]
  BY <1>2 DEF TypeOK
<1>4. \A v \in Node : state'[v] = "Candidate" => state[v] = "Candidate" /\ v # n
  BY <1>2 DEF TypeOK
<1>5. \A v \in Node : v # n => votesReceived'[v] = votesReceived[v]
  BY <1>2 DEF TypeOK
<1>6. ASSUME NEW a \in Node, NEW b \in Node
      PROVE  /\ conn'[a][b].reqs \in {<<>>, conn[a][b].reqs}
             /\ conn'[a][b].resps \in {<<>>, conn[a][b].resps}
  <2>1. conn[n][b] \in Connection
    BY DEF TypeOK
  <2>2. conn'[a][b] \in {NoConn, [conn[n][b] EXCEPT !.resps = <<>>], conn[a][b]}
    BY <1>2
  <2>3. NoConn.reqs = <<>> /\ NoConn.resps = <<>>
    BY DEF NoConn
  <2>4. \/ a = n /\ conn'[a][b] = [conn[n][b] EXCEPT !.resps = <<>>]
        \/ conn'[a][b] \in {NoConn, conn[a][b]}
    BY <1>2
  <2> QED
    BY <2>1, <2>3, <2>4 DEF Connection
<1>7. \A a, b \in Node :
        /\ Thins(VoteRequests, conn[a][b].reqs, conn'[a][b].reqs)
        /\ Thins(GrantedVotes, conn[a][b].resps, conn'[a][b].resps)
  BY <1>6 DEF Thins
<1> QED
  BY <1>2, <1>3, <1>4, <1>5, <1>7 DEF Quiet

LEMMA QuietCrash ==
  ASSUME TypeOK, NEW n \in Node, Crash(n), "torn" \notin mishaps'
  PROVE  Quiet
<1>1. scope.torn \in BOOLEAN
  BY RaftAssumption DEF TypeOK, Scope
<1>2. PICK torn \in {FALSE, scope.torn} : \E lost : Down(n, lost, torn)
  BY DEF Crash
<1> QED
  BY <1>1, <1>2, QuietDown

LEMMA QuietCallFails ==
  ASSUME TypeOK, NEW n \in Node, NEW p \in Node, CallFails(n, p), "torn" \notin mishaps'
  PROVE  Quiet
<1>1. CASE \E lost : Down(n, lost, FALSE)
  BY <1>1, QuietDown
<1>2. CASE /\ conn' = [conn EXCEPT ![n][p] = NoConn]
           /\ UNCHANGED <<state, persistent, votesReceived, elected>>
  <2>1. \A a, b \in Node : conn'[a][b] \in {NoConn, conn[a][b]}
    BY <1>2 DEF TypeOK
  <2>2. NoConn.reqs = <<>> /\ NoConn.resps = <<>>
    BY DEF NoConn
  <2>3. \A a, b \in Node :
          /\ Thins(VoteRequests, conn[a][b].reqs, conn'[a][b].reqs)
          /\ Thins(GrantedVotes, conn[a][b].resps, conn'[a][b].resps)
    BY <2>1, <2>2 DEF Thins
  <2> QED
    BY <1>2, <2>3, QuietStep DEF persistent
<1> QED
  BY <1>1, <1>2 DEF CallFails

LEMMA QuietRestart ==
  ASSUME TypeOK, NEW n \in Node, Restart(n)
  PROVE  Quiet
<1>1. /\ state' = [state EXCEPT ![n] = "Follower"]
      /\ conn' = [conn EXCEPT ![n] = [p \in Node |-> NoConn]]
      /\ UNCHANGED <<currentTerm, votedFor, votesReceived, elected>>
  BY DEF Restart, persistent
<1>2. \A a, b \in Node : conn'[a][b] \in {NoConn, conn[a][b]}
  BY <1>1 DEF TypeOK
<1>3. NoConn.reqs = <<>> /\ NoConn.resps = <<>>
  BY DEF NoConn
<1>4. \A a, b \in Node :
        /\ Thins(VoteRequests, conn[a][b].reqs, conn'[a][b].reqs)
        /\ Thins(GrantedVotes, conn[a][b].resps, conn'[a][b].resps)
  BY <1>2, <1>3 DEF Thins
<1>5. \A v \in Node : state'[v] = "Candidate" => state[v] = "Candidate"
  BY <1>1 DEF TypeOK
<1> QED
  BY <1>1, <1>4, <1>5 DEF Quiet

\* An answer is counted as a vote only if it is a ballot of the term.
LEMMA TallyVoteReply ==
  ASSUME TypeOK, TypeOK', NEW n \in Node, NEW p \in Node, n # p, NEW t \in 1..MaxTerm,
         VoteReply(n, p, t), "miscounted" \notin mishaps', NEW B \in Ballots, Tally(B)
  PROVE  Tally(B)'
<1> DEFINE a == conn[n][p].resps
           resp == Head(a)
           won == /\ resp.term <= currentTerm[n]
                  /\ state[n] = "Candidate" /\ currentTerm[n] = t
                  /\ resp.type = "vote" /\ resp.ok
<1>1. /\ a # <<>> /\ conn' = [conn EXCEPT ![n][p] = Read(n, p)]
      /\ votesReceived' = [votesReceived EXCEPT ![n] = IF won THEN votesReceived[n] + 1
                                                              ELSE votesReceived[n]]
      /\ won => resp.term = t
      /\ \/ /\ resp.term > currentTerm[n] /\ StepDown(n, resp.term) /\ elected' = elected
         \/ /\ won /\ votesReceived[n] + 1 >= Majority /\ becomeLeader(n, t)
            /\ UNCHANGED <<currentTerm, votedFor>>
         \/ UNCHANGED <<state, elected, currentTerm, votedFor>>
  BY DEF VoteReply
<1>2. conn[n][p] \in Connection /\ a \in Seq(Response) /\ conn[n][p].reqs \in Seq(Request)
  BY ConnectionType DEF TypeOK
<1>3. resp \in Response /\ resp.term \in 0..MaxTerm /\ resp.term \in Nat
  <2>1. resp \in Response
    <3> HIDE DEF a
    <3> QED
      BY <1>1, <1>2, HeadTailProperties
  <2> HIDE DEF resp
  <2> QED
    BY <2>1, RaftAssumption DEF Response
<1>4. conn'[n][p].reqs = conn[n][p].reqs /\ conn'[n][p].resps = Tail(a)
  BY <1>1, <1>2 DEF Read, TypeOK, Connection
<1>5. \A x, y \in Node : <<x, y>> # <<n, p>> => conn'[x][y] = conn[x][y]
  BY <1>1 DEF TypeOK
<1>6. \A x, y \in Node :
        /\ Thins(VoteRequests, conn[x][y].reqs, conn'[x][y].reqs)
        /\ Thins(GrantedVotes, conn[x][y].resps, conn'[x][y].resps)
  BY <1>1, <1>4, <1>5 DEF Thins
<1>7. (resp \in GrantedVotes) <=> (resp.type = "vote" /\ resp.ok)
  BY <1>3 DEF GrantedVotes
<1>8. /\ Posted(B, n, p)
      /\ Single(GrantedVotes, a)
      /\ resp \in GrantedVotes => /\ resp.term \in Given(n, p)
                                  /\ resp.term \notin Terms(GrantedVotes, Tail(a))
  <2>1. Posted(B, n, p)
    BY DEF Tally
  <2>2. Single(GrantedVotes, a)
    BY <2>1 DEF Posted, Orderly
  <2>3. resp \in GrantedVotes => /\ resp.term \in Terms(GrantedVotes, a)
                                 /\ resp.term \notin Terms(GrantedVotes, Tail(a))
    <3> HIDE DEF a
    <3> QED
      BY <1>1, <1>2, <2>2, VotesTail
  <2> QED
    BY <2>1, <2>2, <2>3 DEF Given
<1> HIDE DEF won, resp, a
<1>9. CASE ~won
  <2>1. votesReceived' = votesReceived
    BY <1>1, <1>9 DEF TypeOK
  <2>2. CASE resp.term > currentTerm[n] /\ StepDown(n, resp.term) /\ elected' = elected
    BY <1>3, <1>6, <2>1, <2>2, QuietStepDown, TallyQuiet
  <2>3. CASE UNCHANGED <<state, elected, currentTerm, votedFor>>
    BY <1>6, <2>1, <2>3, QuietStep, TallyQuiet
  <2> QED
    BY <1>1, <1>9, <2>2, <2>3
<1>10. CASE won
  <2>1. /\ state[n] = "Candidate" /\ currentTerm[n] = t /\ resp.term = t
        /\ resp \in GrantedVotes /\ ~(resp.term > currentTerm[n])
    BY <1>1, <1>3, <1>7, <1>10 DEF won
  <2>2. UNCHANGED <<currentTerm, votedFor>>
    BY <1>1, <2>1
  <2>3. t \in Nat /\ t \in Given(n, p) /\ t \in Pending(n, p) /\ B[t][p] = n
    BY <1>8, <2>1 DEF Posted, Pending
  <2>4. PICK C \in SUBSET Node :
          /\ Cardinality(C) >= votesReceived[n]
          /\ \A v \in C : B[t][v] = n /\ (v # n => t \notin Pending(n, v))
    BY <2>1 DEF Tally, Counted
  <2> DEFINE D == C \cup {p}
  <2>5. p \notin C
    BY <2>3, <2>4
  <2>6. D \in SUBSET Node /\ Cardinality(D) >= votesReceived[n] + 1
    <3>1. IsFiniteSet(C)
      BY RaftAssumption, FS_Subset
    <3>2. Cardinality(D) = Cardinality(C) + 1 /\ Cardinality(C) \in Nat
      BY <2>5, <3>1, FS_AddElement, FS_CardinalityType
    <3>3. votesReceived[n] \in Nat
      BY DEF TypeOK
    <3> QED
      BY <2>4, <3>2, <3>3
  <2>7. \A v \in D : B[t][v] = n
    BY <2>3, <2>4
  <2>8. \A x, y \in Node : x # y =>
          /\ Sought(x, y)' \subseteq Sought(x, y) /\ Given(x, y)' \subseteq Given(x, y)
          /\ Pending(x, y)' \subseteq Pending(x, y)
          /\ Orderly(x, y) => Orderly(x, y)'
    BY <1>6, OrderlyThins
  <2>9. t \notin Pending(n, p)'
    <3>1. t \notin Sought(n, p)
      BY <1>8, <2>3 DEF Posted, Orderly
    <3>2. GrantedVotes' = GrantedVotes
      BY DEF GrantedVotes, Response
    <3>3. Given(n, p)' = Terms(GrantedVotes, Tail(a))
      BY <1>4, <3>2 DEF Given
    <3> QED
      BY <1>8, <2>1, <2>8, <3>1, <3>3 DEF Pending
  <2>10. \A v \in D : v # n => t \notin Pending(n, v)'
    BY <2>4, <2>8, <2>9
  <2>11. votesReceived' = [votesReceived EXCEPT ![n] = votesReceived[n] + 1]
    BY <1>1, <1>10
  <2>12. \A x \in Node \ {n} : state'[x] = state[x]
    <3>1. becomeLeader(n, t) => state' = [state EXCEPT ![n] = "Leader"]
      BY DEF becomeLeader
    <3> QED
      BY <1>1, <2>1, <3>1 DEF TypeOK
  <2>13. ASSUME NEW x \in Node
         PROVE  Counted(B, x)'
    <3>1. CASE x = n
      <4>1. votesReceived'[n] = votesReceived[n] + 1
        BY <2>11 DEF TypeOK
      <4> HIDE DEF D
      <4> QED
        BY <2>1, <2>2, <2>6, <2>7, <2>10, <3>1, <4>1 DEF Counted
    <3>2. CASE x # n
      <4>1. /\ state'[x] = state[x] /\ currentTerm'[x] = currentTerm[x]
            /\ votesReceived'[x] = votesReceived[x]
        BY <2>2, <2>11, <2>12, <3>2 DEF TypeOK
      <4>2. \A v \in Node : v # x => Pending(x, v)' \subseteq Pending(x, v)
        BY <2>8
      <4>3. SUFFICES ASSUME state'[x] = "Candidate"
                     PROVE  Counted(B, x)'
        BY DEF Counted
      <4>4. PICK E \in SUBSET Node :
              /\ Cardinality(E) >= votesReceived[x]
              /\ \A v \in E : /\ B[currentTerm[x]][v] = x
                              /\ v # x => currentTerm[x] \notin Pending(x, v)
        BY <4>1, <4>3 DEF Tally, Counted
      <4>5. \A v \in E : /\ B[currentTerm'[x]][v] = x
                         /\ v # x => currentTerm'[x] \notin Pending(x, v)'
        BY <4>1, <4>2, <4>4
      <4> QED
        BY <4>1, <4>4, <4>5 DEF Counted
    <3> QED
      BY <3>1, <3>2
  <2>14. ASSUME NEW x \in Node, NEW y \in Node, x # y
         PROVE  Posted(B, x, y)'
    <3>1. Posted(B, x, y)
      BY <2>14 DEF Tally
    <3> QED
      BY <2>2, <2>8, <2>14, <3>1 DEF Posted
  <2>15. elected' \subseteq Nat \X Node /\ \A e \in elected' : Won(B, e[1], e[2])
    <3>1. CASE elected' = elected
      BY <3>1 DEF Tally
    <3>2. CASE votesReceived[n] + 1 >= Majority /\ elected' = elected \cup {<<t, n>>}
      <4>1. Cardinality(D) >= Majority
        <5>1. Cardinality(D) \in Nat /\ votesReceived[n] \in Nat
          BY <2>6, RaftAssumption, FS_Subset, FS_CardinalityType DEF TypeOK
        <5> QED
          BY <2>6, <3>2, <5>1, MajoritySize
      <4>2. Won(B, t, n)
        BY <2>6, <2>7, <4>1 DEF Won
      <4> QED
        BY <2>3, <3>2, <4>2 DEF Tally
    <3> QED
      BY <1>1, <2>1, <3>1, <3>2 DEF becomeLeader
  <2>16. Honest(B)'
    BY <2>2 DEF Tally, Honest
  <2> QED
    BY <2>13, <2>14, <2>15, <2>16 DEF Tally, Won
<1> QED
  BY <1>9, <1>10

\* The ballots go on.
LEMMA TallyKept ==
  ASSUME TypeOK, TypeOK', [Next]_vars, Without({"miscounted", "torn"})',
         NEW B \in Ballots, Tally(B)
  PROVE  \E A \in Ballots : Tally(A)' /\ Cast(A, B)
<1>1. "miscounted" \notin mishaps' /\ "torn" \notin mishaps'
  BY DEF Without
<1>2. Quiet => Tally(B)' /\ Cast(B, B)
  BY TallyQuiet DEF Cast
<1>3. CASE UNCHANGED vars
  <2>1. \A V, s : Thins(V, s, s)
    BY DEF Thins
  <2> QED
    BY <1>2, <1>3, <2>1, QuietStep DEF vars, persistent
<1>4. ASSUME NEW n \in Node, Local(n)
      PROVE  Quiet
  <2>1. \A V, s : Thins(V, s, s)
    BY DEF Thins
  <2> QED
    BY <1>4, <2>1, LocalView, QuietStep DEF view
<1>5. ASSUME NEW n \in Node, NEW p \in Peers(n),
             \/ HandleRequestVote(n, p) \/ HandleAppendEntries(n, p) \/ CallFails(n, p)
             \/ \E t \in 1..MaxTerm : VoteReply(n, p, t)
      PROVE  \E A \in Ballots : Tally(A)' /\ Cast(A, B)
  <2>1. p \in Node /\ n # p
    BY DEF Peers
  <2>2. Tally(B)' => Tally(B)' /\ Cast(B, B)
    BY DEF Cast
  <2> QED
    BY <1>1, <1>2, <1>5, <2>1, <2>2, TallyRequestVote, QuietAppendEntries, QuietCallFails,
       TallyVoteReply
<1>6. ASSUME NEW n \in Node, Crash(n) \/ Restart(n) \/ \E r \in Rounds : StartRound(n, r) \/ AppendReply(n, r)
      PROVE  Quiet
  BY <1>1, <1>6, QuietCrash, QuietRestart, QuietStartRound, QuietAppendReply
<1> QED
  BY <1>2, <1>3, <1>4, <1>5, <1>6, TallyElection DEF Next, Local, Snapshots

\* Two majorities meet, in a node that voted once.
LEMMA TallySafe ==
  ASSUME NEW B, Tally(B)
  PROVE  OneLeaderPerTerm
<1> SUFFICES ASSUME NEW a \in elected, NEW b \in elected, a[1] = b[1]
             PROVE  a[2] = b[2]
  BY DEF OneLeaderPerTerm
<1>1. Won(B, a[1], a[2]) /\ Won(B, a[1], b[2])
  BY DEF Tally
<1>2. PICK P \in SUBSET Node : Cardinality(P) >= Majority /\ \A v \in P : B[a[1]][v] = a[2]
  BY <1>1 DEF Won
<1>3. PICK Q \in SUBSET Node : Cardinality(Q) >= Majority /\ \A v \in Q : B[a[1]][v] = b[2]
  BY <1>1 DEF Won
<1>4. P \cap Q # {}
  <2>1. /\ IsFiniteSet(P) /\ IsFiniteSet(Q) /\ Cardinality(P) \in Nat /\ Cardinality(Q) \in Nat
        /\ Cardinality(Node) \in Nat
    BY RaftAssumption, FS_Subset, FS_CardinalityType
  <2>2. Cardinality(P) + Cardinality(Q) > Cardinality(Node)
    BY <1>2, <1>3, <2>1, MajoritySize
  <2> QED
    BY <2>1, <2>2, RaftAssumption, FS_MajoritiesIntersect
<1> QED
  BY <1>2, <1>3, <1>4

\* However calls crossed and whoever crashed: no term had two leaders, unless a vote of
\* another term was counted or a vote was lost with state.json.
THEOREM ElectionSafe == Spec => []ElectionSafety
<1> DEFINE Inv == TypeOK /\ (Without({"miscounted", "torn"}) => \E B \in Ballots : Tally(B))
<1>1. Init => Inv
  BY TypeInit, TallyInit
<1>2. Inv /\ [Next]_vars => Inv'
  <2> SUFFICES ASSUME Inv, [Next]_vars, Without({"miscounted", "torn"})'
               PROVE  \E B \in Ballots : Tally(B)'
    BY TypeKept DEF Ballots
  <2>1. Without({"miscounted", "torn"})
    BY MishapsStay DEF Without
  <2>2. PICK B \in Ballots : Tally(B)
    BY <2>1
  <2> QED
    BY <2>2, TypeKept, TallyKept
<1>3. Inv => ElectionSafety
  BY TallySafe DEF ElectionSafety, OneLeaderPerTerm
<1> QED
  BY <1>1, <1>2, <1>3, PTL DEF Spec

-----------------------------------------------------------------------------
\* What is left of a log is where it was.
LEMMA CompactKeeps ==
  ASSUME NEW l \in Log, NEW through \in Nat, NEW i \in Int, Has(Compact(l, through), i)
  PROVE  Has(l, i) /\ Get(Compact(l, through), i) = Get(l, i)
<1> DEFINE cut == through - l.first + 1
           rest == SubSeq(l.entries, cut + 1, Len(l.entries))
<1>1. CASE through < l.first \/ cut >= Len(l.entries)
  BY <1>1 DEF Compact
<1>2. CASE ~(through < l.first \/ cut >= Len(l.entries))
  <2>1. l.first \in Nat \ {0} /\ Len(l.entries) \in Nat
    BY EntriesOf
  <2>2. cut \in Nat \ {0} /\ cut < Len(l.entries)
    BY <1>2, <2>1
  <2>3. Compact(l, through) = [first |-> through + 1, entries |-> rest]
    BY <1>2 DEF Compact
  <2> DEFINE a == cut + 1
             b == Len(l.entries)
  <2>4. a \in Int /\ b \in Int /\ a <= b /\ \A k \in a..b : l.entries[k] \in Entry
    BY <2>1, <2>2, EntriesOf
  <2>5. rest = SubSeq(l.entries, a, b)
    OBVIOUS
  <2> HIDE DEF a, b, rest
  <2>6. Len(rest) = b - a + 1 /\ \A k \in 1..(b - a + 1) : rest[k] = l.entries[a + k - 1]
    BY <2>4, <2>5, SubSeqProperties
  <2>7. i >= through + 1 /\ i - (through + 1) < Len(rest)
    BY <2>3 DEF Has
  <2>8. i - (through + 1) + 1 \in 1..(b - a + 1)
    BY <2>4, <2>6, <2>7
  <2>9. Get(Compact(l, through), i) = l.entries[a + (i - (through + 1) + 1) - 1]
    <3>1. Compact(l, through).first = through + 1 /\ Compact(l, through).entries = rest
      BY <2>3
    <3>2. Get(Compact(l, through), i) = rest[i - (through + 1) + 1]
      BY <3>1 DEF Get
    <3> QED
      BY <2>6, <2>8, <3>2
  <2>10. a + (i - (through + 1) + 1) - 1 = i - l.first + 1
    BY <2>1 DEF a
  <2>11. Has(l, i)
    <3>1. i - (through + 1) < b - a + 1 /\ b = Len(l.entries) /\ a = through - l.first + 2
      BY <2>1, <2>6, <2>7 DEF a, b
    <3> DEFINE z == Len(l.entries)
    <3>2. i - (through + 1) < z - (through - l.first + 2) + 1 /\ z \in Nat /\ l.first \in Nat
      BY <2>1, <3>1
    <3> HIDE DEF z
    <3>3. i - l.first < z
      BY <3>2
    <3>4. ~(through < l.first) /\ i >= through + 1
      BY <1>2, <2>7
    <3>5. i >= l.first
      BY <3>2, <3>4
    <3> QED
      BY <3>3, <3>5 DEF Has, z
  <2> QED
    BY <2>9, <2>10, <2>11 DEF Get
<1> QED
  BY <1>1, <1>2

\* Memory and disk are the same, except that the log has been compacted and is still to be
\* saved.
Saved(n) ==
  \/ log[n] = disk[n]
  \/ /\ snapshotting[n].step \in {"compacted", "encoded"}
     /\ log[n] = Compact(disk[n], snapshotting[n].index)

AllSaved == \A n \in Node \ overwritten : Saved(n)

LEMMA SavedSave ==
  ASSUME TypeOK, AllSaved, NEW n \in Node, NEW l, Save(n, l), snapshotting' = snapshotting
  PROVE  AllSaved'
<1>1. log'[n] = l /\ disk'[n] = l
  BY DEF Save, TypeOK
<1>2. \A m \in Node \ {n} : /\ log'[m] = log[m] /\ disk'[m] = disk[m]
                            /\ m \in overwritten' <=> m \in overwritten
  BY DEF Save, TypeOK
<1> QED
  BY <1>1, <1>2 DEF AllSaved, Saved

LEMMA SavedSame ==
  ASSUME AllSaved, UNCHANGED <<log, disk, overwritten, snapshotting>>
  PROVE  AllSaved'
BY DEF AllSaved, Saved

\* A restart finds what the disk has.
LEMMA SavedDown ==
  ASSUME TypeOK, AllSaved, NEW n \in Node, NEW lost, NEW torn, Down(n, lost, torn)
  PROVE  AllSaved'
<1>1. /\ log' = [log EXCEPT ![n] = disk[n]] /\ disk' = disk
      /\ overwritten' = overwritten \ {n}
      /\ snapshotting' = [snapshotting EXCEPT ![n] = NotTaking]
  BY DEF Down
<1>2. log'[n] = disk'[n]
  BY <1>1 DEF TypeOK
<1>3. \A m \in Node \ {n} : log'[m] = log[m] /\ snapshotting'[m] = snapshotting[m]
  BY <1>1 DEF TypeOK
<1> QED
  BY <1>1, <1>2, <1>3 DEF AllSaved, Saved

\* TakeSnapshot compacts what is on disk, and what it puts there is what is in memory, or
\* the disk counts as overwritten.
LEMMA SavedSnapshot ==
  ASSUME TypeOK, AllSaved, NEW n \in Node, Snapshots(n)
  PROVE  AllSaved'
<1>1. ASSUME NEW m \in Node, m # n, m \notin overwritten', Saved(m)
      PROVE  Saved(m)'
  <2>1. log'[m] = log[m] /\ disk'[m] = disk[m] /\ snapshotting'[m] = snapshotting[m]
    BY <1>1 DEF Snapshots, CaptureSnapshot, WriteSnapshot, LabelSnapshot, CompactLog, EncodeLog,
                ReplaceLog, persistent, TypeOK
  <2> QED
    BY <1>1, <2>1 DEF Saved
<1>2. \A m \in Node : m # n => (m \in overwritten' <=> m \in overwritten)
  BY DEF Snapshots, CaptureSnapshot, WriteSnapshot, LabelSnapshot, CompactLog, EncodeLog,
         ReplaceLog, persistent
<1>3. SUFFICES ASSUME n \notin overwritten' PROVE Saved(n)'
  BY <1>1, <1>2 DEF AllSaved
<1>4. n \notin overwritten => Saved(n)
  BY DEF AllSaved
<1>5. CASE CaptureSnapshot(n) \/ WriteSnapshot(n) \/ LabelSnapshot(n)
  <2>1. /\ UNCHANGED <<log, disk, overwritten>>
        /\ snapshotting[n].step \notin {"compacted", "encoded"}
    BY <1>5 DEF CaptureSnapshot, WriteSnapshot, LabelSnapshot, persistent
  <2> QED
    BY <1>3, <1>4, <2>1 DEF Saved
<1>6. CASE CompactLog(n)
  <2>1. /\ UNCHANGED <<disk, overwritten>> /\ snapshotting[n].step = "labelled"
        /\ log' = [log EXCEPT ![n] = Compact(log[n], snapshotting[n].index)]
        /\ snapshotting' = [snapshotting EXCEPT ![n].step = "compacted"]
    BY <1>6 DEF CompactLog
  <2>2. log[n] = disk[n]
    BY <1>3, <1>4, <2>1 DEF Saved
  <2>3. /\ log'[n] = Compact(log[n], snapshotting[n].index)
        /\ snapshotting'[n].step = "compacted" /\ snapshotting'[n].index = snapshotting[n].index
    BY <2>1 DEF TypeOK, Taking
  <2> QED
    BY <2>1, <2>2, <2>3 DEF Saved
<1>7. CASE EncodeLog(n)
  <2>1. /\ UNCHANGED <<log, disk, overwritten>> /\ snapshotting[n].step = "compacted"
        /\ snapshotting' = [snapshotting EXCEPT ![n].step = "encoded", ![n].image = log[n]]
    BY <1>7 DEF EncodeLog, persistent
  <2>2. snapshotting'[n].step = "encoded" /\ snapshotting'[n].index = snapshotting[n].index
    BY <2>1 DEF TypeOK, Taking
  <2> QED
    BY <1>3, <1>4, <2>1, <2>2 DEF Saved
<1>8. CASE ReplaceLog(n)
  <2>1. /\ disk' = [disk EXCEPT ![n] = snapshotting[n].image] /\ log' = log
        /\ overwritten' = IF snapshotting[n].image = log[n] THEN overwritten \ {n}
                          ELSE overwritten \cup {n}
    BY <1>8 DEF ReplaceLog
  <2>2. disk'[n] = log'[n]
    BY <1>3, <2>1 DEF TypeOK
  <2> QED
    BY <2>2 DEF Saved
<1> QED
  BY <1>5, <1>6, <1>7, <1>8 DEF Snapshots

LEMMA SavedKept ==
  ASSUME TypeOK, AllSaved, [Next]_vars
  PROVE  AllSaved'
<1>1. CASE UNCHANGED vars
  BY <1>1, SavedSame DEF vars, persistent, snaps
<1>2. ASSUME NEW n \in Node, Crash(n) PROVE AllSaved'
  <2>1. \E lost, torn : Down(n, lost, torn)
    BY <1>2 DEF Crash
  <2> QED
    BY <2>1, SavedDown
<1>3. ASSUME NEW n \in Node, NEW p \in Peers(n), CallFails(n, p) PROVE AllSaved'
  <2>1. (\E lost, torn : Down(n, lost, torn)) \/ UNCHANGED <<log, disk, overwritten, snapshotting>>
    BY <1>3 DEF CallFails, persistent, snaps
  <2> QED
    BY <2>1, SavedDown, SavedSame
<1>4. ASSUME NEW n \in Node, Propose(n) PROVE AllSaved'
  <2>1. (\E l : Save(n, l)) /\ snapshotting' = snapshotting
    BY <1>4 DEF Propose, snaps
  <2> QED
    BY <2>1, SavedSave
<1>5. ASSUME NEW n \in Node, startElection(n) PROVE AllSaved'
  <2>1. /\ (\E l : Save(n, l)) \/ UNCHANGED <<log, disk, overwritten>>
        /\ snapshotting' = snapshotting
    BY <1>5 DEF startElection, becomeLeader, snaps
  <2> QED
    BY <2>1, SavedSave, SavedSame
<1>6. ASSUME NEW n \in Node, NEW p \in Node, NEW t, VoteReply(n, p, t) PROVE AllSaved'
  <2>1. /\ (\E l : Save(n, l)) \/ UNCHANGED <<log, disk, overwritten>>
        /\ snapshotting' = snapshotting
    BY <1>6 DEF VoteReply, becomeLeader, snaps
  <2> QED
    BY <2>1, SavedSave, SavedSame
<1>7. ASSUME NEW n \in Node, NEW p \in Node, HandleAppendEntries(n, p) PROVE AllSaved'
  <2>1. /\ (\E l : Save(p, l)) \/ UNCHANGED <<log, disk, overwritten>>
        /\ snapshotting' = snapshotting
    BY <1>7 DEF HandleAppendEntries, snaps
  <2> QED
    BY <2>1, SavedSave, SavedSame
<1>8. ASSUME NEW n \in Node, NEW p \in Node, HandleRequestVote(n, p) PROVE AllSaved'
  BY <1>8, SavedSame DEF HandleRequestVote, snaps
<1>9. ASSUME NEW n \in Node, NEW r, Restart(n) \/ StartRound(n, r) \/ AppendReply(n, r) PROVE AllSaved'
  BY <1>9, SavedSame DEF Restart, StartRound, AppendReply, persistent, snaps
<1>10. \A n \in Node : Peers(n) \subseteq Node
  BY DEF Peers
<1> QED
  BY <1>1, <1>2, <1>3, <1>4, <1>5, <1>6, <1>7, <1>8, <1>9, <1>10, SavedSnapshot DEF Next, Snapshots

\* A crash finds what was in memory, and the same end, unless TakeSnapshot has put an older
\* log on disk since the last save.
THEOREM OnDisk == Spec => []LogOnDisk
<1>1. Init => AllSaved
  BY DEF Init, AllSaved, Saved
<1>2. TypeOK /\ AllSaved => LogOnDisk
  <2> SUFFICES ASSUME TypeOK, AllSaved, NEW n \in Node \ overwritten
               PROVE  /\ LastIndex(disk[n]) = LastIndex(log[n])
                      /\ LastTerm(disk[n]) = LastTerm(log[n])
                      /\ \A i \in 1..LastIndex(log[n]) :
                           Has(log[n], i) => Has(disk[n], i) /\ Get(disk[n], i) = Get(log[n], i)
    BY DEF LogOnDisk
  <2>1. disk[n] \in Log /\ snapshotting[n].index \in Nat
    BY DEF TypeOK, Taking
  <2>2. CASE log[n] = disk[n]
    BY <2>2
  <2>3. CASE log[n] = Compact(disk[n], snapshotting[n].index)
    <3> DEFINE l == disk[n]
               x == snapshotting[n].index
    <3>1. l \in Log /\ x \in Nat /\ log[n] = Compact(l, x)
      BY <2>1, <2>3
    <3> HIDE DEF l, x
    <3>2. LastIndex(log[n]) = LastIndex(l) /\ LastTerm(log[n]) = LastTerm(l)
      BY <3>1, CompactEnd
    <3>3. \A i \in Int : Has(log[n], i) => Has(l, i) /\ Get(log[n], i) = Get(l, i)
      BY <3>1, CompactKeeps
    <3> QED
      BY <3>2, <3>3 DEF l
  <2> QED
    BY <2>2, <2>3 DEF AllSaved, Saved
<1>3. Spec => []TypeOK
  BY TypeCorrect
<1> QED
  BY <1>1, <1>2, <1>3, SavedKept, PTL DEF Spec

-----------------------------------------------------------------------------
\* StoreAll.

\* Two sequences agree up to i.
Agree(s, u, i) == i <= Len(s) /\ i <= Len(u) /\ \A k \in 1..i : s[k] = u[k]

\* For every term, the log its leader has or had when it last added to it.
Books == [1..MaxTerm -> Seq(Entry)]

\* s has its entries in place, and up to each of them is what the leader of the entry's
\* term had.
InBook(T, s) ==
  \A i \in 1..Len(s) :
    s[i].index = i /\ s[i].term \in 1..MaxTerm /\ Agree(s, T[s[i].term], i)

LEMMA AgreeThrough ==
  ASSUME NEW T \in Books, NEW s \in Seq(Entry), NEW u \in Seq(Entry), InBook(T, s), InBook(T, u),
         NEW i \in 1..Len(s), i \in 1..Len(u), s[i].term = u[i].term
  PROVE  Agree(s, u, i)
<1>1. Agree(s, T[s[i].term], i) /\ Agree(u, T[s[i].term], i)
  BY DEF InBook
<1> QED
  BY <1>1 DEF Agree

\* The first i elements.
LEMMA FirstOf ==
  ASSUME NEW s \in Seq(Entry), NEW i \in 0..Len(s)
  PROVE  /\ SubSeq(s, 1, i) \in Seq(Entry) /\ Len(SubSeq(s, 1, i)) = i
         /\ \A k \in 1..i : SubSeq(s, 1, i)[k] = s[k]
<1>1. Len(s) \in Nat
  BY LenProperties
<1>2. \A k \in 1..i : s[k] \in Entry
  BY <1>1, ElementOfSeq
<1>3. 1 \in Int /\ i \in Int /\ i - 1 + 1 = i
  BY <1>1
<1>4. /\ SubSeq(s, 1, i) \in Seq(Entry) /\ Len(SubSeq(s, 1, i)) = IF 1 <= i THEN i - 1 + 1 ELSE 0
      /\ \A k \in 1..(i - 1 + 1) : SubSeq(s, 1, i)[k] = s[1 + k - 1]
  BY <1>2, <1>3, SubSeqProperties
<1> QED
  BY <1>1, <1>3, <1>4

LEMMA AgreeFirst ==
  ASSUME NEW s \in Seq(Entry), NEW u \in Seq(Entry), NEW i \in Nat, Agree(s, u, i)
  PROVE  SubSeq(s, 1, i) = SubSeq(u, 1, i)
<1>1. i \in 0..Len(s) /\ i \in 0..Len(u)
  BY LenProperties DEF Agree
<1>2. /\ SubSeq(s, 1, i) \in Seq(Entry) /\ Len(SubSeq(s, 1, i)) = i
      /\ SubSeq(u, 1, i) \in Seq(Entry) /\ Len(SubSeq(u, 1, i)) = i
      /\ \A k \in 1..i : SubSeq(s, 1, i)[k] = SubSeq(u, 1, i)[k]
  BY <1>1, FirstOf DEF Agree
<1> HIDE DEF Agree
<1> QED
  BY <1>2, SeqEqual

LEMMA OneMore ==
  ASSUME NEW s \in Seq(Entry), NEW i \in 1..Len(s)
  PROVE  Append(SubSeq(s, 1, i - 1), s[i]) = SubSeq(s, 1, i)
<1> DEFINE u == SubSeq(s, 1, i - 1)
           v == SubSeq(s, 1, i)
           j == i - 1
<1>1. Len(s) \in Nat /\ s[i] \in Entry /\ j \in 0..Len(s) /\ i \in 0..Len(s) /\ j + 1 = i
  BY LenProperties, ElementOfSeq
<1>2. u \in Seq(Entry) /\ Len(u) = j /\ \A k \in 1..j : u[k] = s[k]
  <2>1. u = SubSeq(s, 1, j)
    OBVIOUS
  <2> HIDE DEF u, j
  <2> QED
    BY <1>1, <2>1, FirstOf
<1>3. v \in Seq(Entry) /\ Len(v) = i /\ \A k \in 1..i : v[k] = s[k]
  BY <1>1, FirstOf
<1> HIDE DEF u, v
<1>4. /\ Append(u, s[i]) \in Seq(Entry) /\ Len(Append(u, s[i])) = j + 1
      /\ \A k \in 1..j : Append(u, s[i])[k] = u[k]
      /\ Append(u, s[i])[j + 1] = s[i]
  BY <1>1, <1>2, AppendProperties
<1>5. ASSUME NEW k \in 1..i PROVE Append(u, s[i])[k] = v[k]
  <2>1. k \in 1..j \/ k = i
    BY <1>1
  <2> QED
    BY <1>1, <1>2, <1>3, <1>4, <2>1
<1>6. Append(u, s[i]) = v
  BY <1>1, <1>3, <1>4, <1>5, SeqEqual
<1> QED
  BY <1>6 DEF u, v

\* The log l with other entries.
With(l, s) == [first |-> l.first, entries |-> s]

\* Storing entry i of s, where what is stored agrees with s so far.
LEMMA StoreOne ==
  ASSUME NEW T \in Books, NEW l \in Log, l.first = 1, InBook(T, l.entries),
         NEW s \in Seq(Entry), InBook(T, s), NEW i \in 1..Len(s)
  PROVE  /\ Agree(l.entries, s, i - 1) =>
              \/ Store(l, i, s[i]) = l /\ Agree(l.entries, s, i)
              \/ Store(l, i, s[i]) = With(l, SubSeq(s, 1, i)) /\ ~Agree(l.entries, s, i)
         /\ Store(With(l, SubSeq(s, 1, i - 1)), i, s[i]) = With(l, SubSeq(s, 1, i))
<1> DEFINE x == l.entries
           j == i - 1
<1>1. /\ Len(s) \in Nat /\ i \in Nat \ {0} /\ j \in Nat /\ j \in 0..Len(s) /\ j + 1 = i
      /\ x \in Seq(Entry) /\ Len(x) \in Nat
      /\ l = [first |-> 1, entries |-> x]
  <2>1. x \in Seq(Entry) /\ l = [first |-> 1, entries |-> x]
    BY DEF Log
  <2> HIDE DEF x
  <2>2. Len(s) \in Nat /\ Len(x) \in Nat
    BY <2>1, LenProperties
  <2>3. i \in Nat \ {0} /\ j \in Nat /\ j \in 0..Len(s) /\ j + 1 = i
    BY <2>2
  <2> QED
    BY <2>1, <2>2, <2>3
<1>2. Append(SubSeq(s, 1, j), s[i]) = SubSeq(s, 1, i)
  BY OneMore
<1>3. Append1(With(l, SubSeq(s, 1, j)), s[i]) = With(l, SubSeq(s, 1, i))
  <2> DEFINE y == SubSeq(s, 1, j)
             z == SubSeq(s, 1, i)
  <2>1. Append(y, s[i]) = z
    BY <1>2
  <2> HIDE DEF y, z
  <2>2. With(l, y).entries = y
    BY DEF With
  <2>3. Append1(With(l, y), s[i]) = [With(l, y) EXCEPT !.entries = z]
    BY <2>1, <2>2 DEF Append1
  <2>4. [With(l, y) EXCEPT !.entries = z] = With(l, z)
    BY DEF With
  <2> QED
    BY <2>3, <2>4 DEF y, z
<1>4. Has(l, i) <=> i <= Len(x)
  BY <1>1 DEF Has
<1>5. Get(l, i) = x[i]
  BY <1>1 DEF Get
<1>6. ASSUME Agree(x, s, j)
      PROVE  \/ Store(l, i, s[i]) = l /\ Agree(x, s, i)
             \/ Store(l, i, s[i]) = With(l, SubSeq(s, 1, i)) /\ ~Agree(x, s, i)
  <2>1. SubSeq(x, 1, j) = SubSeq(s, 1, j) /\ j <= Len(x)
    <3>1. SubSeq(x, 1, j) = SubSeq(s, 1, j)
      <4> HIDE DEF x, j
      <4> QED
        BY <1>1, <1>6, AgreeFirst
    <3> QED
      BY <1>6, <3>1 DEF Agree
  <2>2. CASE ~Has(l, i)
    <3>1. Len(x) = j
      BY <1>1, <1>4, <2>1, <2>2
    <3>2. SubSeq(x, 1, j) = x
      BY <1>1, <3>1, SubSeqFull
    <3>3. l = With(l, SubSeq(s, 1, j))
      BY <1>1, <2>1, <3>2 DEF With
    <3>4. Store(l, i, s[i]) = Append1(l, s[i])
      BY <2>2 DEF Store
    <3>5. ~Agree(x, s, i)
      BY <1>1, <3>1 DEF Agree
    <3> QED
      BY <1>3, <3>3, <3>4, <3>5
  <2>3. CASE Has(l, i) /\ Get(l, i).term # s[i].term
    <3>1. Store(l, i, s[i]) = Append1(TruncateAfter(l, j), s[i])
      BY <2>3 DEF Store
    <3>2. j - l.first + 1 = j /\ ~(j > Len(x))
      BY <1>1, <2>1
    <3>3. TruncateAfter(l, j) = With(l, SubSeq(s, 1, j))
      BY <1>1, <2>1, <3>2 DEF TruncateAfter, With
    <3>4. ~Agree(x, s, i)
      BY <1>1, <1>5, <2>3 DEF Agree
    <3> QED
      BY <1>3, <3>1, <3>3, <3>4
  <2>4. CASE Has(l, i) /\ Get(l, i).term = s[i].term
    <3>1. i \in 1..Len(x) /\ x[i].term = s[i].term
      BY <1>1, <1>4, <1>5, <2>4
    <3>2. Agree(x, s, i)
      <4> HIDE DEF x
      <4>1. InBook(T, x)
        BY DEF x
      <4> QED
        BY <1>1, <3>1, <4>1, AgreeThrough
    <3> QED
      BY <2>4, <3>2 DEF Store
  <2> QED
    BY <2>2, <2>3, <2>4
<1>7. Store(With(l, SubSeq(s, 1, j)), i, s[i]) = With(l, SubSeq(s, 1, i))
  <2> DEFINE y == With(l, SubSeq(s, 1, j))
  <2>1. Len(SubSeq(s, 1, j)) = j
    <3> HIDE DEF j
    <3> QED
      BY <1>1, FirstOf
  <2>2. y.first = 1 /\ y.entries = SubSeq(s, 1, j)
    BY DEF With
  <2>3. ~Has(y, i)
    BY <1>1, <2>1, <2>2 DEF Has
  <2> HIDE DEF y
  <2>4. Store(y, i, s[i]) = Append1(y, s[i])
    BY <2>3 DEF Store
  <2> QED
    BY <1>3, <2>4 DEF y
<1> QED
  BY <1>6, <1>7

\* The entries es are those of s behind prev, where s has term prevTerm; a request with
\* prev beyond s has none.
Excerpt(prev, prevTerm, es, s) ==
  /\ prev >= Len(s) => es = <<>>
  /\ prev < Len(s) => Len(es) = Len(s) - prev /\ \A k \in 1..Len(es) : es[k] = s[prev + k]
  /\ prev \in 1..Len(s) => prevTerm = s[prev].term

\* What a follower stores of the log s of a sender leaves its log as it is, which then has
\* all of s unless the request is for what is beyond s, or makes it s, which its log did not
\* begin with.
LEMMA StoreAllBook ==
  ASSUME NEW T \in Books, NEW l \in Log, l.first = 1, InBook(T, l.entries),
         NEW s \in Seq(Entry), InBook(T, s), NEW prev \in Nat, NEW es \in Seq(Entry), NEW prevTerm,
         Excerpt(prev, prevTerm, es, s), prev = 0 \/ TermAt(l, prev) = prevTerm
  PROVE  \/ StoreAll(l, prev, es) = l /\ (prev <= Len(s) => Agree(l.entries, s, Len(s)))
         \/ StoreAll(l, prev, es) = With(l, s) /\ ~Agree(l.entries, s, Len(s))
<1> DEFINE x == l.entries
           b == Len(es)
<1>1. PICK f \in [0..b -> Log] :
        /\ StoreAll(l, prev, es) = f[b]
        /\ f[0] = l
        /\ \A k \in 1..b : f[k] = Store(f[k - 1], prev + k, es[k])
  BY StoreAllSteps
<1>2. b \in Nat /\ Len(s) \in Nat /\ x \in Seq(Entry) /\ Len(x) \in Nat /\ l = With(l, x)
  BY LenProperties DEF Log, With
<1>3. ASSUME prev <= Len(s) PROVE Agree(x, s, prev)
  <2>1. CASE prev = 0
    BY <1>2, <2>1 DEF Agree
  <2>2. CASE prev # 0
    <3>1. prev \in 1..Len(s)
      BY <1>2, <1>3, <2>2
    <3>2. TermAt(l, prev) = s[prev].term /\ s[prev].term \in 1..MaxTerm
      BY <2>2, <3>1 DEF Excerpt, InBook
    <3>3. TermAt(l, prev) # 0
      BY <3>2, RaftAssumption
    <3>4. prev \in 1..Len(x) /\ x[prev].term = s[prev].term
      BY <1>2, <3>1, <3>2, <3>3 DEF TermAt, Has, Get
    <3> HIDE DEF x
    <3>5. InBook(T, x)
      BY DEF x
    <3> QED
      BY <1>2, <3>1, <3>4, <3>5, AgreeThrough
  <2> QED
    BY <2>1, <2>2
<1>4. CASE prev >= Len(s)
  <2>1. b = 0
    BY <1>4, EmptySeq DEF Excerpt
  <2>2. prev <= Len(s) => prev = Len(s)
    BY <1>2, <1>4
  <2> QED
    BY <1>1, <1>3, <2>1, <2>2
<1>5. CASE prev < Len(s)
  <2>1. prev + b = Len(s) /\ \A k \in 1..b : es[k] = s[prev + k]
    BY <1>2, <1>5 DEF Excerpt
  <2>2. Agree(x, s, prev)
    BY <1>2, <1>5, <1>3
  <2> DEFINE Done(k) == \/ f[k] = l /\ Agree(x, s, prev + k)
                        \/ f[k] = With(l, SubSeq(s, 1, prev + k)) /\ ~Agree(x, s, Len(s))
             G == {k \in 0..b : Done(k)}
  <2>3. 0 \in G
    BY <1>1, <1>2, <2>2
  <2>4. ASSUME NEW k \in 0..(b - 1), k \in G PROVE k + 1 \in G
    <3> DEFINE i == prev + (k + 1)
    <3>1. /\ k \in 0..b /\ k + 1 \in 1..b /\ k + 1 \in 0..b /\ (k + 1) - 1 = k /\ i \in 1..Len(s)
          /\ i - 1 = prev + k
      <4>1. b \in Nat /\ k \in 0..(b - 1) /\ prev + b = Len(s)
        BY <1>2, <2>1
      <4> HIDE DEF b, G
      <4>2. k \in Nat /\ k + 1 <= b
        BY <4>1
      <4> QED
        BY <4>1, <4>2
    <3>2. f[k + 1] = Store(f[k], i, s[i])
      BY <1>1, <2>1, <3>1
    <3>3. Done(k)
      BY <2>4
    <3> HIDE DEF i
    <3>4. /\ Agree(x, s, prev + k) =>
               \/ Store(l, i, s[i]) = l /\ Agree(x, s, i)
               \/ Store(l, i, s[i]) = With(l, SubSeq(s, 1, i)) /\ ~Agree(x, s, i)
          /\ Store(With(l, SubSeq(s, 1, prev + k)), i, s[i]) = With(l, SubSeq(s, 1, i))
      BY <3>1, StoreOne
    <3>5. Agree(x, s, Len(s)) => Agree(x, s, i)
      BY <1>2, <3>1 DEF Agree
    <3>6. \/ f[k + 1] = l /\ Agree(x, s, i)
          \/ f[k + 1] = With(l, SubSeq(s, 1, i)) /\ ~Agree(x, s, Len(s))
      BY <3>2, <3>3, <3>4, <3>5
    <3> QED
      BY <3>1, <3>6 DEF i
  <2>5. b \in G
    <3> HIDE DEF G
    <3>1. \A k \in 0..b : k \in G
      BY <1>2, <2>3, <2>4, UpTo
    <3> QED
      BY <1>2, <3>1
  <2>6. SubSeq(s, 1, Len(s)) = s
    BY SubSeqFull
  <2> QED
    BY <1>1, <2>1, <2>5, <2>6
<1> QED
  BY <1>2, <1>4, <1>5

\* The first index does not change.
LEMMA StoreAllFirst ==
  ASSUME NEW l \in Log, NEW prev \in Nat, NEW es \in Seq(Entry)
  PROVE  StoreAll(l, prev, es).first = l.first
<1> DEFINE b == Len(es)
<1>1. PICK f \in [0..b -> Log] :
        /\ StoreAll(l, prev, es) = f[b]
        /\ f[0] = l
        /\ \A k \in 1..b : f[k] = Store(f[k - 1], prev + k, es[k])
  BY StoreAllSteps
<1>2. b \in Nat
  BY LenProperties
<1>3. ASSUME NEW y \in Log, NEW i, NEW e PROVE Store(y, i, e).first = y.first
  <2>1. TruncateAfter(y, i - 1) \in {y, [y EXCEPT !.entries = SubSeq(@, 1, (i - 1) - y.first + 1)]}
    BY DEF TruncateAfter
  <2>2. TruncateAfter(y, i - 1).first = y.first /\ DOMAIN TruncateAfter(y, i - 1) = DOMAIN y
    BY <2>1 DEF Log
  <2> QED
    BY <2>2 DEF Store, Append1, Log
<1> DEFINE G == {k \in 0..b : f[k].first = l.first}
<1>4. 0 \in G
  BY <1>1, <1>2
<1>5. ASSUME NEW k \in 0..(b - 1), k \in G PROVE k + 1 \in G
  <2>1. k + 1 \in 1..b /\ k \in 0..b /\ k + 1 \in 0..b /\ (k + 1) - 1 = k
    BY <1>2
  <2>2. f[k + 1] = Store(f[k], prev + (k + 1), es[k + 1]) /\ f[k] \in Log /\ f[k].first = l.first
    BY <1>1, <1>5, <2>1
  <2> QED
    BY <1>3, <2>1, <2>2
<1>6. \A k \in 0..b : k \in G
  <2> HIDE DEF G
  <2> QED
    BY <1>2, <1>4, <1>5, UpTo
<1> QED
  BY <1>1, <1>2, <1>6

-----------------------------------------------------------------------------
\* Who leads, and for whom appends are under way.

\* A term is won at most once by a node, which is not behind it then, and leads in it
\* only when it won it.
Reigns ==
  /\ \A e \in elected : e[1] <= currentTerm[e[2]]
  /\ \A n \in Node : state[n] = "Candidate" => <<currentTerm[n], n>> \notin elected
  /\ \A n \in Node : state[n] = "Leader" => <<currentTerm[n], n>> \in elected

\* A step without an election.
Steady ==
  /\ elected' = elected
  /\ \A v \in Node : /\ currentTerm'[v] >= currentTerm[v]
                     /\ state'[v] \in {"Candidate", "Leader"} =>
                          state'[v] = state[v] /\ currentTerm'[v] = currentTerm[v]

Others(n) == \A v \in Node \ {n} : state'[v] = state[v] /\ currentTerm'[v] = currentTerm[v]

Runs(n) ==
  /\ elected' = elected /\ Others(n)
  /\ state'[n] = "Candidate" /\ currentTerm'[n] = currentTerm[n] + 1
  /\ \A r \in Rounds : round'[n][r].peer = Nil

Wins(n, t) ==
  /\ t \in 1..MaxTerm /\ <<t, n>> \notin elected
  /\ Node = {n} \/ (state[n] = "Candidate" /\ currentTerm[n] = t)
  /\ elected' = elected \cup {<<t, n>>} /\ Others(n)
  /\ state'[n] = "Leader" /\ currentTerm'[n] = t /\ t >= currentTerm[n]
  /\ \A p \in Node : nextIndex'[n][p] = LastIndex(log[n]) + 1
  /\ log' = [log EXCEPT ![n] = Append1(log[n], [index |-> LastIndex(log[n]) + 1, term |-> t,
                                                type |-> "NoOp"])]

Stores(n, p) ==
  LET req == Head(conn[n][p].reqs)
  IN  /\ n # p /\ conn[n][p].reqs # <<>> /\ req.type = "append"
      /\ req.term >= currentTerm[p] /\ Consistent(log[p], req)
      /\ log' = [log EXCEPT ![p] = StoreAll(log[p], req.prev, req.entries)]
      /\ currentTerm'[p] = req.term
      /\ state'[p] = "Leader" => req.term = currentTerm[p]

Proposes(n) ==
  /\ state[n] = "Leader" /\ currentTerm'[n] = currentTerm[n]
  /\ log' = [log EXCEPT ![n] = Append1(log[n], [index |-> LastIndex(log[n]) + 1,
                                                term |-> currentTerm[n], type |-> "Command"])]

Compacts(n) ==
  \E i \in Nat : log' = [log EXCEPT ![n] = Compact(log[n], i)]

LEMMA ReignsInit == Init => Reigns
BY DEF Init, Reigns

LEMMA ReignsKept ==
  ASSUME TypeOK, TypeOK', Reigns,
         Steady \/ \E n \in Node : Runs(n) \/ \E t \in Nat : Wins(n, t)
  PROVE  Reigns'
<1>1. /\ \A v \in Node : currentTerm[v] \in Nat /\ currentTerm'[v] \in Nat
      /\ \A e \in elected : e[1] \in Nat /\ e[2] \in Node /\ e = <<e[1], e[2]>>
  <2>1. ASSUME NEW v \in Node PROVE currentTerm[v] \in Nat /\ currentTerm'[v] \in Nat
    BY RaftAssumption DEF TypeOK
  <2>2. ASSUME NEW e \in elected PROVE e[1] \in Nat /\ e[2] \in Node /\ e = <<e[1], e[2]>>
    <3>1. e \in (1..MaxTerm) \X Node
      BY DEF TypeOK
    <3> QED
      BY <3>1
  <2> QED
    BY <2>1, <2>2
<1>2. CASE Steady
  BY <1>1, <1>2 DEF Steady, Reigns
<1>3. ASSUME NEW n \in Node, Runs(n) PROVE Reigns'
  <2>1. \A e \in elected' : e[1] <= currentTerm'[e[2]]
    BY <1>1, <1>3 DEF Runs, Others, Reigns
  <2>2. <<currentTerm'[n], n>> \notin elected
    BY <1>1, <1>3 DEF Runs, Reigns
  <2> QED
    BY <1>3, <2>1, <2>2 DEF Runs, Others, Reigns
<1>4. ASSUME NEW n \in Node, NEW t \in Nat, Wins(n, t) PROVE Reigns'
  <2>1. \A e \in elected : e[1] <= currentTerm'[e[2]]
    BY <1>1, <1>4 DEF Wins, Others, Reigns
  <2>2. \A v \in Node \ {n} : <<currentTerm'[v], v>> \in elected' <=> <<currentTerm[v], v>> \in elected
    BY <1>4 DEF Wins, Others
  <2> QED
    BY <1>1, <1>4, <2>1, <2>2 DEF Wins, Others, Reigns
<1> QED
  BY <1>2, <1>3, <1>4

\* A round that waits, and an AppendEntries under way, are those of a leader of the term.
Reported ==
  /\ \A n \in Node, r \in Rounds : round[n][r].peer # Nil => <<round[n][r].term, n>> \in elected
  /\ \A n, p \in Node :
       n # p /\ conn[n][p].reqs # <<>> /\ Head(conn[n][p].reqs).type = "append" =>
         <<Head(conn[n][p].reqs).term, n>> \in elected

\* The index of the last entry of a request, 0 if it has none.
LastSent(es) == IF es = <<>> THEN 0 ELSE Last(es).index

\* Round r of a, which waited before or begins, sends the log of a from the next index of
\* a peer on.
Sends(a, r) ==
  LET old == round[a][r]
      new == round'[a][r]
      p   == new.peer
      i   == nextIndex'[a][p]
  IN  /\ log' = log /\ p \in Peers(a)
      /\ \/ old.peer # Nil /\ new.term = old.term /\ new.commit = old.commit
         \/ state[a] = "Leader" /\ new.term = currentTerm[a] /\ new.commit = commitIndex[a]
      /\ new.last = LastSent(From(log[a], i))
      /\ conn'[a][p].reqs \in {<<>>, <<AppendRequest(a, p, new, i)>>}
      /\ conn'[a][p].resps = <<>>

\* a asks b for its vote.
Canvasses(a, b) ==
  /\ log' = log
  /\ conn'[a][b].reqs = <<[type |-> "vote", term |-> currentTerm'[a], from |-> a,
                           lastIndex |-> LastIndex(log[a]), lastTerm |-> LastTerm(log[a])]>>

\* What a waits for, what it asks b, and b's answer, after a step.
Goes(a, r) == round'[a][r].peer # Nil => round'[a][r] = round[a][r] \/ Sends(a, r)

Asked(a, b) ==
  \/ conn'[a][b].reqs \in {<<>>, conn[a][b].reqs}
  \/ Canvasses(a, b)
  \/ \E r \in Rounds : round'[a][r].peer = b /\ Sends(a, r)

Answers(a, b, m) ==
  LET req == Head(conn[a][b].reqs)
  IN  \/ m.type = "vote" /\ m.conflict = 0
      \/ m.type = "append" /\ m.ok /\ Stores(a, b)
      \/ /\ m.type = "append" /\ ~m.ok /\ req.type = "append" /\ log' = log
         /\ \/ m.conflict = 0
            \/ req.term >= currentTerm[b] /\ m.conflict = findConflictIndex(log[b], req.prev)

Replied(a, b) ==
  \/ conn'[a][b].resps \in {<<>>, conn[a][b].resps}
  \/ /\ conn[a][b].reqs # <<>> /\ round' = round
     /\ \E m : conn'[a][b].resps = <<m>> /\ Answers(a, b, m)

\* What a knows of b's log: as before, forgotten, or learnt from the answer to round r.
Forgets(a, b) ==
  /\ log' = log \/ \E t : becomeLeader(a, t)
  /\ nextIndex'[a][b] \in {1, LastIndex(log[a]) + 1} /\ matchIndex'[a][b] \in {0, matchIndex[a][b]}

Told(a, b, r) ==
  LET rd   == round[a][r]
      resp == Head(conn[a][b].resps)
  IN  /\ rd.peer = b /\ conn[a][b].resps # <<>> /\ log' = log
      /\ nextIndex'[a][b] = NextAfter(nextIndex[a][b], rd.last, resp)
      /\ matchIndex'[a][b] = IF resp.type = "append" /\ resp.ok /\ rd.last > 0 THEN rd.last
                             ELSE matchIndex[a][b]

Linked(a, b) ==
  \/ nextIndex'[a][b] = nextIndex[a][b] /\ matchIndex'[a][b] = matchIndex[a][b]
  \/ Forgets(a, b) \/ \E r \in Rounds : Told(a, b, r)

Moves ==
  /\ \A a, b \in Node : a # b => Asked(a, b) /\ Replied(a, b) /\ Linked(a, b)
  /\ \A a \in Node, r \in Rounds : Goes(a, r)

LEMMA ReportedInit == Init => Reported
BY DEF Init, Reported, Idle, NoConn

\* What a round sends is in a term of its node.
LEMMA SendsInTerm ==
  ASSUME Reigns, Reported, NEW a \in Node, NEW r \in Rounds, Sends(a, r)
  PROVE  <<round'[a][r].term, a>> \in elected
BY DEF Sends, Reigns, Reported

\* The request of a round.
LEMMA SendsAppend ==
  ASSUME NEW a, NEW b, NEW rd, NEW i
  PROVE  LET m == AppendRequest(a, b, rd, i)
         IN  /\ m.type = "append" /\ m.term = rd.term /\ m.from = a /\ m.prev = i - 1
             /\ m.prevTerm = TermAt(log[a], i - 1) /\ m.entries = From(log[a], i)
             /\ m.commit = rd.commit
BY DEF AppendRequest

LEMMA ReportedKept ==
  ASSUME Reigns, Reported, Moves, elected \subseteq elected'
  PROVE  Reported'
<1>1. ASSUME NEW a \in Node, NEW b \in Node, a # b, conn'[a][b].reqs # <<>>,
             Head(conn'[a][b].reqs).type = "append"
      PROVE  <<Head(conn'[a][b].reqs).term, a>> \in elected
  <2>1. CASE conn'[a][b].reqs = conn[a][b].reqs
    BY <1>1, <2>1 DEF Reported
  <2>2. CASE Canvasses(a, b)
    BY <1>1, <2>2, OneMessage DEF Canvasses
  <2>3. ASSUME NEW r \in Rounds, round'[a][r].peer = b, Sends(a, r)
        PROVE  <<Head(conn'[a][b].reqs).term, a>> \in elected
    <3> DEFINE m == AppendRequest(a, b, round'[a][r], nextIndex'[a][b])
    <3>1. conn'[a][b].reqs = <<m>>
      BY <1>1, <2>3 DEF Sends
    <3>2. m.term = round'[a][r].term
      BY SendsAppend
    <3> HIDE DEF m
    <3>3. Head(conn'[a][b].reqs) = m
      BY <3>1, OneMessage
    <3> QED
      BY <2>3, <3>2, <3>3, SendsInTerm
  <2> QED
    BY <1>1, <2>1, <2>2, <2>3 DEF Moves, Asked
<1>2. ASSUME NEW a \in Node, NEW r \in Rounds, round'[a][r].peer # Nil
      PROVE  <<round'[a][r].term, a>> \in elected
  BY <1>2, SendsInTerm DEF Moves, Goes, Reported
<1> QED
  BY <1>1, <1>2 DEF Reported

\* Nothing happens to calls.
LEMMA MovesNot ==
  ASSUME UNCHANGED <<round, conn, leader>>
  PROVE  Moves
BY DEF Moves, Asked, Replied, Linked, Goes, leader

LEMMA MovesElection ==
  ASSUME TypeOK, Wires, "crossed" \notin mishaps', NEW n \in Node, startElection(n)
  PROVE  Moves
<1> DEFINE t == currentTerm[n] + 1
           req == [type |-> "vote", term |-> t, from |-> n,
                   lastIndex |-> LastIndex(log[n]), lastTerm |-> LastTerm(log[n])]
<1>1. /\ round' = round /\ state[n] # "Shutdown" /\ currentTerm'[n] = t
      /\ \A p \in Peers(n) : ~Calling(n, p)
      /\ \/ UNCHANGED conn /\ becomeLeader(n, t)
         \/ /\ conn' = [conn EXCEPT ![n] =
                         [p \in Node |-> IF p = n THEN NoConn ELSE Send(conn[n][p], p, req)]]
            /\ UNCHANGED <<log, leader>>
  <2>1. \A p \in Peers(n) : ~Calling(n, p)
    BY NotCrossed DEF startElection
  <2> QED
    BY <2>1 DEF startElection, Wires, Types
<1>2. ASSUME NEW b \in Node, b # n PROVE conn[n][b] = NoConn
  <2>1. Wire(n, b) /\ b \in Peers(n)
    BY <1>2 DEF Wires, Peers
  <2> QED
    BY <1>1, <2>1 DEF Wire
<1>3. req = [type |-> "vote", term |-> currentTerm'[n], from |-> n,
             lastIndex |-> LastIndex(log[n]), lastTerm |-> LastTerm(log[n])]
  BY <1>1
<1> HIDE DEF req, t
<1>4. CASE /\ conn' = [conn EXCEPT ![n] =
                         [p \in Node |-> IF p = n THEN NoConn ELSE Send(conn[n][p], p, req)]]
           /\ UNCHANGED <<log, leader>>
  <2>1. ASSUME NEW a \in Node, NEW b \in Node, a # b PROVE Asked(a, b) /\ Replied(a, b)
    <3>1. CASE a # n
      BY <1>4, <3>1 DEF Asked, Replied, Wires, Types
    <3>2. CASE a = n
      <4>1. conn'[n][b] = Send(NoConn, b, req)
        BY <1>2, <1>4, <2>1, <3>2 DEF Wires, Types
      <4>2. Send(NoConn, b, req).reqs \in {<<>>, <<req>>} /\ Send(NoConn, b, req).resps = <<>>
        BY OneMessage DEF Send, NoConn
      <4>3. conn'[n][b].reqs = <<req>> => Canvasses(n, b)
        BY <1>3, <1>4 DEF Canvasses
      <4> QED
        BY <3>2, <4>1, <4>2, <4>3 DEF Asked, Replied
    <3> QED
      BY <3>1, <3>2
  <2> QED
    BY <1>1, <1>4, <2>1 DEF Moves, Goes, Linked, leader
<1>5. CASE UNCHANGED conn /\ becomeLeader(n, t)
  <2>1. ASSUME NEW a \in Node, NEW b \in Node PROVE Linked(a, b)
    BY <1>5 DEF becomeLeader, Linked, Forgets, TypeOK
  <2> QED
    BY <1>1, <1>5, <2>1 DEF Moves, Asked, Replied, Goes
<1> QED
  BY <1>1, <1>4, <1>5

\* p takes the request of n, and answers m.
LEMMA MovesServed ==
  ASSUME Wires, NEW n \in Node, NEW p \in Node, n # p, conn[n][p].reqs # <<>>,
         NEW m, Answer(n, p, m), UNCHANGED <<round, leader>>, Answers(n, p, m)
  PROVE  Moves
<1>1. Carries(conn[n][p], n)
  BY DEF Wires, Wire
<1>2. Tail(conn[n][p].reqs) = <<>> /\ Append(conn[n][p].resps, m) = <<m>>
  BY <1>1, CarriesRequest
<1>3. /\ conn'[n][p].reqs = <<>> /\ conn'[n][p].resps = <<m>>
      /\ \A a, b \in Node : <<a, b>> # <<n, p>> => conn'[a][b] = conn[a][b]
  BY <1>2 DEF Answer, Wires, Types
<1>4. Asked(n, p) /\ Replied(n, p)
  BY <1>3 DEF Asked, Replied
<1>5. \A a, b \in Node : Asked(a, b) /\ Replied(a, b)
  BY <1>3, <1>4 DEF Asked, Replied
<1> QED
  BY <1>5 DEF Moves, Linked, Goes, leader

LEMMA MovesRequestVote ==
  ASSUME Wires, NEW n \in Node, NEW p \in Node, n # p, HandleRequestVote(n, p)
  PROVE  Moves
<1>1. PICK x, y : Answer(n, p, [type |-> "vote", term |-> x, ok |-> y, conflict |-> 0])
  BY DEF HandleRequestVote
<1>2. Answers(n, p, [type |-> "vote", term |-> x, ok |-> y, conflict |-> 0])
  BY DEF Answers
<1>3. conn[n][p].reqs # <<>> /\ UNCHANGED <<round, leader>>
  BY DEF HandleRequestVote, calls
<1> QED
  BY <1>1, <1>2, <1>3, MovesServed

\* p stores what it takes.
LEMMA StoresServed ==
  ASSUME Wires, NEW n \in Node, NEW p \in Node, n # p, HandleAppendEntries(n, p)
  PROVE  LET req == Head(conn[n][p].reqs)
         IN  req.term >= currentTerm[p] /\ Consistent(log[p], req) => Stores(n, p)
<1> DEFINE req == Head(conn[n][p].reqs)
<1>1. /\ Carries(conn[n][p], n) /\ conn[n][p].reqs # <<>> /\ req.type = "append"
      /\ currentTerm[p] \in Nat
      /\ IF req.term > currentTerm[p] THEN StepDown(p, req.term)
                                      ELSE UNCHANGED <<state, currentTerm, votedFor>>
  BY DEF HandleAppendEntries, Wires, Wire, Types
<1>2. req.term \in Nat
  BY <1>1, CarriesRequest DEF IsRequest
<1>3. ASSUME req.term >= currentTerm[p], Consistent(log[p], req) PROVE Stores(n, p)
  <2>1. currentTerm'[p] = req.term /\ (state'[p] = "Leader" => req.term = currentTerm[p])
    <3> HIDE DEF req
    <3>1. CASE req.term > currentTerm[p] /\ StepDown(p, req.term)
      <4>1. currentTerm'[p] = Max({currentTerm[p], req.term}) /\ state'[p] = "Follower"
        BY <3>1 DEF StepDown, Wires, Types
      <4> QED
        BY <1>1, <1>2, <3>1, <4>1, MaxOfTwo
    <3>2. CASE ~(req.term > currentTerm[p]) /\ UNCHANGED <<state, currentTerm>>
      BY <1>1, <1>2, <1>3, <3>2
    <3> QED
      BY <1>1, <3>1, <3>2
  <2>2. log' = [log EXCEPT ![p] = StoreAll(log[p], req.prev, req.entries)]
    BY <1>3, Zenon DEF HandleAppendEntries, Save
  <2> QED
    BY <1>1, <1>3, <2>1, <2>2 DEF Stores
<1> QED
  BY <1>3

LEMMA MovesAppendEntries ==
  ASSUME Wires, NEW n \in Node, NEW p \in Node, n # p, HandleAppendEntries(n, p)
  PROVE  Moves
<1> DEFINE req == Head(conn[n][p].reqs)
           ok == req.term >= currentTerm[p] /\ Consistent(log[p], req)
           m == [type |-> "append", term |-> Max({currentTerm[p], req.term}), ok |-> ok,
                 conflict |-> IF ok \/ req.term < currentTerm[p] THEN 0
                              ELSE findConflictIndex(log[p], req.prev)]
<1>1. /\ Carries(conn[n][p], n) /\ conn[n][p].reqs # <<>> /\ req.type = "append"
      /\ currentTerm[p] \in Nat /\ Answer(n, p, m) /\ UNCHANGED <<round, leader>>
      /\ ok \/ log' = log
  BY DEF HandleAppendEntries, calls, Wires, Wire, Types
<1>2. req.term \in Nat
  BY <1>1, CarriesRequest DEF IsRequest
<1>3. /\ m.type = "append" /\ m.ok = ok
      /\ m.conflict = IF ok \/ req.term < currentTerm[p] THEN 0
                      ELSE findConflictIndex(log[p], req.prev)
  OBVIOUS
<1>4. ok => Stores(n, p)
  BY StoresServed
<1> HIDE DEF m, ok
<1>5. Answers(n, p, m)
  <2>1. CASE ok
    BY <1>3, <1>4, <2>1 DEF Answers
  <2>2. CASE ~ok
    <3>1. m.conflict = 0 \/ (req.term >= currentTerm[p] /\ m.conflict = findConflictIndex(log[p], req.prev))
      <4> HIDE DEF req
      <4> QED
        BY <1>1, <1>2, <1>3, <2>2
    <3> QED
      BY <1>1, <1>3, <2>2, <3>1 DEF Answers
  <2> QED
    BY <2>1, <2>2
<1> QED
  BY <1>1, <1>5, MovesServed

\* The answer of p to n is read.
LEMMA MovesVoteReply ==
  ASSUME TypeOK, Wires, NEW n \in Node, NEW p \in Node, n # p, NEW t, VoteReply(n, p, t)
  PROVE  Moves
<1>1. /\ conn' = [conn EXCEPT ![n][p] = Read(n, p)] /\ round' = round /\ conn[n][p].resps # <<>>
      /\ becomeLeader(n, t) \/ UNCHANGED leader
  BY DEF VoteReply
<1>2. Read(n, p) = NoConn
  BY <1>1, ReadOne
<1>3. \A a, b \in Node : conn'[a][b] \in {NoConn, conn[a][b]}
  BY <1>1, <1>2 DEF Wires, Types
<1>4. ASSUME NEW a \in Node, NEW b \in Node PROVE Linked(a, b)
  <2>1. CASE becomeLeader(n, t)
    <3>1. a # n => nextIndex'[a] = nextIndex[a] /\ matchIndex'[a] = matchIndex[a]
      BY <2>1 DEF becomeLeader, TypeOK
    <3>2. a = n => nextIndex'[a][b] = LastIndex(log[n]) + 1 /\ matchIndex'[a][b] = 0
      BY <2>1 DEF becomeLeader, TypeOK
    <3> QED
      BY <2>1, <3>1, <3>2 DEF Linked, Forgets
  <2>2. CASE UNCHANGED leader
    BY <2>2 DEF Linked, leader
  <2> QED
    BY <1>1, <2>1, <2>2
<1>5. \A a, b \in Node : Asked(a, b) /\ Replied(a, b)
  BY <1>3 DEF Asked, Replied, NoConn
<1>6. \A a \in Node, r \in Rounds : Goes(a, r)
  BY <1>1 DEF Goes
<1> QED
  BY <1>4, <1>5, <1>6 DEF Moves

LEMMA MovesNextPeer ==
  ASSUME TypeOK, Wires, "crossed" \notin mishaps', NEW n \in Node, NEW r \in Rounds, NEW rd, IsRound(n, rd),
         NEW cn, DOMAIN cn = Node, FreeOf(n, r, cn),
         \A q \in Peers(n) : cn[q] = conn[n][q] \/ cn[q] = NoConn,
         NEW ni, NextPeer(n, r, rd, cn, ni), log' = log, nextIndex'[n] = ni,
         \/ round[n][r].peer # Nil /\ rd.term = round[n][r].term /\ rd.commit = round[n][r].commit
         \/ state[n] = "Leader" /\ rd.term = currentTerm[n] /\ rd.commit = commitIndex[n]
  PROVE  /\ \A a, b \in Node : a # b => Asked(a, b) /\ Replied(a, b)
         /\ \A a \in Node, s \in Rounds : Goes(a, s)
<1>1. /\ \A q \in Peers(n) : cn[q].reqs = conn[n][q].reqs \/ cn[q].reqs = <<>>
      /\ \A q \in Peers(n) : cn[q].resps = conn[n][q].resps \/ cn[q].resps = <<>>
      /\ \A q \in Node : q # n <=> q \in Peers(n)
  BY DEF NoConn, Peers
<1>2. CASE round' = [round EXCEPT ![n][r] = Idle] /\ conn' = [conn EXCEPT ![n] = cn]
  <2>1. \A a, b \in Node : a # b => Asked(a, b) /\ Replied(a, b)
    BY <1>1, <1>2 DEF Asked, Replied, Wires, Types
  <2>2. \A a \in Node, s \in Rounds : round'[a][s] = Idle \/ round'[a][s] = round[a][s]
    BY <1>2 DEF Wires, Types
  <2> QED
    BY <2>1, <2>2, IdleRound DEF Goes
<1>3. ASSUME NEW p \in rd.todo, Called(n, {p}),
             round' = [round EXCEPT ![n][r] =
                         [rd EXCEPT !.todo = @ \ {p}, !.peer = p,
                                    !.last = LastSent(AppendRequest(n, p, rd, ni[p]).entries)]],
             conn' = [conn EXCEPT ![n] =
                        [cn EXCEPT ![p] = Send(@, p, AppendRequest(n, p, rd, ni[p]))]]
      PROVE  /\ \A a, b \in Node : a # b => Asked(a, b) /\ Replied(a, b)
             /\ \A a \in Node, s \in Rounds : Goes(a, s)
  <2> DEFINE req == AppendRequest(n, p, rd, ni[p])
             new == [rd EXCEPT !.todo = @ \ {p}, !.peer = p, !.last = LastSent(req.entries)]
  <2>1. p \in Peers(n) /\ p \in Node /\ p # n
    BY DEF IsRound, Peers
  <2>2. cn[p] = NoConn
    <3>1. ~Calling(n, p)
      BY <1>3, NotCrossed
    <3> QED
      BY <2>1, <3>1 DEF Calling, FreeOf
  <2>3. /\ new.term = rd.term /\ new.commit = rd.commit /\ new.peer = p
        /\ new.last = LastSent(From(log[n], ni[p])) /\ req = AppendRequest(n, p, new, ni[p])
    <3>1. new.term = rd.term /\ new.commit = rd.commit /\ new.peer = p
          /\ new.last = LastSent(req.entries)
      BY DEF IsRound
    <3>2. req.entries = From(log[n], ni[p])
      BY SendsAppend
    <3> HIDE DEF new
    <3> QED
      BY <3>1, <3>2 DEF AppendRequest
  <2>4. conn' = [conn EXCEPT ![n] = [cn EXCEPT ![p] = Send(NoConn, p, req)]]
    BY <1>3, <2>2
  <2>5. round' = [round EXCEPT ![n][r] = new]
    BY <1>3
  <2> HIDE DEF req, new
  <2>6. Send(NoConn, p, req).reqs \in {<<>>, <<req>>} /\ Send(NoConn, p, req).resps = <<>>
    BY OneMessage DEF Send, NoConn
  <2>7. /\ conn'[n][p] = Send(NoConn, p, req)
        /\ \A q \in Node \ {p} : conn'[n][q] = cn[q]
        /\ \A a \in Node \ {n} : conn'[a] = conn[a]
    BY <2>1, <2>4 DEF Wires, Types
  <2>8. /\ round'[n][r] = new
        /\ \A a \in Node, s \in Rounds : (a = n /\ s = r) \/ round'[a][s] = round[a][s]
    BY <2>5 DEF Wires, Types
  <2>9. Sends(n, r)
    <3>1. conn'[n][p].reqs \in {<<>>, <<req>>} /\ conn'[n][p].resps = <<>>
      BY <2>6, <2>7
    <3> QED
      BY <2>1, <2>3, <2>8, <3>1 DEF Sends
  <2>10. ASSUME NEW a \in Node, NEW b \in Node, a # b PROVE Asked(a, b) /\ Replied(a, b)
    <3>1. CASE a # n
      BY <2>7, <3>1 DEF Asked, Replied
    <3>2. CASE a = n /\ b # p
      BY <1>1, <2>7, <2>10, <3>2 DEF Asked, Replied
    <3>3. CASE a = n /\ b = p
      BY <2>3, <2>6, <2>7, <2>8, <2>9, <3>3 DEF Asked, Replied
    <3> QED
      BY <3>1, <3>2, <3>3
  <2>11. \A a \in Node, s \in Rounds : Goes(a, s)
    BY <2>8, <2>9 DEF Goes
  <2> QED
    BY <2>10, <2>11
<1> QED
  BY <1>2, <1>3 DEF NextPeer, LastSent

LEMMA MovesStartRound ==
  ASSUME TypeOK, Wires, "crossed" \notin mishaps', NEW n \in Node, NEW r \in Rounds, StartRound(n, r)
  PROVE  Moves
<1> DEFINE rd == [Idle EXCEPT !.term = currentTerm[n], !.commit = commitIndex[n],
                              !.todo = Peers(n)]
<1>1. /\ state[n] = "Leader" /\ round[n][r] = Idle /\ log' = log
      /\ NextPeer(n, r, rd, conn[n], nextIndex[n]) /\ UNCHANGED leader
  BY DEF StartRound, persistent
<1>2. rd = [term |-> currentTerm[n], commit |-> commitIndex[n], todo |-> Peers(n),
            peer |-> Nil, last |-> 0]
  BY BegunRound
<1> HIDE DEF rd
<1>3. IsRound(n, rd) /\ rd.term = currentTerm[n] /\ rd.commit = commitIndex[n]
  <2>1. currentTerm[n] \in Nat
    BY DEF Wires, Types
  <2> QED
    BY <1>1, <1>2, <2>1 DEF IsRound
<1>4. FreeOf(n, r, conn[n])
  BY <1>1, FreeToBegin
<1>5. DOMAIN conn[n] = Node /\ nextIndex'[n] = nextIndex[n]
  BY <1>1 DEF Wires, Types, leader
<1>6. /\ \A a, b \in Node : a # b => Asked(a, b) /\ Replied(a, b)
      /\ \A a \in Node, s \in Rounds : Goes(a, s)
  BY <1>1, <1>3, <1>4, <1>5, MovesNextPeer, Zenon
<1> QED
  BY <1>1, <1>6 DEF Moves, Linked, leader

LEMMA MovesAppendReply ==
  ASSUME TypeOK, Wires, "crossed" \notin mishaps', NEW n \in Node, NEW r \in Rounds, AppendReply(n, r)
  PROVE  Moves
<1> DEFINE rd == round[n][r]
           p == rd.peer
           resp == Head(conn[n][p].resps)
           ok == resp.type = "append" /\ resp.ok
           cn == [conn[n] EXCEPT ![p] = Read(n, p)]
           ni == [nextIndex[n] EXCEPT ![p] = NextAfter(@, rd.last, resp)]
           mi == [matchIndex[n] EXCEPT ![p] = IF ok /\ rd.last > 0 THEN rd.last ELSE @]
<1>1. /\ p # Nil /\ conn[n][p].resps # <<>> /\ log' = log
      /\ \/ /\ round' = [round EXCEPT ![n][r] = Idle] /\ conn' = [conn EXCEPT ![n] = cn]
            /\ UNCHANGED leader
         \/ /\ nextIndex' = [nextIndex EXCEPT ![n] = ni] /\ NextPeer(n, r, rd, cn, ni)
            /\ matchIndex' = [matchIndex EXCEPT ![n] = mi]
  BY Zenon DEF AppendReply
<1>2. IsRound(n, rd)
  BY DEF Wires
<1>3. p \in Peers(n) /\ p \in Node /\ p # n
  BY <1>1, <1>2, Zenon DEF IsRound, Peers
<1>4. /\ DOMAIN cn = Node /\ cn[p] = NoConn /\ \A q \in Node \ {p} : cn[q] = conn[n][q]
      /\ FreeOf(n, r, cn)
  <2>1. DOMAIN cn = Node /\ cn[p] = Read(n, p) /\ \A q \in Node \ {p} : cn[q] = conn[n][q]
    BY <1>3 DEF Wires, Types
  <2>2. p = round[n][r].peer /\ conn[n][p].resps # <<>>
    BY <1>1, Zenon
  <2> HIDE DEF p, cn, rd, ni, resp
  <2>3. cn[p] = NoConn /\ FreeOf(n, r, cn)
    BY <1>3, <2>1, <2>2, FreeToGoOn
  <2> QED
    BY <2>1, <2>3
<1>5. ASSUME nextIndex' = [nextIndex EXCEPT ![n] = ni], matchIndex' = [matchIndex EXCEPT ![n] = mi]
      PROVE  nextIndex'[n] = ni /\ \A a, b \in Node : a # b => Linked(a, b)
  <2>1. /\ nextIndex'[n] = ni /\ nextIndex'[n][p] = NextAfter(nextIndex[n][p], rd.last, resp)
        /\ matchIndex'[n][p] = IF ok /\ rd.last > 0 THEN rd.last ELSE matchIndex[n][p]
        /\ \A a, b \in Node : (a = n /\ b = p) \/ (nextIndex'[a][b] = nextIndex[a][b]
                                                   /\ matchIndex'[a][b] = matchIndex[a][b])
    BY <1>3, <1>5, Zenon DEF TypeOK
  <2>2. Told(n, p, r)
    BY <1>1, <2>1, Zenon DEF Told
  <2>3. ASSUME NEW a \in Node, NEW b \in Node PROVE Linked(a, b)
    <3>1. CASE a = n /\ b = p
      BY <2>2, <3>1, Zenon DEF Linked
    <3>2. CASE ~(a = n /\ b = p)
      BY <2>1, <3>2, Zenon DEF Linked
    <3> QED
      BY <3>1, <3>2
  <2> QED
    BY <2>1, <2>3, Zenon
<1> HIDE DEF cn, ni, mi, ok, resp
<1>6. CASE /\ round' = [round EXCEPT ![n][r] = Idle] /\ conn' = [conn EXCEPT ![n] = cn]
           /\ UNCHANGED leader
  <2>1. \A a, b \in Node : a # b => conn'[a][b] \in {NoConn, conn[a][b]}
    BY <1>4, <1>6 DEF Wires, Types
  <2>2. \A a, b \in Node : a # b => Asked(a, b) /\ Replied(a, b)
    BY <2>1 DEF Asked, Replied, NoConn
  <2>3. \A a \in Node, s \in Rounds : round'[a][s] = Idle \/ round'[a][s] = round[a][s]
    BY <1>6 DEF Wires, Types
  <2> QED
    BY <1>6, <2>2, <2>3, IdleRound DEF Moves, Goes, Linked, leader
<1>7. CASE /\ nextIndex' = [nextIndex EXCEPT ![n] = ni] /\ NextPeer(n, r, rd, cn, ni)
           /\ matchIndex' = [matchIndex EXCEPT ![n] = mi]
  <2>1. nextIndex'[n] = ni /\ \A a, b \in Node : a # b => Linked(a, b)
    BY <1>5, <1>7
  <2>2. \A q \in Peers(n) : cn[q] = conn[n][q] \/ cn[q] = NoConn
    BY <1>3, <1>4 DEF Peers
  <2>3. round[n][r].peer # Nil /\ rd.term = round[n][r].term /\ rd.commit = round[n][r].commit
    BY <1>1
  <2> HIDE DEF rd
  <2>4. /\ \A a, b \in Node : a # b => Asked(a, b) /\ Replied(a, b)
        /\ \A a \in Node, s \in Rounds : Goes(a, s)
    BY <1>1, <1>2, <1>4, <1>7, <2>1, <2>2, <2>3, MovesNextPeer
  <2> QED
    BY <2>1, <2>4 DEF Moves
<1> QED
  BY <1>1, <1>6, <1>7

\* log.bin had the log of a node that goes down.
LEMMA LogBack ==
  ASSUME TypeOK, "reverted" \notin mishaps', NEW n \in Node, NEW lost, NEW torn, Down(n, lost, torn)
  PROVE  log' = log
<1>1. log' = [log EXCEPT ![n] = disk[n]] /\ log[n] = disk[n] /\ log \in [Node -> Log]
  BY DEF Down, TypeOK
<1> QED
  BY <1>1

LEMMA MovesDown ==
  ASSUME TypeOK, Wires, "reverted" \notin mishaps', NEW n \in Node, NEW lost, NEW torn,
         Down(n, lost, torn)
  PROVE  Moves
<1>1. /\ round' = [round EXCEPT ![n] = [r \in Rounds |-> Idle]]
      /\ nextIndex' = [nextIndex EXCEPT ![n] = [p \in Node |-> 1]]
      /\ matchIndex' = [matchIndex EXCEPT ![n] = [p \in Node |-> 0]]
      /\ conn' = [a \in Node |-> [b \in Node |->
                    IF b = n THEN NoConn
                    ELSE IF a = n THEN IF b \in lost THEN NoConn
                                       ELSE [conn[n][b] EXCEPT !.resps = <<>>]
                    ELSE conn[a][b]]]
  BY DEF Down
<1> log' = log
  BY LogBack
<1>2. ASSUME NEW a \in Node, NEW b \in Node, a # b
      PROVE  /\ conn'[a][b].reqs \in {<<>>, conn[a][b].reqs}
             /\ conn'[a][b].resps \in {<<>>, conn[a][b].resps}
  <2>1. Carries(conn[a][b], a)
    BY <1>2 DEF Wires, Wire
  <2>2. /\ [conn[a][b] EXCEPT !.resps = <<>>].reqs = conn[a][b].reqs
        /\ [conn[a][b] EXCEPT !.resps = <<>>].resps = <<>>
    BY <2>1 DEF Carries
  <2> QED
    BY <1>1, <2>2 DEF NoConn
<1>3. \A a \in Node, s \in Rounds : round'[a][s] = Idle \/ round'[a][s] = round[a][s]
  BY <1>1 DEF Wires, Types
<1>4. \A a, b \in Node : Linked(a, b)
  BY <1>1 DEF Linked, Forgets, TypeOK
<1> QED
  BY <1>2, <1>3, <1>4, IdleRound DEF Moves, Asked, Replied, Goes

LEMMA MovesCallFails ==
  ASSUME TypeOK, Wires, "reverted" \notin mishaps', NEW n \in Node, NEW p \in Node, n # p, CallFails(n, p)
  PROVE  Moves
<1>1. CASE \E lost \in SUBSET {p} : Down(n, lost, FALSE)
  BY <1>1, MovesDown
<1>2. CASE conn' = [conn EXCEPT ![n][p] = NoConn] /\ UNCHANGED <<round, leader>>
  <2>1. \A a, b \in Node : conn'[a][b] \in {NoConn, conn[a][b]}
    BY <1>2 DEF Wires, Types
  <2> QED
    BY <1>2, <2>1 DEF Moves, Asked, Replied, Linked, Goes, NoConn, leader
<1> QED
  BY <1>1, <1>2 DEF CallFails

LEMMA MovesRestart ==
  ASSUME TypeOK, Wires, NEW n \in Node, Restart(n)
  PROVE  Moves
<1>1. /\ conn' = [conn EXCEPT ![n] = [p \in Node |-> NoConn]] /\ round' = round
      /\ nextIndex' = [nextIndex EXCEPT ![n] = [p \in Node |-> LastIndex(log[n]) + 1]]
      /\ UNCHANGED <<log, matchIndex>>
  BY DEF Restart, calls, persistent
<1>2. \A a, b \in Node : conn'[a][b] \in {NoConn, conn[a][b]}
  BY <1>1 DEF Wires, Types
<1>3. \A a, b \in Node : Linked(a, b)
  BY <1>1 DEF Linked, Forgets, TypeOK
<1> QED
  BY <1>1, <1>2, <1>3 DEF Moves, Asked, Replied, Goes, NoConn

-----------------------------------------------------------------------------
\* What a step does to elections and logs.

Turn ==
  \/ Steady /\ \/ log' = log
               \/ \E n \in Node : Proposes(n) \/ Compacts(n) \/ \E p \in Node : Stores(n, p)
  \/ \E n \in Node : Runs(n) /\ log' = log
  \/ \E n \in Node, t \in 1..MaxTerm : Wins(n, t)

\* One node goes on to a later term, or comes to rest.
LEMMA SteadyMoves ==
  ASSUME Wires, elected' = elected, NEW p \in Node, NEW x, NEW y \in Nat,
         state' = [state EXCEPT ![p] = x], currentTerm' = [currentTerm EXCEPT ![p] = y],
         y >= currentTerm[p],
         x \in {"Candidate", "Leader"} => x = state[p] /\ y = currentTerm[p]
  PROVE  Steady
<1>1. \A v \in Node : currentTerm[v] \in Nat
  BY DEF Wires, Types
<1>2. /\ \A v \in Node \ {p} : state'[v] = state[v] /\ currentTerm'[v] = currentTerm[v]
      /\ state'[p] = x /\ currentTerm'[p] = y
  BY DEF Wires, Types
<1> QED
  BY <1>1, <1>2 DEF Steady

LEMMA SteadyNot ==
  ASSUME Wires, UNCHANGED <<state, currentTerm, elected>>
  PROVE  Steady
<1>1. \A v \in Node : currentTerm[v] \in Nat
  BY DEF Wires, Types
<1> QED
  BY <1>1 DEF Steady

LEMMA SteadyStepDown ==
  ASSUME Wires, elected' = elected, NEW p \in Node, NEW term \in Nat, StepDown(p, term)
  PROVE  Steady
<1>1. currentTerm[p] \in Nat
  BY DEF Wires, Types
<1> DEFINE y == Max({currentTerm[p], term})
<1>2. y \in Nat /\ y >= currentTerm[p]
  BY <1>1, MaxOfTwo
<1>3. state' = [state EXCEPT ![p] = "Follower"] /\ currentTerm' = [currentTerm EXCEPT ![p] = y]
  BY DEF StepDown
<1> HIDE DEF y
<1> QED
  BY <1>2, <1>3, SteadyMoves

\* A crash that leaves state.json as it was.
LEMMA CrashDown ==
  ASSUME TypeOK, "torn" \notin mishaps', NEW n \in Node, Crash(n)
  PROVE  \E lost : Down(n, lost, FALSE)
<1>1. scope.torn \in BOOLEAN
  BY RaftAssumption DEF TypeOK, Scope
<1>2. PICK torn \in {FALSE, scope.torn} : \E lost : Down(n, lost, torn)
  BY DEF Crash
<1>3. torn \in BOOLEAN
  BY <1>1, <1>2
<1>4. torn => "torn" \in mishaps'
  BY <1>2, Zenon DEF Down
<1>5. torn = FALSE
  BY <1>3, <1>4
<1> QED
  BY <1>2, <1>5

LEMMA SteadyDown ==
  ASSUME TypeOK, Wires, "reverted" \notin mishaps', NEW n \in Node, NEW lost, Down(n, lost, FALSE)
  PROVE  Steady /\ log' = log
<1> DEFINE x == "Shutdown"
           y == currentTerm[n]
<1>1. /\ state' = [state EXCEPT ![n] = x] /\ currentTerm' = [currentTerm EXCEPT ![n] = y]
      /\ elected' = elected /\ log' = log
  BY LogBack DEF Down
<1>2. y \in Nat /\ y >= currentTerm[n] /\ x \notin {"Candidate", "Leader"}
  BY DEF Wires, Types
<1> HIDE DEF x, y
<1> QED
  BY <1>1, <1>2, SteadyMoves

LEMMA TurnElection ==
  ASSUME TypeOK, Wires, Reigns, "crossed" \notin mishaps', NEW n \in Node, startElection(n)
  PROVE  Turn
<1> DEFINE t == currentTerm[n] + 1
<1>1. currentTerm[n] \in 0..MaxTerm /\ MaxTerm \in Nat
  BY RaftAssumption DEF TypeOK
<1>2. t \in 1..MaxTerm
  <2>1. scope.terms \in 0..MaxTerm
    BY RaftAssumption DEF TypeOK, Scope
  <2>2. t <= scope.terms
    BY DEF startElection
  <2> QED
    BY <1>1, <2>1, <2>2
<1>3. /\ currentTerm' = [currentTerm EXCEPT ![n] = t] /\ round' = round
      /\ \A p \in Peers(n) : ~Calling(n, p)
      /\ \/ Majority <= 1 /\ becomeLeader(n, t)
         \/ state' = [state EXCEPT ![n] = "Candidate"] /\ log' = log /\ elected' = elected
  BY NotCrossed DEF startElection
<1>4. <<t, n>> \notin elected
  <2>1. \A e \in elected : e[1] <= currentTerm[e[2]]
    BY DEF Reigns
  <2>2. <<t, n>> \in elected => t <= currentTerm[n]
    BY <2>1
  <2> QED
    BY <1>1, <2>2
<1>5. t > currentTerm[n] /\ t >= currentTerm[n] /\ t = currentTerm[n] + 1
  BY <1>1
<1> HIDE DEF t
<1>6. CASE Majority <= 1 /\ becomeLeader(n, t)
  <2>1. Node = {n}
    <3>1. Cardinality(Node) \in Nat /\ IsFiniteSet(Node) /\ Cardinality(Node) # 0
      BY RaftAssumption, FS_CardinalityType, FS_EmptySet
    <3>2. Cardinality(Node) = 1
      BY <1>6, <3>1 DEF Majority
    <3>3. PICK x : Node = {x}
      BY <3>1, <3>2, FS_Singleton
    <3> QED
      BY <3>3
  <2>2. \A p \in Node : nextIndex'[n][p] = LastIndex(log[n]) + 1
    BY <1>6 DEF becomeLeader, TypeOK
  <2>3. Wins(n, t)
    <3>1. /\ state' = [state EXCEPT ![n] = "Leader"] /\ elected' = elected \cup {<<t, n>>}
          /\ log' = [log EXCEPT ![n] = Append1(log[n], [index |-> LastIndex(log[n]) + 1, term |-> t,
                                                        type |-> "NoOp"])]
      BY <1>6 DEF becomeLeader, Save
    <3>2. Others(n) /\ state'[n] = "Leader" /\ currentTerm'[n] = t
      BY <1>3, <3>1 DEF Others, Wires, Types
    <3> QED
      BY <1>2, <1>4, <1>5, <2>1, <2>2, <3>1, <3>2 DEF Wins
  <2> QED
    BY <1>2, <2>3 DEF Turn
<1>7. CASE state' = [state EXCEPT ![n] = "Candidate"] /\ log' = log /\ elected' = elected
  <2>1. \A r \in Rounds : round'[n][r].peer = Nil
    BY <1>3 DEF Calling, Wires, IsRound
  <2>2. Runs(n)
    BY <1>3, <1>5, <1>7, <2>1 DEF Runs, Others, Wires, Types
  <2> QED
    BY <1>7, <2>2 DEF Turn
<1> QED
  BY <1>3, <1>6, <1>7

LEMMA TurnRequestVote ==
  ASSUME Wires, NEW n \in Node, NEW p \in Node, n # p, HandleRequestVote(n, p)
  PROVE  Turn
<1> DEFINE req == Head(conn[n][p].reqs)
           x == IF req.term > currentTerm[p] THEN "Follower" ELSE state[p]
           y == Max({currentTerm[p], req.term})
<1>1. Carries(conn[n][p], n) /\ conn[n][p].reqs # <<>> /\ currentTerm[p] \in Nat
  BY DEF HandleRequestVote, Wires, Wire, Types
<1>2. req.term \in Nat
  BY <1>1, CarriesRequest DEF IsRequest
<1>3. /\ state' = [state EXCEPT ![p] = x] /\ currentTerm' = [currentTerm EXCEPT ![p] = y]
      /\ elected' = elected /\ log' = log
  BY DEF HandleRequestVote
<1> HIDE DEF req
<1>4. /\ y \in Nat /\ y >= currentTerm[p]
      /\ x \in {"Candidate", "Leader"} => x = state[p] /\ y = currentTerm[p]
  BY <1>1, <1>2, MaxOfTwo
<1> HIDE DEF x, y
<1>5. Steady
  BY <1>3, <1>4, SteadyMoves
<1> QED
  BY <1>3, <1>5 DEF Turn

LEMMA TurnVoteReply ==
  ASSUME TypeOK, Wires, Reigns, NEW n \in Node, NEW p \in Node, n # p, NEW t \in 1..MaxTerm,
         VoteReply(n, p, t)
  PROVE  Turn
<1> DEFINE resp == Head(conn[n][p].resps)
<1>1. conn[n][p].resps # <<>>
  BY DEF VoteReply
<1>2. resp.term \in Nat
  BY <1>1, ReadOne
<1>3. \/ StepDown(n, resp.term) /\ UNCHANGED <<log, elected>>
      \/ UNCHANGED <<state, currentTerm, log, elected>>
      \/ state[n] = "Candidate" /\ currentTerm[n] = t /\ becomeLeader(n, t) /\ UNCHANGED currentTerm
  BY DEF VoteReply
<1> HIDE DEF resp
<1>4. CASE StepDown(n, resp.term) /\ UNCHANGED <<log, elected>>
  BY <1>2, <1>4, SteadyStepDown DEF Turn
<1>5. CASE UNCHANGED <<state, currentTerm, log, elected>>
  BY <1>5, SteadyNot DEF Turn
<1>6. CASE state[n] = "Candidate" /\ currentTerm[n] = t /\ becomeLeader(n, t) /\ UNCHANGED currentTerm
  <2>1. <<t, n>> \notin elected /\ t >= currentTerm[n]
    BY <1>6 DEF Reigns
  <2>2. \A q \in Node : nextIndex'[n][q] = LastIndex(log[n]) + 1
    BY <1>6 DEF becomeLeader, TypeOK
  <2>3. Wins(n, t)
    BY <1>6, <2>1, <2>2 DEF becomeLeader, Save, Wins, Others, Wires, Types
  <2> QED
    BY <2>3 DEF Turn
<1> QED
  BY <1>3, <1>4, <1>5, <1>6

LEMMA TurnAppendReply ==
  ASSUME Wires, NEW n \in Node, NEW r \in Rounds, AppendReply(n, r)
  PROVE  Turn
<1> DEFINE p == round[n][r].peer
           resp == Head(conn[n][p].resps)
<1>1. /\ p # Nil /\ conn[n][p].resps # <<>> /\ log' = log /\ elected' = elected
      /\ StepDown(n, resp.term) \/ UNCHANGED <<state, currentTerm>>
  BY Zenon DEF AppendReply
<1>2. p \in Node /\ p # n
  <2>1. IsRound(n, round[n][r])
    BY DEF Wires
  <2> QED
    BY <1>1, <2>1 DEF IsRound, Peers
<1>3. resp.term \in Nat
  <2> HIDE DEF p
  <2> QED
    BY <1>1, <1>2, ReadOne
<1> HIDE DEF resp
<1>4. Steady
  BY <1>1, <1>3, SteadyStepDown, SteadyNot
<1> QED
  BY <1>1, <1>4 DEF Turn

LEMMA TurnAppendEntries ==
  ASSUME Wires, NEW n \in Node, NEW p \in Node, n # p, HandleAppendEntries(n, p)
  PROVE  Turn
<1> DEFINE req == Head(conn[n][p].reqs)
           ok == req.term >= currentTerm[p] /\ Consistent(log[p], req)
<1>1. Carries(conn[n][p], n) /\ conn[n][p].reqs # <<>> /\ currentTerm[p] \in Nat
  BY DEF HandleAppendEntries, Wires, Wire, Types
<1>2. req.term \in Nat
  BY <1>1, CarriesRequest DEF IsRequest
<1>3. /\ req.type = "append" /\ elected' = elected
      /\ \/ req.term > currentTerm[p] /\ StepDown(p, req.term)
         \/ ~(req.term > currentTerm[p]) /\ UNCHANGED <<state, currentTerm>>
      /\ \/ log' = log
         \/ ok
  BY DEF HandleAppendEntries
<1>4. Steady
  <2> HIDE DEF req, ok
  <2> QED
    BY <1>2, <1>3, SteadyStepDown, SteadyNot
<1>5. ok => Stores(n, p)
  BY StoresServed
<1> QED
  BY <1>3, <1>4, <1>5 DEF Turn

LEMMA TurnCallFails ==
  ASSUME TypeOK, Wires, "reverted" \notin mishaps', NEW n \in Node, NEW p \in Node, n # p, CallFails(n, p)
  PROVE  Turn
<1>1. CASE \E lost \in SUBSET {p} : Down(n, lost, FALSE)
  BY <1>1, SteadyDown DEF Turn
<1>2. CASE UNCHANGED <<state, currentTerm, log, elected>>
  BY <1>2, SteadyNot DEF Turn
<1> QED
  BY <1>1, <1>2 DEF CallFails, persistent

LEMMA TurnRestart ==
  ASSUME Wires, NEW n \in Node, Restart(n)
  PROVE  Turn
<1> DEFINE x == "Follower"
           y == currentTerm[n]
<1>1. /\ state' = [state EXCEPT ![n] = x] /\ currentTerm' = [currentTerm EXCEPT ![n] = y]
      /\ elected' = elected /\ log' = log
  BY DEF Restart, persistent, Wires, Types
<1>2. y \in Nat /\ y >= currentTerm[n] /\ x \notin {"Candidate", "Leader"}
  BY DEF Wires, Types
<1> HIDE DEF x, y
<1>3. Steady
  BY <1>1, <1>2, SteadyMoves
<1> QED
  BY <1>1, <1>3 DEF Turn

\* n compacts its log, or leaves it alone.
LEMMA SnapshotsLog ==
  ASSUME TypeOK, NEW n \in Node, Snapshots(n)
  PROVE  log' = log \/ Compacts(n)
<1>1. snapshotting[n].index \in Nat
  BY DEF TypeOK, Taking
<1>2. CASE CompactLog(n)
  BY <1>1, <1>2 DEF CompactLog, Compacts
<1>3. CASE CaptureSnapshot(n) \/ WriteSnapshot(n) \/ LabelSnapshot(n) \/ EncodeLog(n)
  BY <1>3 DEF CaptureSnapshot, WriteSnapshot, LabelSnapshot, EncodeLog, persistent
<1>4. CASE ReplaceLog(n)
  BY <1>4 DEF ReplaceLog
<1> QED
  BY <1>2, <1>3, <1>4 DEF Snapshots

LEMMA TurnLocal ==
  ASSUME TypeOK, Wires, NEW n \in Node, Local(n)
  PROVE  Turn /\ UNCHANGED <<round, conn, leader>>
<1>1. UNCHANGED <<state, currentTerm, elected, round, conn, leader>>
  BY LocalView DEF view, leader
<1>2. Steady
  BY <1>1, SteadyNot
<1>3. CASE Propose(n)
  <2>1. Proposes(n)
    BY <1>3 DEF Propose, Proposes, Save
  <2> QED
    BY <1>1, <1>2, <2>1 DEF Turn
<1>4. CASE Snapshots(n)
  BY <1>1, <1>2, <1>4, SnapshotsLog DEF Turn
<1> QED
  BY <1>3, <1>4 DEF Local

\* Every step is a turn, and moves what is under way as it should.
LEMMA TurnTaken ==
  ASSUME TypeOK, Wires, Reigns, [Next]_vars,
         "crossed" \notin mishaps', "torn" \notin mishaps', "reverted" \notin mishaps'
  PROVE  Turn /\ Moves
<1>1. CASE UNCHANGED vars
  BY <1>1, SteadyNot, MovesNot DEF vars, persistent, calls, leader, Turn
<1>2. ASSUME NEW n \in Node, Local(n)
      PROVE  Turn /\ Moves
  BY <1>2, TurnLocal, MovesNot
<1>3. ASSUME NEW n \in Node, Crash(n) PROVE Turn /\ Moves
  <2>1. PICK lost : Down(n, lost, FALSE)
    BY <1>3, CrashDown
  <2> QED
    BY <2>1, SteadyDown, MovesDown DEF Turn
<1>4. ASSUME NEW n \in Node, startElection(n) \/ Restart(n) PROVE Turn /\ Moves
  BY <1>4, TurnElection, MovesElection, TurnRestart, MovesRestart
<1>5. ASSUME NEW n \in Node, NEW r \in Rounds, StartRound(n, r) PROVE Turn /\ Moves
  <2>1. UNCHANGED <<state, currentTerm, elected, log>>
    BY <1>5 DEF StartRound, persistent
  <2> QED
    BY <1>5, <2>1, SteadyNot, MovesStartRound DEF Turn
<1>6. ASSUME NEW n \in Node, NEW r \in Rounds, AppendReply(n, r) PROVE Turn /\ Moves
  BY <1>6, TurnAppendReply, MovesAppendReply
<1>7. ASSUME NEW n \in Node, NEW p \in Peers(n),
             HandleRequestVote(n, p) \/ HandleAppendEntries(n, p)
      PROVE  Turn /\ Moves
  <2>1. p \in Node /\ n # p
    BY DEF Peers
  <2> QED
    BY <1>7, <2>1, TurnRequestVote, TurnAppendEntries, MovesRequestVote, MovesAppendEntries
<1>8. ASSUME NEW n \in Node, NEW p \in Peers(n),
             CallFails(n, p) \/ \E t \in 1..MaxTerm : VoteReply(n, p, t)
      PROVE  Turn /\ Moves
  <2>1. p \in Node /\ n # p
    BY DEF Peers
  <2> QED
    BY <1>8, <2>1, TurnCallFails, MovesCallFails, TurnVoteReply, MovesVoteReply
<1> QED
  BY <1>1, <1>2, <1>3, <1>4, <1>5, <1>6, <1>7, <1>8 DEF Next, Local, Snapshots

-----------------------------------------------------------------------------
\* Logs.

\* The entries of a request come from a log that matches.
Shipped(T, m) ==
  \E s \in Seq(Entry) : InBook(T, s) /\ Excerpt(m.prev, m.prevTerm, m.entries, s)

Appending(a, b) == a # b /\ conn[a][b].reqs # <<>> /\ Head(conn[a][b].reqs).type = "append"

Matching(T) ==
  /\ \A n \in Node : log[n].first = 1 /\ InBook(T, log[n].entries)
  /\ \A n \in Node : state[n] = "Leader" => T[currentTerm[n]] = log[n].entries
  /\ \A t \in 1..MaxTerm : T[t] # <<>> => \E n \in Node : <<t, n>> \in elected
  /\ \A a, b \in Node : Appending(a, b) => Shipped(T, Head(conn[a][b].reqs))

\* Leaders of now led before, in the same term.
Stayed(n) == state'[n] = "Leader" => state[n] = "Leader" /\ currentTerm'[n] = currentTerm[n]

\* The last index is where the last entry is.
LEMMA EndInPlace ==
  ASSUME NEW l \in Log, l.first = 1, NEW T, InBook(T, l.entries)
  PROVE  LastIndex(l) = Len(l.entries)
<1>1. CASE l.entries = <<>>
  <2>1. Len(l.entries) = 0
    BY <1>1, EmptySeq
  <2> QED
    BY <1>1, <2>1 DEF LastIndex
<1>2. CASE l.entries # <<>>
  <2>1. Len(l.entries) \in 1..Len(l.entries) /\ Last(l.entries) = l.entries[Len(l.entries)]
    BY <1>2, EntriesOf
  <2> QED
    BY <1>2, <2>1 DEF InBook, LastIndex
<1> QED
  BY <1>1, <1>2

LEMMA ExcerptOf ==
  ASSUME NEW l \in Log, l.first = 1, LastIndex(l) = Len(l.entries), NEW i \in Nat \ {0}
  PROVE  Excerpt(i - 1, TermAt(l, i - 1), From(l, i), l.entries)
<1> DEFINE s == l.entries
           b == Len(s)
           es == From(l, i)
           j == i - 1
<1>1. b \in Nat /\ s \in Seq(Entry) /\ \A k \in 1..b : s[k] \in Entry
  BY EntriesOf
<1>2. es = SubSeq(s, i, b)
  <2>1. Max({i, 1}) = i
    <3>1. i \in Nat /\ 1 \in Nat /\ i >= 1
      OBVIOUS
    <3> QED
      BY <3>1, MaxOfTwo
  <2>2. Min({b, b}) = b
    <3> HIDE DEF b
    <3> QED
      BY <1>1, MinOfTwo
  <2>3. LastIndex(l) + 1 - l.first = b /\ Max({i, l.first}) - l.first + 1 = i
    BY <1>1, <2>1
  <2> HIDE DEF b
  <2>4. LastIndex(l) + 1 - l.first = b /\ Len(l.entries) = b
    BY <2>3 DEF b
  <2>5. Min({LastIndex(l) + 1 - l.first, Len(l.entries)}) = b
    BY <2>2, <2>4
  <2> QED
    BY <2>3, <2>5 DEF From
<1> HIDE DEF es, s, b
<1>3. /\ Len(es) = IF i <= b THEN b - i + 1 ELSE 0
      /\ es \in Seq(Entry)
      /\ \A k \in 1..(b - i + 1) : es[k] = s[i + k - 1]
  <2>1. i \in Int /\ b \in Int /\ \A k \in i..b : s[k] \in Entry
    BY <1>1
  <2> QED
    BY <1>2, <2>1, SubSeqProperties
<1>4. j >= b => es = <<>>
  <2>1. j >= b => Len(es) = 0
    BY <1>1, <1>3
  <2> QED
    BY <1>3, <2>1, EmptySeq
<1>5. j < b => Len(es) = b - j /\ \A k \in 1..Len(es) : es[k] = s[j + k]
  <2> SUFFICES ASSUME j < b PROVE Len(es) = b - j /\ \A k \in 1..Len(es) : es[k] = s[j + k]
    OBVIOUS
  <2>1. i <= b /\ b - i + 1 = b - j
    BY <1>1
  <2>2. Len(es) = b - j /\ Len(es) = b - i + 1
    BY <1>3, <2>1
  <2>3. ASSUME NEW k \in 1..Len(es) PROVE es[k] = s[j + k]
    <3>1. i + k - 1 = j + k
      BY <1>1, <2>2
    <3> QED
      BY <1>3, <2>2, <2>3, <3>1
  <2> QED
    BY <2>2, <2>3
<1>6. j \in 1..b => TermAt(l, j) = s[j].term
  BY <1>1 DEF TermAt, Has, Get, s, b
<1>7. Excerpt(j, TermAt(l, j), es, s)
  <2> HIDE DEF j
  <2> QED
    BY <1>4, <1>5, <1>6 DEF Excerpt, b
<1> QED
  BY <1>7 DEF es, s

\* What is under way after a step is still from a log that matches.
LEMMA ShippedKept ==
  ASSUME TypeOK, TypeOK', NEW T \in Books, Matching(T), Moves, NEW a \in Node, NEW b \in Node,
         Appending(a, b)'
  PROVE  Shipped(T, Head(conn'[a][b].reqs))
<1>1. a # b /\ conn'[a][b].reqs # <<>> /\ Head(conn'[a][b].reqs).type = "append"
  BY DEF Appending
<1>2. CASE conn'[a][b].reqs = conn[a][b].reqs
  BY <1>1, <1>2 DEF Matching, Appending
<1>3. CASE Canvasses(a, b)
  BY <1>1, <1>3, OneMessage DEF Canvasses
<1>4. ASSUME NEW r \in Rounds, round'[a][r].peer = b, Sends(a, r)
      PROVE  Shipped(T, Head(conn'[a][b].reqs))
  <2> DEFINE i == nextIndex'[a][b]
             m == AppendRequest(a, b, round'[a][r], i)
  <2>1. Head(conn'[a][b].reqs) = m /\ i \in Nat \ {0}
    <3>1. conn'[a][b].reqs = <<m>>
      BY <1>1, <1>4 DEF Sends
    <3>2. i \in Nat \ {0}
      BY DEF TypeOK
    <3> HIDE DEF m
    <3> QED
      BY <3>1, <3>2, OneMessage
  <2>2. log[a] \in Log /\ log[a].first = 1 /\ InBook(T, log[a].entries)
    BY DEF TypeOK, Matching
  <2>3. LastIndex(log[a]) = Len(log[a].entries) /\ log[a].entries \in Seq(Entry)
    BY <2>2, EndInPlace, EntriesOf
  <2> HIDE DEF i
  <2>4. Excerpt(i - 1, TermAt(log[a], i - 1), From(log[a], i), log[a].entries)
    BY <2>1, <2>2, <2>3, ExcerptOf
  <2>5. m.prev = i - 1 /\ m.prevTerm = TermAt(log[a], i - 1) /\ m.entries = From(log[a], i)
    BY SendsAppend
  <2> HIDE DEF m
  <2> QED
    BY <2>1, <2>2, <2>3, <2>4, <2>5 DEF Shipped
<1> QED
  BY <1>1, <1>2, <1>3, <1>4 DEF Moves, Asked

\* The leader of term t, whose log x was its entry of the book, or who has none yet,
\* adds e.
LEMMA BookAppended ==
  ASSUME NEW T \in Books, NEW t \in 1..MaxTerm, NEW x \in Seq(Entry), NEW e \in Entry,
         T[t] = <<>> \/ T[t] = x
  PROVE  LET U == [T EXCEPT ![t] = Append(x, e)]
         IN  /\ U \in Books
             /\ \A s \in Seq(Entry) : InBook(T, s) => InBook(U, s)
             /\ InBook(T, x) /\ e.index = Len(x) + 1 /\ e.term = t => InBook(U, Append(x, e))
<1> DEFINE z == Append(x, e)
           U == [T EXCEPT ![t] = z]
<1>1. /\ z \in Seq(Entry) /\ Len(x) \in Nat /\ Len(z) = Len(x) + 1
      /\ \A k \in 1..Len(x) : z[k] = x[k]
      /\ z[Len(x) + 1] = e
  BY AppendProperties, LenProperties
<1> HIDE DEF z
<1>2. /\ U \in Books /\ U[t] = z
      /\ \A u \in 1..MaxTerm : u # t => U[u] = T[u]
  BY <1>1 DEF Books
<1> HIDE DEF U
<1>3. ASSUME NEW s \in Seq(Entry), InBook(T, s) PROVE InBook(U, s)
  <2> SUFFICES ASSUME NEW i \in 1..Len(s) PROVE Agree(s, U[s[i].term], i)
    BY <1>3 DEF InBook
  <2>1. s[i].term \in 1..MaxTerm /\ Agree(s, T[s[i].term], i) /\ Len(s) \in Nat
    BY <1>3, LenProperties DEF InBook
  <2>2. CASE s[i].term # t
    BY <1>2, <2>1, <2>2
  <2>3. CASE s[i].term = t
    <3>1. T[t] # <<>>
      <4>1. i <= Len(T[t])
        BY <2>1, <2>3 DEF Agree
      <4> QED
        BY <2>1, <4>1, EmptySeq
    <3>2. Agree(s, x, i)
      BY <2>1, <2>3, <3>1
    <3>3. Agree(s, z, i)
      BY <1>1, <2>1, <3>2 DEF Agree
    <3> QED
      BY <1>2, <2>3, <3>3
  <2> QED
    BY <2>2, <2>3
<1>4. ASSUME InBook(T, x), e.index = Len(x) + 1, e.term = t PROVE InBook(U, z)
  <2>1. InBook(U, x)
    BY <1>3, <1>4
  <2> SUFFICES ASSUME NEW i \in 1..Len(z)
               PROVE  z[i].index = i /\ z[i].term \in 1..MaxTerm /\ Agree(z, U[z[i].term], i)
    BY DEF InBook
  <2>2. CASE i \in 1..Len(x)
    <3>1. x[i].index = i /\ x[i].term \in 1..MaxTerm /\ Agree(x, U[x[i].term], i) /\ z[i] = x[i]
      BY <1>1, <2>1, <2>2 DEF InBook
    <3>2. Agree(z, U[x[i].term], i)
      BY <1>1, <2>2, <3>1 DEF Agree
    <3> QED
      BY <3>1, <3>2
  <2>3. CASE i = Len(x) + 1
    BY <1>1, <1>2, <1>4, <2>3 DEF Agree
  <2> QED
    BY <1>1, <2>2, <2>3
<1> QED
  BY <1>2, <1>3, <1>4 DEF U, z

-----------------------------------------------------------------------------
\* A step that leaves the logs.
LEMMA MatchingQuiet ==
  ASSUME TypeOK, TypeOK', NEW T \in Books, Matching(T), Moves, log' = log, elected \subseteq elected',
         \A n \in Node : Stayed(n)
  PROVE  Matching(T)'
<1>1. \A a, b \in Node : Appending(a, b)' => Shipped(T, Head(conn'[a][b].reqs))
  BY ShippedKept
<1>2. \A n \in Node : state'[n] = "Leader" => T[currentTerm'[n]] = log'[n].entries
  BY DEF Matching, Stayed
<1>3. \A t \in 1..MaxTerm : T[t] # <<>> => \E n \in Node : <<t, n>> \in elected'
  BY DEF Matching
<1>4. \A n \in Node : log'[n].first = 1 /\ InBook(T, log'[n].entries)
  BY DEF Matching
<1> QED
  BY <1>1, <1>2, <1>3, <1>4 DEF Matching, Shipped

\* The leader n of term t, of which the book has its log or nothing, adds an entry.
Adds(T, n, t, e) ==
  /\ t \in 1..MaxTerm /\ e \in Entry /\ e.index = LastIndex(log[n]) + 1 /\ e.term = t
  /\ T[t] = <<>> \/ T[t] = log[n].entries
  /\ log' = [log EXCEPT ![n] = Append1(log[n], e)]
  /\ elected' = elected \cup {<<t, n>>} /\ currentTerm'[n] = t
  /\ \A v \in Node \ {n} : Stayed(v)

\* The book then.
Added(T, n, t, e) == [T EXCEPT ![t] = Append(log[n].entries, e)]

LEMMA AddsProposed ==
  ASSUME TypeOK, Reigns, NEW T \in Books, Matching(T), NEW n \in Node, Steady, Proposes(n)
  PROVE  T[currentTerm[n]] = log[n].entries /\ \E e : Adds(T, n, currentTerm[n], e)
<1> DEFINE t == currentTerm[n]
           e == [index |-> LastIndex(log[n]) + 1, term |-> t, type |-> "Command"]
<1>1. LastIndex(log[n]) + 1 \in Nat
  BY EndOf DEF TypeOK
<1>2. <<t, n>> \in elected /\ state[n] = "Leader" /\ currentTerm'[n] = t
  BY DEF Reigns, Proposes
<1>3. t \in 1..MaxTerm
  BY <1>2 DEF TypeOK
<1>4. e \in Entry /\ e.index = LastIndex(log[n]) + 1 /\ e.term = t
  BY <1>1, <1>3, RaftAssumption DEF Entry
<1>5. T[t] = log[n].entries
  BY <1>2 DEF Matching
<1>6. log' = [log EXCEPT ![n] = Append1(log[n], e)]
  BY DEF Proposes
<1> HIDE DEF e
<1>7. Adds(T, n, t, e)
  BY <1>2, <1>3, <1>4, <1>5, <1>6 DEF Adds, Steady, Stayed
<1> QED
  BY <1>5, <1>7

LEMMA AddsWon ==
  ASSUME TypeOK, OneLeaderPerTerm', NEW T \in Books, Matching(T), NEW n \in Node,
         NEW t \in 1..MaxTerm, Wins(n, t)
  PROVE  T[t] = <<>> /\ \E e : Adds(T, n, t, e)
<1> DEFINE e == [index |-> LastIndex(log[n]) + 1, term |-> t, type |-> "NoOp"]
<1>1. LastIndex(log[n]) + 1 \in Nat
  BY EndOf DEF TypeOK
<1>2. /\ <<t, n>> \notin elected /\ elected' = elected \cup {<<t, n>>} /\ currentTerm'[n] = t
      /\ log' = [log EXCEPT ![n] = Append1(log[n], e)]
      /\ \A v \in Node \ {n} : Stayed(v)
  BY DEF Wins, Others, Stayed
<1>3. e \in Entry /\ e.index = LastIndex(log[n]) + 1 /\ e.term = t
  BY <1>1, RaftAssumption DEF Entry
<1>4. T[t] = <<>>
  <2> SUFFICES ASSUME T[t] # <<>> PROVE FALSE
    OBVIOUS
  <2>1. PICK v \in Node : <<t, v>> \in elected
    BY DEF Matching
  <2>2. <<t, v>> \in elected' /\ <<t, n>> \in elected'
    BY <1>2, <2>1
  <2>3. v = n
    BY <2>2 DEF OneLeaderPerTerm
  <2> QED
    BY <1>2, <2>1, <2>3
<1> HIDE DEF e
<1>5. Adds(T, n, t, e)
  BY <1>2, <1>3, <1>4 DEF Adds
<1> QED
  BY <1>4, <1>5

LEMMA MatchingAppended ==
  ASSUME TypeOK, TypeOK', NEW T \in Books, Matching(T), Moves, Reigns', OneLeaderPerTerm',
         NEW n \in Node, NEW t, NEW e, Adds(T, n, t, e)
  PROVE  \E U \in Books : U = Added(T, n, t, e) /\ Matching(U)'
<1> USE DEF Adds
<1> DEFINE x == log[n].entries
           U == [T EXCEPT ![t] = Append(x, e)]
<1>1. log[n] \in Log /\ log[n].first = 1 /\ InBook(T, x) /\ x \in Seq(Entry)
  BY EntriesOf DEF TypeOK, Matching
<1>2. e.index = Len(x) + 1
  BY <1>1, EndInPlace
<1>3. /\ U \in Books
      /\ \A s \in Seq(Entry) : InBook(T, s) => InBook(U, s)
      /\ InBook(U, Append(x, e))
  <2> HIDE DEF x
  <2>1. T[t] = <<>> \/ T[t] = x
    BY DEF x
  <2> QED
    BY <1>1, <1>2, <2>1, BookAppended
<1>4. U[t] = Append(x, e) /\ \A u \in 1..MaxTerm : u # t => U[u] = T[u]
  BY DEF Books
<1>5. /\ log'[n].first = 1 /\ log'[n].entries = Append(x, e)
      /\ \A v \in Node \ {n} : log'[v] = log[v]
  BY <1>1 DEF Append1, TypeOK, Log
<1> HIDE DEF U, x
<1>6. ASSUME NEW v \in Node PROVE log'[v].first = 1 /\ InBook(U, log'[v].entries)
  <2>1. CASE v = n
    BY <1>3, <1>5, <2>1
  <2>2. CASE v # n
    <3>1. log[v] \in Log /\ log[v].first = 1 /\ InBook(T, log[v].entries)
      BY DEF TypeOK, Matching
    <3> QED
      BY <1>3, <1>5, <2>2, <3>1, EntriesOf
  <2> QED
    BY <2>1, <2>2
<1>7. ASSUME NEW v \in Node, state'[v] = "Leader" PROVE U[currentTerm'[v]] = log'[v].entries
  <2>1. CASE v = n
    BY <1>4, <1>5, <2>1
  <2>2. CASE v # n
    <3>1. state[v] = "Leader" /\ currentTerm'[v] = currentTerm[v]
      BY <1>7, <2>2 DEF Stayed
    <3>2. <<currentTerm'[v], v>> \in elected'
      BY <1>7 DEF Reigns
    <3>3. currentTerm'[v] # t
      <4> SUFFICES ASSUME currentTerm'[v] = t PROVE FALSE
        OBVIOUS
      <4>1. \A a, b \in elected' : a[1] = b[1] => a[2] = b[2]
        BY DEF OneLeaderPerTerm
      <4>2. <<t, v>> \in elected' /\ <<t, n>> \in elected'
        BY <3>2
      <4>3. v = n
        BY <4>1, <4>2
      <4> QED
        BY <2>2, <4>3
    <3>4. currentTerm[v] \in 1..MaxTerm
      <4>1. elected' \subseteq (1..MaxTerm) \X Node
        BY DEF TypeOK
      <4> QED
        BY <3>1, <3>2, <4>1
    <3> QED
      BY <1>4, <1>5, <2>2, <3>1, <3>3, <3>4 DEF Matching
  <2> QED
    BY <2>1, <2>2
<1>8. ASSUME NEW u \in 1..MaxTerm, U[u] # <<>> PROVE \E v \in Node : <<u, v>> \in elected'
  BY <1>4, <1>8 DEF Matching
<1>9. ASSUME NEW a \in Node, NEW b \in Node, Appending(a, b)'
      PROVE  Shipped(U, Head(conn'[a][b].reqs))
  <2>1. Shipped(T, Head(conn'[a][b].reqs))
    BY <1>9, ShippedKept
  <2> QED
    BY <1>3, <2>1 DEF Shipped
<1>10. U = Added(T, n, t, e)
  BY DEF U, x, Added
<1> QED
  BY <1>3, <1>6, <1>7, <1>8, <1>9, <1>10 DEF Matching, Shipped

\* p stores what the leader n sent.
LEMMA MatchingStored ==
  ASSUME TypeOK, TypeOK', NEW T \in Books, Matching(T), Moves, Reigns, Reported, OneLeaderPerTerm, Steady,
         NEW n \in Node, NEW p \in Node, Stores(n, p)
  PROVE  Matching(T)'
<1> DEFINE req == Head(conn[n][p].reqs)
           l == StoreAll(log[p], req.prev, req.entries)
<1>1. /\ n # p /\ conn[n][p].reqs # <<>> /\ req.type = "append" /\ Consistent(log[p], req)
      /\ log' = [log EXCEPT ![p] = l]
      /\ state'[p] = "Leader" => req.term = currentTerm[p]
  BY DEF Stores
<1>2. Shipped(T, req)
  BY <1>1 DEF Matching, Appending
<1>3. req \in Request
  <2>1. conn[n][p].reqs \in Seq(Request)
    BY DEF TypeOK, Connection
  <2> HIDE DEF req
  <2> QED
    BY <1>1, <2>1, HeadTailProperties DEF req
<1>4. req.prev \in Nat /\ req.entries \in Seq(Entry)
  BY <1>1, <1>3 DEF Request
<1>5. PICK s \in Seq(Entry) : InBook(T, s) /\ Excerpt(req.prev, req.prevTerm, req.entries, s)
  BY <1>2 DEF Shipped
<1>6. log[p] \in Log /\ log[p].first = 1 /\ InBook(T, log[p].entries)
  BY DEF TypeOK, Matching
<1>7. l = log[p] \/ l = With(log[p], s)
  <2>1. req.prev = 0 \/ TermAt(log[p], req.prev) = req.prevTerm
    BY <1>1 DEF Consistent
  <2> HIDE DEF req
  <2> QED
    BY <1>4, <1>5, <1>6, <2>1, StoreAllBook
<1> HIDE DEF l
<1>8. log'[p] = l /\ \A v \in Node \ {p} : log'[v] = log[v]
  BY <1>1 DEF TypeOK
<1>9. ASSUME NEW v \in Node PROVE log'[v].first = 1 /\ InBook(T, log'[v].entries)
  <2>1. log[v].first = 1 /\ InBook(T, log[v].entries)
    BY DEF Matching
  <2> QED
    BY <1>5, <1>6, <1>7, <1>8, <2>1 DEF With
<1>10. state'[p] # "Leader"
  <2> SUFFICES ASSUME state'[p] = "Leader" PROVE FALSE
    OBVIOUS
  <2>1. state[p] = "Leader" /\ req.term = currentTerm[p]
    BY <1>1 DEF Steady
  <2>2. <<currentTerm[p], p>> \in elected
    BY <2>1 DEF Reigns
  <2>3. <<req.term, n>> \in elected
    BY <1>1 DEF Reported
  <2>4. <<currentTerm[p], n>> \in elected
    BY <2>1, <2>3
  <2>5. p = n
    BY <2>2, <2>4 DEF OneLeaderPerTerm
  <2> QED
    BY <1>1, <2>5
<1>11. ASSUME NEW v \in Node, state'[v] = "Leader" PROVE T[currentTerm'[v]] = log'[v].entries
  BY <1>8, <1>10, <1>11 DEF Steady, Matching
<1>12. \A a, b \in Node : Appending(a, b)' => Shipped(T, Head(conn'[a][b].reqs))
  BY ShippedKept
<1>13. \A t \in 1..MaxTerm : T[t] # <<>> => \E v \in Node : <<t, v>> \in elected'
  BY DEF Matching, Steady
<1> QED
  BY <1>9, <1>11, <1>12, <1>13 DEF Matching, Shipped
-----------------------------------------------------------------------------
\* No log starts earlier than before.
LEMMA StartsNoEarlier ==
  ASSUME TypeOK, TypeOK', Turn, Uncompacted'
  PROVE  Uncompacted /\ \A n \in Node : Compacts(n) => log' = log
<1>1. \A n \in Node : log[n] \in Log /\ log[n].first \in Nat \ {0} /\ log'[n].first = 1
  BY DEF TypeOK, Log, Uncompacted
<1>2. ASSUME NEW n \in Node, NEW e, log' = [log EXCEPT ![n] = Append1(log[n], e)]
      PROVE  Uncompacted
  <2>1. log'[n].first = log[n].first /\ \A v \in Node \ {n} : log'[v] = log[v]
    BY <1>1, <1>2 DEF Append1, TypeOK, Log
  <2> QED
    BY <1>1, <2>1 DEF Uncompacted
<1>3. ASSUME NEW n \in Node, Compacts(n) PROVE Uncompacted /\ log' = log
  <2>1. PICK i \in Nat : log' = [log EXCEPT ![n] = Compact(log[n], i)]
    BY <1>3 DEF Compacts
  <2> DEFINE l == Compact(log[n], i)
  <2>2. l = log[n] \/ l.first > log[n].first
    BY <1>1, CompactEnd
  <2> HIDE DEF l
  <2>3. log' = [log EXCEPT ![n] = l]
    BY <2>1 DEF l
  <2>4. log'[n] = l
    BY <2>3 DEF TypeOK
  <2>5. l = log[n]
    BY <1>1, <2>2, <2>4
  <2>6. log' = log
    BY <2>3, <2>5 DEF TypeOK
  <2> QED
    BY <1>1, <2>6 DEF Uncompacted
<1>4. ASSUME NEW n \in Node, NEW p \in Node, Stores(n, p) PROVE Uncompacted
  <2> DEFINE req == Head(conn[n][p].reqs)
             l == StoreAll(log[p], req.prev, req.entries)
  <2>1. /\ conn[n][p].reqs # <<>> /\ req.type = "append"
        /\ log' = [log EXCEPT ![p] = l]
    BY <1>4 DEF Stores
  <2>2. req \in Request
    <3>1. conn[n][p].reqs \in Seq(Request)
      BY DEF TypeOK, Connection
    <3> HIDE DEF req
    <3> QED
      BY <2>1, <3>1, HeadTailProperties DEF req
  <2>3. req.prev \in Nat /\ req.entries \in Seq(Entry)
    BY <2>1, <2>2 DEF Request
  <2>4. l.first = log[p].first
    <3> HIDE DEF req
    <3> QED
      BY <1>1, <2>3, StoreAllFirst
  <2> HIDE DEF l, req
  <2>5. log'[p].first = log[p].first /\ \A v \in Node \ {p} : log'[v] = log[v]
    BY <2>1, <2>4 DEF TypeOK
  <2> QED
    BY <1>1, <2>5 DEF Uncompacted
<1>5. log' = log => Uncompacted
  BY <1>1 DEF Uncompacted
<1>6. Uncompacted
  <2>1. \A n \in Node : Proposes(n) => Uncompacted
    BY <1>2 DEF Proposes
  <2>2. \A n \in Node : \A t \in 1..MaxTerm : Wins(n, t) => Uncompacted
    BY <1>2 DEF Wins
  <2> QED
    BY <1>3, <1>4, <1>5, <2>1, <2>2 DEF Turn
<1> QED
  BY <1>3, <1>6

\* While logs are complete, there is a book that they match.
Order == Uncompacted => \E T \in Books : Matching(T)

LEMMA OrderInit == Init => Order
<1> SUFFICES ASSUME Init PROVE \E T \in Books : Matching(T)
  BY DEF Order
<1> DEFINE T == [t \in 1..MaxTerm |-> <<>>]
<1>1. T \in Books
  BY EmptySeq DEF Books
<1>2. \A n \in Node : log[n].first = 1 /\ log[n].entries = <<>> /\ state[n] # "Leader"
  BY DEF Init, EmptyLog
<1>3. InBook(T, <<>>)
  <2>1. Len(<<>>) = 0
    BY EmptySeq
  <2> QED
    BY <2>1 DEF InBook
<1>4. \A a, b \in Node : ~Appending(a, b)
  BY DEF Init, NoConn, Appending
<1>5. \A t \in 1..MaxTerm : T[t] = <<>>
  OBVIOUS
<1> HIDE DEF T
<1> QED
  BY <1>1, <1>2, <1>3, <1>4, <1>5 DEF Matching

LEMMA OrderKept ==
  ASSUME TypeOK, TypeOK', Reigns, Reigns', Reported, OneLeaderPerTerm, OneLeaderPerTerm',
         Turn, Moves, Order
  PROVE  Order'
<1> SUFFICES ASSUME Uncompacted' PROVE \E T \in Books : Matching(T)'
  BY DEF Order, Books
<1>1. Uncompacted /\ \A n \in Node : Compacts(n) => log' = log
  BY StartsNoEarlier
<1>2. PICK T \in Books : Matching(T)
  BY <1>1 DEF Order
<1>3. Steady => elected \subseteq elected' /\ \A v \in Node : Stayed(v)
  BY DEF Steady, Stayed
<1>4. CASE Steady /\ log' = log
  BY <1>2, <1>3, <1>4, MatchingQuiet
<1>5. ASSUME NEW n \in Node, Steady, Proposes(n) PROVE \E U \in Books : Matching(U)'
  BY <1>2, <1>5, AddsProposed, MatchingAppended
<1>6. ASSUME NEW n \in Node, NEW t \in 1..MaxTerm, Wins(n, t) PROVE \E U \in Books : Matching(U)'
  BY <1>2, <1>6, AddsWon, MatchingAppended
<1>7. ASSUME NEW n \in Node, Runs(n), log' = log PROVE Matching(T)'
  <2>1. elected \subseteq elected' /\ \A v \in Node : Stayed(v)
    BY <1>7 DEF Runs, Others, Stayed
  <2> QED
    BY <1>2, <1>7, <2>1, MatchingQuiet
<1>8. ASSUME NEW n \in Node, NEW p \in Node, Steady, Stores(n, p) PROVE Matching(T)'
  BY <1>2, <1>8, MatchingStored
<1> QED
  BY <1>1, <1>2, <1>4, <1>5, <1>6, <1>7, <1>8 DEF Turn

\* Logs that match the same book match each other.
LEMMA OrderMatches == TypeOK /\ Order => LogMatching
<1> SUFFICES ASSUME TypeOK, Uncompacted, NEW T \in Books, Matching(T), NEW n \in Node, NEW m \in Node,
                    NEW i \in DOMAIN log[n].entries \cap DOMAIN log[m].entries,
                    log[n].entries[i].term = log[m].entries[i].term
             PROVE  SubSeq(log[n].entries, 1, i) = SubSeq(log[m].entries, 1, i)
  BY DEF Order, LogMatching, Sound
<1> DEFINE s == log[n].entries
           u == log[m].entries
<1>1. s \in Seq(Entry) /\ u \in Seq(Entry) /\ InBook(T, s) /\ InBook(T, u)
  BY EntriesOf DEF TypeOK, Matching
<1>2. s[i].term = u[i].term
  OBVIOUS
<1>3. i \in DOMAIN s /\ i \in DOMAIN u
  OBVIOUS
<1> HIDE DEF s, u
<1>4. i \in 1..Len(s) /\ i \in 1..Len(u) /\ i \in Nat
  BY <1>1, <1>3, LenProperties
<1>5. Agree(s, u, i)
  BY <1>1, <1>2, <1>4, AgreeThrough
<1>6. SubSeq(s, 1, i) = SubSeq(u, 1, i)
  BY <1>1, <1>4, <1>5, AgreeFirst
<1> QED
  BY <1>6 DEF s, u

\* Nothing went wrong that the logs depend on.
Calm == Without({"crossed", "miscounted", "torn", "reverted"})

LEMMA CalmBefore ==
  ASSUME [Next]_vars, Calm'
  PROVE  Calm
BY MishapsStay DEF Calm, Without

LEMMA CalmLeaders ==
  ASSUME [Next]_vars, Calm', ElectionSafety, ElectionSafety'
  PROVE  OneLeaderPerTerm /\ OneLeaderPerTerm'
<1>1. Without({"miscounted", "torn"}) /\ Without({"miscounted", "torn"})'
  BY CalmBefore DEF Calm, Without
<1> QED
  BY <1>1 DEF ElectionSafety, OneLeaderPerTerm

\* What holds then, of connections, elections and rounds.
Ordinary == Wires /\ Reigns /\ Reported

LEMMA OrdinaryInit == Init => Ordinary
BY WiresInit, ReignsInit, ReportedInit DEF Ordinary

LEMMA OrdinaryKept ==
  ASSUME TypeOK, TypeOK', Calm', Ordinary, [Next]_vars
  PROVE  Ordinary' /\ Turn /\ Moves
<1>1. "crossed" \notin mishaps' /\ "torn" \notin mishaps' /\ "reverted" \notin mishaps'
  BY DEF Calm, Without
<1>2. Wires' /\ Turn /\ Moves
  BY <1>1, WiresKept, TurnTaken DEF Ordinary
<1>3. Steady \/ \E n \in Node : Runs(n) \/ \E t \in Nat : Wins(n, t)
  BY <1>2, RaftAssumption DEF Turn
<1>4. elected \subseteq elected'
  BY <1>3 DEF Steady, Runs, Wins
<1> QED
  BY <1>2, <1>3, <1>4, ReignsKept, ReportedKept DEF Ordinary

\* Where two logs have an entry of the same term they agree on everything up to it, for any
\* number of nodes, terms, entries, crashes and failed calls (startElection, Propose, the
\* consistency check and the truncation of HandleAppendEntries): until a snapshot removes
\* the beginning of a log, a call crosses another one, a vote of another term is counted, or
\* a crash does not find on disk what was in memory.
THEOREM LogsMatch == Spec => []LogMatching
<1> DEFINE Inv == Calm => Ordinary /\ Order
<1>1. Init => Inv
  BY OrdinaryInit, OrderInit
<1>2. Inv /\ TypeOK /\ TypeOK' /\ ElectionSafety /\ ElectionSafety' /\ [Next]_vars => Inv'
  <2> SUFFICES ASSUME Inv, TypeOK, TypeOK', ElectionSafety, ElectionSafety', [Next]_vars, Calm'
               PROVE  Ordinary' /\ Order'
    OBVIOUS
  <2>1. Calm /\ OneLeaderPerTerm /\ OneLeaderPerTerm'
    BY CalmBefore, CalmLeaders
  <2>2. Ordinary' /\ Turn /\ Moves
    BY <2>1, OrdinaryKept
  <2>3. Order'
    BY <2>1, <2>2, OrderKept DEF Ordinary
  <2> QED
    BY <2>2, <2>3
<1>3. TypeOK /\ Inv => LogMatching
  BY OrderMatches DEF LogMatching, Sound, Calm
<1>4. Spec => []TypeOK /\ []ElectionSafety
  BY TypeCorrect, ElectionSafe
<1> HIDE DEF Inv
<1> QED
  BY <1>1, <1>2, <1>3, <1>4, PTL DEF Spec

-----------------------------------------------------------------------------
\* Who has what: the copies of entries.

\* The entries of a log, and the term of the last of them.
Es(n) == log[n].entries
End(s) == s[Len(s)].term

\* Every node, term and index of an entry.
Copies == SUBSET (Node \X (1..MaxTerm) \X Nat)

\* Entry i of the book for term k was written in that term.
Mark(T, k, i) == k \in 1..MaxTerm /\ i \in 1..Len(T[k]) /\ T[k][i].term = k

\* G has the copies nodes ever had: p had entry i of the leader of term k while it could
\* still acknowledge it, or it still may come to have it.
Holds(G, p, k, i) == currentTerm[p] <= k \/ <<p, k, i>> \in G

\* Two nodes hold it, and two have it.
Firm(G, k, i)    == \E p, q \in Node : p # q /\ Holds(G, p, k, i) /\ Holds(G, q, k, i)
Settled(G, k, i) == \E p, q \in Node : p # q /\ <<p, k, i>> \in G /\ <<q, k, i>> \in G

\* A page of the book ends in its term, and has no later one.
Pages(T) ==
  \A k \in 1..MaxTerm :
    /\ InBook(T, T[k])
    /\ T[k] # <<>> => End(T[k]) = k
    /\ \A i \in 1..Len(T[k]) : T[k][i].term <= k

\* A leader has what it wrote, copies are copies of something, and who has an entry of
\* a term it is not beyond has a copy.
Written(T, G) ==
  /\ \A k \in 1..MaxTerm, n \in Node : <<k, n>> \in elected =>
       T[k] # <<>> /\ \A i \in Nat : Mark(T, k, i) => <<n, k, i>> \in G
  /\ \A p, k, i : <<p, k, i>> \in G => p \in Node /\ Mark(T, k, i)
  /\ \A p \in Node, k, i \in Nat :
       currentTerm[p] <= k /\ Mark(T, k, i) /\ Agree(Es(p), T[k], i) => <<p, k, i>> \in G
  /\ \A p \in Node : Es(p) # <<>> => <<p, End(Es(p)), Len(Es(p))>> \in G

\* A copy is still in the log while another node holds the entry, and all later leaders
\* had what two nodes hold.
Kept(T, G) ==
  \A p, q \in Node, k, i \in Nat :
    p # q /\ <<p, k, i>> \in G /\ Holds(G, q, k, i) => Agree(Es(p), T[k], i)

Complete(T, G) ==
  \A k, i \in Nat, z \in 1..MaxTerm :
    Mark(T, k, i) /\ Firm(G, k, i) /\ z > k /\ T[z] # <<>> => Agree(T[z], T[k], i)

Core(T, G) == Pages(T) /\ Written(T, G) /\ Kept(T, G) /\ Complete(T, G)

\* What two nodes hold stays in the logs that have it.
Keeps(T, G) ==
  \A p \in Node, k, i \in Nat :
    Mark(T, k, i) /\ Firm(G, k, i) /\ Agree(Es(p), T[k], i) => Agree(log'[p].entries, T[k], i)

\* The book U continues T, and H has the copies of G and new ones.
Continues(T, U) == \A k \in 1..MaxTerm : Agree(T[k], U[k], Len(T[k]))

Forth(T, G, U, H) ==
  /\ Continues(T, U) /\ G \subseteq H
  /\ \A p, k, i : <<p, k, i>> \in H => <<p, k, i>> \in G \/ currentTerm'[p] <= k

TermsGrow == \A n \in Node : currentTerm[n] \in Nat /\ currentTerm'[n] \in Nat /\ currentTerm'[n] >= currentTerm[n]

\* Terms grow, and who was elected stays so.
LEMMA TermsGrowTurn ==
  ASSUME TypeOK, TypeOK', Turn
  PROVE  TermsGrow /\ elected \subseteq elected'
<1>1. \A n \in Node : currentTerm[n] \in Nat /\ currentTerm'[n] \in Nat
  BY RaftAssumption DEF TypeOK
<1>2. CASE Steady
  BY <1>1, <1>2 DEF Steady, TermsGrow
<1>3. ASSUME NEW n \in Node, Runs(n) PROVE TermsGrow /\ elected \subseteq elected'
  BY <1>1, <1>3 DEF Runs, Others, TermsGrow
<1>4. ASSUME NEW n \in Node, NEW t \in 1..MaxTerm, Wins(n, t)
      PROVE  TermsGrow /\ elected \subseteq elected'
  BY <1>1, <1>4 DEF Wins, Others, TermsGrow
<1> QED
  BY <1>2, <1>3, <1>4 DEF Turn

\* Two majorities meet, and where there are no more than four nodes one of any two is in
\* a majority.
LEMMA Meet ==
  ASSUME NEW P \in SUBSET Node, NEW Q \in SUBSET Node, Cardinality(P) >= Majority, Cardinality(Q) >= Majority
  PROVE  P \cap Q # {}
<1>1. /\ Cardinality(P) \in Nat /\ Cardinality(Q) \in Nat /\ Cardinality(Node) \in Nat
  BY RaftAssumption, FS_Subset, FS_CardinalityType
<1>2. Cardinality(P) + Cardinality(Q) > Cardinality(Node)
  BY <1>1, MajoritySize
<1> QED
  BY <1>2, RaftAssumption, FS_MajoritiesIntersect

\* Where there are no more than four nodes, one of any two is in a majority.
LEMMA Pair ==
  ASSUME Cardinality(Node) <= 4, NEW p \in Node, NEW q \in Node, p # q,
         NEW Q \in SUBSET Node, Cardinality(Q) >= Majority
  PROVE  p \in Q \/ q \in Q
<1> SUFFICES ASSUME p \notin Q, q \notin Q PROVE FALSE
  OBVIOUS
<1>1. IsFiniteSet(Q) /\ Cardinality(Q) \in Nat /\ Cardinality(Node) \in Nat
  BY RaftAssumption, FS_Subset, FS_CardinalityType
<1>2. IsFiniteSet(Q \cup {q}) /\ Cardinality(Q \cup {q}) = Cardinality(Q) + 1
  BY <1>1, FS_AddElement
<1>3. Cardinality((Q \cup {q}) \cup {p}) = Cardinality(Q) + 2
  <2> DEFINE R == Q \cup {q}
  <2>1. IsFiniteSet(R) /\ p \notin R /\ Cardinality(R) = Cardinality(Q) + 1
    BY <1>2
  <2> HIDE DEF R
  <2>2. Cardinality(R \cup {p}) = Cardinality(R) + 1
    BY <2>1, FS_AddElement
  <2>3. Cardinality(R \cup {p}) = Cardinality(Q) + 2
    BY <1>1, <2>1, <2>2
  <2> QED
    BY <2>3 DEF R
<1>4. Cardinality((Q \cup {q}) \cup {p}) <= Cardinality(Node)
  BY RaftAssumption, FS_Subset
<1>5. 2 * Majority > Cardinality(Node) /\ Majority \in Nat
  BY MajoritySize
<1> QED
  BY <1>1, <1>3, <1>4, <1>5

\* The types of books and logs.
LEMMA PageType ==
  ASSUME NEW T \in Books, NEW k \in 1..MaxTerm
  PROVE  /\ T[k] \in Seq(Entry) /\ Len(T[k]) \in Nat /\ k \in Nat
         /\ T[k] # <<>> => Len(T[k]) \in 1..Len(T[k])
         /\ \A i \in 1..Len(T[k]) : T[k][i] \in Entry /\ T[k][i].term \in Nat /\ T[k] # <<>>
<1>1. T[k] \in Seq(Entry)
  BY DEF Books
<1>2. Len(T[k]) \in Nat /\ (T[k] # <<>> => Len(T[k]) # 0) /\ (T[k] = <<>> => Len(T[k]) = 0)
  BY <1>1, EmptySeq, LenProperties
<1>3. \A i \in 1..Len(T[k]) : T[k][i] \in Entry
  BY <1>1, ElementOfSeq
<1> QED
  BY <1>1, <1>2, <1>3 DEF Entry

LEMMA SeqType ==
  ASSUME NEW s \in Seq(Entry)
  PROVE  /\ Len(s) \in Nat /\ (s # <<>> => Len(s) \in 1..Len(s)) /\ (s = <<>> => Len(s) = 0)
         /\ \A i \in 1..Len(s) : s[i] \in Entry /\ s[i].term \in Nat /\ s # <<>>
<1>2. Len(s) \in Nat /\ (s # <<>> => Len(s) # 0) /\ (s = <<>> => Len(s) = 0)
  BY EmptySeq, LenProperties
<1>3. \A i \in 1..Len(s) : s[i] \in Entry
  BY ElementOfSeq
<1> QED
  BY <1>2, <1>3 DEF Entry

\* An entry of a page is one of its positions.
LEMMA MarkType ==
  ASSUME NEW T \in Books, NEW k, NEW i, Mark(T, k, i)
  PROVE  k \in 1..MaxTerm /\ k \in Nat /\ i \in Nat /\ i >= 1 /\ T[k] # <<>> /\ i <= Len(T[k]) /\ Len(T[k]) \in Nat
<1>1. k \in 1..MaxTerm /\ i \in 1..Len(T[k])
  BY DEF Mark
<1> QED
  BY <1>1, PageType

\* Logs that agree up to an index agree before it, in either order.
LEMMA AgreeOn ==
  ASSUME NEW s, NEW u, NEW w, NEW i \in Nat, NEW j \in Nat, Agree(s, u, i), j <= i,
         Len(s) \in Nat, Len(u) \in Nat, Len(w) \in Nat
  PROVE  /\ Agree(s, u, j) /\ Agree(u, s, i) /\ Agree(u, s, j)
         /\ Agree(u, w, j) => Agree(s, w, j)
         /\ Agree(s, w, j) => Agree(u, w, j)
BY DEF Agree

\* The end of a log is an entry of the book.
LEMMA EndMark ==
  ASSUME NEW T \in Books, Pages(T), NEW s \in Seq(Entry), InBook(T, s), s # <<>>
  PROVE  /\ Mark(T, End(s), Len(s)) /\ Agree(s, T[End(s)], Len(s))
         /\ End(s) \in 1..MaxTerm /\ T[End(s)] # <<>>
         /\ \A j \in 1..Len(s) : s[j].term <= End(s)
<1>1. Len(s) \in Nat /\ Len(s) \in 1..Len(s)
  BY SeqType
<1>2. End(s) \in 1..MaxTerm /\ Agree(s, T[End(s)], Len(s))
  BY <1>1 DEF InBook, End
<1>3. /\ Len(T[End(s)]) \in Nat
      /\ \A i \in 1..Len(T[End(s)]) : T[End(s)][i].term <= End(s) /\ T[End(s)] # <<>>
  BY <1>2, PageType DEF Pages
<1>4. Len(s) \in 1..Len(T[End(s)]) /\ \A j \in 1..Len(s) : s[j] = T[End(s)][j]
  BY <1>1, <1>2, <1>3 DEF Agree
<1>5. T[End(s)][Len(s)].term = End(s)
  BY <1>1, <1>4 DEF End
<1> QED
  BY <1>1, <1>2, <1>3, <1>4, <1>5 DEF Mark

\* What a later page shares with an earlier one is before what it has of its own.
LEMMA Reach ==
  ASSUME NEW T \in Books, Pages(T), NEW k, NEW i, NEW z, NEW j, Mark(T, k, i), Mark(T, z, j),
         k < z, Agree(T[z], T[k], i)
  PROVE  i < j
<1>1. /\ k \in 1..MaxTerm /\ z \in 1..MaxTerm /\ i \in Nat /\ j \in Nat /\ j >= 1 /\ k \in Nat /\ z \in Nat
      /\ i <= Len(T[k]) /\ Len(T[k]) \in Nat
  BY MarkType
<1> SUFFICES ASSUME j <= i PROVE FALSE
  BY <1>1
<1>2. j \in 1..i /\ j \in 1..Len(T[k])
  BY <1>1
<1>3. T[z][j] = T[k][j] /\ T[z][j].term = z
  BY <1>2 DEF Agree, Mark
<1>4. T[k][j].term <= k
  BY <1>1, <1>2 DEF Pages
<1> QED
  BY <1>1, <1>3, <1>4

\* A log that ends in a later term, or in the term and reaches the entry, has what two nodes hold.
LEMMA HasFirm ==
  ASSUME NEW T \in Books, NEW G, Core(T, G), NEW s \in Seq(Entry), InBook(T, s), s # <<>>,
         NEW k, NEW i, Mark(T, k, i), Firm(G, k, i), End(s) > k \/ (End(s) = k /\ i <= Len(s))
  PROVE  i <= Len(s) /\ Agree(s, T[k], i)
<1> DEFINE z == End(s)
<1>1. Pages(T) /\ Complete(T, G)
  BY DEF Core
<1>2. /\ Mark(T, z, Len(s)) /\ Agree(s, T[z], Len(s))
      /\ z \in 1..MaxTerm /\ T[z] # <<>>
  BY <1>1, EndMark
<1>3. /\ k \in 1..MaxTerm /\ i \in Nat /\ k \in Nat /\ Len(s) \in Nat /\ z \in Nat
      /\ Len(T[z]) \in Nat /\ Len(T[k]) \in Nat
  BY <1>2, MarkType, SeqType
<1> HIDE DEF z
<1>4. CASE z > k
  <2>1. Agree(T[z], T[k], i)
    BY <1>1, <1>2, <1>3, <1>4 DEF Complete
  <2>2. i < Len(s)
    BY <1>1, <1>2, <1>3, <1>4, <2>1, Reach
  <2> QED
    BY <1>2, <1>3, <2>1, <2>2, AgreeOn
<1>5. CASE z = k /\ i <= Len(s)
  BY <1>2, <1>3, <1>5, AgreeOn
<1> QED
  BY <1>4, <1>5 DEF z

\* Logs that matched match what continues the book.
LEMMA InContinued ==
  ASSUME NEW T \in Books, NEW U \in Books, Continues(T, U)
  PROVE  /\ \A s \in Seq(Entry) : InBook(T, s) => InBook(U, s)
         /\ \A k, i : Mark(T, k, i) => Mark(U, k, i) /\ U[k] # <<>>
         /\ \A s \in Seq(Entry), k, i \in Nat : Mark(T, k, i) =>
              (Agree(s, T[k], i) <=> Agree(s, U[k], i))
<1>1. \A k \in 1..MaxTerm : Len(T[k]) \in Nat /\ Len(U[k]) \in Nat /\ Agree(T[k], U[k], Len(T[k]))
  BY PageType DEF Continues
<1>2. ASSUME NEW s \in Seq(Entry), NEW k \in 1..MaxTerm, NEW i \in Nat, i <= Len(T[k])
      PROVE  Agree(s, T[k], i) <=> Agree(s, U[k], i)
  <2>1. Len(s) \in Nat
    BY SeqType
  <2> QED
    BY <1>1, <1>2, <2>1 DEF Agree
<1>3. ASSUME NEW s \in Seq(Entry), InBook(T, s) PROVE InBook(U, s)
  <2> SUFFICES ASSUME NEW i \in 1..Len(s) PROVE Agree(s, U[s[i].term], i)
    BY <1>3 DEF InBook
  <2>1. s[i].term \in 1..MaxTerm /\ Agree(s, T[s[i].term], i) /\ Len(s) \in Nat
    BY <1>3, SeqType DEF InBook
  <2>2. i \in Nat /\ i <= Len(T[s[i].term])
    BY <2>1 DEF Agree
  <2> QED
    BY <1>2, <2>1, <2>2
<1>4. ASSUME NEW k, NEW i, Mark(T, k, i) PROVE Mark(U, k, i) /\ U[k] # <<>>
  <2>1. k \in 1..MaxTerm /\ i \in Nat /\ i >= 1 /\ i <= Len(T[k]) /\ T[k][i].term = k
    BY <1>4, MarkType DEF Mark
  <2>2. Mark(U, k, i)
    BY <1>1, <2>1 DEF Mark, Agree
  <2> QED
    BY <2>2, MarkType
<1>5. \A k, i : Mark(T, k, i) => k \in 1..MaxTerm /\ i <= Len(T[k])
  BY MarkType
<1> QED
  BY <1>2, <1>3, <1>4, <1>5

\* Who holds an entry after a step held it before.
LEMMA HeldBefore ==
  ASSUME TermsGrow, NEW T, NEW U, NEW G, NEW H, Forth(T, G, U, H), NEW k \in Nat, NEW i
  PROVE  /\ \A p \in Node : Holds(H, p, k, i)' => Holds(G, p, k, i)
         /\ Firm(H, k, i)' => Firm(G, k, i)
         /\ Settled(G, k, i) => Settled(H, k, i)
<1>1. ASSUME NEW p \in Node, Holds(H, p, k, i)' PROVE Holds(G, p, k, i)
  <2>1. currentTerm'[p] <= k \/ <<p, k, i>> \in G
    BY <1>1 DEF Holds, Forth
  <2>2. currentTerm[p] \in Nat /\ currentTerm'[p] \in Nat /\ currentTerm'[p] >= currentTerm[p]
    BY DEF TermsGrow
  <2> QED
    BY <2>1, <2>2 DEF Holds
<1>2. Firm(H, k, i)' => Firm(G, k, i)
  BY <1>1 DEF Firm
<1>3. Settled(G, k, i) => Settled(H, k, i)
  BY DEF Settled, Forth
<1> QED
  BY <1>1, <1>2, <1>3

\* What two nodes have, two hold.
LEMMA SettledFirm ==
  ASSUME NEW G, NEW k, NEW i, Settled(G, k, i)
  PROVE  Firm(G, k, i)
BY DEF Settled, Firm, Holds

\* The copies there are after a step.
NewCopy(U, p, k, i) ==
  /\ p \in Node /\ k \in 1..MaxTerm /\ i \in Nat
  /\ currentTerm'[p] <= k /\ Mark(U, k, i) /\ Agree(log'[p].entries, U[k], i)

\* The copies there are after a step.
LEMMA CopiesThen ==
  ASSUME NEW G \in Copies, NEW U \in Books
  PROVE  \E H \in Copies : \A p, k, i : <<p, k, i>> \in H <=> <<p, k, i>> \in G \/ NewCopy(U, p, k, i)
<1> DEFINE N == {x \in Node \X (1..MaxTerm) \X Nat : NewCopy(U, x[1], x[2], x[3])}
           H == G \cup N
<1>1. H \in Copies
  BY DEF Copies
<1>2. ASSUME NEW p, NEW k, NEW i, NewCopy(U, p, k, i) PROVE <<p, k, i>> \in N
  <2>1. p \in Node /\ k \in 1..MaxTerm /\ i \in Nat
    BY <1>2 DEF NewCopy
  <2> QED
    BY <1>2, <2>1
<1>3. ASSUME NEW p, NEW k, NEW i, <<p, k, i>> \in N PROVE NewCopy(U, p, k, i)
  BY <1>3
<1> HIDE DEF N
<1> QED
  BY <1>1, <1>2, <1>3

\* A step after which two nodes still have what two nodes held, leaders what they wrote,
\* everyone what their log ends with, and pages what two nodes hold of earlier ones.
LEMMA CoreNext ==
  ASSUME TypeOK, TypeOK', TermsGrow, NEW T \in Books, NEW U \in Books, NEW G \in Copies,
         Core(T, G), Pages(U), Continues(T, U), Keeps(T, G),
         \A k \in 1..MaxTerm, n \in Node : <<k, n>> \in elected' =>
           /\ U[k] # <<>>
           /\ \A i \in Nat : Mark(U, k, i) => <<n, k, i>> \in G \/ NewCopy(U, n, k, i),
         \A p \in Node : log'[p].entries # <<>> =>
           LET s == log'[p].entries
           IN  <<p, End(s), Len(s)>> \in G \/ NewCopy(U, p, End(s), Len(s)),
         \A k, i \in Nat, z \in 1..MaxTerm :
           Mark(T, k, i) /\ Firm(G, k, i) /\ z > k /\ U[z] # <<>> => Agree(U[z], U[k], i),
         \A k, i \in Nat, z \in 1..MaxTerm :
           Mark(U, k, i) /\ ~Mark(T, k, i) /\ z > k /\ U[z] # <<>> =>
             \A p, q \in Node : p # q => currentTerm'[p] > k \/ currentTerm'[q] > k
  PROVE  \E H \in Copies : Core(U, H)' /\ Forth(T, G, U, H)
<1>1. PICK H \in Copies :
        \A p, k, i : <<p, k, i>> \in H <=> <<p, k, i>> \in G \/ NewCopy(U, p, k, i)
  BY CopiesThen
<1>2. Forth(T, G, U, H)
  <2>1. \A p, k, i : <<p, k, i>> \in H => <<p, k, i>> \in G \/ currentTerm'[p] <= k
    BY <1>1 DEF NewCopy
  <2>2. ASSUME NEW x \in G PROVE x \in H
    <3>1. x = <<x[1], x[2], x[3]>>
      <4>1. x \in Node \X (1..MaxTerm) \X Nat
        BY DEF Copies
      <4> QED
        BY <4>1
    <3> QED
      BY <1>1, <3>1
  <2> QED
    BY <2>1, <2>2 DEF Forth
<1>3. /\ \A k, i : Mark(T, k, i) => Mark(U, k, i) /\ U[k] # <<>>
      /\ \A s \in Seq(Entry), k, i \in Nat : Mark(T, k, i) =>
           (Agree(s, T[k], i) <=> Agree(s, U[k], i))
  BY InContinued
<1>4. \A p \in Node : Es(p) \in Seq(Entry) /\ log'[p].entries \in Seq(Entry)
  BY DEF TypeOK, Log, Es
<1>5. ASSUME NEW p, NEW k, NEW i, <<p, k, i>> \in G
      PROVE  p \in Node /\ Mark(T, k, i) /\ Mark(U, k, i) /\ k \in Nat /\ i \in Nat
  <2>1. p \in Node /\ Mark(T, k, i)
    BY <1>5 DEF Core, Written
  <2> QED
    BY <1>3, <2>1, MarkType
<1>6. Written(U, H)'
  <2>1. \A k \in 1..MaxTerm, n \in Node : <<k, n>> \in elected' =>
          U[k] # <<>> /\ \A i \in Nat : Mark(U, k, i) => <<n, k, i>> \in H
    BY <1>1
  <2>2. \A p, k, i : <<p, k, i>> \in H => p \in Node /\ Mark(U, k, i)
    BY <1>1, <1>5 DEF NewCopy
  <2>3. ASSUME NEW p \in Node, NEW k \in Nat, NEW i \in Nat, currentTerm'[p] <= k, Mark(U, k, i),
               Agree(log'[p].entries, U[k], i)
        PROVE  <<p, k, i>> \in H
    <3>1. k \in 1..MaxTerm
      BY <2>3, MarkType
    <3>2. NewCopy(U, p, k, i)
      BY <2>3, <3>1 DEF NewCopy
    <3> QED
      BY <1>1, <3>2
  <2>4. \A p \in Node : log'[p].entries # <<>> => <<p, End(log'[p].entries), Len(log'[p].entries)>> \in H
    BY <1>1
  <2> QED
    BY <2>1, <2>2, <2>3, <2>4 DEF Written, Es
<1>7. Kept(U, H)'
  <2> SUFFICES ASSUME NEW p \in Node, NEW q \in Node, NEW k \in Nat, NEW i \in Nat, p # q,
                      <<p, k, i>> \in H, Holds(H, q, k, i)'
               PROVE  Agree(log'[p].entries, U[k], i)
    BY DEF Kept, Es
  <2>1. CASE NewCopy(U, p, k, i)
    BY <2>1 DEF NewCopy
  <2>2. CASE <<p, k, i>> \in G
    <3>1. Holds(G, q, k, i) /\ Mark(T, k, i)
      BY <1>2, <1>5, <2>2, HeldBefore
    <3>2. Agree(Es(p), T[k], i)
      BY <2>2, <3>1 DEF Core, Kept
    <3>3. Firm(G, k, i)
      BY <2>2, <3>1 DEF Firm, Holds
    <3>4. Agree(log'[p].entries, T[k], i)
      BY <3>1, <3>2, <3>3 DEF Keeps
    <3> QED
      BY <1>3, <1>4, <3>1, <3>4
  <2> QED
    BY <1>1, <2>1, <2>2
<1>8. Complete(U, H)'
  <2> SUFFICES ASSUME NEW k \in Nat, NEW i \in Nat, NEW z \in 1..MaxTerm,
                      Mark(U, k, i), Firm(H, k, i)', z > k, U[z] # <<>>
               PROVE  Agree(U[z], U[k], i)
    BY DEF Complete
  <2>1. Firm(G, k, i)
    BY <1>2, HeldBefore
  <2>2. CASE Mark(T, k, i)
    BY <2>1, <2>2
  <2>3. CASE ~Mark(T, k, i)
    <3>1. PICK p, q \in Node : p # q /\ Holds(H, p, k, i)' /\ Holds(H, q, k, i)'
      BY DEF Firm
    <3>2. \A v \in Node : currentTerm'[v] \in Nat
      BY DEF TermsGrow
    <3>3. \A v \in Node : Holds(H, v, k, i)' => currentTerm'[v] <= k
      BY <1>2, <1>5, <2>3 DEF Holds, Forth
    <3>4. currentTerm'[p] > k \/ currentTerm'[q] > k
      BY <2>3, <3>1
    <3> QED
      BY <3>1, <3>2, <3>3, <3>4
  <2> QED
    BY <2>2, <2>3
<1>9. Core(U, H)'
  BY <1>6, <1>7, <1>8 DEF Core, Pages
<1> QED
  BY <1>2, <1>9

\* A step that adds nothing to the book.
LEMMA CoreSame ==
  ASSUME TypeOK, TypeOK', TermsGrow, NEW T \in Books, NEW G \in Copies, Core(T, G), elected' = elected,
         Keeps(T, G), Matching(T)',
         \A p \in Node : log'[p].entries # <<>> /\ log'[p] # log[p] =>
           LET s == log'[p].entries
           IN  <<p, End(s), Len(s)>> \in G \/ currentTerm'[p] <= End(s)
  PROVE  \E H \in Copies : Core(T, H)' /\ Forth(T, G, T, H)
<1>1. Pages(T) /\ Written(T, G) /\ Complete(T, G)
  BY DEF Core
<1>2. Continues(T, T)
  BY PageType DEF Continues, Agree
<1>3. \A k \in 1..MaxTerm, n \in Node : <<k, n>> \in elected' =>
        T[k] # <<>> /\ \A i \in Nat : Mark(T, k, i) => <<n, k, i>> \in G \/ NewCopy(T, n, k, i)
  BY <1>1 DEF Written
<1>4. ASSUME NEW p \in Node, log'[p].entries # <<>>
      PROVE  LET s == log'[p].entries
             IN  <<p, End(s), Len(s)>> \in G \/ NewCopy(T, p, End(s), Len(s))
  <2> DEFINE s == log'[p].entries
  <2>1. s \in Seq(Entry) /\ InBook(T, s) /\ s # <<>>
    BY <1>4 DEF TypeOK, Log, Matching
  <2> HIDE DEF s
  <2>2. Mark(T, End(s), Len(s)) /\ Agree(s, T[End(s)], Len(s)) /\ End(s) \in 1..MaxTerm /\ Len(s) \in Nat
    BY <1>1, <2>1, EndMark, SeqType
  <2>3. \/ <<p, End(s), Len(s)>> \in G
        \/ currentTerm'[p] <= End(s)
    <3>1. log'[p] # log[p] => <<p, End(s), Len(s)>> \in G \/ currentTerm'[p] <= End(s)
      BY <1>4 DEF s
    <3>2. log'[p] = log[p] => s = Es(p)
      BY DEF s, Es
    <3> QED
      BY <1>1, <2>1, <3>1, <3>2 DEF Written
  <2>4. currentTerm'[p] <= End(s) => NewCopy(T, p, End(s), Len(s))
    BY <2>2 DEF NewCopy, s
  <2> QED
    BY <2>3, <2>4 DEF s
<1>5. \A k, i \in Nat, z \in 1..MaxTerm :
        Mark(T, k, i) /\ Firm(G, k, i) /\ z > k /\ T[z] # <<>> => Agree(T[z], T[k], i)
  BY <1>1 DEF Complete
<1>6. \A k, i \in Nat, z \in 1..MaxTerm :
        Mark(T, k, i) /\ ~Mark(T, k, i) /\ z > k /\ T[z] # <<>> =>
          \A p, q \in Node : p # q => currentTerm'[p] > k \/ currentTerm'[q] > k
  OBVIOUS
<1> QED
  BY <1>1, <1>2, <1>3, <1>4, <1>5, <1>6, CoreNext

\* A later leader was voted for by a majority, all of which are in its term or beyond.
LEMMA LaterLeader ==
  ASSUME TypeOK', NEW A \in Ballots, Tally(A)', NEW z \in Nat, NEW m \in Node, <<z, m>> \in elected'
  PROVE  \E Q \in SUBSET Node :
           Cardinality(Q) >= Majority /\ \A v \in Q : A[z][v] = m /\ currentTerm'[v] >= z
<1>1. PICK Q \in SUBSET Node : Cardinality(Q) >= Majority /\ \A v \in Q : A[z][v] = m
  <2>1. \A e \in elected' : Won(A, e[1], e[2])'
    BY DEF Tally
  <2>2. Won(A, <<z, m>>[1], <<z, m>>[2])'
    BY <2>1
  <2> QED
    BY <2>2 DEF Won
<1>2. m # Nil /\ \A v \in Node : currentTerm'[v] \in Nat
  <2>1. \A v \in Node : currentTerm'[v] \in 0..MaxTerm
    BY DEF TypeOK
  <2> QED
    BY <2>1, RaftAssumption
<1>3. \A v \in Q : z < currentTerm'[v] \/ z = currentTerm'[v]
  BY <1>1, <1>2 DEF Tally, Honest
<1>4. \A v \in Q : currentTerm'[v] >= z
  BY <1>2, <1>3
<1> QED
  BY <1>1, <1>4

\* The leader n adds an entry to its log, which has what two nodes hold of earlier terms,
\* and nothing of later ones.
LEMMA CoreAdds ==
  ASSUME TypeOK, TypeOK', TermsGrow, Cardinality(Node) <= 4, OneLeaderPerTerm',
         NEW T \in Books, NEW G \in Copies, Core(T, G), Matching(T), NEW A \in Ballots, Tally(A)',
         NEW n \in Node, NEW t, NEW e, Adds(T, n, t, e), NEW U \in Books, U = Added(T, n, t, e), Matching(U)',
         \A k, i \in Nat : k < t /\ Mark(T, k, i) /\ Firm(G, k, i) => Agree(Es(n), T[k], i),
         \A j \in 1..Len(Es(n)) : Es(n)[j].term <= t
  PROVE  /\ \E H \in Copies : Core(U, H)' /\ Forth(T, G, U, H)
         /\ Keeps(T, G)
<1> DEFINE x == Es(n)
           z == Append(x, e)
<1>1. Pages(T) /\ Written(T, G) /\ Complete(T, G)
  BY DEF Core
<1>2. /\ t \in 1..MaxTerm /\ t \in Nat /\ e \in Entry /\ e.term = t /\ T[t] \in {<<>>, x}
      /\ log' = [log EXCEPT ![n] = Append1(log[n], e)]
      /\ elected' = elected \cup {<<t, n>>} /\ currentTerm'[n] = t
  BY RaftAssumption DEF Adds, Es
<1>3. x \in Seq(Entry) /\ log[n] \in Log
  BY DEF TypeOK, Log, Es
<1>4. log'[n].entries = z /\ \A v \in Node \ {n} : log'[v] = log[v]
  BY <1>2, <1>3 DEF TypeOK, Log, Append1, Es
<1>5. U[t] = z /\ \A u \in 1..MaxTerm : u # t => U[u] = T[u]
  BY <1>2 DEF Books, Added, Es
<1>6. /\ z \in Seq(Entry) /\ Len(x) \in Nat /\ Len(z) = Len(x) + 1
      /\ \A k \in 1..Len(x) : z[k] = x[k]
      /\ z[Len(x) + 1] = e /\ z # <<>>
  <2> HIDE DEF x
  <2>1. /\ z \in Seq(Entry) /\ Len(x) \in Nat /\ Len(z) = Len(x) + 1
        /\ \A k \in 1..Len(x) : z[k] = x[k]
        /\ z[Len(x) + 1] = e
    BY <1>2, <1>3, AppendProperties, LenProperties
  <2> QED
    BY <2>1, EmptySeq
<1>7. InBook(T, x) /\ \A v \in Node : InBook(U, log'[v].entries)
  BY DEF Matching, Es
<1> HIDE DEF x, z
<1>8. \A k \in 1..MaxTerm : Len(T[k]) \in Nat /\ (T[k] = <<>> => Len(T[k]) = 0)
  BY SeqType DEF Books
<1>9. Continues(T, U)
  <2> SUFFICES ASSUME NEW k \in 1..MaxTerm PROVE Agree(T[k], U[k], Len(T[k]))
    BY DEF Continues
  <2>1. CASE k # t
    BY <1>5, <1>8, <2>1 DEF Agree
  <2>2. CASE k = t
    BY <1>2, <1>5, <1>6, <1>8, <2>2 DEF Agree
  <2> QED
    BY <2>1, <2>2
<1>10. /\ \A s \in Seq(Entry) : InBook(T, s) => InBook(U, s)
       /\ \A k, i : Mark(T, k, i) => Mark(U, k, i) /\ U[k] # <<>>
       /\ \A s \in Seq(Entry), k, i \in Nat : Mark(T, k, i) =>
            (Agree(s, T[k], i) <=> Agree(s, U[k], i))
  BY <1>9, InContinued
<1>11. Pages(U)
  <2> SUFFICES ASSUME NEW k \in 1..MaxTerm
               PROVE  /\ InBook(U, U[k])
                      /\ U[k] # <<>> => End(U[k]) = k
                      /\ \A i \in 1..Len(U[k]) : U[k][i].term <= k
    BY DEF Pages
  <2>1. CASE k # t
    BY <1>1, <1>5, <1>10, <2>1, PageType DEF Pages
  <2>2. CASE k = t
    <3>1. InBook(U, z)
      BY <1>4, <1>7
    <3>2. End(z) = t
      BY <1>2, <1>6 DEF End
    <3>3. ASSUME NEW i \in 1..Len(z) PROVE z[i].term <= t
      <4>1. i \in 1..Len(x) \/ i = Len(x) + 1
        BY <1>6
      <4>2. \A j \in 1..Len(x) : x[j].term <= t
        BY DEF x
      <4> QED
        BY <1>2, <1>6, <4>1, <4>2
    <3> QED
      BY <1>5, <2>2, <3>1, <3>2, <3>3
  <2> QED
    BY <2>1, <2>2
<1>12. Keeps(T, G)
  <2> SUFFICES ASSUME NEW p \in Node, NEW k \in Nat, NEW i \in Nat, Mark(T, k, i), Agree(Es(p), T[k], i)
               PROVE  Agree(log'[p].entries, T[k], i)
    BY DEF Keeps
  <2>1. CASE p # n
    BY <1>4, <2>1 DEF Es
  <2>2. CASE p = n
    BY <1>4, <1>6, <2>2 DEF x, Agree
  <2> QED
    BY <2>1, <2>2
\* An entry of term t in the book after the step is one of before, or the last.
<1>13. ASSUME NEW k, NEW i, Mark(U, k, i), ~Mark(T, k, i)
       PROVE  k = t /\ i = Len(z) /\ Agree(z, U[t], i) /\ i \in Nat
  <2>1. k \in 1..MaxTerm /\ i \in 1..Len(U[k]) /\ U[k][i].term = k
    BY <1>13 DEF Mark
  <2>2. k = t
    BY <1>5, <1>13, <2>1 DEF Mark
  <2>3. i \in 1..Len(x) => FALSE
    <3> SUFFICES ASSUME i \in 1..Len(x) PROVE FALSE
      OBVIOUS
    <3>1. x[i].term = t
      BY <1>5, <1>6, <2>1, <2>2
    <3>2. Agree(x, T[t], i)
      BY <1>7, <3>1 DEF InBook
    <3>3. T[t] = x
      BY <1>2, <1>8, <3>2 DEF Agree
    <3> QED
      BY <1>2, <1>13, <2>2, <3>1, <3>3 DEF Mark
  <2>4. i = Len(z)
    BY <1>5, <1>6, <2>1, <2>2, <2>3
  <2> QED
    BY <1>5, <1>6, <2>2, <2>4 DEF Agree
<1>14. ASSUME NEW i, Mark(U, t, i), ~Mark(T, t, i) PROVE NewCopy(U, n, t, i)
  BY <1>2, <1>4, <1>13, <1>14 DEF NewCopy
<1>15. ASSUME NEW k \in 1..MaxTerm, NEW v \in Node, <<k, v>> \in elected'
       PROVE  U[k] # <<>> /\ \A i \in Nat : Mark(U, k, i) => <<v, k, i>> \in G \/ NewCopy(U, v, k, i)
  <2>1. CASE <<k, v>> \in elected /\ k # t
    <3>1. T[k] # <<>> /\ \A i \in Nat : Mark(T, k, i) => <<v, k, i>> \in G
      BY <1>1, <2>1 DEF Written
    <3> QED
      BY <1>5, <1>13, <2>1, <3>1
  <2>2. CASE k = t
    <3>1. v = n
      <4>1. \A a, b \in elected' : a[1] = b[1] => a[2] = b[2]
        BY DEF OneLeaderPerTerm
      <4>2. <<t, v>> \in elected' /\ <<t, n>> \in elected'
        BY <1>2, <1>15, <2>2
      <4> QED
        BY <4>1, <4>2
    <3>2. ASSUME NEW i \in Nat, Mark(T, t, i) PROVE <<n, t, i>> \in G
      <4>1. T[t] # <<>>
        BY <3>2, MarkType
      <4>2. PICK w \in Node : <<t, w>> \in elected
        BY <1>2, <4>1 DEF Matching
      <4>3. w = n
        <5>1. \A a, b \in elected' : a[1] = b[1] => a[2] = b[2]
          BY DEF OneLeaderPerTerm
        <5>2. <<t, w>> \in elected' /\ <<t, n>> \in elected'
          BY <1>2, <4>2
        <5> QED
          BY <5>1, <5>2
      <4> QED
        BY <1>1, <1>2, <3>2, <4>2, <4>3 DEF Written
    <3> QED
      BY <1>5, <1>6, <1>14, <2>2, <3>1, <3>2
  <2>3. CASE <<k, v>> \notin elected /\ k # t
    BY <1>2, <1>15, <2>3
  <2> QED
    BY <2>1, <2>2, <2>3
<1>16. ASSUME NEW p \in Node, log'[p].entries # <<>>
       PROVE  LET s == log'[p].entries
              IN  <<p, End(s), Len(s)>> \in G \/ NewCopy(U, p, End(s), Len(s))
  <2>1. CASE p # n
    BY <1>1, <1>4, <1>16, <2>1 DEF Written, Es
  <2>2. CASE p = n
    <3>1. End(z) = t /\ Mark(U, t, Len(z))
      BY <1>2, <1>5, <1>6 DEF End, Mark
    <3>2. Agree(z, U[t], Len(z)) /\ Len(z) \in Nat
      BY <1>5, <1>6 DEF Agree
    <3> QED
      BY <1>2, <1>4, <2>2, <3>1, <3>2 DEF NewCopy
  <2> QED
    BY <2>1, <2>2
<1>17. ASSUME NEW k \in Nat, NEW i \in Nat, NEW y \in 1..MaxTerm,
              Mark(T, k, i), Firm(G, k, i), y > k, U[y] # <<>>
       PROVE  Agree(U[y], U[k], i)
  <2>1. /\ k \in 1..MaxTerm /\ U[y] \in Seq(Entry) /\ T[y] \in Seq(Entry)
        /\ i <= Len(T[k]) /\ Len(T[k]) \in Nat /\ Len(T[y]) \in Nat /\ Len(U[y]) \in Nat
    BY <1>17, MarkType, PageType
  <2>2. T[y] # <<>> => Agree(T[y], T[k], i)
    BY <1>1, <1>17 DEF Complete
  <2>3. T[y] # <<>> => Agree(U[y], T[k], i)
    <3>1. Agree(T[y], U[y], Len(T[y]))
      BY <1>9 DEF Continues
    <3> QED
      BY <2>1, <2>2, <3>1 DEF Agree
  <2>4. CASE T[y] = <<>>
    <3>1. y = t
      BY <1>5, <1>17, <2>4
    <3>2. Agree(x, T[k], i)
      BY <1>17, <3>1 DEF x
    <3>3. Agree(U[y], T[k], i)
      <4>1. Agree(z, T[k], i)
        <5>1. /\ i <= Len(x) /\ i <= Len(T[k]) /\ \A j \in 1..i : x[j] = T[k][j]
          BY <3>2 DEF Agree
        <5>2. i <= Len(z) /\ \A j \in 1..i : j \in 1..Len(x)
          BY <1>6, <5>1
        <5>3. \A j \in 1..i : z[j] = T[k][j]
          BY <1>6, <5>1, <5>2
        <5> QED
          BY <5>1, <5>2, <5>3 DEF Agree
      <4> QED
        BY <1>5, <3>1, <4>1
    <3> QED
      BY <1>10, <1>17, <2>1, <3>3
  <2> QED
    BY <1>10, <1>17, <2>1, <2>3, <2>4
<1>18. ASSUME NEW k \in Nat, NEW i \in Nat, NEW y \in 1..MaxTerm,
              Mark(U, k, i), ~Mark(T, k, i), y > k, U[y] # <<>>, NEW p \in Node, NEW q \in Node, p # q
       PROVE  currentTerm'[p] > k \/ currentTerm'[q] > k
  <2>1. PICK m \in Node : <<y, m>> \in elected'
    BY <1>18 DEF Matching
  <2>2. PICK Q \in SUBSET Node : Cardinality(Q) >= Majority /\ \A v \in Q : currentTerm'[v] >= y
    <3>1. y \in Nat
      OBVIOUS
    <3> QED
      BY <2>1, <3>1, LaterLeader
  <2>3. p \in Q \/ q \in Q
    BY <1>18, <2>2, Pair
  <2>4. currentTerm'[p] \in Nat /\ currentTerm'[q] \in Nat /\ y \in Nat
    BY DEF TermsGrow
  <2> QED
    BY <1>18, <2>2, <2>3, <2>4
<1> QED
  BY <1>1, <1>9, <1>11, <1>12, <1>15, <1>16, <1>17, <1>18, CoreNext

\* A request m of n to a node that is not beyond its term is an excerpt of a log s that n
\* had, which ends in the term or in a later one.
Source(T, G, n, m, s) ==
  /\ InBook(T, s) /\ Excerpt(m.prev, m.prevTerm, m.entries, s)
  /\ s # <<>> /\ End(s) >= m.term /\ <<n, End(s), Len(s)>> \in G
  /\ m.prev <= Len(s) /\ m.prev <= Len(Es(n))

\* The request that is served next.
LEMMA HeadRequest ==
  ASSUME TypeOK, NEW n \in Node, NEW p \in Node, conn[n][p].reqs # <<>>
  PROVE  /\ Head(conn[n][p].reqs) \in Request
         /\ LET req == Head(conn[n][p].reqs)
            IN  /\ req.term \in Nat /\ req.term \in 0..MaxTerm
                /\ req.type = "append" => req.prev \in Nat /\ req.entries \in Seq(Entry) /\ req.commit \in Nat
<1> DEFINE req == Head(conn[n][p].reqs)
<1>1. req \in Request
  <2>1. conn[n][p].reqs \in Seq(Request)
    BY DEF TypeOK, Connection
  <2> HIDE DEF req
  <2> QED
    BY <2>1, HeadTailProperties DEF req
<1> HIDE DEF req
<1>2. req.term \in 0..MaxTerm /\ (req.type = "append" => req.prev \in Nat /\ req.entries \in Seq(Entry) /\ req.commit \in Nat)
  BY <1>1 DEF Request
<1>3. req.term \in Nat
  BY <1>2, RaftAssumption
<1> QED
  BY <1>1, <1>2, <1>3 DEF req

\* What p has after it stored what n sent it of s.
Taken(n, p, s) ==
  LET req == Head(conn[n][p].reqs)
  IN  /\ \A v \in Node \ {p} : log'[v] = log[v]
      /\ \/ log'[p] = log[p] /\ Agree(Es(p), s, Len(s))
         \/ log'[p].entries = s /\ ~Agree(Es(p), s, Len(s))
      /\ Agree(log'[p].entries, s, Len(s))
      /\ req.prev + Len(req.entries) = Len(s) /\ log'[p] = StoreAll(log[p], req.prev, req.entries)

\* What a node stores is an excerpt of a log with which it then agrees.
LEMMA StoredOf ==
  ASSUME TypeOK, TypeOK', NEW T \in Books, Matching(T), NEW n \in Node, NEW p \in Node, Stores(n, p),
         NEW s \in Seq(Entry), InBook(T, s),
         LET req == Head(conn[n][p].reqs)
         IN  Excerpt(req.prev, req.prevTerm, req.entries, s) /\ req.prev <= Len(s)
  PROVE  Taken(n, p, s)
<1> DEFINE req == Head(conn[n][p].reqs)
           l == StoreAll(log[p], req.prev, req.entries)
<1>1. /\ n # p /\ conn[n][p].reqs # <<>> /\ req.type = "append" /\ Consistent(log[p], req)
      /\ log' = [log EXCEPT ![p] = l]
  BY DEF Stores
<1>2. req.prev \in Nat /\ req.entries \in Seq(Entry)
  BY <1>1, HeadRequest, Zenon
<1>3. log[p] \in Log /\ log[p].first = 1 /\ InBook(T, log[p].entries) /\ Len(s) \in Nat
  BY SeqType DEF TypeOK, Matching
<1>4. \/ l = log[p] /\ (req.prev <= Len(s) => Agree(log[p].entries, s, Len(s)))
      \/ l = With(log[p], s) /\ ~Agree(log[p].entries, s, Len(s))
  <2>1. req.prev = 0 \/ TermAt(log[p], req.prev) = req.prevTerm
    BY <1>1 DEF Consistent
  <2>2. Excerpt(req.prev, req.prevTerm, req.entries, s)
    OBVIOUS
  <2> HIDE DEF req
  <2> QED
    BY <1>2, <1>3, <2>1, <2>2, StoreAllBook
<1>5. req.prev + Len(req.entries) = Len(s)
  <2>1. Excerpt(req.prev, req.prevTerm, req.entries, s) /\ req.prev <= Len(s)
    OBVIOUS
  <2> HIDE DEF req
  <2>2. CASE req.prev = Len(s)
    <3>1. req.entries = <<>>
      BY <1>2, <1>3, <2>1, <2>2 DEF Excerpt
    <3>2. Len(req.entries) = 0
      BY <1>2, <3>1, EmptySeq
    <3> QED
      BY <1>2, <1>3, <2>2, <3>2
  <2>3. CASE req.prev < Len(s)
    BY <1>2, <1>3, <2>1, <2>3 DEF Excerpt
  <2> QED
    BY <1>2, <1>3, <2>1, <2>2, <2>3
<1>6. log'[p] = l /\ \A v \in Node \ {p} : log'[v] = log[v]
  <2> HIDE DEF l
  <2> QED
    BY <1>1 DEF TypeOK
<1>7. \/ log'[p] = log[p] /\ Agree(Es(p), s, Len(s))
      \/ log'[p].entries = s /\ ~Agree(Es(p), s, Len(s))
  <2> HIDE DEF l
  <2>1. With(log[p], s).entries = s
    BY DEF With
  <2> QED
    BY <1>4, <1>6, <2>1 DEF Es
<1>8. Agree(s, s, Len(s))
  BY <1>3 DEF Agree
<1>9. Agree(log'[p].entries, s, Len(s))
  BY <1>7, <1>8 DEF Es
<1> QED
  BY <1>5, <1>6, <1>7, <1>9, Zenon DEF Taken

\* p stores what is an excerpt of s.
LEMMA CoreStores ==
  ASSUME TypeOK, TypeOK', TermsGrow, NEW T \in Books, NEW G \in Copies, Core(T, G), Matching(T), Matching(T)',
         elected' = elected, NEW n \in Node, NEW p \in Node, Stores(n, p),
         NEW s \in Seq(Entry), Source(T, G, n, Head(conn[n][p].reqs), s)
  PROVE  /\ \E H \in Copies : Core(T, H)' /\ Forth(T, G, T, H)
         /\ Keeps(T, G)
<1> DEFINE req == Head(conn[n][p].reqs)
           z == End(s)
           b == Len(s)
<1>1. Pages(T) /\ Complete(T, G)
  BY DEF Core
<1>2. InBook(T, s) /\ s # <<>> /\ z >= req.term /\ <<n, z, b>> \in G
  BY DEF Source
<1>3. /\ \A v \in Node \ {p} : log'[v] = log[v]
      /\ \/ log'[p] = log[p]
         \/ log'[p].entries = s /\ ~Agree(Es(p), s, b)
  BY StoredOf DEF Source, Taken
<1>4. n # p /\ currentTerm'[p] = req.term
  BY DEF Stores
<1>5. /\ Mark(T, z, b) /\ Agree(s, T[z], b) /\ z \in 1..MaxTerm /\ z \in Nat /\ b \in Nat
      /\ Len(T[z]) \in Nat
  BY <1>1, <1>2, EndMark, MarkType
<1> HIDE DEF z, b, req
<1>6. Firm(G, z, b)
  <2>1. currentTerm[p] \in Nat /\ currentTerm'[p] \in Nat /\ currentTerm[p] <= currentTerm'[p]
    BY DEF TermsGrow
  <2>2. currentTerm[p] <= z
    BY <1>2, <1>4, <1>5, <2>1
  <2> QED
    BY <1>2, <1>4, <2>2 DEF Firm, Holds
<1>7. Keeps(T, G)
  <2> SUFFICES ASSUME NEW v \in Node, NEW k \in Nat, NEW i \in Nat, Mark(T, k, i), Firm(G, k, i),
                      Agree(Es(v), T[k], i)
               PROVE  Agree(log'[v].entries, T[k], i)
    BY DEF Keeps
  <2>1. CASE log'[v] = log[v]
    BY <2>1 DEF Es
  <2>2. CASE v = p /\ log'[p].entries = s /\ ~Agree(Es(p), s, b)
    <3>1. /\ k \in 1..MaxTerm /\ i <= Len(T[k]) /\ Len(T[k]) \in Nat /\ T[k] # <<>>
          /\ Len(Es(p)) \in Nat /\ Len(s) \in Nat
      BY MarkType, SeqType DEF TypeOK, Log, Es
    <3>2. CASE z > k \/ (z = k /\ i <= b)
      BY <1>2, <2>2, <3>2, HasFirm DEF z, b
    <3>3. ASSUME z = k, i > b PROVE FALSE
      <4>1. Agree(Es(p), T[z], b)
        BY <1>5, <2>2, <3>1, <3>3, AgreeOn
      <4> QED
        BY <1>5, <2>2, <3>1, <4>1 DEF Agree
    <3>4. ASSUME k > z PROVE FALSE
      <4>1. Agree(T[k], T[z], b)
        BY <1>1, <1>5, <1>6, <3>1, <3>4 DEF Complete
      <4>2. b < i
        BY <1>1, <1>5, <3>4, <4>1, Reach
      <4>3. Agree(Es(p), T[k], b)
        BY <1>5, <2>2, <3>1, <4>2, AgreeOn
      <4>4. Agree(Es(p), T[z], b)
        BY <1>5, <3>1, <4>1, <4>3 DEF Agree
      <4> QED
        BY <1>5, <2>2, <3>1, <4>4 DEF Agree
    <3> QED
      BY <1>5, <3>2, <3>3, <3>4
  <2> QED
    BY <1>3, <2>1, <2>2
<1>8. ASSUME NEW v \in Node, log'[v] # log[v] PROVE log'[v].entries = s /\ currentTerm'[v] <= z
  BY <1>2, <1>3, <1>4, <1>8
<1> QED
  BY <1>7, <1>8, CoreSame DEF z

-----------------------------------------------------------------------------
\* Votes and copies.

\* n stands for its term, in which nobody has been elected.
Running(n) == state[n] = "Candidate" /\ \A v \in Node : <<currentTerm[n], v>> \notin elected

\* The log s has the copies of y of terms before t that another node holds.
Behind(T, G, y, t, s) ==
  \A q \in Node, k, i \in Nat :
    k < t /\ q # y /\ <<y, k, i>> \in G /\ Holds(G, q, k, i) => Agree(s, T[k], i)

\* A majority did not vote for n in term t and never will.
Blocked(B, t, n) ==
  \E Q \in SUBSET Node : Cardinality(Q) >= Majority /\ \A y \in Q : currentTerm[y] > t /\ B[t][y] # n

\* The request of n for a vote tells of its log.
Canvassed(n, p) ==
  LET req == Head(conn[n][p].reqs)
  IN  conn[n][p].reqs # <<>> /\ req.type = "vote" =>
        /\ req.term <= currentTerm[n]
        /\ Running(n) /\ req.term = currentTerm[n] =>
             req.lastIndex = Len(Es(n)) /\ req.lastTerm = LastTerm(log[n])

\* Votes go to who was in their term, and has what the voter had.
Votes(B, T, G) ==
  /\ \A t \in Nat, y \in Node : B[t][y] # Nil => t <= currentTerm[B[t][y]]
  /\ \A n, p \in Node : n # p => Canvassed(n, p)
  /\ \A n \in Node : Running(n) =>
       /\ \A y \in Node : B[currentTerm[n]][y] = n => Behind(T, G, y, currentTerm[n], Es(n))
       /\ \A j \in 1..Len(Es(n)) : Es(n)[j].term > currentTerm[n] => Blocked(B, currentTerm[n], n)

\* Who stands for a term after a step starts to, or stood with the same log.
LEMMA RunningBefore ==
  ASSUME TypeOK, TypeOK', Turn, Reported, \A n \in Node : Compacts(n) => log' = log,
         NEW a \in Node, Running(a)'
  PROVE  \/ Runs(a) /\ log' = log
         \/ Running(a) /\ currentTerm'[a] = currentTerm[a] /\ log'[a] = log[a]
<1>1. state'[a] = "Candidate" /\ \A v \in Node : <<currentTerm'[a], v>> \notin elected'
  BY DEF Running
<1>2. ASSUME Steady PROVE Running(a) /\ currentTerm'[a] = currentTerm[a]
  BY <1>1, <1>2 DEF Steady, Running
<1>3. ASSUME NEW n \in Node, Steady, Proposes(n) PROVE log'[a] = log[a]
  <2>1. a # n
    BY <1>2, <1>3 DEF Proposes, Running
  <2> QED
    BY <1>3, <2>1 DEF Proposes, TypeOK
<1>4. ASSUME NEW n \in Node, NEW p \in Node, Steady, Stores(n, p) PROVE log'[a] = log[a]
  <2>1. CASE a # p
    BY <1>4, <2>1 DEF Stores, TypeOK
  <2>2. CASE a = p
    <3>1. <<Head(conn[n][p].reqs).term, n>> \in elected /\ currentTerm'[p] = Head(conn[n][p].reqs).term
      BY <1>4 DEF Stores, Reported
    <3> QED
      BY <1>2, <1>4, <2>2, <3>1 DEF Running
  <2> QED
    BY <2>1, <2>2
<1>5. ASSUME NEW n \in Node, Runs(n), log' = log, n # a
      PROVE  Running(a) /\ currentTerm'[a] = currentTerm[a] /\ log'[a] = log[a]
  BY <1>1, <1>5 DEF Runs, Others, Running
<1>6. ASSUME NEW n \in Node, NEW t \in 1..MaxTerm, Wins(n, t)
      PROVE  Running(a) /\ currentTerm'[a] = currentTerm[a] /\ log'[a] = log[a]
  <2>1. a # n
    BY <1>1, <1>6 DEF Wins
  <2>2. state'[a] = state[a] /\ currentTerm'[a] = currentTerm[a] /\ elected \subseteq elected'
    BY <1>6, <2>1 DEF Wins, Others
  <2>3. log'[a] = log[a]
    BY <1>6, <2>1 DEF Wins, TypeOK
  <2> QED
    BY <1>1, <2>2, <2>3 DEF Running
<1>7. CASE Steady /\ \/ log' = log
                     \/ \E n \in Node : Proposes(n) \/ Compacts(n) \/ \E p \in Node : Stores(n, p)
  BY <1>2, <1>3, <1>4, <1>7
<1> QED
  BY <1>5, <1>6, <1>7 DEF Turn

\* A candidate that y finds up to date has what y had.
LEMMA UpToDateHas ==
  ASSUME TypeOK, NEW T \in Books, NEW G \in Copies, Core(T, G), Matching(T), NEW n \in Node, NEW y \in Node,
         NEW req, req.lastIndex = Len(Es(n)), req.lastTerm = LastTerm(log[n]), UpToDate(req, log[y]), NEW t
  PROVE  Behind(T, G, y, t, Es(n))
<1> DEFINE x == Es(n)
           s == Es(y)
<1> SUFFICES ASSUME NEW q \in Node, NEW k \in Nat, NEW i \in Nat,
                    q # y, <<y, k, i>> \in G, Holds(G, q, k, i)
             PROVE  Agree(x, T[k], i)
  BY DEF Behind
<1>1. Pages(T) /\ Mark(T, k, i) /\ Agree(s, T[k], i) /\ Firm(G, k, i)
  BY DEF Core, Written, Kept, Firm, Holds
<1>2. /\ log[n] \in Log /\ log[n].first = 1 /\ InBook(T, x) /\ x \in Seq(Entry)
      /\ log[y] \in Log /\ log[y].first = 1 /\ InBook(T, s) /\ s \in Seq(Entry)
  BY DEF TypeOK, Log, Matching, Es
<1>3. /\ LastIndex(log[y]) = Len(s)
      /\ s # <<>> => LastTerm(log[y]) = End(s)
      /\ x # <<>> => LastTerm(log[n]) = End(x)
      /\ x = <<>> => LastTerm(log[n]) = 0
  <2>1. LastIndex(log[y]) = Len(s)
    BY <1>2, EndInPlace DEF Es
  <2>2. /\ s # <<>> => LastTerm(log[y]) = End(s)
        /\ x # <<>> => LastTerm(log[n]) = End(x)
        /\ x = <<>> => LastTerm(log[n]) = 0
    BY <1>2, EntriesOf DEF LastTerm, End, Es
  <2> QED
    BY <2>1, <2>2
<1>4. UpToDate(req, log[y]) /\ req.lastIndex = Len(x) /\ req.lastTerm = LastTerm(log[n])
  OBVIOUS
<1> HIDE DEF x, s
<1>5. /\ k \in 1..MaxTerm /\ i >= 1 /\ i <= Len(T[k]) /\ Len(T[k]) \in Nat /\ T[k][i].term = k
      /\ Len(x) \in Nat /\ Len(s) \in Nat
  BY <1>1, <1>2, MarkType, SeqType DEF Mark
<1>6. i \in 1..Len(s) /\ s[i].term = k /\ s # <<>>
  <2>1. i \in 1..Len(s) /\ s[i].term = k
    BY <1>1, <1>5 DEF Agree
  <2> QED
    BY <1>2, <2>1, SeqType
<1>7. /\ Agree(s, T[End(s)], Len(s)) /\ End(s) \in 1..MaxTerm /\ k <= End(s) /\ Len(T[End(s)]) \in Nat
  BY <1>1, <1>2, <1>6, EndMark, PageType
<1>8. x # <<>> /\ (End(x) > End(s) \/ (End(x) = End(s) /\ Len(x) >= Len(s)))
  <2>1. CASE x = <<>>
    BY <1>3, <1>4, <1>6, <1>7, <2>1 DEF UpToDate
  <2>2. CASE x # <<>>
    BY <1>3, <1>4, <1>6, <2>2 DEF UpToDate
  <2> QED
    BY <2>1, <2>2
<1>9. End(x) \in 1..MaxTerm /\ Agree(x, T[End(x)], Len(x))
  BY <1>1, <1>2, <1>8, EndMark
<1>10. CASE End(x) > End(s)
  <2>1. End(x) > k
    BY <1>5, <1>7, <1>9, <1>10
  <2> QED
    BY <1>1, <1>2, <1>8, <2>1, HasFirm
<1>11. CASE End(x) = End(s) /\ Len(x) >= Len(s)
  <2> DEFINE u == T[End(s)]
  <2>1. Agree(x, u, Len(x)) /\ Agree(s, u, Len(s)) /\ Agree(s, T[k], i)
    BY <1>1, <1>7, <1>9, <1>11
  <2>2. i \in Nat /\ i <= Len(s) /\ Len(s) <= Len(x)
    BY <1>5, <1>6, <1>11
  <2> HIDE DEF u
  <2> QED
    BY <1>5, <2>1, <2>2 DEF Agree
<1> QED
  BY <1>8, <1>10, <1>11 DEF x

\* Ballots cast in a step are like those of before.
LEMMA CastBehind ==
  ASSUME TypeOK, TermsGrow, NEW T \in Books, NEW G \in Copies, Core(T, G), Matching(T), NEW A \in Ballots,
         NEW B \in Ballots, Cast(A, B), Votes(B, T, G), NEW n \in Node, Running(n)
  PROVE  /\ \A y \in Node : A[currentTerm[n]][y] = n => Behind(T, G, y, currentTerm[n], Es(n))
         /\ \A j \in 1..Len(Es(n)) : Es(n)[j].term > currentTerm[n] => Blocked(A, currentTerm[n], n)
<1> DEFINE t == currentTerm[n]
<1>1. /\ t \in Nat /\ currentTerm'[n] \in Nat /\ n # Nil
      /\ \A v \in Node : currentTerm[v] \in Nat /\ currentTerm'[v] \in Nat /\ currentTerm'[v] >= currentTerm[v]
  BY RaftAssumption DEF TermsGrow
<1>2. /\ \A y \in Node : B[t][y] = n => Behind(T, G, y, t, Es(n))
      /\ \A j \in 1..Len(Es(n)) : Es(n)[j].term > t => Blocked(B, t, n)
      /\ \A p \in Node : n # p => Canvassed(n, p)
  BY DEF Votes
<1> HIDE DEF t
<1>3. ASSUME NEW y \in Node, A[t][y] = n PROVE Behind(T, G, y, t, Es(n))
  <2>1. CASE B[t][y] = n
    BY <1>2, <2>1
  <2>2. CASE B[t][y] # n
    <3>1. A # B
      BY <1>3, <2>2
    <3>2. PICK u \in Nat, v \in Node, m \in Node :
            NewBallot(A, B, u, v, m) /\ (Own(u, v, m) \/ Granted(u, v, m))
      BY <3>1 DEF Cast
    <3>3. u = t /\ v = y
      BY <1>1, <1>3, <2>2, <3>2 DEF NewBallot
    <3>4. m = n
      BY <1>3, <3>2, <3>3 DEF NewBallot
    <3>5. ~Own(u, v, m)
      BY <1>1, <3>3, <3>4 DEF Own, t
    <3>6. Granted(t, y, n)
      BY <3>2, <3>3, <3>4, <3>5
    <3> DEFINE req == Head(conn[n][y].reqs)
    <3>7. n # y /\ conn[n][y].reqs # <<>> /\ req.type = "vote" /\ req.term = t /\ UpToDate(req, log[y])
      BY <3>6 DEF Granted
    <3>8. req.lastIndex = Len(Es(n)) /\ req.lastTerm = LastTerm(log[n])
      BY <1>2, <3>7 DEF Canvassed, t
    <3> HIDE DEF req
    <3> QED
      BY <3>7, <3>8, UpToDateHas
  <2> QED
    BY <2>1, <2>2
<1>4. ASSUME Blocked(B, t, n) PROVE Blocked(A, t, n)
  <2>1. PICK Q \in SUBSET Node : Cardinality(Q) >= Majority /\ \A y \in Q : currentTerm[y] > t /\ B[t][y] # n
    BY <1>4 DEF Blocked
  <2>2. ASSUME NEW y \in Q PROVE A[t][y] # n
    <3> SUFFICES ASSUME A[t][y] = n PROVE FALSE
      OBVIOUS
    <3>1. currentTerm[y] > t /\ B[t][y] # n /\ y \in Node
      BY <2>1
    <3>2. PICK u \in Nat, v \in Node, m \in Node :
            NewBallot(A, B, u, v, m) /\ (Own(u, v, m) \/ Granted(u, v, m))
      BY <3>1 DEF Cast
    <3>3. u = t /\ v = y
      BY <1>1, <3>1, <3>2 DEF NewBallot, t
    <3>4. CASE Own(u, v, m)
      BY <1>1, <3>1, <3>3, <3>4 DEF Own, t
    <3>5. CASE Granted(u, v, m)
      BY <1>1, <3>1, <3>3, <3>5 DEF Granted, t
    <3> QED
      BY <3>2, <3>4, <3>5
  <2> QED
    BY <2>1, <2>2 DEF Blocked
<1> QED
  BY <1>2, <1>3, <1>4 DEF t

\* Who has a ballot of a term is in it, or beyond.
LEMMA BallotTerm ==
  ASSUME TypeOK', NEW A \in Ballots, Tally(A)', NEW t \in Nat, NEW y \in Node, A[t][y] # Nil
  PROVE  currentTerm'[y] >= t /\ currentTerm'[y] \in Nat
<1>1. currentTerm'[y] \in Nat
  <2>1. currentTerm'[y] \in 0..MaxTerm
    BY DEF TypeOK
  <2> QED
    BY <2>1, RaftAssumption
<1>2. t < currentTerm'[y] \/ t = currentTerm'[y]
  BY DEF Tally, Honest
<1> QED
  BY <1>1, <1>2

\* Votes stay right: who asked for them keeps its log, and who starts to has only its own.
LEMMA VotesKept ==
  ASSUME TypeOK, TypeOK', Turn, Moves, Reported, TermsGrow, elected \subseteq elected',
         \A n \in Node : Compacts(n) => log' = log,
         NEW T \in Books, NEW U \in Books, NEW G \in Copies, NEW H \in Copies, Core(T, G), Matching(T),
         Core(U, H)', Matching(U)', Forth(T, G, U, H),
         NEW A \in Ballots, NEW B \in Ballots, Cast(A, B), Tally(A)', Votes(B, T, G)
  PROVE  Votes(A, U, H)'
<1>1. /\ \A v \in Node : currentTerm[v] \in Nat /\ currentTerm'[v] \in Nat /\ currentTerm'[v] >= currentTerm[v]
      /\ \A v \in Node : v # Nil
      /\ \A v \in Node : Es(v) \in Seq(Entry) /\ log'[v].entries \in Seq(Entry)
  BY RaftAssumption DEF TermsGrow, TypeOK, Log, Es
<1>2. /\ \A t \in Nat, y \in Node : B[t][y] # Nil => t <= currentTerm[B[t][y]]
      /\ \A n, p \in Node : n # p => Canvassed(n, p)
      /\ \A t \in Nat, y \in Node : A[t][y] \in Node \cup {Nil} /\ B[t][y] \in Node \cup {Nil}
  BY DEF Votes, Ballots
<1>3. ASSUME NEW n \in Node, Running(n)'
      PROVE  \/ Runs(n) /\ log' = log
             \/ Running(n) /\ currentTerm'[n] = currentTerm[n] /\ log'[n] = log[n]
  BY <1>3, RunningBefore
<1>4. ASSUME NEW t \in Nat, NEW y \in Node, A[t][y] # Nil PROVE t <= currentTerm'[A[t][y]]
  <2>1. CASE A[t][y] = B[t][y]
    BY <1>1, <1>2, <1>4, <2>1
  <2>2. CASE A[t][y] # B[t][y]
    <3>1. PICK u \in Nat, v \in Node, m \in Node :
            NewBallot(A, B, u, v, m) /\ (Own(u, v, m) \/ Granted(u, v, m))
      BY <2>2 DEF Cast
    <3>2. u = t /\ v = y /\ A[t][y] = m
      BY <2>2, <3>1 DEF NewBallot
    <3>3. CASE Own(u, v, m)
      BY <1>1, <3>2, <3>3 DEF Own
    <3>4. CASE Granted(u, v, m)
      <4>1. m # v /\ Canvassed(m, v)
        BY <1>2, <3>4 DEF Granted
      <4>2. u <= currentTerm[m]
        BY <3>4, <4>1 DEF Granted, Canvassed
      <4> QED
        BY <1>1, <3>2, <4>2
    <3> QED
      BY <3>1, <3>3, <3>4
  <2> QED
    BY <2>1, <2>2
<1>5. ASSUME NEW n \in Node, NEW p \in Node, n # p PROVE Canvassed(n, p)'
  <2> DEFINE req == Head(conn'[n][p].reqs)
  <2> SUFFICES ASSUME conn'[n][p].reqs # <<>>, req.type = "vote"
               PROVE  /\ req.term <= currentTerm'[n]
                      /\ Running(n)' /\ req.term = currentTerm'[n] =>
                           req.lastIndex = Len(log'[n].entries) /\ req.lastTerm = LastTerm(log'[n])
    BY DEF Canvassed, Es
  <2>1. CASE conn'[n][p].reqs = conn[n][p].reqs
    <3>1. /\ req = Head(conn[n][p].reqs) /\ req.term <= currentTerm[n]
          /\ Running(n) /\ req.term = currentTerm[n] =>
               req.lastIndex = Len(Es(n)) /\ req.lastTerm = LastTerm(log[n])
      BY <1>2, <1>5, <2>1 DEF Canvassed
    <3>2. req.term \in Nat
      BY <2>1, HeadRequest
    <3> HIDE DEF req
    <3>3. req.term <= currentTerm'[n]
      BY <1>1, <3>1, <3>2
    <3>4. ASSUME Running(n)', req.term = currentTerm'[n] PROVE Running(n) /\ currentTerm'[n] = currentTerm[n] /\ log'[n] = log[n]
      <4>1. ~Runs(n)
        BY <1>1, <3>1, <3>2, <3>4 DEF Runs
      <4> QED
        BY <1>3, <3>4, <4>1
    <3> QED
      BY <3>1, <3>3, <3>4 DEF Es
  <2>2. CASE Canvasses(n, p)
    <3> DEFINE m == [type |-> "vote", term |-> currentTerm'[n], from |-> n,
                     lastIndex |-> LastIndex(log[n]), lastTerm |-> LastTerm(log[n])]
    <3>1. conn'[n][p].reqs = <<m>> /\ log' = log
      BY <2>2 DEF Canvasses
    <3>2. m.term = currentTerm'[n] /\ m.lastIndex = LastIndex(log[n]) /\ m.lastTerm = LastTerm(log[n])
      OBVIOUS
    <3> HIDE DEF m
    <3>3. req = m
      BY <3>1, OneMessage
    <3>4. LastIndex(log[n]) = Len(log[n].entries)
      BY EndInPlace DEF TypeOK, Matching
    <3> QED
      BY <1>1, <3>1, <3>2, <3>3, <3>4
  <2>3. ASSUME NEW r \in Rounds, round'[n][r].peer = p, Sends(n, r) PROVE FALSE
    <3> DEFINE m == AppendRequest(n, p, round'[n][r], nextIndex'[n][p])
    <3>1. conn'[n][p].reqs = <<m>>
      BY <2>3 DEF Sends
    <3>2. m.type = "append"
      BY SendsAppend
    <3> HIDE DEF m
    <3>3. req = m
      BY <3>1, OneMessage
    <3> QED
      BY <3>2, <3>3
  <2> QED
    BY <1>5, <2>1, <2>2, <2>3 DEF Moves, Asked
\* Who starts to stand has only its own vote.
<1>6. ASSUME NEW n \in Node, Runs(n), NEW y \in Node, A[currentTerm'[n]][y] = n PROVE y = n
  <2> DEFINE t == currentTerm'[n]
  <2>1. t = currentTerm[n] + 1 /\ t \in Nat
    BY <1>1, <1>6 DEF Runs
  <2>2. B[t][y] # n
    <3>1. B[t][y] # Nil => t <= currentTerm[B[t][y]]
      BY <1>2, <2>1
    <3>2. n # Nil /\ currentTerm[n] \in Nat
      BY <1>1
    <3> HIDE DEF t
    <3> QED
      BY <2>1, <3>1, <3>2
  <2>3. PICK u \in Nat, v \in Node, m \in Node :
          NewBallot(A, B, u, v, m) /\ (Own(u, v, m) \/ Granted(u, v, m))
    BY <1>6, <2>2 DEF Cast
  <2>4. u = t /\ v = y /\ m = n
    BY <1>6, <2>1, <2>2, <2>3 DEF NewBallot
  <2>5. CASE Own(u, v, m)
    BY <2>4, <2>5 DEF Own
  <2>6. CASE Granted(u, v, m)
    <3>1. n # y /\ conn[n][y].reqs # <<>> /\ Head(conn[n][y].reqs).type = "vote" /\ Head(conn[n][y].reqs).term = t
      BY <2>4, <2>6 DEF Granted
    <3>2. t <= currentTerm[n]
      BY <1>2, <3>1 DEF Canvassed
    <3> QED
      BY <1>1, <2>1, <3>2
  <2> QED
    BY <2>3, <2>5, <2>6
<1>7. ASSUME NEW n \in Node, Running(n)', NEW y \in Node, A[currentTerm'[n]][y] = n,
             NEW q \in Node, NEW k \in Nat, NEW i \in Nat, k < currentTerm'[n], q # y,
             <<y, k, i>> \in H, Holds(H, q, k, i)'
      PROVE  Agree(log'[n].entries, U[k], i)
  <2>1. currentTerm'[y] >= currentTerm'[n] /\ currentTerm'[y] \in Nat
    BY <1>1, <1>7, BallotTerm
  <2>2. <<y, k, i>> \in G
    <3>1. ~(currentTerm'[y] <= k)
      BY <1>1, <1>7, <2>1
    <3> QED
      BY <1>7, <3>1 DEF Forth
  <2>3. Mark(T, k, i) /\ Holds(G, q, k, i)
    BY <1>7, <2>2, HeldBefore DEF Core, Written
  <2>4. Agree(Es(n), T[k], i) /\ log'[n] = log[n]
    <3>1. CASE Runs(n) /\ log' = log
      <4>1. y = n
        BY <1>6, <1>7, <3>1
      <4>2. Agree(Es(n), T[k], i)
        BY <1>7, <2>2, <2>3, <4>1 DEF Core, Kept
      <4> QED
        BY <3>1, <4>2
    <3>2. CASE Running(n) /\ currentTerm'[n] = currentTerm[n] /\ log'[n] = log[n]
      <4>1. Behind(T, G, y, currentTerm[n], Es(n))
        BY <1>7, <3>2, CastBehind
      <4> QED
        BY <1>7, <2>2, <2>3, <3>2, <4>1 DEF Behind
    <3> QED
      BY <1>3, <1>7, <3>1, <3>2
  <2>5. Agree(Es(n), U[k], i)
    BY <1>1, <2>3, <2>4, InContinued DEF Forth
  <2> QED
    BY <2>4, <2>5 DEF Es
<1>8. ASSUME NEW n \in Node, Running(n)', NEW j \in 1..Len(log'[n].entries),
             log'[n].entries[j].term > currentTerm'[n]
      PROVE  \E Q \in SUBSET Node : /\ Cardinality(Q) >= Majority
                                    /\ \A y \in Q : currentTerm'[y] > currentTerm'[n] /\ A[currentTerm'[n]][y] # n
  <2>1. CASE Running(n) /\ currentTerm'[n] = currentTerm[n] /\ log'[n] = log[n]
    <3>1. Blocked(A, currentTerm[n], n)
      BY <1>8, <2>1, CastBehind DEF Es
    <3>2. PICK Q \in SUBSET Node : Cardinality(Q) >= Majority
            /\ \A y \in Q : currentTerm[y] > currentTerm[n] /\ A[currentTerm[n]][y] # n
      BY <3>1 DEF Blocked
    <3>3. \A y \in Q : currentTerm'[y] > currentTerm'[n] /\ A[currentTerm'[n]][y] # n
      <4> TAKE y \in Q
      <4>1. y \in Node /\ currentTerm[y] > currentTerm[n]
        BY <3>2
      <4> QED
        BY <1>1, <2>1, <3>2, <4>1
    <3> QED
      BY <3>2, <3>3
  <2>2. CASE Runs(n)
    <3> DEFINE t == currentTerm'[n]
               z == log'[n].entries[j].term
    <3>1. InBook(U, log'[n].entries) /\ Core(U, H)'
      BY DEF Matching
    <3>2. z \in 1..MaxTerm /\ Agree(log'[n].entries, U[z], j)
      BY <3>1 DEF InBook
    <3>3. Len(log'[n].entries) \in Nat
      BY <1>1, SeqType
    <3> HIDE DEF z
    <3>4. U[z] # <<>>
      <4>1. j \in 1..Len(U[z])
        BY <3>2, <3>3 DEF Agree
      <4> QED
        BY <3>2, <4>1, PageType
    <3>5. PICK m \in Node : <<z, m>> \in elected'
      BY <3>2, <3>4 DEF Matching
    <3>6. z \in Nat /\ z > t
      BY <1>8, <3>2 DEF z
    <3>7. PICK Q \in SUBSET Node : Cardinality(Q) >= Majority /\ \A v \in Q : A[z][v] = m /\ currentTerm'[v] >= z
      BY <3>5, <3>6, LaterLeader
    <3>8. \A v \in Q : currentTerm'[v] > t /\ v # n
      BY <1>1, <3>6, <3>7
    <3>9. \A v \in Q : A[t][v] # n
      BY <1>6, <2>2, <3>8
    <3> QED
      BY <3>7, <3>8, <3>9
  <2> QED
    BY <1>3, <1>8, <2>1, <2>2
<1> QED
  BY <1>4, <1>5, <1>7, <1>8 DEF Votes, Behind, Blocked, Es

\* Who is elected has what two nodes hold of earlier terms, and nothing of later ones.
LEMMA WinnerHas ==
  ASSUME TypeOK, TypeOK', TermsGrow, Reigns, Cardinality(Node) <= 4, OneLeaderPerTerm',
         NEW T \in Books, NEW G \in Copies, Core(T, G), Matching(T),
         NEW A \in Ballots, NEW B \in Ballots, Cast(A, B), Tally(A)', Votes(B, T, G),
         NEW n \in Node, NEW t \in 1..MaxTerm, Wins(n, t)
  PROVE  /\ \A k, i \in Nat : k < t /\ Mark(T, k, i) /\ Firm(G, k, i) => Agree(Es(n), T[k], i)
         /\ \A j \in 1..Len(Es(n)) : Es(n)[j].term <= t
<1>1. /\ t \in Nat /\ Es(n) \in Seq(Entry) /\ InBook(T, Es(n))
      /\ elected' = elected \cup {<<t, n>>} /\ <<t, n>> \notin elected
      /\ Others(n) /\ currentTerm'[n] = t /\ t >= currentTerm[n] /\ currentTerm[n] \in Nat
  BY DEF TypeOK, Log, Matching, Es, Wins, TermsGrow
<1>2. ASSUME NEW j \in 1..Len(Es(n))
      PROVE  Es(n)[j].term \in 1..MaxTerm /\ \E v \in Node : <<Es(n)[j].term, v>> \in elected
  <2> DEFINE z == Es(n)[j].term
  <2>1. z \in 1..MaxTerm /\ Agree(Es(n), T[z], j) /\ Len(Es(n)) \in Nat
    BY <1>1, SeqType DEF InBook
  <2> HIDE DEF z
  <2>2. j \in 1..Len(T[z])
    BY <2>1 DEF Agree
  <2>3. T[z] # <<>>
    BY <2>1, <2>2, PageType
  <2> QED
    BY <2>1, <2>3 DEF Matching, z
<1>3. CASE Node = {n}
  <2>1. ASSUME NEW j \in 1..Len(Es(n)) PROVE Es(n)[j].term <= t
    <3>1. Es(n)[j].term \in Nat /\ <<Es(n)[j].term, n>> \in elected
      BY <1>2, <1>3
    <3>2. \A e \in elected : e[1] <= currentTerm[e[2]]
      BY DEF Reigns
    <3>3. Es(n)[j].term <= currentTerm[n]
      BY <3>1, <3>2
    <3> QED
      BY <1>1, <3>1, <3>3
  <2> QED
    BY <1>3, <2>1 DEF Firm
<1>4. CASE state[n] = "Candidate" /\ currentTerm[n] = t
  <2>1. Running(n)
    <3> SUFFICES ASSUME NEW v \in Node, <<t, v>> \in elected PROVE FALSE
      BY <1>4 DEF Running
    <3>1. \A a, b \in elected' : a[1] = b[1] => a[2] = b[2]
      BY DEF OneLeaderPerTerm
    <3>2. <<t, v>> \in elected' /\ <<t, n>> \in elected'
      BY <1>1
    <3>3. v = n
      BY <3>1, <3>2
    <3> QED
      BY <1>1, <3>3
  <2>2. /\ \A y \in Node : A[t][y] = n => Behind(T, G, y, t, Es(n))
        /\ \A j \in 1..Len(Es(n)) : Es(n)[j].term > t => Blocked(A, t, n)
    BY <1>4, <2>1, CastBehind
  <2>3. PICK Q \in SUBSET Node : Cardinality(Q) >= Majority /\ \A v \in Q : A[t][v] = n /\ currentTerm'[v] >= t
    BY <1>1, LaterLeader
  <2>4. \A v \in Node : currentTerm'[v] = currentTerm[v] /\ currentTerm[v] \in Nat
    BY <1>1, <1>4 DEF Others, TermsGrow
  <2>5. ASSUME NEW k \in Nat, NEW i \in Nat, k < t, Mark(T, k, i), Firm(G, k, i)
        PROVE  Agree(Es(n), T[k], i)
    <3>1. PICK p, q \in Node : p # q /\ Holds(G, p, k, i) /\ Holds(G, q, k, i)
      BY <2>5 DEF Firm
    <3>2. \A v \in Q : Holds(G, v, k, i) => <<v, k, i>> \in G
      <4> TAKE v \in Q
      <4>1. currentTerm[v] >= t /\ currentTerm[v] \in Nat
        BY <2>3, <2>4
      <4> QED
        BY <1>1, <2>5, <4>1 DEF Holds
    <3>3. p \in Q \/ q \in Q
      BY <2>3, <3>1, Pair
    <3> QED
      BY <2>2, <2>3, <2>5, <3>1, <3>2, <3>3 DEF Behind
  <2>6. ASSUME NEW j \in 1..Len(Es(n)) PROVE Es(n)[j].term <= t
    <3> SUFFICES ASSUME ~(Es(n)[j].term <= t) PROVE FALSE
      OBVIOUS
    <3>1. Es(n)[j].term > t
      BY <1>1, <1>2
    <3>2. PICK P \in SUBSET Node : Cardinality(P) >= Majority /\ \A y \in P : A[t][y] # n
      BY <2>2, <3>1 DEF Blocked
    <3>3. P \cap Q # {}
      BY <2>3, <3>2, Meet
    <3> QED
      BY <2>3, <3>2, <3>3
  <2> QED
    BY <2>5, <2>6
<1> QED
  BY <1>3, <1>4 DEF Wins

\* The book and the copies after a step.
LEMMA CoreKept ==
  ASSUME TypeOK, TypeOK', Turn, Moves, TermsGrow, Reigns, Reigns', Reported, Cardinality(Node) <= 4,
         OneLeaderPerTerm, OneLeaderPerTerm', \A n \in Node : Compacts(n) => log' = log,
         NEW T \in Books, NEW G \in Copies, Core(T, G), Matching(T),
         NEW A \in Ballots, NEW B \in Ballots, Cast(A, B), Tally(A)', Votes(B, T, G),
         \A n, p \in Node : Stores(n, p) =>
           \E s \in Seq(Entry) : Source(T, G, n, Head(conn[n][p].reqs), s)
  PROVE  \E U \in Books, H \in Copies :
           Matching(U)' /\ Core(U, H)' /\ Forth(T, G, U, H) /\ Keeps(T, G)
<1>1. Steady => elected' = elected /\ \A v \in Node : Stayed(v)
  BY DEF Steady, Stayed
<1>2. ASSUME log' = log, elected' = elected, \A v \in Node : Stayed(v)
      PROVE  \E H \in Copies : Matching(T)' /\ Core(T, H)' /\ Forth(T, G, T, H) /\ Keeps(T, G)
  <2>1. Keeps(T, G)
    BY <1>2 DEF Keeps, Es
  <2>2. Matching(T)'
    BY <1>2, MatchingQuiet
  <2>3. \A p \in Node : log'[p] = log[p]
    BY <1>2
  <2> QED
    BY <1>2, <2>1, <2>2, <2>3, CoreSame
<1>3. ASSUME NEW n \in Node, NEW t, NEW e, Adds(T, n, t, e),
             \A k, i \in Nat : k < t /\ Mark(T, k, i) /\ Firm(G, k, i) => Agree(Es(n), T[k], i),
             \A j \in 1..Len(Es(n)) : Es(n)[j].term <= t
      PROVE  \E U \in Books, H \in Copies :
               Matching(U)' /\ Core(U, H)' /\ Forth(T, G, U, H) /\ Keeps(T, G)
  <2>1. PICK U \in Books : U = Added(T, n, t, e) /\ Matching(U)'
    BY <1>3, MatchingAppended
  <2> QED
    BY <1>3, <2>1, CoreAdds
<1>4. ASSUME NEW n \in Node, Steady, Proposes(n)
      PROVE  \E U \in Books, H \in Copies :
               Matching(U)' /\ Core(U, H)' /\ Forth(T, G, U, H) /\ Keeps(T, G)
  <2> DEFINE t == currentTerm[n]
  <2>1. T[t] = Es(n) /\ \E e : Adds(T, n, t, e)
    BY <1>4, AddsProposed DEF Es
  <2>2. PICK e : Adds(T, n, t, e)
    BY <2>1
  <2> HIDE DEF t
  <2>3. t \in 1..MaxTerm /\ <<t, n>> \in elected
    BY <1>4, <2>2 DEF Adds, Proposes, Reigns, t
  <2>4. T[t] # <<>> /\ Pages(T) /\ Complete(T, G)
    BY <2>3 DEF Core, Written
  <2>5. \A k, i \in Nat : k < t /\ Mark(T, k, i) /\ Firm(G, k, i) => Agree(Es(n), T[k], i)
    BY <2>1, <2>3, <2>4 DEF Complete
  <2>6. \A j \in 1..Len(Es(n)) : Es(n)[j].term <= t
    BY <2>1, <2>3, <2>4 DEF Pages
  <2> QED
    BY <1>3, <2>2, <2>5, <2>6
<1>5. ASSUME NEW n \in Node, NEW t \in 1..MaxTerm, Wins(n, t)
      PROVE  \E U \in Books, H \in Copies :
               Matching(U)' /\ Core(U, H)' /\ Forth(T, G, U, H) /\ Keeps(T, G)
  <2>1. PICK e : Adds(T, n, t, e)
    BY <1>5, AddsWon
  <2>2. /\ \A k, i \in Nat : k < t /\ Mark(T, k, i) /\ Firm(G, k, i) => Agree(Es(n), T[k], i)
        /\ \A j \in 1..Len(Es(n)) : Es(n)[j].term <= t
    BY <1>5, WinnerHas
  <2> QED
    BY <1>3, <2>1, <2>2
<1>6. ASSUME NEW n \in Node, NEW p \in Node, Steady, Stores(n, p)
      PROVE  \E H \in Copies : Matching(T)' /\ Core(T, H)' /\ Forth(T, G, T, H) /\ Keeps(T, G)
  <2>1. Matching(T)' /\ elected' = elected
    BY <1>1, <1>6, MatchingStored
  <2>2. PICK s \in Seq(Entry) : Source(T, G, n, Head(conn[n][p].reqs), s)
    BY <1>6
  <2> QED
    BY <1>6, <2>1, <2>2, CoreStores
<1>7. ASSUME NEW n \in Node, Runs(n), log' = log
      PROVE  \E H \in Copies : Matching(T)' /\ Core(T, H)' /\ Forth(T, G, T, H) /\ Keeps(T, G)
  <2>1. elected' = elected /\ \A v \in Node : Stayed(v)
    BY <1>7 DEF Runs, Others, Stayed
  <2> QED
    BY <1>2, <1>7, <2>1
<1>8. ASSUME Steady, log' = log
      PROVE  \E H \in Copies : Matching(T)' /\ Core(T, H)' /\ Forth(T, G, T, H) /\ Keeps(T, G)
  BY <1>1, <1>2, <1>8
<1> QED
  BY <1>4, <1>5, <1>6, <1>7, <1>8 DEF Turn

-----------------------------------------------------------------------------
\* What leaders send, and what they are told.

\* Everything up to c, of the log s, is in a log that two nodes have.
Cov(T, G, c, s) ==
  c = 0 \/ \E k, i \in Nat : Mark(T, k, i) /\ Settled(G, k, i) /\ c <= i /\ Agree(s, T[k], i)

\* Two nodes have entry j of one term.
Both(G, n, p, j) == \E k \in Nat : <<n, k, j>> \in G /\ <<p, k, j>> \in G

\* A candidate waits for no peer in a round; a round is in the last term its node won, and
\* sends a commit index that is right.
Rests(n) == state[n] = "Candidate" => \A r \in Rounds : round[n][r].peer = Nil

Rounded(T, G, b, n) ==
  \A r \in Rounds : round[n][r].peer # Nil =>
    /\ \A k \in 1..MaxTerm : <<k, n>> \in elected => k <= round[n][r].term
    /\ b => Cov(T, G, round[n][r].commit, Es(n))

\* Who won a term has an entry of it or of a later one, and goes on at its end at most
\* with a peer that is not beyond the term.
Ahead(n) ==
  \A k \in 1..MaxTerm : <<k, n>> \in elected =>
    /\ Es(n) # <<>> /\ End(Es(n)) >= k
    /\ \A p \in Node : p # n /\ currentTerm[p] <= k => nextIndex[n][p] <= Len(Es(n)) + 1

Backed(G, n) == \A p \in Node : p # n /\ matchIndex[n][p] > 0 => Both(G, n, p, matchIndex[n][p])

\* A request that p will not refuse is an excerpt of a log its sender had, up to where the
\* round expects p to have it then.
Fresh(T, G, b, n, p, m) ==
  \E s \in Seq(Entry) :
    /\ Source(T, G, n, m, s)
    /\ b => Cov(T, G, m.commit, s)
    /\ \A r \in Rounds : round[n][r].peer = p =>
         round[n][r].term = m.term /\ (round[n][r].last > 0 => round[n][r].last = Len(s))

Sent(T, G, b, n, p) ==
  LET m == Head(conn[n][p].reqs)
  IN  Appending(n, p) /\ currentTerm[p] <= m.term => Fresh(T, G, b, n, p, m)

\* An answer tells what p has, or where the log of n may differ.
Answered(G, n, p) ==
  LET a == Head(conn[n][p].resps)
  IN  conn[n][p].resps # <<>> =>
        \A r \in Rounds : round[n][r].peer = p =>
          IF a.type = "append" /\ a.ok
          THEN round[n][r].last > 0 => Both(G, n, p, round[n][r].last)
          ELSE currentTerm[p] <= round[n][r].term => a.conflict <= Len(Es(n)) + 1

Sending(T, G, b) ==
  /\ \A n \in Node : Rests(n) /\ Rounded(T, G, b, n) /\ Ahead(n) /\ Backed(G, n)
  /\ \A n, p \in Node : n # p => Sent(T, G, b, n, p) /\ Answered(G, n, p)

\* A step of which the rest is known.
Passes(T, G, U, H) ==
  /\ TypeOK /\ TypeOK' /\ Wires' /\ Turn /\ Moves /\ TermsGrow /\ elected \subseteq elected'
  /\ Reigns /\ Reigns' /\ Reported /\ \A n \in Node : Compacts(n) => log' = log
  /\ T \in Books /\ U \in Books /\ G \in Copies /\ H \in Copies
  /\ Core(T, G) /\ Matching(T) /\ Core(U, H)' /\ Matching(U)'
  /\ Forth(T, G, U, H) /\ Keeps(T, G)

\* The types of what a step is about.
LEMMA PassTypes ==
  ASSUME NEW T, NEW G, NEW U, NEW H, Passes(T, G, U, H), NEW n \in Node
  PROVE  /\ Es(n) \in Seq(Entry) /\ log'[n].entries \in Seq(Entry) /\ n # Nil
         /\ Len(Es(n)) \in Nat /\ Len(log'[n].entries) \in Nat
         /\ log[n] \in Log /\ log[n].first = 1 /\ log'[n].first = 1
         /\ InBook(T, Es(n)) /\ InBook(U, log'[n].entries)
         /\ LastIndex(log[n]) = Len(Es(n))
         /\ currentTerm[n] \in Nat /\ currentTerm'[n] \in Nat /\ currentTerm'[n] >= currentTerm[n]
<1>1. /\ log[n] \in Log /\ log'[n] \in Log /\ log[n].first = 1 /\ log'[n].first = 1
      /\ InBook(T, Es(n)) /\ InBook(U, log'[n].entries)
  BY DEF Passes, TypeOK, Matching, Es
<1>2. Es(n) \in Seq(Entry) /\ log'[n].entries \in Seq(Entry)
  BY <1>1 DEF Log, Es
<1>3. Len(Es(n)) \in Nat /\ Len(log'[n].entries) \in Nat
  BY <1>2, SeqType
<1>4. LastIndex(log[n]) = Len(Es(n))
  BY <1>1, EndInPlace DEF Es
<1>5. currentTerm[n] \in Nat /\ currentTerm'[n] \in Nat /\ currentTerm'[n] >= currentTerm[n]
  BY DEF Passes, TermsGrow
<1>6. n # Nil
  BY RaftAssumption
<1> QED
  BY <1>1, <1>2, <1>3, <1>4, <1>5, <1>6

\* The end of a log that another node may come to have is not lost.
LEMMA Grows ==
  ASSUME NEW T, NEW G, NEW U, NEW H, Passes(T, G, U, H), NEW n \in Node, NEW p \in Node, p # n,
         Es(n) # <<>>, currentTerm'[p] <= End(Es(n))
  PROVE  Len(Es(n)) <= Len(log'[n].entries)
<1> DEFINE z == End(Es(n))
           b == Len(Es(n))
<1>1. T \in Books /\ Pages(T) /\ <<n, z, b>> \in G /\ Keeps(T, G)
  <2>1. T \in Books /\ Core(T, G) /\ Keeps(T, G)
    BY DEF Passes
  <2>2. <<n, z, b>> \in G
    BY <2>1 DEF Core, Written
  <2> QED
    BY <2>1, <2>2 DEF Core
<1>2. /\ Es(n) \in Seq(Entry) /\ InBook(T, Es(n)) /\ b \in Nat
      /\ currentTerm[p] \in Nat /\ currentTerm'[p] \in Nat /\ currentTerm'[p] >= currentTerm[p]
  <2>1. Es(n) \in Seq(Entry) /\ InBook(T, Es(n)) /\ b \in Nat
    BY PassTypes
  <2>2. currentTerm[p] \in Nat /\ currentTerm'[p] \in Nat /\ currentTerm'[p] >= currentTerm[p]
    BY PassTypes
  <2> QED
    BY <2>1, <2>2
<1>3. Mark(T, z, b) /\ Agree(Es(n), T[z], b) /\ z \in 1..MaxTerm /\ z \in Nat
  BY <1>1, <1>2, EndMark, MarkType
<1>4. currentTerm'[p] <= z
  OBVIOUS
<1> HIDE DEF z, b
<1>5. Firm(G, z, b)
  <2>1. currentTerm[p] <= z
    BY <1>2, <1>3, <1>4
  <2> QED
    BY <1>1, <2>1 DEF Firm, Holds
<1>6. Agree(log'[n].entries, T[z], b)
  BY <1>1, <1>2, <1>3, <1>5 DEF Keeps
<1> QED
  BY <1>6 DEF Agree, b

\* What was covered is covered.
LEMMA CovKept ==
  ASSUME NEW T, NEW G, NEW U, NEW H, Passes(T, G, U, H), NEW c \in Nat
  PROVE  /\ \A s \in Seq(Entry) : Cov(T, G, c, s) => Cov(U, H, c, s)
         /\ \A n \in Node : Cov(T, G, c, Es(n)) => Cov(U, H, c, log'[n].entries)
<1>1. T \in Books /\ U \in Books /\ Continues(T, U) /\ Keeps(T, G) /\ Forth(T, G, U, H) /\ TermsGrow
  BY DEF Passes, Forth
<1>2. /\ \A k, i : Mark(T, k, i) => Mark(U, k, i) /\ U[k] # <<>>
      /\ \A s \in Seq(Entry), k, i \in Nat : Mark(T, k, i) =>
           (Agree(s, T[k], i) <=> Agree(s, U[k], i))
  BY <1>1, InContinued
<1>3. \A k, i \in Nat : Settled(G, k, i) => Settled(H, k, i) /\ Firm(G, k, i)
  BY <1>1, HeldBefore, SettledFirm
<1>4. ASSUME NEW s \in Seq(Entry), Cov(T, G, c, s) PROVE Cov(U, H, c, s)
  BY <1>2, <1>3, <1>4 DEF Cov
<1>5. ASSUME NEW n \in Node, Cov(T, G, c, Es(n)) PROVE Cov(U, H, c, log'[n].entries)
  <2>1. CASE c = 0
    BY <2>1 DEF Cov
  <2>2. ASSUME NEW k \in Nat, NEW i \in Nat, Mark(T, k, i), Settled(G, k, i), c <= i, Agree(Es(n), T[k], i)
        PROVE  Cov(U, H, c, log'[n].entries)
    <3>1. Agree(log'[n].entries, T[k], i) /\ log'[n].entries \in Seq(Entry)
      BY <1>1, <1>3, <2>2, PassTypes DEF Keeps
    <3>2. Agree(log'[n].entries, U[k], i)
      BY <1>2, <2>2, <3>1
    <3> QED
      BY <1>2, <1>3, <2>2, <3>2 DEF Cov
  <2> QED
    BY <1>5, <2>1, <2>2 DEF Cov
<1> QED
  BY <1>4, <1>5

\* What two nodes have they keep.
LEMMA BothKept ==
  ASSUME NEW T, NEW G, NEW U, NEW H, Forth(T, G, U, H), NEW n, NEW p, NEW j, Both(G, n, p, j)
  PROVE  Both(H, n, p, j)
BY DEF Both, Forth

\* What two nodes have is in their logs.
LEMMA BothHas ==
  ASSUME NEW T \in Books, NEW G \in Copies, Core(T, G), NEW n \in Node, NEW p \in Node, n # p, NEW j, Both(G, n, p, j)
  PROVE  \E k \in Nat : /\ Mark(T, k, j) /\ Settled(G, k, j) /\ j \in Nat
                        /\ Agree(Es(n), T[k], j) /\ j <= Len(Es(n))
<1>1. PICK k \in Nat : <<n, k, j>> \in G /\ <<p, k, j>> \in G
  BY DEF Both
<1>2. Mark(T, k, j) /\ j \in Nat
  BY <1>1, MarkType DEF Core, Written
<1>3. Agree(Es(n), T[k], j)
  BY <1>1, <1>2 DEF Core, Kept, Holds
<1> QED
  BY <1>1, <1>2, <1>3 DEF Settled, Agree

\* What is stored was sent as it should be.
LEMMA StoresFresh ==
  ASSUME TypeOK, NEW T, NEW G, NEW b, Sending(T, G, b), NEW n \in Node, NEW p \in Node, Stores(n, p)
  PROVE  Fresh(T, G, b, n, p, Head(conn[n][p].reqs))
<1> DEFINE req == Head(conn[n][p].reqs)
<1>1. n # p /\ conn[n][p].reqs # <<>> /\ req.type = "append" /\ req.term >= currentTerm[p]
  BY DEF Stores
<1>2. req.term \in Nat /\ currentTerm[p] \in Nat
  <2>1. currentTerm[p] \in 0..MaxTerm
    BY DEF TypeOK
  <2> QED
    BY <1>1, <2>1, HeadRequest, RaftAssumption
<1>3. Appending(n, p) /\ currentTerm[p] <= req.term
  BY <1>1, <1>2 DEF Appending
<1> QED
  BY <1>1, <1>3 DEF Sending, Sent

\* What is stored, and the log that holds it then.
LEMMA StoredFresh ==
  ASSUME NEW T, NEW G, NEW U, NEW H, Passes(T, G, U, H), NEW b, Sending(T, G, b), NEW n \in Node, NEW p \in Node,
         Stores(n, p)
  PROVE  LET req == Head(conn[n][p].reqs)
         IN  \E s \in Seq(Entry) :
               /\ Source(T, G, n, req, s)
               /\ b => Cov(T, G, req.commit, s)
               /\ \A r \in Rounds : round[n][r].peer = p =>
                    round[n][r].term = req.term /\ (round[n][r].last > 0 => round[n][r].last = Len(s))
               /\ Taken(n, p, s)
<1>1. TypeOK /\ TypeOK' /\ T \in Books /\ Matching(T)
  BY DEF Passes
<1>2. PICK s \in Seq(Entry) :
        LET m == Head(conn[n][p].reqs)
        IN  /\ Source(T, G, n, m, s)
            /\ b => Cov(T, G, m.commit, s)
            /\ \A r \in Rounds : round[n][r].peer = p =>
                 round[n][r].term = m.term /\ (round[n][r].last > 0 => round[n][r].last = Len(s))
  BY <1>1, StoresFresh DEF Fresh
<1>3. Taken(n, p, s)
  BY <1>1, <1>2, StoredOf DEF Source
<1> QED
  BY <1>2, <1>3

\* A step that leaves the logs elects nobody.
LEMMA NoneWins ==
  ASSUME NEW T, NEW G, NEW U, NEW H, Passes(T, G, U, H), log' = log
  PROVE  elected' = elected
<1>1. ASSUME NEW n \in Node, NEW t \in 1..MaxTerm, Wins(n, t) PROVE FALSE
  <2> DEFINE e == [index |-> LastIndex(log[n]) + 1, term |-> t, type |-> "NoOp"]
  <2>1. log' = [log EXCEPT ![n] = Append1(log[n], e)]
    BY <1>1 DEF Wins
  <2>2. log[n] \in Log /\ Es(n) \in Seq(Entry) /\ Len(Es(n)) \in Nat
    BY PassTypes
  <2>3. e \in Entry
    <3>1. LastIndex(log[n]) + 1 \in Nat /\ t \in Nat
      BY <2>2, EndOf
    <3> QED
      BY <3>1 DEF Entry
  <2> HIDE DEF e
  <2>4. log[n] = Append1(log[n], e)
    BY <2>1, Zenon DEF Passes, TypeOK
  <2>5. Append1(log[n], e).entries = Append(Es(n), e)
    BY <2>2 DEF Append1, Log, Es
  <2>6. Es(n) = Append(Es(n), e)
    BY <2>4, <2>5 DEF Es
  <2>7. Len(Append(Es(n), e)) = Len(Es(n)) + 1
    BY <2>2, <2>3, AppendProperties
  <2> QED
    BY <2>2, <2>6, <2>7
<1> QED
  BY <1>1 DEF Passes, Turn, Steady, Runs

\* What the logs end with.
LEMMA EndMoves ==
  ASSUME NEW T, NEW G, NEW U, NEW H, Passes(T, G, U, H), NEW b, Sending(T, G, b), NEW n \in Node
  PROVE  \/ log'[n] = log[n] /\ \A k \in 1..MaxTerm : <<k, n>> \in elected' => <<k, n>> \in elected
         \/ log'[n].entries # <<>> /\ End(log'[n].entries) >= currentTerm'[n]
<1>1. TypeOK /\ TypeOK' /\ Turn /\ log \in [Node -> Log] /\ \A m \in Node : Compacts(m) => log' = log
  BY DEF Passes, TypeOK
<1>2. ASSUME elected' = elected, log'[n] = log[n]
      PROVE  log'[n] = log[n] /\ \A k \in 1..MaxTerm : <<k, n>> \in elected' => <<k, n>> \in elected
  BY <1>2
<1> DEFINE New(m, t, y) ==
             log' = [log EXCEPT ![m] = Append1(log[m], [index |-> LastIndex(log[m]) + 1, term |-> t, type |-> y])]
<1>3. ASSUME NEW m \in Node, NEW t \in 1..MaxTerm, NEW y \in {"NoOp", "Command"}, New(m, t, y)
      PROVE  \/ m # n /\ log'[n] = log[n]
             \/ m = n /\ log'[n].entries # <<>> /\ End(log'[n].entries) = t
  <2>1. CASE m # n
    BY <1>1, <1>3, <2>1
  <2>2. CASE m = n
    <3> DEFINE e == [index |-> LastIndex(log[n]) + 1, term |-> t, type |-> y]
    <3>1. log[n] \in Log /\ Es(n) \in Seq(Entry) /\ Len(Es(n)) \in Nat
      BY PassTypes
    <3>2. e \in Entry /\ e.term = t
      <4>1. LastIndex(log[n]) + 1 \in Nat /\ t \in Nat
        BY <3>1, EndOf
      <4> QED
        BY <1>3, <4>1 DEF Entry
    <3>3. log' = [log EXCEPT ![n] = Append1(log[n], e)]
      BY <1>3, <2>2
    <3> HIDE DEF e
    <3>4. log'[n].entries = Append(Es(n), e)
      BY <1>1, <3>1, <3>3 DEF Append1, Log, Es
    <3>5. /\ Append(Es(n), e) \in Seq(Entry) /\ Len(Append(Es(n), e)) = Len(Es(n)) + 1
          /\ Append(Es(n), e)[Len(Es(n)) + 1] = e
      BY <3>1, <3>2, AppendProperties
    <3>6. Append(Es(n), e) # <<>>
      BY <3>1, <3>5, EmptySeq
    <3> QED
      BY <2>2, <3>2, <3>4, <3>5, <3>6 DEF End
  <2> QED
    BY <2>1, <2>2
<1>4. ASSUME NEW m \in Node, Steady, Proposes(m)
      PROVE  log'[n] = log[n] \/ (log'[n].entries # <<>> /\ End(log'[n].entries) >= currentTerm'[n])
  <2> DEFINE t == currentTerm[m]
  <2>1. t \in 1..MaxTerm /\ t \in Nat /\ currentTerm'[m] = t
    <3>1. <<t, m>> \in elected /\ currentTerm'[m] = t
      BY <1>4 DEF Proposes, Passes, Reigns
    <3> QED
      BY <1>1, <3>1 DEF TypeOK
  <2>2. New(m, t, "Command")
    BY <1>4 DEF Proposes
  <2> HIDE DEF t, New
  <2>3. log'[n] = log[n] \/ (m = n /\ log'[n].entries # <<>> /\ End(log'[n].entries) = t)
    BY <1>3, <2>1, <2>2
  <2> QED
    BY <2>1, <2>3
<1>5. ASSUME NEW m \in Node, NEW t \in 1..MaxTerm, Wins(m, t)
      PROVE  \/ log'[n] = log[n] /\ \A k \in 1..MaxTerm : <<k, n>> \in elected' => <<k, n>> \in elected
             \/ log'[n].entries # <<>> /\ End(log'[n].entries) >= currentTerm'[n]
  <2>1. New(m, t, "NoOp") /\ elected' = elected \cup {<<t, m>>} /\ currentTerm'[m] = t /\ t \in Nat
    BY <1>5 DEF Wins
  <2> HIDE DEF New
  <2>2. m # n => \A k \in 1..MaxTerm : <<k, n>> \in elected' => <<k, n>> \in elected
    BY <2>1
  <2>3. \/ m # n /\ log'[n] = log[n]
        \/ m = n /\ log'[n].entries # <<>> /\ End(log'[n].entries) = t
    BY <1>3, <2>1
  <2> QED
    BY <2>1, <2>2, <2>3
<1>6. ASSUME NEW m \in Node, NEW p \in Node, Stores(m, p)
      PROVE  log'[n] = log[n] \/ (log'[n].entries # <<>> /\ End(log'[n].entries) >= currentTerm'[n])
  <2> DEFINE req == Head(conn[m][p].reqs)
  <2>1. PICK s \in Seq(Entry) :
          /\ Source(T, G, m, req, s)
          /\ \A v \in Node \ {p} : log'[v] = log[v]
          /\ log'[p] = log[p] \/ log'[p].entries = s
    BY <1>6, StoredFresh DEF Taken
  <2>2. s # <<>> /\ End(s) >= req.term /\ currentTerm'[p] = req.term
    BY <1>6, <2>1, Zenon DEF Source, Stores
  <2> HIDE DEF req
  <2> QED
    BY <2>1, <2>2
<1>7. CASE Steady /\ \/ log' = log
                     \/ \E m \in Node : Proposes(m) \/ Compacts(m) \/ \E p \in Node : Stores(m, p)
  <2>1. elected' = elected
    BY <1>7 DEF Steady
  <2> QED
    BY <1>1, <1>4, <1>6, <1>7, <2>1
<1>8. ASSUME NEW m \in Node, Runs(m), log' = log
      PROVE  log'[n] = log[n] /\ \A k \in 1..MaxTerm : <<k, n>> \in elected' => <<k, n>> \in elected
  BY <1>8 DEF Runs
<1> QED
  BY <1>1, <1>5, <1>7, <1>8 DEF Turn

\* A round that waits after a step waited before, or sends.
LEMMA Waiting ==
  ASSUME NEW T, NEW G, NEW U, NEW H, Passes(T, G, U, H), NEW b, Sending(T, G, b),
         NEW n \in Node, NEW r \in Rounds, round'[n][r].peer # Nil
  PROVE  /\ \A k \in 1..MaxTerm : <<k, n>> \in elected' => <<k, n>> \in elected
         /\ round'[n][r] = round[n][r] \/ (Sends(n, r) /\ log' = log)
         /\ <<round'[n][r].term, n>> \in elected /\ round'[n][r].term \in 1..MaxTerm
         /\ round'[n][r] \in Round /\ round[n][r] \in Round
<1>1. round'[n][r] = round[n][r] \/ (Sends(n, r) /\ log' = log)
  BY DEF Passes, Moves, Goes, Sends
<1>2. <<round'[n][r].term, n>> \in elected
  BY <1>1, SendsInTerm DEF Passes, Reported
<1>3. round'[n][r].term \in 1..MaxTerm
  <2>1. elected \subseteq (1..MaxTerm) \X Node
    BY DEF Passes, TypeOK
  <2> QED
    BY <1>2, <2>1
<1>4. round'[n][r] \in Round /\ round[n][r] \in Round
  BY DEF Passes, TypeOK
<1>5. ASSUME NEW k \in 1..MaxTerm, <<k, n>> \in elected' PROVE <<k, n>> \in elected
  <2>1. CASE log' = log
    BY <1>5, <2>1, NoneWins
  <2>2. CASE log' # log
    <3>1. round[n][r].peer # Nil
      BY <1>1, <2>2
    <3>2. ASSUME NEW m \in Node, NEW t \in 1..MaxTerm, Wins(m, t) PROVE m # n
      <4> SUFFICES ASSUME m = n PROVE FALSE
        OBVIOUS
      <4>1. state[n] # "Candidate"
        BY <3>1 DEF Sending, Rests
      <4>2. Node = {n}
        BY <3>2, <4>1 DEF Wins
      <4>3. round'[n][r].peer \in Peers(n) \cup {Nil}
        BY DEF Passes, Wires, IsRound
      <4> QED
        BY <4>2, <4>3 DEF Peers
    <3>3. ASSUME NEW m \in Node, NEW t \in 1..MaxTerm, Wins(m, t) PROVE <<k, n>> \in elected
      <4>1. elected' = elected \cup {<<t, m>>} /\ m # n
        BY <3>2, <3>3 DEF Wins
      <4> QED
        BY <1>5, <4>1
    <3> QED
      BY <1>5, <2>2, <3>3 DEF Passes, Turn, Steady, Runs
  <2> QED
    BY <2>1, <2>2
<1> QED
  BY <1>1, <1>2, <1>3, <1>4, <1>5

\* Who becomes a candidate has no round under way.
LEMMA RestsKept ==
  ASSUME NEW T, NEW G, NEW U, NEW H, Passes(T, G, U, H), NEW b, Sending(T, G, b), NEW n \in Node
  PROVE  Rests(n)'
<1> SUFFICES ASSUME state'[n] = "Candidate", NEW r \in Rounds PROVE round'[n][r].peer = Nil
  BY DEF Rests
<1>1. state[n] = "Candidate" \/ \A q \in Rounds : round'[n][q].peer = Nil
  <2>1. Turn
    BY DEF Passes
  <2> QED
    BY <2>1 DEF Turn, Steady, Runs, Wins, Others
<1>2. CASE state[n] = "Candidate"
  <2>1. round[n][r].peer = Nil
    BY <1>2 DEF Sending, Rests
  <2>2. Goes(n, r)
    BY DEF Passes, Moves
  <2> QED
    BY <1>2, <2>1, <2>2 DEF Goes, Sends
<1> QED
  BY <1>1, <1>2

\* What the nodes count as committed.
Covered(T, G) == \A n \in Node : Cov(T, G, commitIndex[n], Es(n))

\* A round begins in the term its node leads, with the commit index it has.
LEMMA RoundedKept ==
  ASSUME NEW T, NEW G, NEW U, NEW H, Passes(T, G, U, H), NEW b, Sending(T, G, b), b => Covered(T, G), NEW n \in Node
  PROVE  Rounded(U, H, b, n)'
<1> SUFFICES ASSUME NEW r \in Rounds, round'[n][r].peer # Nil
             PROVE  /\ \A k \in 1..MaxTerm : <<k, n>> \in elected' => k <= round'[n][r].term
                    /\ b => Cov(U, H, round'[n][r].commit, log'[n].entries)
  BY DEF Rounded, Es
<1>1. /\ \A k \in 1..MaxTerm : <<k, n>> \in elected' => <<k, n>> \in elected
      /\ round'[n][r] = round[n][r] \/ (Sends(n, r) /\ log' = log)
      /\ round'[n][r] \in Round /\ round[n][r] \in Round
  BY Waiting
<1>2. round[n][r].peer # Nil => /\ \A k \in 1..MaxTerm : <<k, n>> \in elected => k <= round[n][r].term
                                /\ b => Cov(T, G, round[n][r].commit, Es(n))
  BY DEF Sending, Rounded
<1>3. \A k \in 1..MaxTerm : <<k, n>> \in elected => k <= currentTerm[n]
  <2> TAKE k \in 1..MaxTerm
  <2>1. \A e \in elected : e[1] <= currentTerm[e[2]]
    BY DEF Passes, Reigns
  <2> QED
    BY <2>1
<1>4. /\ \A k \in 1..MaxTerm : <<k, n>> \in elected' => k <= round'[n][r].term
      /\ b => Cov(T, G, round'[n][r].commit, Es(n))
  <2>1. CASE round'[n][r] = round[n][r]
    BY <1>1, <1>2, <2>1
  <2>2. CASE Sends(n, r)
    <3>1. CASE round[n][r].peer # Nil /\ round'[n][r].term = round[n][r].term /\ round'[n][r].commit = round[n][r].commit
      BY <1>1, <1>2, <3>1
    <3>2. CASE round'[n][r].term = currentTerm[n] /\ round'[n][r].commit = commitIndex[n]
      BY <1>1, <1>3, <3>2 DEF Covered
    <3> QED
      BY <2>2, <3>1, <3>2 DEF Sends
  <2> QED
    BY <1>1, <2>1, <2>2
<1>5. round'[n][r].commit \in Nat
  BY <1>1 DEF Round
<1> QED
  BY <1>4, <1>5, CovKept

\* Who won a term, has won it now or before.
LEMMA NewWinner ==
  ASSUME NEW T, NEW G, NEW U, NEW H, Passes(T, G, U, H), NEW n \in Node, NEW k \in 1..MaxTerm, <<k, n>> \in elected'
  PROVE  \/ <<k, n>> \in elected
         \/ Wins(n, k)
<1>1. Turn
  BY DEF Passes
<1>2. ASSUME NEW m \in Node, NEW t \in 1..MaxTerm, Wins(m, t) PROVE <<k, n>> \in elected \/ Wins(n, k)
  <2>1. elected' = elected \cup {<<t, m>>}
    BY <1>2 DEF Wins
  <2>2. CASE <<k, n>> = <<t, m>>
    <3>1. k = t /\ n = m
      BY <2>2
    <3> QED
      BY <1>2, <3>1
  <2> QED
    BY <2>1, <2>2
<1> QED
  BY <1>1, <1>2 DEF Turn, Steady, Runs

\* A leader goes on at most at the end of its log.
LEMMA AheadKept ==
  ASSUME NEW T, NEW G, NEW U, NEW H, Passes(T, G, U, H), NEW b, Sending(T, G, b), NEW n \in Node
  PROVE  Ahead(n)'
<1> SUFFICES ASSUME NEW k \in 1..MaxTerm, <<k, n>> \in elected'
             PROVE  /\ log'[n].entries # <<>> /\ End(log'[n].entries) >= k
                    /\ \A p \in Node : p # n /\ currentTerm'[p] <= k => nextIndex'[n][p] <= Len(log'[n].entries) + 1
  BY DEF Ahead, Es
<1>1. Passes(T, G, U, H) /\ T \in Books /\ U \in Books /\ Core(T, G) /\ Pages(U) /\ InBook(U, log'[n].entries)
      /\ TypeOK /\ TypeOK'
  BY DEF Passes, Core, Matching
<1>2. /\ Es(n) \in Seq(Entry) /\ log'[n].entries \in Seq(Entry)
      /\ Len(Es(n)) \in Nat /\ Len(log'[n].entries) \in Nat
      /\ LastIndex(log[n]) = Len(Es(n)) /\ currentTerm'[n] \in Nat
  BY PassTypes
<1>3. <<k, n>> \in elected => /\ Es(n) # <<>> /\ End(Es(n)) >= k
                              /\ \A p \in Node : p # n /\ currentTerm[p] <= k => nextIndex[n][p] <= Len(Es(n)) + 1
  BY DEF Sending, Ahead
<1>4. k <= currentTerm'[n]
  <2>1. \A e \in elected' : e[1] <= currentTerm'[e[2]]
    BY DEF Passes, Reigns
  <2> QED
    BY <2>1
<1>5. log'[n].entries # <<>> /\ End(log'[n].entries) >= k
  <2>1. CASE log'[n] = log[n] /\ \A j \in 1..MaxTerm : <<j, n>> \in elected' => <<j, n>> \in elected
    BY <1>3, <2>1 DEF Es
  <2>2. CASE log'[n].entries # <<>> /\ End(log'[n].entries) >= currentTerm'[n]
    <3>1. End(log'[n].entries) \in 1..MaxTerm
      BY <1>1, <1>2, <2>2, EndMark
    <3> DEFINE z == End(log'[n].entries)
    <3>2. z \in Nat /\ z >= currentTerm'[n] /\ k \in Nat
      BY <2>2, <3>1
    <3> HIDE DEF z
    <3>3. z >= k
      BY <1>2, <1>4, <3>2
    <3> QED
      BY <2>2, <3>3 DEF z
  <2> QED
    BY <2>1, <2>2, EndMoves
<1>6. ASSUME NEW p \in Node, p # n, currentTerm'[p] <= k PROVE nextIndex'[n][p] <= Len(log'[n].entries) + 1
  <2>1. CASE Wins(n, k)
    <3> DEFINE e == [index |-> LastIndex(log[n]) + 1, term |-> k, type |-> "NoOp"]
    <3>1. nextIndex'[n][p] = Len(Es(n)) + 1 /\ log' = [log EXCEPT ![n] = Append1(log[n], e)]
      BY <1>2, <2>1 DEF Wins
    <3>2. e \in Entry
      <4>1. LastIndex(log[n]) + 1 \in Nat /\ k \in Nat
        BY <1>2
      <4> QED
        BY <4>1 DEF Entry
    <3> HIDE DEF e
    <3>3. log'[n].entries = Append(Es(n), e)
      <4>1. log \in [Node -> Log] /\ log[n] \in Log
        BY <1>1 DEF TypeOK
      <4> QED
        BY <3>1, <4>1 DEF Append1, Log, Es
    <3>4. Len(Append(Es(n), e)) = Len(Es(n)) + 1
      BY <1>2, <3>2, AppendProperties
    <3> QED
      BY <1>2, <3>1, <3>3, <3>4
  <2>2. CASE <<k, n>> \in elected
    <3>1. currentTerm[p] \in Nat /\ currentTerm'[p] \in Nat /\ currentTerm[p] <= currentTerm'[p]
      BY PassTypes
    <3>2. Es(n) # <<>> /\ nextIndex[n][p] <= Len(Es(n)) + 1
      BY <1>3, <1>6, <2>2, <3>1
    <3>3. Len(Es(n)) <= Len(log'[n].entries)
      <4>1. End(Es(n)) \in 1..MaxTerm
        <5>1. InBook(T, Es(n)) /\ Pages(T)
          BY <1>1, PassTypes DEF Core
        <5> QED
          BY <1>1, <1>2, <3>2, <5>1, EndMark
      <4> DEFINE z == End(Es(n))
      <4>2. z \in Nat /\ z >= k
        BY <1>3, <2>2, <4>1
      <4> HIDE DEF z
      <4>3. currentTerm'[p] <= z
        BY <1>6, <3>1, <4>2
      <4> QED
        BY <1>1, <1>6, <3>2, <4>3, Grows DEF z
    <3>4. nextIndex[n][p] \in Nat \ {0} /\ nextIndex'[n][p] \in Nat \ {0}
      BY <1>1 DEF TypeOK
    <3>5. nextIndex'[n][p] <= Len(Es(n)) + 1
      <4>1. Linked(n, p)
        BY <1>6 DEF Passes, Moves
      <4>2. CASE Forgets(n, p)
        <5>1. nextIndex'[n][p] = 1 \/ nextIndex'[n][p] = Len(Es(n)) + 1
          BY <1>2, <4>2 DEF Forgets
        <5> QED
          BY <1>2, <5>1
      <4>3. ASSUME NEW r \in Rounds, Told(n, p, r) PROVE nextIndex'[n][p] <= Len(Es(n)) + 1
        <5> DEFINE rd == round[n][r]
                   a == Head(conn[n][p].resps)
        <5>1. /\ rd.peer = p /\ conn[n][p].resps # <<>>
              /\ nextIndex'[n][p] = NextAfter(nextIndex[n][p], rd.last, a)
          BY <4>3 DEF Told
        <5>2. IF a.type = "append" /\ a.ok THEN rd.last > 0 => Both(G, n, p, rd.last)
              ELSE currentTerm[p] <= rd.term => a.conflict <= Len(Es(n)) + 1
          BY <1>6, <5>1 DEF Sending, Answered
        <5>3. rd.peer # Nil
          BY <5>1, PassTypes
        <5>4. k <= rd.term /\ rd.term \in Nat
          <6>1. rd \in Round
            BY <1>1 DEF TypeOK
          <6>2. rd.term \in Nat
            BY <6>1, RaftAssumption DEF Round
          <6> QED
            BY <2>2, <5>3, <6>2 DEF Sending, Rounded
        <5>5. rd.last > 0 /\ Both(G, n, p, rd.last) => rd.last <= Len(Es(n)) /\ rd.last \in Nat
          <6> DEFINE w == rd.last
          <6> HIDE DEF w
          <6>1. G \in Copies
            BY DEF Passes
          <6>2. Both(G, n, p, w) => w <= Len(Es(n)) /\ w \in Nat
            BY <1>1, <1>6, <6>1, BothHas
          <6> QED
            BY <6>2 DEF w
        <5> HIDE DEF rd, a
        <5>6. currentTerm[p] <= rd.term
          BY <1>6, <3>1, <5>4
        <5>7. Max({1, nextIndex[n][p] - 1}) <= Len(Es(n)) + 1
          <6>1. nextIndex[n][p] - 1 \in Nat
            BY <3>4
          <6> DEFINE w == nextIndex[n][p] - 1
          <6>2. w \in Nat /\ w <= Len(Es(n)) + 1
            BY <1>2, <3>2, <3>4
          <6> HIDE DEF w
          <6>3. 1 \in Nat /\ Max({1, w}) = IF 1 >= w THEN 1 ELSE w
            BY <6>2, MaxOfTwo
          <6>4. Max({1, w}) <= Len(Es(n)) + 1
            BY <1>2, <6>2, <6>3
          <6> QED
            BY <6>4 DEF w
        <5>8. CASE a.type = "append" /\ a.ok
          BY <1>2, <3>2, <5>1, <5>2, <5>5, <5>8 DEF NextAfter
        <5>9. CASE ~(a.type = "append" /\ a.ok)
          BY <5>1, <5>2, <5>6, <5>7, <5>9 DEF NextAfter
        <5> QED
          BY <5>8, <5>9
      <4> QED
        BY <3>2, <4>1, <4>2, <4>3 DEF Linked
    <3> QED
      BY <1>2, <3>3, <3>4, <3>5
  <2> QED
    BY <2>1, <2>2, NewWinner
<1> QED
  BY <1>5, <1>6

\* matchIndex is what a round sent, which is acknowledged.
LEMMA BackedKept ==
  ASSUME NEW T, NEW G, NEW U, NEW H, Passes(T, G, U, H), NEW b, Sending(T, G, b), NEW n \in Node
  PROVE  Backed(H, n)'
<1> SUFFICES ASSUME NEW p \in Node, p # n, matchIndex'[n][p] > 0 PROVE Both(H, n, p, matchIndex'[n][p])
  BY DEF Backed
<1> DEFINE j == matchIndex'[n][p]
<1>1. matchIndex[n][p] > 0 => Both(G, n, p, matchIndex[n][p])
  BY DEF Sending, Backed
<1>2. Linked(n, p)
  BY DEF Passes, Moves
<1>3. ASSUME NEW r \in Rounds, Told(n, p, r) PROVE Both(G, n, p, j)
  <2> DEFINE rd == round[n][r]
             a == Head(conn[n][p].resps)
  <2>1. /\ rd.peer = p /\ conn[n][p].resps # <<>>
        /\ j = IF a.type = "append" /\ a.ok /\ rd.last > 0 THEN rd.last ELSE matchIndex[n][p]
    BY <1>3 DEF Told
  <2>2. a.type = "append" /\ a.ok => (rd.last > 0 => Both(G, n, p, rd.last))
    BY <2>1 DEF Sending, Answered
  <2> HIDE DEF rd, a
  <2> QED
    BY <1>1, <2>1, <2>2
<1>4. Both(G, n, p, j)
  BY <1>1, <1>2, <1>3 DEF Linked, Forgets
<1>5. Forth(T, G, U, H)
  BY DEF Passes
<1> HIDE DEF j
<1>6. Both(H, n, p, j)
  BY <1>4, <1>5, BothKept
<1> QED
  BY <1>6 DEF j

\* The last entry of an excerpt up to the end.
LEMMA LastOf ==
  ASSUME NEW l \in Log, l.first = 1, NEW T, InBook(T, l.entries), NEW i \in Nat \ {0}, LastSent(From(l, i)) > 0
  PROVE  LastSent(From(l, i)) = Len(l.entries)
<1> DEFINE s == l.entries
           es == From(l, i)
<1>1. s \in Seq(Entry) /\ es \in Seq(Entry) /\ Len(s) \in Nat
  BY EntriesOf, FromType
<1>2. LastIndex(l) = Len(l.entries)
  BY EndInPlace
<1>3. Excerpt(i - 1, TermAt(l, i - 1), es, s)
  BY <1>2, ExcerptOf
<1>4. es # <<>>
  BY DEF LastSent
<1>5. InBook(T, s) /\ LastSent(es) = Last(es).index
  BY <1>4 DEF LastSent
<1> HIDE DEF es, s
<1>6. i - 1 < Len(s)
  BY <1>1, <1>3, <1>4 DEF Excerpt
<1>7. Len(es) = Len(s) - (i - 1) /\ \A k \in 1..Len(es) : es[k] = s[(i - 1) + k]
  BY <1>3, <1>6 DEF Excerpt
<1>8. Len(es) \in 1..Len(es) /\ (i - 1) + Len(es) = Len(s) /\ Len(s) \in 1..Len(s)
  BY <1>1, <1>6, <1>7
<1>9. Last(es) = s[Len(s)]
  BY <1>7, <1>8 DEF Last
<1>10. s[Len(s)].index = Len(s)
  BY <1>5, <1>8 DEF InBook
<1> QED
  BY <1>5, <1>9, <1>10 DEF es, s

\* A request is made of the log of a round, and stays as it is.
LEMMA SentKept ==
  ASSUME NEW T, NEW G, NEW U, NEW H, Passes(T, G, U, H), NEW b, Sending(T, G, b), NEW n \in Node, NEW p \in Node,
         n # p, Ahead(n)', Rounded(U, H, b, n)'
  PROVE  Sent(U, H, b, n, p)'
<1> SUFFICES ASSUME conn'[n][p].reqs # <<>>, NEW m, m = Head(conn'[n][p].reqs), m.type = "append",
                    currentTerm'[p] <= m.term
             PROVE  Fresh(U, H, b, n, p, m)'
  BY DEF Sent, Appending
<1>1. /\ TypeOK /\ TypeOK' /\ T \in Books /\ U \in Books /\ G \in Copies /\ H \in Copies
      /\ Continues(T, U) /\ G \subseteq H /\ Core(T, G) /\ Written(U, H)' /\ Matching(U)'
  BY DEF Passes, Forth, Core
<1>2. /\ Es(n) \in Seq(Entry) /\ log'[n].entries \in Seq(Entry)
      /\ Len(Es(n)) \in Nat /\ Len(log'[n].entries) \in Nat
      /\ log[n] \in Log /\ log[n].first = 1 /\ LastIndex(log[n]) = Len(Es(n))
      /\ InBook(T, Es(n)) /\ InBook(U, log'[n].entries)
      /\ p # Nil
  BY PassTypes
<1>3. CASE \E r \in Rounds : round'[n][r].peer = p /\ Sends(n, r)
  <2>1. PICK r \in Rounds : round'[n][r].peer = p /\ Sends(n, r)
    BY <1>3
  <2> DEFINE i == nextIndex'[n][p]
             rd == round'[n][r]
  <2>2. PICK s \in Seq(Entry) : s = Es(n)
    BY <1>2
  <2>3. /\ m = AppendRequest(n, p, rd, i) /\ log' = log
        /\ rd.last = LastSent(From(log[n], i))
    BY <2>1, OneMessage DEF Sends
  <2>4. /\ m.term = rd.term /\ m.prev = i - 1 /\ m.prevTerm = TermAt(log[n], i - 1) /\ m.entries = From(log[n], i)
        /\ m.commit = rd.commit
    BY <2>3, SendsAppend
  <2>5. i \in Nat \ {0} /\ rd.last \in Nat
    BY <1>1 DEF TypeOK, Round
  <2>6. <<m.term, n>> \in elected' /\ m.term \in 1..MaxTerm
    <3>1. <<rd.term, n>> \in elected
      BY <2>1, SendsInTerm DEF Passes
    <3>2. elected \subseteq elected' /\ elected \subseteq (1..MaxTerm) \X Node
      BY DEF Passes, TypeOK
    <3>3. <<rd.term, n>> \in (1..MaxTerm) \X Node
      BY <3>1, <3>2
    <3> QED
      BY <2>4, <3>1, <3>2, <3>3
  <2>7. log'[n].entries = s
    BY <2>2, <2>3 DEF Es
  <2> HIDE DEF rd, i
  <2>8. s # <<>> /\ End(s) >= m.term /\ i <= Len(s) + 1
    <3>1. \A q \in Node : q # n /\ currentTerm'[q] <= m.term => nextIndex'[n][q] <= Len(s) + 1
      BY <2>6, <2>7 DEF Ahead, Es
    <3> QED
      BY <2>6, <2>7, <3>1 DEF Ahead, Es, i
  <2>9. Excerpt(m.prev, m.prevTerm, m.entries, s)
    <3>1. Excerpt(i - 1, TermAt(log[n], i - 1), From(log[n], i), log[n].entries)
      BY <1>2, <2>5, ExcerptOf DEF Es
    <3> QED
      BY <2>2, <2>4, <3>1 DEF Es
  <2>10. Source(U, H, n, m, s)'
    <3>1. <<n, End(s), Len(s)>> \in H
      BY <1>1, <2>7, <2>8 DEF Written, Es
    <3>2. m.prev <= Len(s)
      BY <1>2, <2>4, <2>5, <2>8
    <3> QED
      BY <1>2, <2>7, <2>8, <2>9, <3>1, <3>2 DEF Source, Es
  <2>11. b => Cov(U, H, m.commit, s)
    BY <1>2, <2>1, <2>4, <2>7 DEF Rounded, Es, rd
  <2>12. ASSUME NEW q \in Rounds, round'[n][q].peer = p
         PROVE  round'[n][q].term = m.term /\ (round'[n][q].last > 0 => round'[n][q].last = Len(s))
    <3>1. q = r
      <4>1. Wire(n, p)'
        BY DEF Passes, Wires
      <4> QED
        BY <2>1, <2>12, <4>1 DEF Wire
    <3>2. rd.last > 0 => rd.last = Len(s)
      <4>1. InBook(T, log[n].entries)
        BY <1>2 DEF Es
      <4> QED
        BY <1>2, <2>2, <2>3, <2>5, <4>1, LastOf DEF Es
    <3> QED
      BY <2>4, <3>1, <3>2 DEF rd
  <2> QED
    BY <1>2, <2>10, <2>11, <2>12 DEF Fresh
<1>4. CASE ~\E r \in Rounds : round'[n][r].peer = p /\ Sends(n, r)
  <2>1. Asked(n, p) /\ \A r \in Rounds : Goes(n, r)
    BY DEF Passes, Moves
  <2>2. \A r \in Rounds : round'[n][r].peer = p => round'[n][r] = round[n][r]
    BY <1>2, <1>4, <2>1 DEF Goes
  <2>3. ~Canvasses(n, p)
    <3> SUFFICES ASSUME Canvasses(n, p) PROVE FALSE
      OBVIOUS
    <3>1. m.type = "vote"
      BY OneMessage DEF Canvasses
    <3> QED
      BY <3>1
  <2>4. conn'[n][p].reqs = conn[n][p].reqs /\ m = Head(conn[n][p].reqs)
    BY <1>4, <2>1, <2>3 DEF Asked
  <2>5. conn[n][p].reqs # <<>>
    BY <2>4
  <2>6. m.term \in Nat /\ m.prev \in Nat /\ m.commit \in Nat
    BY <1>1, <2>4, <2>5, HeadRequest
  <2>7. <<m.term, n>> \in elected /\ m.term \in 1..MaxTerm
    <3>1. <<m.term, n>> \in elected
      BY <2>4, <2>5 DEF Passes, Reported
    <3>2. <<m.term, n>> \in (1..MaxTerm) \X Node
      BY <1>1, <3>1 DEF TypeOK
    <3> QED
      BY <3>1, <3>2
  <2>8. m.type = "append" /\ currentTerm'[p] <= m.term
    OBVIOUS
  <2>9. Sent(T, G, b, n, p)
    BY DEF Sending
  <2>10. Appending(n, p)
    BY <2>4, <2>5, <2>8 DEF Appending
  <2>11. currentTerm[p] \in Nat /\ currentTerm'[p] \in Nat /\ currentTerm[p] <= currentTerm'[p]
    BY PassTypes
  <2>12. currentTerm[p] <= m.term
    BY <2>6, <2>8, <2>11
  <2>13. Fresh(T, G, b, n, p, m)
    BY <2>4, <2>9, <2>10, <2>12 DEF Sent
  <2>14. PICK s \in Seq(Entry) :
           /\ Source(T, G, n, m, s)
           /\ b => Cov(T, G, m.commit, s)
           /\ \A r \in Rounds : round[n][r].peer = p =>
                round[n][r].term = m.term /\ (round[n][r].last > 0 => round[n][r].last = Len(s))
    BY <2>13 DEF Fresh
  <2>15. Len(Es(n)) <= Len(log'[n].entries)
    <3>1. Es(n) # <<>> /\ End(Es(n)) >= m.term
      BY <2>7 DEF Sending, Ahead
    <3>2. End(Es(n)) \in 1..MaxTerm
      BY <1>1, <1>2, <3>1, EndMark DEF Core
    <3> DEFINE z == End(Es(n))
    <3>3. z \in Nat /\ z >= m.term
      BY <3>1, <3>2
    <3> HIDE DEF z
    <3>4. currentTerm'[p] <= z
      BY <2>6, <2>8, <2>11, <3>3
    <3> QED
      BY <3>1, <3>4, Grows DEF z
  <2>16. Source(U, H, n, m, s)'
    <3>1. InBook(T, s) => InBook(U, s)
      BY <1>1, InContinued
    <3>2. m.prev <= Len(Es(n)) => m.prev <= Len(log'[n].entries)
      BY <1>2, <2>6, <2>15
    <3> QED
      BY <1>1, <2>14, <3>1, <3>2, Zenon DEF Source, Es
  <2>17. b => Cov(U, H, m.commit, s)
    BY <2>6, <2>14, CovKept
  <2>18. \A r \in Rounds : round'[n][r].peer = p =>
           round'[n][r].term = m.term /\ (round'[n][r].last > 0 => round'[n][r].last = Len(s))
    BY <2>2, <2>14
  <2> QED
    BY <2>16, <2>17, <2>18 DEF Fresh
<1> QED
  BY <1>3, <1>4

\* The index a follower answers with is not beyond the one it was asked for.
LEMMA ConflictBound ==
  ASSUME NEW l, NEW i \in Nat
  PROVE  findConflictIndex(l, i) <= i + 1
<1> DEFINE S == {1} \cup {k \in 1..i : Has(l, k) /\ (~Has(l, k - 1) \/ TermAt(l, k - 1) # TermAt(l, k))}
           b == i + 1
<1>1. S \in SUBSET (0..b) /\ S # {} /\ b \in Nat
  OBVIOUS
<1>2. findConflictIndex(l, i) = Max(S)
  BY DEF findConflictIndex
<1> HIDE DEF S, b
<1>3. Max(S) \in 0..b
  BY <1>1, MaxBounded
<1> QED
  BY <1>1, <1>2, <1>3 DEF b

\* The request of n that p stores ends with entry Len(s) of term k, which both have then.
Settles(T, G, U, H, b, n, p, s, k) ==
  /\ b => Cov(T, G, Head(conn[n][p].reqs).commit, s)
  /\ \A r \in Rounds : round[n][r].peer = p => (round[n][r].last > 0 => round[n][r].last = Len(s))
  /\ Taken(n, p, s)
  /\ Mark(U, k, Len(s)) /\ Agree(log'[p].entries, U[k], Len(s))
  /\ <<n, k, Len(s)>> \in H /\ <<p, k, Len(s)>> \in H

\* What is stored, two nodes have.
LEMMA StoredSettled ==
  ASSUME NEW T, NEW G, NEW U, NEW H, Passes(T, G, U, H), NEW b, Sending(T, G, b), NEW n \in Node, NEW p \in Node,
         Stores(n, p)
  PROVE  \E s \in Seq(Entry), k \in Nat : Settles(T, G, U, H, b, n, p, s, k)
<1> DEFINE req == Head(conn[n][p].reqs)
<1>1. /\ TypeOK /\ T \in Books /\ U \in Books /\ Continues(T, U) /\ G \subseteq H /\ Pages(T) /\ Written(U, H)'
  BY DEF Passes, Forth, Core
<1>2. PICK s \in Seq(Entry) :
        /\ Source(T, G, n, req, s)
        /\ b => Cov(T, G, req.commit, s)
        /\ \A r \in Rounds : round[n][r].peer = p => (round[n][r].last > 0 => round[n][r].last = Len(s))
        /\ Taken(n, p, s)
  BY StoredFresh
<1> DEFINE z == End(s)
<1>3. /\ InBook(T, s) /\ s # <<>> /\ z >= req.term /\ <<n, z, Len(s)>> \in G /\ currentTerm'[p] = req.term
      /\ Agree(log'[p].entries, s, Len(s)) /\ log'[p].entries \in Seq(Entry)
  BY <1>2, PassTypes, Zenon DEF Source, Taken, Stores
<1>4. /\ Mark(T, z, Len(s)) /\ Agree(s, T[z], Len(s)) /\ z \in Nat /\ Len(s) \in Nat
      /\ Len(log'[p].entries) \in Nat /\ Len(T[z]) \in Nat /\ currentTerm'[p] \in Nat
  BY <1>1, <1>3, EndMark, SeqType, MarkType, PassTypes
<1> HIDE DEF z
<1>5. Agree(log'[p].entries, T[z], Len(s))
  BY <1>3, <1>4 DEF Agree
<1>6. Mark(U, z, Len(s)) /\ Agree(log'[p].entries, U[z], Len(s))
  BY <1>1, <1>3, <1>4, <1>5, InContinued
<1>7. currentTerm'[p] <= z
  BY <1>3, <1>4
<1>8. <<p, z, Len(s)>> \in H
  BY <1>1, <1>4, <1>6, <1>7 DEF Written, Es
<1>9. Settles(T, G, U, H, b, n, p, s, z)
  BY <1>1, <1>2, <1>3, <1>6, <1>8 DEF Settles
<1> QED
  BY <1>4, <1>9

\* An answer is made from what the node then has.
LEMMA AnsweredKept ==
  ASSUME NEW T, NEW G, NEW U, NEW H, Passes(T, G, U, H), NEW b, Sending(T, G, b), NEW n \in Node, NEW p \in Node,
         n # p
  PROVE  Answered(H, n, p)'
<1> DEFINE a == Head(conn'[n][p].resps)
<1> SUFFICES ASSUME conn'[n][p].resps # <<>>, NEW r \in Rounds, round'[n][r].peer = p
             PROVE  IF a.type = "append" /\ a.ok
                    THEN round'[n][r].last > 0 => Both(H, n, p, round'[n][r].last)
                    ELSE currentTerm'[p] <= round'[n][r].term => a.conflict <= Len(log'[n].entries) + 1
  BY DEF Answered, Es
<1>1. /\ TypeOK /\ TypeOK' /\ T \in Books /\ U \in Books /\ Forth(T, G, U, H)
      /\ Continues(T, U) /\ G \subseteq H /\ Pages(T) /\ Written(U, H)'
  BY DEF Passes, Forth, Core
<1>2. /\ Len(Es(n)) \in Nat /\ Len(log'[n].entries) \in Nat /\ InBook(T, Es(n)) /\ Es(n) \in Seq(Entry)
      /\ p # Nil
  BY PassTypes
<1>3. currentTerm[p] \in Nat /\ currentTerm'[p] \in Nat /\ currentTerm[p] <= currentTerm'[p]
  BY PassTypes
<1>4. round'[n][r] = round[n][r]
  <2>1. Goes(n, r)
    BY DEF Passes, Moves
  <2> QED
    BY <1>2, <2>1 DEF Goes, Sends
<1>5. Replied(n, p)
  BY DEF Passes, Moves
<1> DEFINE rd == round[n][r]
<1>6. rd.peer = p /\ rd.peer # Nil /\ rd.term \in Nat /\ rd.term \in 1..MaxTerm /\ <<rd.term, n>> \in elected
  <2>1. rd.peer = p /\ rd.peer # Nil
    BY <1>2, <1>4
  <2>2. <<rd.term, n>> \in elected
    BY <2>1 DEF Passes, Reported
  <2>3. <<rd.term, n>> \in (1..MaxTerm) \X Node
    BY <1>1, <2>2 DEF TypeOK
  <2> QED
    BY <2>1, <2>2, <2>3
<1>7. CASE conn'[n][p].resps = conn[n][p].resps
  <2>1. IF a.type = "append" /\ a.ok
        THEN rd.last > 0 => Both(G, n, p, rd.last)
        ELSE currentTerm[p] <= rd.term => a.conflict <= Len(Es(n)) + 1
    BY <1>6, <1>7 DEF Sending, Answered
  <2>2. a.conflict \in Nat
    <3>1. conn'[n][p].resps \in Seq(Response)
      BY <1>1 DEF TypeOK, Connection
    <3>2. a \in Response
      BY <3>1, HeadTailProperties
    <3> HIDE DEF a
    <3> QED
      BY <3>2 DEF Response
  <2>3. currentTerm'[p] <= rd.term => Len(Es(n)) <= Len(log'[n].entries)
    <3> SUFFICES ASSUME currentTerm'[p] <= rd.term PROVE Len(Es(n)) <= Len(log'[n].entries)
      OBVIOUS
    <3>1. Es(n) # <<>> /\ End(Es(n)) >= rd.term
      BY <1>6 DEF Sending, Ahead
    <3>2. End(Es(n)) \in 1..MaxTerm
      BY <1>1, <1>2, <3>1, EndMark
    <3> DEFINE z == End(Es(n))
    <3>3. z \in Nat /\ z >= rd.term
      BY <3>1, <3>2
    <3>4. currentTerm'[p] <= rd.term
      OBVIOUS
    <3> HIDE DEF z, rd
    <3>5. currentTerm'[p] <= z
      BY <1>3, <1>6, <3>3, <3>4
    <3> QED
      BY <3>1, <3>5, Grows DEF z
  <2>4. rd.last > 0 /\ Both(G, n, p, rd.last) => Both(H, n, p, rd.last)
    <3> DEFINE w == rd.last
    <3> HIDE DEF w
    <3>1. Both(G, n, p, w) => Both(H, n, p, w)
      BY <1>1, BothKept
    <3> QED
      BY <3>1 DEF w
  <2>5. currentTerm'[p] <= rd.term => currentTerm[p] <= rd.term
    <3> HIDE DEF rd
    <3> QED
      BY <1>3, <1>6
  <2>6. currentTerm'[p] <= rd.term /\ a.conflict <= Len(Es(n)) + 1 => a.conflict <= Len(log'[n].entries) + 1
    <3> HIDE DEF rd, a
    <3> QED
      BY <1>2, <2>2, <2>3
  <2> QED
    BY <1>4, <2>1, <2>4, <2>5, <2>6
<1>8. ASSUME conn[n][p].reqs # <<>>, NEW m, conn'[n][p].resps = <<m>>, Answers(n, p, m)
      PROVE  IF a.type = "append" /\ a.ok
             THEN rd.last > 0 => Both(H, n, p, rd.last)
             ELSE currentTerm'[p] <= rd.term => a.conflict <= Len(log'[n].entries) + 1
  <2> DEFINE req == Head(conn[n][p].reqs)
  <2>1. a = m
    BY <1>8, OneMessage
  <2>2. CASE m.type = "append" /\ m.ok /\ Stores(n, p)
    <3>0. PICK s \in Seq(Entry), k \in Nat : Settles(T, G, U, H, b, n, p, s, k)
      BY <2>2, StoredSettled
    <3>1. /\ \A q \in Rounds : round[n][q].peer = p => (round[n][q].last > 0 => round[n][q].last = Len(s))
          /\ <<n, k, Len(s)>> \in H /\ <<p, k, Len(s)>> \in H
      BY <3>0 DEF Settles
    <3>2. Both(H, n, p, Len(s))
      BY <3>1 DEF Both
    <3> QED
      BY <1>6, <2>1, <2>2, <3>1, <3>2
  <2>3. CASE m.type = "vote" /\ m.conflict = 0
    BY <1>2, <2>1, <2>3
  <2>4. CASE m.type = "append" /\ ~m.ok /\ m.conflict = 0
    BY <1>2, <2>1, <2>4
  <2>5. CASE /\ m.type = "append" /\ ~m.ok /\ req.type = "append" /\ log' = log
             /\ req.term >= currentTerm[p] /\ m.conflict = findConflictIndex(log[p], req.prev)
    <3>1. req.term \in Nat /\ req.prev \in Nat
      BY <1>1, <1>8, <2>5, HeadRequest
    <3>2. Appending(n, p) /\ Sent(T, G, b, n, p)
      BY <1>8, <2>5 DEF Appending, Sending
    <3>3. currentTerm[p] <= req.term
      BY <1>3, <2>5, <3>1
    <3>4. Fresh(T, G, b, n, p, req)
      BY <3>2, <3>3 DEF Sent
    <3> HIDE DEF req
    <3>5. req.prev <= Len(Es(n))
      BY <3>4 DEF Fresh, Source
    <3>6. m.conflict \in Nat /\ m.conflict <= req.prev + 1
      BY <2>5, <3>1, ConflictType, ConflictBound
    <3>7. log'[n].entries = Es(n)
      BY <2>5 DEF Es
    <3>8. m.conflict <= Len(log'[n].entries) + 1
      BY <1>2, <3>1, <3>5, <3>6, <3>7
    <3> QED
      BY <2>1, <2>5, <3>8
  <2> QED
    BY <1>8, <2>2, <2>3, <2>4, <2>5 DEF Answers
<1> QED
  BY <1>4, <1>5, <1>7, <1>8 DEF Replied

\* All of it together.
LEMMA SendingKept ==
  ASSUME NEW T, NEW G, NEW U, NEW H, Passes(T, G, U, H), NEW b, Sending(T, G, b), b => Covered(T, G)
  PROVE  Sending(U, H, b)'
<1>1. \A n \in Node : Rests(n)' /\ Rounded(U, H, b, n)' /\ Ahead(n)' /\ Backed(H, n)'
  BY RestsKept, RoundedKept, AheadKept, BackedKept
<1>2. \A n, p \in Node : n # p => Sent(U, H, b, n, p)' /\ Answered(H, n, p)'
  BY <1>1, SentKept, AnsweredKept
<1> QED
  BY <1>1, <1>2 DEF Sending

-----------------------------------------------------------------------------
\* What is committed.

\* n starts or stops with what its snapshot has, or with nothing.
Resets(n) ==
  /\ applied' = applied /\ log' = log
  /\ state[n] = "Shutdown" \/ state'[n] = "Shutdown"
  /\ \A v \in Node \ {n} :
       commitIndex'[v] = commitIndex[v] /\ lastApplied'[v] = lastApplied[v] /\ fsm'[v] = fsm[v]
  /\ commitIndex'[n] \in {0, snapshot[n].index} /\ lastApplied'[n] = commitIndex'[n]
  /\ commitIndex'[n] = 0 => fsm'[n] = <<>>
  /\ "restored" \notin mishaps' => commitIndex'[n] = 0

\* n commits up to c, as the sender of what it stores has, or as another node has it.
Commits(n) ==
  \E c \in Nat :
    /\ ApplyUpTo(n, log'[n], c)
    /\ \/ \E m \in Node :
            LET req == Head(conn[m][n].reqs)
            IN  /\ Stores(m, n) /\ req.commit > commitIndex[n]
                /\ c = Min({req.commit, req.prev + Len(req.entries)})
       \/ /\ log' = log /\ c > commitIndex[n]
          /\ \E p \in Node : p # n /\ matchIndex'[n][p] >= c

\* What a leader may commit is in the log of another node, as far as it knows.
LEMMA CommittableHas ==
  ASSUME TypeOK, NEW n \in Node, NEW mi, Committable(n, mi) > 0, NEW q \in Node, q # n
  PROVE  /\ Committable(n, mi) \in Nat /\ Committable(n, mi) > commitIndex[n]
         /\ \E p \in Node : p # n /\ mi[p] >= Committable(n, mi)
<1> DEFINE S == {0} \cup {i \in commitIndex[n] + 1..LastIndex(log[n]) :
                            /\ TermAt(log[n], i) = currentTerm[n]
                            /\ Replicated(n, mi, i) > Cardinality(Node) \div 2}
           b == LastIndex(log[n])
           c == Committable(n, mi)
<1>1. b \in Nat /\ commitIndex[n] \in Nat
  BY EndOf DEF TypeOK
<1>2. S \in SUBSET (0..b) /\ S # {} /\ \A x \in S : x \in Nat
  BY <1>1
<1>3. c = Max(S) /\ c > 0
  BY DEF Committable
<1>4. \A x \in S : x > 0 => x > commitIndex[n] /\ Replicated(n, mi, x) > Cardinality(Node) \div 2
  BY <1>1
<1> HIDE DEF S, b, c
<1>5. c \in S
  BY <1>1, <1>2, <1>3, MaxBounded
<1>6. c \in Nat /\ c > commitIndex[n] /\ Replicated(n, mi, c) > Cardinality(Node) \div 2
  BY <1>2, <1>3, <1>4, <1>5
<1>7. \E p \in Node : p # n /\ mi[p] >= c
  <2> DEFINE P == {p \in Peers(n) : mi[p] >= c}
  <2> SUFFICES ASSUME P = {} PROVE FALSE
    BY DEF Peers
  <2>1. Replicated(n, mi, c) = 1
    BY FS_EmptySet DEF Replicated
  <2>2. Cardinality({n, q}) = 2 /\ {n, q} \subseteq Node
    <3>1. IsFiniteSet({n}) /\ Cardinality({n}) = 1 /\ q \notin {n}
      BY FS_Singleton
    <3> DEFINE P1 == {n}
    <3>2. IsFiniteSet(P1) /\ Cardinality(P1) = 1 /\ q \notin P1 /\ {n, q} = P1 \cup {q}
      BY <3>1
    <3> HIDE DEF P1
    <3>3. Cardinality(P1 \cup {q}) = Cardinality(P1) + 1
      BY <3>2, FS_AddElement
    <3> QED
      BY <3>2, <3>3
  <2>3. Cardinality(Node) >= 2 /\ Cardinality(Node) \in Nat
    BY <2>2, RaftAssumption, FS_Subset, FS_CardinalityType
  <2>4. Cardinality(Node) \div 2 >= 1
    BY <2>3
  <2> QED
    BY <1>6, <2>1, <2>3, <2>4
<1> QED
  BY <1>6, <1>7 DEF c

\* advanceCommitIndex.
LEMMA ReplyCommits ==
  ASSUME TypeOK, Wires, NEW n \in Node, NEW r \in Rounds, AppendReply(n, r)
  PROVE  /\ log' = log
         /\ \/ UNCHANGED <<machine, applied>>
            \/ \E c \in Nat : /\ ApplyUpTo(n, log[n], c) /\ c > commitIndex[n]
                              /\ \E p \in Node : p # n /\ matchIndex'[n][p] >= c
<1> DEFINE p == round[n][r].peer
           resp == Head(conn[n][p].resps)
           ok == resp.type = "append" /\ resp.ok
           mi == [matchIndex[n] EXCEPT ![p] = IF ok /\ round[n][r].last > 0 THEN round[n][r].last ELSE @]
           c == Committable(n, mi)
<1>1. p # Nil /\ log' = log
  BY Zenon DEF AppendReply
<1>2. p \in Node /\ p # n
  <2>1. IsRound(n, round[n][r])
    BY DEF Wires
  <2> QED
    BY <1>1, <2>1 DEF IsRound, Peers
<1>3. \/ UNCHANGED <<machine, applied>>
      \/ c > 0 /\ ApplyUpTo(n, log[n], c) /\ matchIndex' = [matchIndex EXCEPT ![n] = mi]
  <2> DEFINE d == IF ok THEN c ELSE 0
  <2>1. \/ UNCHANGED <<leader, machine, applied>>
        \/ /\ matchIndex' = [matchIndex EXCEPT ![n] = mi]
           /\ IF d > 0 THEN ApplyUpTo(n, log[n], d) ELSE UNCHANGED <<machine, applied>>
    BY Zenon DEF AppendReply
  <2>2. d > 0 => d = c
    <3> HIDE DEF ok, c
    <3> QED
      OBVIOUS
  <2> HIDE DEF c, mi, d
  <2>3. d > 0 /\ ApplyUpTo(n, log[n], d) => c > 0 /\ ApplyUpTo(n, log[n], c)
    BY <2>2
  <2> QED
    BY <2>1, <2>3
<1>4. CASE c > 0 /\ ApplyUpTo(n, log[n], c) /\ matchIndex' = [matchIndex EXCEPT ![n] = mi]
  <2> HIDE DEF mi
  <2>1. c \in Nat /\ c > commitIndex[n] /\ \E q \in Node : q # n /\ mi[q] >= c
    BY <1>2, <1>4, CommittableHas
  <2> HIDE DEF c
  <2>2. matchIndex'[n] = mi
    BY <1>4 DEF TypeOK
  <2> QED
    BY <1>1, <1>4, <2>1, <2>2
<1> QED
  BY <1>1, <1>3, <1>4, Zenon

LEMMA CommitsReply ==
  ASSUME TypeOK, Wires, NEW n \in Node, NEW r \in Rounds, AppendReply(n, r)
  PROVE  UNCHANGED <<machine, applied>> \/ Commits(n)
BY ReplyCommits DEF Commits

\* HandleAppendEntries.
LEMMA CommitsAppendEntries ==
  ASSUME TypeOK, Wires, NEW m \in Node, NEW n \in Node, m # n, HandleAppendEntries(m, n)
  PROVE  UNCHANGED <<machine, applied>> \/ Commits(n)
<1> DEFINE req == Head(conn[m][n].reqs)
           ok == req.term >= currentTerm[n] /\ Consistent(log[n], req)
           l == StoreAll(log[n], req.prev, req.entries)
           c == CommitAfter(commitIndex[n], req)
<1>1. \/ UNCHANGED <<machine, applied>>
      \/ ok /\ req.commit > commitIndex[n] /\ ApplyUpTo(n, l, c) /\ log' = [log EXCEPT ![n] = l]
  BY DEF HandleAppendEntries, Save
<1>2. conn[m][n].reqs # <<>> /\ req.type = "append"
  BY DEF HandleAppendEntries
<1>3. CASE ok /\ req.commit > commitIndex[n] /\ ApplyUpTo(n, l, c) /\ log' = [log EXCEPT ![n] = l]
  <2>1. Stores(m, n)
    BY <1>3, StoresServed
  <2>2. c = Min({req.commit, req.prev + Len(req.entries)})
    BY <1>3 DEF CommitAfter
  <2>3. req.commit \in Nat /\ req.prev \in Nat /\ req.entries \in Seq(Entry)
    BY <1>2, HeadRequest
  <2> HIDE DEF l, c
  <2>4. log'[n] = l
    BY <1>3 DEF TypeOK
  <2>5. c \in Nat
    <3> HIDE DEF req
    <3>1. Len(req.entries) \in Nat
      BY <2>3, SeqType
    <3> DEFINE k == req.prev + Len(req.entries)
    <3>2. k \in Nat
      BY <2>3, <3>1
    <3> HIDE DEF k
    <3>3. Min({req.commit, k}) = IF req.commit <= k THEN req.commit ELSE k
      BY <2>3, <3>2, MinOfTwo
    <3> QED
      BY <2>2, <2>3, <3>2, <3>3 DEF k
  <2> QED
    BY <1>3, <2>1, <2>2, <2>4, <2>5, Zenon DEF Commits
<1> QED
  BY <1>1, <1>3

\* A node that stops or starts.
LEMMA ResetsDown ==
  ASSUME TypeOK, "reverted" \notin mishaps', NEW n \in Node, NEW lost, NEW torn, Down(n, lost, torn)
  PROVE  Resets(n)
BY LogBack DEF TypeOK, Down, Resets

LEMMA ResetsRestart ==
  ASSUME TypeOK, NEW n \in Node, Restart(n)
  PROVE  Resets(n)
<1>1. /\ state[n] = "Shutdown" /\ applied' = applied /\ log' = log
      /\ commitIndex' = [commitIndex EXCEPT ![n] = snapshot[n].index]
      /\ lastApplied' = [lastApplied EXCEPT ![n] = snapshot[n].index]
      /\ fsm' = [fsm EXCEPT ![n] = IF snapshot[n].index = 0 THEN <<>> ELSE snapshot[n].data]
  BY DEF Restart, persistent
<1>2. commitIndex \in [Node -> Nat] /\ lastApplied \in [Node -> Nat] /\ fsm \in [Node -> Seq(Entry)]
  BY DEF TypeOK
<1>3. snapshot[n].index \in Nat
  BY DEF TypeOK, Snapshot
<1>4. "restored" \notin mishaps' => snapshot[n].index = 0
  BY <1>3 DEF Restart
<1> QED
  BY <1>1, <1>2, <1>4 DEF Resets

\* Every step.
LEMMA CommitsTaken ==
  ASSUME TypeOK, Wires, "reverted" \notin mishaps', [Next]_vars
  PROVE  UNCHANGED <<machine, applied>> \/ \E n \in Node : Resets(n) \/ Commits(n)
<1>1. CASE UNCHANGED vars
  BY <1>1 DEF vars
<1>2. ASSUME NEW n \in Node, Local(n) \/ startElection(n)
      PROVE  UNCHANGED <<machine, applied>>
  BY <1>2, LocalView DEF startElection, machine
<1>3. ASSUME NEW n \in Node, Crash(n) PROVE Resets(n)
  BY <1>3, ResetsDown DEF Crash
<1>4. ASSUME NEW n \in Node, NEW p \in Peers(n), CallFails(n, p) PROVE UNCHANGED <<machine, applied>> \/ Resets(n)
  BY <1>4, ResetsDown, Zenon DEF CallFails
<1>5. ASSUME NEW n \in Node, NEW r \in Rounds, StartRound(n, r) PROVE UNCHANGED <<machine, applied>>
  BY <1>5 DEF StartRound
<1>6. ASSUME NEW n \in Node, NEW p \in Peers(n), HandleRequestVote(n, p) \/ \E t \in 1..MaxTerm : VoteReply(n, p, t)
      PROVE  UNCHANGED <<machine, applied>>
  BY <1>6, Zenon DEF HandleRequestVote, VoteReply
<1>7. ASSUME NEW n \in Node, NEW p \in Peers(n), HandleAppendEntries(n, p)
      PROVE  UNCHANGED <<machine, applied>> \/ Commits(p)
  <2>1. p \in Node /\ n # p
    BY DEF Peers
  <2> QED
    BY <1>7, <2>1, CommitsAppendEntries
<1>8. \A n \in Node : \A p \in Peers(n) : p \in Node
  BY DEF Peers
<1> QED
  BY <1>1, <1>2, <1>3, <1>4, <1>5, <1>6, <1>7, <1>8, ResetsRestart, CommitsReply
     DEF Next, Local, Snapshots

\* What was applied is in a log that two nodes had.
Known(T, G) ==
  \A x \in applied : \E k, i \in Nat :
    Mark(T, k, i) /\ Settled(G, k, i) /\ x[1] \in 1..i /\ T[k][x[1]] = x[2]

\* n commits up to c, which two nodes have.
Advances(U, H, b, n) ==
  \E c \in Nat :
    /\ ApplyUpTo(n, log'[n], c) /\ Cov(U, H, c, log'[n].entries)
    /\ b => c >= commitIndex[n]

\* What a step commits, two nodes have.
LEMMA CommitsAdvance ==
  ASSUME NEW T, NEW G, NEW U, NEW H, Passes(T, G, U, H), NEW b, Sending(T, G, b), Sending(U, H, b)',
         NEW n \in Node, Commits(n)
  PROVE  Advances(U, H, b, n)
<1>1. /\ TypeOK /\ TypeOK' /\ T \in Books /\ U \in Books /\ G \in Copies /\ H \in Copies
      /\ Written(U, H)' /\ Kept(U, H)'
  BY DEF Passes, Core
<1>2. commitIndex[n] \in Nat
  BY <1>1 DEF TypeOK
<1>3. ASSUME NEW c \in Nat, NEW m \in Node, Stores(m, n), Head(conn[m][n].reqs).commit > commitIndex[n],
             LET req == Head(conn[m][n].reqs) IN c = Min({req.commit, req.prev + Len(req.entries)})
      PROVE  Cov(U, H, c, log'[n].entries) /\ (b => c >= commitIndex[n])
  <2> DEFINE req == Head(conn[m][n].reqs)
  <2>s. Stores(m, n)
    BY <1>3
  <2>0. PICK s \in Seq(Entry), k \in Nat : Settles(T, G, U, H, b, m, n, s, k)
    BY <2>s, StoredSettled
  <2>1. /\ b => Cov(T, G, req.commit, s)
        /\ Taken(m, n, s)
        /\ Mark(U, k, Len(s)) /\ Agree(log'[n].entries, U[k], Len(s))
        /\ <<m, k, Len(s)>> \in H /\ <<n, k, Len(s)>> \in H
    BY <2>0 DEF Settles
  <2>2. Len(s) \in Nat /\ m # n /\ req.prev + Len(req.entries) = Len(s)
    BY <1>3, <2>1, SeqType, Zenon DEF Taken, Stores
  <2>3. req.commit \in Nat
    <3>1. conn[m][n].reqs # <<>> /\ req.type = "append"
      BY <1>3 DEF Stores
    <3> QED
      BY <1>1, <3>1, HeadRequest
  <2>4. c = Min({req.commit, Len(s)}) /\ req.commit > commitIndex[n]
    BY <1>3, <2>2
  <2> HIDE DEF req
  <2>5. c = IF req.commit <= Len(s) THEN req.commit ELSE Len(s)
    BY <2>2, <2>3, <2>4, MinOfTwo
  <2>6. Settled(H, k, Len(s))
    BY <2>1, <2>2 DEF Settled
  <2>7. c <= Len(s)
    BY <2>2, <2>3, <2>5
  <2>8. Cov(U, H, c, log'[n].entries)
    BY <2>1, <2>2, <2>6, <2>7 DEF Cov
  <2>9. Cov(T, G, req.commit, s) => c >= commitIndex[n]
    <3> SUFFICES ASSUME Cov(T, G, req.commit, s) PROVE c >= commitIndex[n]
      OBVIOUS
    <3>1. req.commit <= Len(s)
      BY <2>2, <2>3 DEF Cov, Agree
    <3>2. c = req.commit
      BY <2>5, <3>1
    <3>3. req.commit > commitIndex[n]
      BY <2>4
    <3> QED
      BY <1>2, <2>3, <3>2, <3>3
  <2> QED
    BY <2>1, <2>8, <2>9
<1>4. ASSUME NEW c \in Nat, c > commitIndex[n], NEW p \in Node, p # n, matchIndex'[n][p] >= c
      PROVE  Cov(U, H, c, log'[n].entries) /\ (b => c >= commitIndex[n])
  <2> DEFINE j == matchIndex'[n][p]
  <2>1. j \in Nat /\ j > 0
    <3>1. j \in Nat
      <4>1. matchIndex' \in [Node -> [Node -> Nat]]
        BY <1>1 DEF TypeOK
      <4> QED
        BY <4>1
    <3> HIDE DEF j
    <3>2. j >= c
      BY <1>4 DEF j
    <3> QED
      BY <1>2, <1>4, <3>1, <3>2
  <2>2. Both(H, n, p, j)
    BY <1>4, <2>1 DEF Sending, Backed
  <2>3. j >= c
    BY <1>4
  <2> HIDE DEF j
  <2>4. PICK k \in Nat : <<n, k, j>> \in H /\ <<p, k, j>> \in H
    BY <2>2 DEF Both
  <2>5. Mark(U, k, j) /\ Settled(H, k, j)
    BY <1>1, <1>4, <2>4 DEF Written, Settled
  <2>6. Agree(log'[n].entries, U[k], j)
    BY <1>1, <1>4, <2>1, <2>4 DEF Kept, Holds, Es
  <2>7. c <= j
    BY <2>1, <2>3
  <2>8. Cov(U, H, c, log'[n].entries)
    BY <2>1, <2>5, <2>6, <2>7 DEF Cov
  <2> QED
    BY <1>2, <1>4, <2>8
<1>5. PICK c \in Nat :
        /\ ApplyUpTo(n, log'[n], c)
        /\ \/ \E m \in Node :
                LET req == Head(conn[m][n].reqs)
                IN  /\ Stores(m, n) /\ req.commit > commitIndex[n]
                    /\ c = Min({req.commit, req.prev + Len(req.entries)})
           \/ /\ log' = log /\ c > commitIndex[n]
              /\ \E p \in Node : p # n /\ matchIndex'[n][p] >= c
  BY DEF Commits
<1>6. Cov(U, H, c, log'[n].entries) /\ (b => c >= commitIndex[n])
  BY <1>3, <1>4, <1>5
<1> QED
  BY <1>5, <1>6 DEF Advances

\* What a step may do to what is committed.
Commit(U, H, b) ==
  \/ UNCHANGED <<machine, applied>>
  \/ \E n \in Node : Resets(n) \/ Advances(U, H, b, n)

\* What was applied stays known, and so is what is applied now.
LEMMA KnownKept ==
  ASSUME NEW T, NEW G, NEW U, NEW H, Passes(T, G, U, H), NEW b, Commit(U, H, b), Known(T, G)
  PROVE  Known(U, H)'
<1>1. /\ TypeOK /\ TypeOK' /\ T \in Books /\ U \in Books /\ Continues(T, U) /\ Forth(T, G, U, H) /\ TermsGrow
  BY DEF Passes, Forth
<1> SUFFICES ASSUME NEW x \in applied'
             PROVE  \E k, i \in Nat : Mark(U, k, i) /\ Settled(H, k, i) /\ x[1] \in 1..i /\ U[k][x[1]] = x[2]
  BY DEF Known
<1>2. CASE x \in applied
  <2>1. PICK k, i \in Nat : Mark(T, k, i) /\ Settled(G, k, i) /\ x[1] \in 1..i /\ T[k][x[1]] = x[2]
    BY <1>2 DEF Known
  <2>2. Mark(U, k, i) /\ Settled(H, k, i)
    BY <1>1, <2>1, InContinued, HeldBefore
  <2>3. k \in 1..MaxTerm /\ i <= Len(T[k]) /\ Len(T[k]) \in Nat
    BY <1>1, <2>1, MarkType
  <2>4. x[1] \in 1..Len(T[k])
    BY <2>1, <2>3
  <2>5. U[k][x[1]] = T[k][x[1]]
    BY <1>1, <2>3, <2>4 DEF Continues, Agree
  <2> QED
    BY <2>1, <2>2, <2>5
<1>3. ASSUME NEW n \in Node, Advances(U, H, b, n), x \notin applied
      PROVE  \E k, i \in Nat : Mark(U, k, i) /\ Settled(H, k, i) /\ x[1] \in 1..i /\ U[k][x[1]] = x[2]
  <2> DEFINE l == log'[n]
  <2>1. PICK c \in Nat : ApplyUpTo(n, l, c) /\ Cov(U, H, c, l.entries)
    BY <1>3 DEF Advances
  <2>2. l \in Log /\ l.first = 1 /\ lastApplied[n] \in Nat
    BY <1>1, PassTypes DEF TypeOK
  <2> HIDE DEF l
  <2>3. PICK j \in Present(l, lastApplied[n], c) : x = <<j, Get(l, j)>>
    BY <1>3, <2>1 DEF ApplyUpTo
  <2>4. j \in 1..c /\ j \in 1..Len(l.entries) /\ Get(l, j) = l.entries[j]
    BY <2>2, <2>3, EntriesOf DEF Present, Has, Get
  <2>5. PICK k, i \in Nat : Mark(U, k, i) /\ Settled(H, k, i) /\ c <= i /\ Agree(l.entries, U[k], i)
    BY <2>1, <2>4 DEF Cov
  <2>6. j \in 1..i /\ U[k][j] = l.entries[j]
    BY <2>4, <2>5 DEF Agree
  <2>7. x[1] = j /\ x[2] = l.entries[j]
    BY <2>3, <2>4
  <2> QED
    BY <2>5, <2>6, <2>7
<1> QED
  BY <1>2, <1>3 DEF Commit, Resets

\* So is what nodes committed.
LEMMA CoveredKept ==
  ASSUME NEW T, NEW G, NEW U, NEW H, Passes(T, G, U, H), NEW b, b, Commit(U, H, b), Covered(T, G),
         "restored" \notin mishaps'
  PROVE  Covered(U, H)'
<1> SUFFICES ASSUME NEW n \in Node PROVE Cov(U, H, commitIndex'[n], log'[n].entries)
  BY DEF Covered, Es
<1>1. TypeOK
  BY DEF Passes
<1>2. CASE commitIndex'[n] = commitIndex[n]
  <2>1. commitIndex[n] \in Nat
    BY <1>1 DEF TypeOK
  <2> QED
    BY <1>2, <2>1, CovKept DEF Covered
<1>3. CASE commitIndex'[n] = 0
  BY <1>3 DEF Cov
<1>4. ASSUME NEW m \in Node, Advances(U, H, b, m), commitIndex'[n] # commitIndex[n]
      PROVE  Cov(U, H, commitIndex'[n], log'[n].entries)
  <2>1. PICK c \in Nat : ApplyUpTo(m, log'[m], c) /\ Cov(U, H, c, log'[m].entries)
    BY <1>4 DEF Advances
  <2>2. commitIndex' = [commitIndex EXCEPT ![m] = c]
    BY <2>1 DEF ApplyUpTo
  <2>3. m = n /\ commitIndex'[n] = c
    BY <1>1, <1>4, <2>2 DEF TypeOK
  <2> QED
    BY <2>1, <2>3
<1>5. ASSUME NEW m \in Node, Resets(m) PROVE commitIndex'[n] = commitIndex[n] \/ commitIndex'[n] = 0
  BY <1>5 DEF Resets
<1> QED
  BY <1>2, <1>3, <1>4, <1>5 DEF Commit, machine

-----------------------------------------------------------------------------
\* All of it is an invariant.

\* While logs are complete there are ballots, a book and copies that account for them.
Lasting(b) ==
  Uncompacted =>
    \E B \in Ballots, T \in Books, G \in Copies :
      /\ Tally(B) /\ Matching(T) /\ Core(T, G) /\ Votes(B, T, G)
      /\ Sending(T, G, b) /\ Known(T, G) /\ (b => Covered(T, G))

\* At first nothing is written.
LEMMA LastingInit ==
  ASSUME Init, NEW b
  PROVE  Lasting(b)
<1> DEFINE T == [t \in 1..MaxTerm |-> <<>>]
           G == {}
<1>1. PICK B \in Ballots : Tally(B)
  BY TallyInit
<1>2. T \in Books /\ G \in Copies
  BY EmptySeq DEF Books, Copies
<1>3. \A n \in Node : /\ log[n].first = 1 /\ Es(n) = <<>> /\ state[n] = "Follower"
                      /\ commitIndex[n] = 0 /\ currentTerm[n] = 0 /\ votedFor[n] = Nil
  BY DEF Init, Es, EmptyLog
<1>4. \A n, p \in Node : /\ conn[n][p].reqs = <<>> /\ conn[n][p].resps = <<>> /\ matchIndex[n][p] = 0
  BY DEF Init, NoConn
<1>5. \A n \in Node : \A r \in Rounds : round[n][r].peer = Nil
  BY DEF Init, Idle
<1>6. elected = {} /\ applied = {}
  BY DEF Init
<1>7. \A k : k \in 1..MaxTerm => T[k] = <<>>
  OBVIOUS
<1>8. Len(<<>>) = 0
  BY EmptySeq
<1>9. InBook(T, <<>>)
  BY <1>8 DEF InBook
<1>10. G = {}
  OBVIOUS
<1> HIDE DEF T, G
<1>11. \A k, i : ~Mark(T, k, i)
  BY <1>7, <1>8 DEF Mark
<1>12. Matching(T)
  <2>1. \A n \in Node : log[n].first = 1 /\ InBook(T, log[n].entries) /\ state[n] # "Leader"
    BY <1>3, <1>9 DEF Es
  <2>2. \A n, p \in Node : ~Appending(n, p)
    BY <1>4 DEF Appending
  <2> QED
    BY <1>7, <2>1, <2>2 DEF Matching
<1>13. Core(T, G)
  <2>1. Pages(T)
    BY <1>7, <1>8, <1>9 DEF Pages
  <2>2. Written(T, G)
    BY <1>3, <1>6, <1>10, <1>11 DEF Written
  <2>3. Kept(T, G) /\ Complete(T, G)
    BY <1>10, <1>11 DEF Kept, Complete
  <2> QED
    BY <2>1, <2>2, <2>3 DEF Core
<1>14. Votes(B, T, G)
  <2>1. ASSUME NEW t \in Nat, NEW y \in Node PROVE B[t][y] = Nil
    <3>1. Honest(B)
      BY <1>1 DEF Tally
    <3>2. B[t][y] # Nil => FALSE
      <4>1. currentTerm[y] = 0 /\ votedFor[y] = Nil
        BY <1>3
      <4> QED
        BY <3>1, <4>1 DEF Honest
    <3> QED
      BY <3>2
  <2>2. \A n, p \in Node : Canvassed(n, p)
    BY <1>4 DEF Canvassed
  <2>3. \A n \in Node : ~Running(n)
    BY <1>3 DEF Running
  <2> QED
    BY <2>1, <2>2, <2>3 DEF Votes
<1>15. Sending(T, G, b)
  <2>1. \A n \in Node : Rests(n) /\ Rounded(T, G, b, n)
    BY <1>5 DEF Rests, Rounded
  <2>2. \A n \in Node : Ahead(n) /\ Backed(G, n)
    BY <1>4, <1>6 DEF Ahead, Backed
  <2>3. \A n, p \in Node : Sent(T, G, b, n, p) /\ Answered(G, n, p)
    BY <1>4 DEF Sent, Answered, Appending
  <2> QED
    BY <2>1, <2>2, <2>3 DEF Sending
<1>16. Known(T, G) /\ Covered(T, G)
  BY <1>3, <1>6 DEF Known, Covered, Cov
<1> QED
  BY <1>1, <1>2, <1>12, <1>13, <1>14, <1>15, <1>16 DEF Lasting

\* A step from a state that is accounted for; where nothing is compacted it keeps what
\* nodes committed.
LEMMA LastingStep ==
  ASSUME TypeOK, TypeOK', Wires, Wires', Reigns, Reigns', Reported, OneLeaderPerTerm, OneLeaderPerTerm',
         [Next]_vars, Turn, Moves, Calm', Cardinality(Node) <= 4,
         NEW b, b => "restored" \notin mishaps',
         Lasting(b), Uncompacted'
  PROVE  \E T \in Books, G \in Copies, U \in Books, H \in Copies :
           /\ Passes(T, G, U, H) /\ Known(T, G) /\ (b => Covered(T, G))
           /\ Commit(U, H, b)
           /\ \E A \in Ballots : Tally(A)' /\ Votes(A, U, H)'
           /\ Sending(U, H, b)' /\ Known(U, H)' /\ (b => Covered(U, H)')
<1>1. "reverted" \notin mishaps' /\ Without({"miscounted", "torn"})'
  BY DEF Calm, Without
<1>2. TermsGrow /\ elected \subseteq elected'
  BY TermsGrowTurn
<1>3. Uncompacted /\ \A n \in Node : Compacts(n) => log' = log
  BY StartsNoEarlier
<1>4. PICK B \in Ballots, T \in Books, G \in Copies :
        /\ Tally(B) /\ Matching(T) /\ Core(T, G) /\ Votes(B, T, G)
        /\ Sending(T, G, b) /\ Known(T, G) /\ (b => Covered(T, G))
  BY <1>3 DEF Lasting
<1>5. PICK A \in Ballots : Tally(A)' /\ Cast(A, B)
  BY <1>1, <1>4, TallyKept
<1>6. \A n, p \in Node : Stores(n, p) =>
        \E s \in Seq(Entry) : Source(T, G, n, Head(conn[n][p].reqs), s)
  BY <1>4, StoresFresh DEF Fresh
<1>7. PICK U \in Books, H \in Copies :
        Matching(U)' /\ Core(U, H)' /\ Forth(T, G, U, H) /\ Keeps(T, G)
  BY <1>2, <1>3, <1>4, <1>5, <1>6, CoreKept
<1>8. Passes(T, G, U, H)
  BY <1>2, <1>3, <1>4, <1>7 DEF Passes
<1>9. Votes(A, U, H)'
  BY <1>2, <1>3, <1>4, <1>5, <1>7, VotesKept
<1>10. Sending(U, H, b)'
  BY <1>4, <1>8, SendingKept
<1>11. Commit(U, H, b)
  <2>1. UNCHANGED <<machine, applied>> \/ \E n \in Node : Resets(n) \/ Commits(n)
    BY <1>1, CommitsTaken
  <2>2. \A n \in Node : Commits(n) => Advances(U, H, b, n)
    BY <1>4, <1>8, <1>10, CommitsAdvance
  <2> QED
    BY <2>1, <2>2 DEF Commit
<1>12. Known(U, H)'
  BY <1>4, <1>8, <1>11, KnownKept
<1>13. b => Covered(U, H)'
  <2>1. b => Covered(T, G) /\ "restored" \notin mishaps'
    BY <1>4
  <2> QED
    BY <1>8, <1>11, <2>1, CoveredKept
<1>14. \E C \in Ballots : Tally(C)' /\ Votes(C, U, H)'
  BY <1>5, <1>9
<1> QED
  BY <1>4, <1>8, <1>10, <1>11, <1>12, <1>13, <1>14

\* The invariant is inductive.
LEMMA LastingKept ==
  ASSUME TypeOK, TypeOK', Wires, Wires', Reigns, Reigns', Reported, OneLeaderPerTerm, OneLeaderPerTerm',
         [Next]_vars, Turn, Moves, Calm', Cardinality(Node) <= 4,
         NEW b, b => "restored" \notin mishaps',
         Lasting(b)
  PROVE  Lasting(b)'
<1> SUFFICES ASSUME Uncompacted'
             PROVE  \E B \in Ballots, U \in Books, H \in Copies :
                      /\ Tally(B)' /\ Matching(U)' /\ Core(U, H)' /\ Votes(B, U, H)'
                      /\ Sending(U, H, b)' /\ Known(U, H)' /\ (b => Covered(U, H)')
  BY DEF Lasting, Books, Copies, Ballots
<1>1. PICK U \in Books, H \in Copies :
        /\ Matching(U)' /\ Core(U, H)'
        /\ \E A \in Ballots : Tally(A)' /\ Votes(A, U, H)'
        /\ Sending(U, H, b)' /\ Known(U, H)' /\ (b => Covered(U, H)')
  <2>1. \E T \in Books, G \in Copies, U \in Books, H \in Copies :
           /\ Passes(T, G, U, H) /\ Known(T, G) /\ (b => Covered(T, G))
           /\ Commit(U, H, b)
           /\ \E A \in Ballots : Tally(A)' /\ Votes(A, U, H)'
           /\ Sending(U, H, b)' /\ Known(U, H)' /\ (b => Covered(U, H)')
    BY LastingStep
  <2> QED
    BY <2>1 DEF Passes
<1> QED
  BY <1>1

-----------------------------------------------------------------------------
\* What follows for what was applied.

\* Two entries that two nodes have are on one page, and there it is one entry per index.
LEMMA SettledOnce ==
  ASSUME NEW T \in Books, NEW G \in Copies, Complete(T, G),
         NEW k \in Nat, NEW i \in Nat, Mark(T, k, i), Settled(G, k, i),
         NEW z \in Nat, NEW j \in Nat, Mark(T, z, j), Settled(G, z, j),
         NEW x \in Nat, x \in 1..i, x \in 1..j
  PROVE  T[k][x] = T[z][x]
<1>1. Firm(G, k, i) /\ Firm(G, z, j)
  BY SettledFirm
<1>2. k \in 1..MaxTerm /\ z \in 1..MaxTerm /\ T[k] # <<>> /\ T[z] # <<>>
  BY MarkType
<1>3. k = z \/ k < z \/ z < k
  OBVIOUS
<1>4. CASE k < z
  <2>1. Agree(T[z], T[k], i)
    BY <1>1, <1>2, <1>4 DEF Complete
  <2> QED
    BY <2>1 DEF Agree
<1>5. CASE z < k
  <2>1. Agree(T[k], T[z], j)
    BY <1>1, <1>2, <1>5 DEF Complete
  <2> QED
    BY <2>1 DEF Agree
<1> QED
  BY <1>3, <1>4, <1>5

\* For one index there is one entry that two nodes had.
LEMMA LastingSafe ==
  ASSUME TypeOK, NEW b, Lasting(b)
  PROVE  StateMachineSafety
<1> SUFFICES ASSUME Uncompacted, NEW x \in applied, NEW y \in applied, x[1] = y[1]
             PROVE  x[2] = y[2]
  BY DEF StateMachineSafety, Sound
<1>1. PICK T \in Books, G \in Copies : Core(T, G) /\ Known(T, G)
  BY DEF Lasting
<1>2. PICK k, i \in Nat : Mark(T, k, i) /\ Settled(G, k, i) /\ x[1] \in 1..i /\ T[k][x[1]] = x[2]
  BY <1>1 DEF Known
<1>3. PICK z, j \in Nat : Mark(T, z, j) /\ Settled(G, z, j) /\ y[1] \in 1..j /\ T[z][y[1]] = y[2]
  BY <1>1 DEF Known
<1>4. x[1] \in Nat /\ x[1] \in 1..j
  BY <1>2, <1>3
<1>5. T[k][x[1]] = T[z][x[1]]
  BY <1>1, <1>2, <1>3, <1>4, SettledOnce DEF Core
<1> QED
  BY <1>2, <1>3, <1>5

\* What was accounted for, unless something went wrong that the logs depend on; b says that
\* nothing started from a snapshot.
Accounted(b) == Calm /\ (b => Without({"restored"})) => Ordinary /\ Lasting(b)

LEMMA AccountedInit ==
  ASSUME Init, NEW b
  PROVE  Accounted(b)
BY OrdinaryInit, LastingInit DEF Accounted

\* A step keeps all of it.
LEMMA AccountedKept ==
  ASSUME TypeOK, TypeOK', ElectionSafety, ElectionSafety', [Next]_vars,
         Cardinality(Node) <= 4, NEW b, Accounted(b)
  PROVE  Accounted(b)'
<1> SUFFICES ASSUME Calm', b => Without({"restored"})' PROVE Ordinary' /\ Lasting(b)'
  BY DEF Accounted
<1>1. OneLeaderPerTerm /\ OneLeaderPerTerm'
  BY CalmLeaders
<1>2. b => "restored" \notin mishaps' /\ Without({"restored"})
  BY MishapsStay DEF Without
<1>3. Ordinary /\ Lasting(b)
  BY <1>2, CalmBefore DEF Accounted
<1>4. Ordinary' /\ Turn /\ Moves
  BY <1>3, OrdinaryKept
<1>5. Lasting(b)'
  BY <1>1, <1>2, <1>3, <1>4, LastingKept DEF Ordinary
<1> QED
  BY <1>4, <1>5

\* No two nodes ever apply different entries for one index: StateMachineSafety, for any
\* number of terms, entries, crashes and failed calls, in clusters of up to four nodes
\* (advanceCommitIndex, applyCommitted, HandleAppendEntries).
THEOREM StateMachineSafe ==
  ASSUME Cardinality(Node) <= 4
  PROVE  Spec => []StateMachineSafety
<1>1. Init => Accounted(FALSE)
  BY AccountedInit
<1>2. Accounted(FALSE) /\ TypeOK /\ TypeOK' /\ ElectionSafety /\ ElectionSafety' /\ [Next]_vars
        => Accounted(FALSE)'
  BY AccountedKept
<1>3. TypeOK /\ Accounted(FALSE) => StateMachineSafety
  BY LastingSafe DEF Accounted, StateMachineSafety, Sound, Calm
<1>4. Spec => []TypeOK /\ []ElectionSafety
  BY TypeCorrect, ElectionSafe
<1> QED
  BY <1>1, <1>2, <1>3, <1>4, PTL DEF Spec

\* A later leader has it.
LEMMA LastingLeader ==
  ASSUME TypeOK, Reigns, NEW b, Lasting(b)
  PROVE  LeaderCompleteness
<1> SUFFICES ASSUME Uncompacted, NEW n \in Node, state[n] = "Leader", \A e \in elected : e[1] <= currentTerm[n],
                    NEW x \in applied
             PROVE  HasEntry(n, x)
  BY DEF LeaderCompleteness, Sound
<1>1. PICK T \in Books, G \in Copies : Core(T, G) /\ Matching(T) /\ Known(T, G)
  BY DEF Lasting
<1>2. PICK k, i \in Nat : Mark(T, k, i) /\ Settled(G, k, i) /\ x[1] \in 1..i /\ T[k][x[1]] = x[2]
  BY <1>1 DEF Known
<1>3. k \in 1..MaxTerm /\ T[k] # <<>> /\ Firm(G, k, i) /\ i <= Len(T[k]) /\ Len(T[k]) \in Nat
  BY <1>2, MarkType, SettledFirm
<1> DEFINE z == currentTerm[n]
<1>4. z \in 1..MaxTerm /\ z \in Nat /\ T[z] = Es(n)
  <2>1. <<z, n>> \in elected
    BY DEF Reigns
  <2>2. z \in 1..MaxTerm
    BY <2>1 DEF TypeOK
  <2>3. T[z] = Es(n)
    BY <1>1 DEF Matching, Es
  <2> QED
    BY <2>2, <2>3
<1>5. k <= z
  <2>1. PICK m \in Node : <<k, m>> \in elected
    BY <1>1, <1>3 DEF Matching
  <2> QED
    BY <2>1
<1> HIDE DEF z
<1>6. T[z][x[1]] = x[2] /\ x[1] <= Len(T[z]) /\ Len(T[z]) \in Nat
  <2>1. CASE k = z
    BY <1>2, <1>3, <2>1
  <2>2. CASE k < z
    <3>1. T[z] # <<>>
      <4>1. \E i1 \in 1..MaxTerm : <<i1, n>> \in elected
        BY <1>4 DEF Reigns, z
      <4>2. <<z, n>> \in elected
        BY DEF Reigns, z
      <4> QED
        BY <1>1, <1>4, <4>2 DEF Core, Written
    <3>2. Agree(T[z], T[k], i)
      BY <1>1, <1>2, <1>3, <1>4, <2>2, <3>1 DEF Core, Complete
    <3>3. Len(T[z]) \in Nat
      BY <1>4, PageType
    <3> QED
      BY <1>2, <3>2, <3>3 DEF Agree
  <2> QED
    BY <1>4, <1>5, <2>1, <2>2
<1>7. log[n] \in Log /\ log[n].first = 1
  BY DEF TypeOK, Uncompacted
<1>8. x[1] \in Nat /\ x[1] >= 1
  BY <1>2
<1>9. log[n].entries[x[1]] = x[2] /\ x[1] <= Len(log[n].entries) /\ Len(log[n].entries) \in Nat
  BY <1>4, <1>6 DEF Es
<1> DEFINE j == x[1]
<1>10. j - 1 < Len(log[n].entries) /\ j - 1 + 1 = j /\ j >= 1
  BY <1>8, <1>9
<1>11. log[n].entries[j] = x[2]
  BY <1>9
<1> HIDE DEF j
<1>12. Has(log[n], j) /\ Get(log[n], j) = x[2]
  BY <1>7, <1>10, <1>11 DEF Has, Get
<1> QED
  BY <1>12 DEF HasEntry, j

\* The newest leader has everything that was ever applied: LeaderCompleteness, for any
\* number of terms, entries, crashes and failed calls, in clusters of up to four nodes
\* (HandleRequestVote grants its vote only to a log that is not behind its own,
\* advanceCommitIndex counts nodes).
THEOREM LeaderComplete ==
  ASSUME Cardinality(Node) <= 4
  PROVE  Spec => []LeaderCompleteness
<1>1. Init => Accounted(FALSE)
  BY AccountedInit
<1>2. Accounted(FALSE) /\ TypeOK /\ TypeOK' /\ ElectionSafety /\ ElectionSafety' /\ [Next]_vars
        => Accounted(FALSE)'
  BY AccountedKept
<1>3. TypeOK /\ Accounted(FALSE) => LeaderCompleteness
  BY LastingLeader DEF Accounted, Ordinary, LeaderCompleteness, Sound, Calm
<1>4. Spec => []TypeOK /\ []ElectionSafety
  BY TypeCorrect, ElectionSafe
<1> QED
  BY <1>1, <1>2, <1>3, <1>4, PTL DEF Spec

\* What a node committed is in a log that two nodes have, and is kept with it.
LEMMA CoveredStays ==
  ASSUME NEW T, NEW G, NEW U, NEW H, Passes(T, G, U, H), Covered(T, G), Commit(U, H, TRUE)
  PROVE  CommittedKept
<1> SUFFICES ASSUME NEW n \in Node, state[n] # "Shutdown", state'[n] # "Shutdown"
             PROVE  /\ commitIndex'[n] >= commitIndex[n]
                    /\ \A i \in 1..commitIndex[n] :
                         Has(log[n], i) /\ Has(log'[n], i) => Get(log'[n], i) = Get(log[n], i)
  BY DEF CommittedKept
<1>1. TypeOK /\ commitIndex \in [Node -> Nat] /\ commitIndex[n] \in Nat
  BY DEF Passes, TypeOK
<1>2. commitIndex'[n] >= commitIndex[n]
  <2>1. CASE commitIndex'[n] = commitIndex[n]
    BY <1>1, <2>1
  <2>2. ASSUME NEW m \in Node, Resets(m) PROVE commitIndex'[n] = commitIndex[n]
    BY <2>2 DEF Resets
  <2>3. ASSUME NEW m \in Node, Advances(U, H, TRUE, m) PROVE commitIndex'[n] >= commitIndex[n]
    <3>1. PICK c \in Nat : ApplyUpTo(m, log'[m], c) /\ c >= commitIndex[m]
      BY <2>3 DEF Advances
    <3>2. commitIndex' = [commitIndex EXCEPT ![m] = c]
      BY <3>1 DEF ApplyUpTo
    <3> QED
      BY <1>1, <3>1, <3>2
  <2> QED
    BY <2>1, <2>2, <2>3 DEF Commit, machine
<1>3. ASSUME NEW i \in 1..commitIndex[n] PROVE Get(log'[n], i) = Get(log[n], i)
  <2>1. PICK k, j \in Nat : Mark(T, k, j) /\ Settled(G, k, j) /\ commitIndex[n] <= j /\ Agree(Es(n), T[k], j)
    BY <1>1, <1>3 DEF Covered, Cov
  <2>2. Agree(log'[n].entries, T[k], j)
    BY <2>1, SettledFirm DEF Passes, Keeps
  <2>3. i \in 1..j /\ i - 1 + 1 = i
    BY <1>1, <2>1
  <2>4. log'[n].entries[i] = T[k][i] /\ Es(n)[i] = T[k][i]
    BY <2>1, <2>2, <2>3 DEF Agree
  <2>5. log[n].first = 1 /\ log'[n].first = 1
    BY PassTypes
  <2> QED
    BY <2>3, <2>4, <2>5 DEF Get, Es
<1> QED
  BY <1>2, <1>3

\* Every step but the service of an AppendEntries keeps commit indices, entries and what is
\* committed of itself.
Extended(n) ==
  \/ log'[n] = log[n]
  \/ \E e : log'[n] = Append1(log[n], e)
  \/ \E i \in Nat : log'[n] = Compact(log[n], i)

KeptByItself ==
  \A n \in Node : state[n] # "Shutdown" /\ state'[n] # "Shutdown" =>
    commitIndex'[n] >= commitIndex[n] /\ Extended(n)

LEMMA ExtendedKeeps ==
  ASSUME TypeOK, Uncompacted, KeptByItself
  PROVE  CommittedKept
<1> SUFFICES ASSUME NEW n \in Node, state[n] # "Shutdown", state'[n] # "Shutdown",
                    NEW i \in 1..commitIndex[n], Has(log[n], i), Has(log'[n], i)
             PROVE  Get(log'[n], i) = Get(log[n], i)
  BY DEF CommittedKept, KeptByItself
<1>1. log[n] \in Log /\ log[n].first = 1 /\ commitIndex[n] \in Nat
  BY DEF TypeOK, Uncompacted
<1>2. i \in Nat /\ i \in Int
  BY <1>1
<1>3. log[n].entries \in Seq(Entry) /\ Len(log[n].entries) \in Nat
  BY <1>1, EntriesOf
<1>4. ASSUME NEW e, log'[n] = Append1(log[n], e) PROVE Get(log'[n], i) = Get(log[n], i)
  <2> DEFINE s == log[n].entries
  <2>1. log'[n].entries = Append(s, e) /\ log'[n].first = 1
    BY <1>1, <1>4 DEF Append1, Log
  <2>2. i \in 1..Len(s)
    BY <1>1, <1>2, <1>3 DEF Has
  <2> HIDE DEF s
  <2>3. Append(s, e)[i] = s[i]
    BY <1>3, <2>2 DEF s
  <2>4. i - 1 + 1 = i
    BY <1>2
  <2> QED
    BY <1>1, <2>1, <2>3, <2>4 DEF Get, s
<1>5. ASSUME NEW j \in Nat, log'[n] = Compact(log[n], j) PROVE Get(log'[n], i) = Get(log[n], i)
  BY <1>1, <1>2, <1>5, CompactKeeps
<1> QED
  BY <1>4, <1>5 DEF KeptByItself, Extended

LEMMA LeaderExtends ==
  ASSUME TypeOK, NEW n \in Node, NEW t, becomeLeader(n, t)
  PROVE  \A v \in Node : Extended(v)
<1>1. \E e : log' = [log EXCEPT ![n] = Append1(log[n], e)]
  BY DEF becomeLeader, Save
<1> QED
  BY <1>1 DEF TypeOK, Extended

LEMMA DownKeeps ==
  ASSUME TypeOK, NEW n \in Node, NEW lost, NEW torn, Down(n, lost, torn)
  PROVE  KeptByItself
<1>1. ASSUME NEW v \in Node \ {n}
      PROVE  commitIndex'[v] = commitIndex[v] /\ log'[v] = log[v] /\ commitIndex[v] \in Nat
  BY DEF Down, TypeOK
<1>2. state'[n] = "Shutdown"
  BY DEF Down, TypeOK
<1> QED
  BY <1>1, <1>2 DEF KeptByItself, Extended

LEMMA LocalKeeps ==
  ASSUME TypeOK, NEW n \in Node, Local(n)
  PROVE  KeptByItself
<1>1. commitIndex' = commitIndex /\ \A v \in Node : commitIndex[v] \in Nat
  BY LocalView DEF TypeOK
<1>2. CASE Propose(n)
  <2>1. \E e : log' = [log EXCEPT ![n] = Append1(log[n], e)]
    BY <1>2 DEF Propose, Save
  <2>2. \A v \in Node : log'[v] = log[v] \/ \E e : log'[v] = Append1(log[v], e)
    BY <2>1 DEF TypeOK
  <2>3. \A v \in Node : Extended(v)
    BY <2>2 DEF Extended
  <2> QED
    BY <1>1, <2>3 DEF KeptByItself
<1>3. CASE Snapshots(n)
  <2>1. log' = log \/ \E i \in Nat : log' = [log EXCEPT ![n] = Compact(log[n], i)]
    BY <1>3, SnapshotsLog DEF Compacts
  <2>2. \A v \in Node : log'[v] = log[v] \/ \E i \in Nat : log'[v] = Compact(log[v], i)
    BY <2>1 DEF TypeOK
  <2>3. \A v \in Node : Extended(v)
    BY <2>2 DEF Extended
  <2> QED
    BY <1>1, <2>3 DEF KeptByItself
<1> QED
  BY <1>2, <1>3 DEF Local

LEMMA ReplyKeeps ==
  ASSUME TypeOK, Wires, NEW n \in Node, NEW r \in Rounds, AppendReply(n, r)
  PROVE  KeptByItself
<1>1. \A v \in Node : commitIndex[v] \in Nat
  BY DEF TypeOK
<1>2. CASE UNCHANGED <<machine, applied>>
  BY <1>1, <1>2, ReplyCommits DEF machine, KeptByItself, Extended
<1>3. ASSUME NEW c \in Nat, ApplyUpTo(n, log[n], c), c > commitIndex[n] PROVE KeptByItself
  <2>1. commitIndex' = [commitIndex EXCEPT ![n] = c]
    BY <1>3 DEF ApplyUpTo
  <2>2. \A v \in Node : commitIndex'[v] = IF v = n THEN c ELSE commitIndex[v]
    BY <2>1 DEF TypeOK
  <2>3. \A v \in Node : commitIndex'[v] >= commitIndex[v]
    BY <1>1, <1>3, <2>2
  <2> QED
    BY <2>3, ReplyCommits DEF KeptByItself, Extended
<1> QED
  BY <1>2, <1>3, ReplyCommits

LEMMA OthersKeep ==
  ASSUME TypeOK, Wires, [Next]_vars, \A n \in Node : \A p \in Peers(n) : ~HandleAppendEntries(n, p)
  PROVE  KeptByItself
<1>1. \A v \in Node : commitIndex[v] \in Nat
  BY DEF TypeOK
<1>2. UNCHANGED <<log, commitIndex>> => KeptByItself
  BY <1>1 DEF KeptByItself, Extended
<1>3. ASSUME NEW n \in Node, NEW t, becomeLeader(n, t), commitIndex' = commitIndex PROVE KeptByItself
  BY <1>1, <1>3, LeaderExtends DEF KeptByItself
<1>4. CASE UNCHANGED vars
  BY <1>2, <1>4 DEF vars, persistent, machine
<1>5. ASSUME NEW n \in Node, startElection(n) PROVE KeptByItself
  <2>1. commitIndex' = commitIndex /\ (log' = log \/ \E t : becomeLeader(n, t))
    BY <1>5 DEF startElection, machine
  <2> QED
    BY <1>2, <1>3, <2>1
<1>6. ASSUME NEW n \in Node, Crash(n) PROVE KeptByItself
  BY <1>6, DownKeeps DEF Crash
<1>7. ASSUME NEW n \in Node, Restart(n) PROVE KeptByItself
  <2>1. /\ state[n] = "Shutdown" /\ log' = log
        /\ \A v \in Node \ {n} : commitIndex'[v] = commitIndex[v]
    BY <1>7 DEF Restart, persistent, TypeOK
  <2> QED
    BY <1>1, <2>1 DEF KeptByItself, Extended
<1>8. ASSUME NEW n \in Node, NEW r \in Rounds, StartRound(n, r) PROVE KeptByItself
  BY <1>2, <1>8 DEF StartRound, persistent, machine
<1>9. ASSUME NEW n \in Node, NEW p \in Peers(n), HandleRequestVote(n, p) PROVE KeptByItself
  BY <1>2, <1>9 DEF HandleRequestVote, machine
<1>10. ASSUME NEW n \in Node, NEW p \in Peers(n), CallFails(n, p) PROVE KeptByItself
  <2>1. UNCHANGED <<log, commitIndex>> \/ \E lost : Down(n, lost, FALSE)
    BY <1>10 DEF CallFails, persistent, machine
  <2> QED
    BY <1>2, <2>1, DownKeeps
<1>11. ASSUME NEW n \in Node, NEW p \in Peers(n), NEW t \in 1..MaxTerm, VoteReply(n, p, t)
       PROVE  KeptByItself
  <2>1. commitIndex' = commitIndex /\ (log' = log \/ becomeLeader(n, t))
    BY <1>11 DEF VoteReply, machine
  <2> QED
    BY <1>2, <1>3, <2>1
<1> QED
  BY <1>4, <1>5, <1>6, <1>7, <1>8, <1>9, <1>10, <1>11, LocalKeeps, ReplyKeeps
     DEF Next, Local, Snapshots

LEMMA StaysUncompacted ==
  ASSUME TypeOK, Wires, Uncompacted, NEW n \in Node, NEW p \in Peers(n), HandleAppendEntries(n, p)
  PROVE  Uncompacted'
<1> DEFINE req == Head(conn[n][p].reqs)
<1>1. /\ conn[n][p].reqs # <<>> /\ req.type = "append" /\ p \in Node
      /\ log' = log \/ log' = [log EXCEPT ![p] = StoreAll(log[p], req.prev, req.entries)]
  BY DEF HandleAppendEntries, Save, Peers
<1>2. req.prev \in Nat /\ req.entries \in Seq(Entry)
  BY <1>1, HeadRequest
<1> HIDE DEF req
<1>3. log[p] \in Log /\ log[p].first = 1
  BY <1>1 DEF TypeOK, Uncompacted
<1>4. StoreAll(log[p], req.prev, req.entries).first = 1
  BY <1>2, <1>3, StoreAllFirst
<1> QED
  BY <1>1, <1>4 DEF TypeOK, Uncompacted

\* While a node runs, its commit index does not move back and what it committed stays in
\* its log: CommittedStays, for any number of terms, entries, crashes and failed calls, in
\* clusters of up to four nodes (HandleAppendEntries takes the smaller of two indices, and
\* truncates; Compact).
THEOREM CommittedStaysPut ==
  ASSUME Cardinality(Node) <= 4
  PROVE  Spec => CommittedStays
<1>1. Init => Accounted(TRUE)
  BY AccountedInit
<1>2. Accounted(TRUE) /\ TypeOK /\ TypeOK' /\ ElectionSafety /\ ElectionSafety' /\ [Next]_vars
        => Accounted(TRUE)'
  BY AccountedKept
<1>3. Accounted(TRUE) /\ TypeOK /\ TypeOK' /\ ElectionSafety /\ ElectionSafety' /\ [Next]_vars
        => CommittedKept
  <2> SUFFICES ASSUME Accounted(TRUE), TypeOK, TypeOK', ElectionSafety, ElectionSafety', [Next]_vars,
                      Sound, Without({"restored"})
               PROVE  CommittedKept
    BY DEF CommittedKept
  <2>1. Uncompacted /\ Ordinary /\ Lasting(TRUE)
    BY DEF Accounted, Sound, Calm
  <2>2. ASSUME NEW n \in Node, NEW p \in Peers(n), HandleAppendEntries(n, p) PROVE CommittedKept
    <3>1. mishaps' = mishaps
      BY <2>2 DEF HandleAppendEntries, faults
    <3>2. Calm' /\ "restored" \notin mishaps'
      BY <3>1 DEF Sound, Calm, Without
    <3>3. Uncompacted'
      BY <2>1, <2>2, StaysUncompacted DEF Ordinary
    <3>4. Ordinary' /\ Turn /\ Moves /\ OneLeaderPerTerm /\ OneLeaderPerTerm'
      BY <2>1, <3>2, OrdinaryKept, CalmLeaders
    <3>5. TRUE => "restored" \notin mishaps'
      BY <3>2
    <3>6. PICK T \in Books, G \in Copies, U \in Books, H \in Copies :
             Passes(T, G, U, H) /\ (TRUE => Covered(T, G)) /\ Commit(U, H, TRUE)
      BY <2>1, <3>2, <3>3, <3>4, <3>5, LastingStep DEF Ordinary
    <3> QED
      BY <3>6, CoveredStays
  <2>3. CASE \A n \in Node : \A p \in Peers(n) : ~HandleAppendEntries(n, p)
    BY <2>1, <2>3, OthersKeep, ExtendedKeeps DEF Ordinary
  <2> QED
    BY <2>2, <2>3
<1>4. Spec => []TypeOK /\ []ElectionSafety
  BY TypeCorrect, ElectionSafe
<1> QED
  BY <1>1, <1>2, <1>3, <1>4, PTL DEF Spec, CommittedStays

-----------------------------------------------------------------------------
\* What the state machines have seen.

\* f is the commands of A up to a, in their order, and A has everything up to a.
Fed(A, f, a) ==
  /\ f \in Seq(Entry) /\ a \in Nat
  /\ \A i \in 1..a : \E e \in Entry : <<i, e>> \in A
  /\ \A k \in 1..Len(f) : f[k].type = "Command" /\ f[k].index \in 1..a /\ <<f[k].index, f[k]>> \in A
  /\ \A i \in 1..a, e \in Entry :
       <<i, e>> \in A /\ e.type = "Command" => \E k \in 1..Len(f) : f[k] = e
  /\ \A j, k \in 1..Len(f) : j < k => f[j].index < f[k].index

Once(A) == \A i \in Nat, d, e \in Entry : <<i, d>> \in A /\ <<i, e>> \in A => d = e

\* It stays so when others apply more.
LEMMA FedMore ==
  ASSUME NEW A, NEW B, A \subseteq B, Once(B), NEW f, NEW a, Fed(A, f, a)
  PROVE  Fed(B, f, a)
<1>1. /\ f \in Seq(Entry) /\ a \in Nat
      /\ \A i \in 1..a : \E e \in Entry : <<i, e>> \in A
      /\ \A k \in 1..Len(f) : f[k].type = "Command" /\ f[k].index \in 1..a /\ <<f[k].index, f[k]>> \in A
      /\ \A i \in 1..a, e \in Entry :
           <<i, e>> \in A /\ e.type = "Command" => \E k \in 1..Len(f) : f[k] = e
      /\ \A j, k \in 1..Len(f) : j < k => f[j].index < f[k].index
  BY DEF Fed
<1>2. ASSUME NEW i \in 1..a, NEW e \in Entry, <<i, e>> \in B, e.type = "Command"
      PROVE  \E k \in 1..Len(f) : f[k] = e
  <2>1. PICK d \in Entry : <<i, d>> \in A
    BY <1>1
  <2>2. d = e
    BY <1>1, <1>2, <2>1 DEF Once
  <2> QED
    BY <1>1, <1>2, <2>1, <2>2
<1> QED
  BY <1>1, <1>2 DEF Fed

\* One more entry.
LEMMA FedOne ==
  ASSUME NEW A, Once(A), NEW f, NEW a, Fed(A, f, a),
         NEW e \in Entry, e.index = a + 1, <<a + 1, e>> \in A
  PROVE  Fed(A, IF e.type = "Command" THEN Append(f, e) ELSE f, a + 1)
<1>1. /\ f \in Seq(Entry) /\ a \in Nat
      /\ \A i \in 1..a : \E d \in Entry : <<i, d>> \in A
      /\ \A k \in 1..Len(f) : f[k].type = "Command" /\ f[k].index \in 1..a /\ <<f[k].index, f[k]>> \in A
      /\ \A i \in 1..a, d \in Entry :
           <<i, d>> \in A /\ d.type = "Command" => \E k \in 1..Len(f) : f[k] = d
      /\ \A j, k \in 1..Len(f) : j < k => f[j].index < f[k].index
  BY DEF Fed
<1>2. /\ a + 1 \in Nat /\ a + 1 \in 1..(a + 1)
      /\ \A i \in 1..(a + 1) : i \in 1..a \/ i = a + 1
      /\ \A i \in 1..a : i \in 1..(a + 1)
  BY <1>1
<1>3. \A i \in 1..(a + 1) : \E d \in Entry : <<i, d>> \in A
  BY <1>1, <1>2
<1>4. \A d \in Entry : <<a + 1, d>> \in A => d = e
  BY <1>2 DEF Once
<1>5. CASE e.type # "Command"
  <2>1. \A i \in 1..(a + 1), d \in Entry :
           <<i, d>> \in A /\ d.type = "Command" => \E k \in 1..Len(f) : f[k] = d
    BY <1>1, <1>2, <1>4, <1>5
  <2>2. \A k \in 1..Len(f) : f[k].index \in 1..(a + 1)
    BY <1>1, <1>2
  <2>3. \A k \in 1..Len(f) : f[k].type = "Command" /\ <<f[k].index, f[k]>> \in A
    BY <1>1
  <2>4. Fed(A, f, a + 1)
    BY <1>1, <1>2, <1>3, <2>1, <2>2, <2>3 DEF Fed
  <2> QED
    BY <1>5, <2>4
<1>6. CASE e.type = "Command"
  <2> DEFINE g == Append(f, e)
  <2>1. /\ g \in Seq(Entry) /\ Len(g) = Len(f) + 1 /\ Len(f) \in Nat
        /\ \A k \in 1..Len(f) : g[k] = f[k]
        /\ g[Len(f) + 1] = e
    BY <1>1, AppendProperties, LenProperties
  <2> HIDE DEF g
  <2>2. \A k \in 1..Len(g) : k \in 1..Len(f) \/ k = Len(g)
    BY <2>1
  <2>3. g[Len(g)] = e /\ Len(g) \in 1..Len(g) /\ \A k \in 1..Len(f) : k \in 1..Len(g)
    BY <2>1
  <2>4. ASSUME NEW k \in 1..Len(g)
        PROVE  g[k].type = "Command" /\ g[k].index \in 1..(a + 1) /\ <<g[k].index, g[k]>> \in A
    <3>1. CASE k \in 1..Len(f)
      BY <1>1, <1>2, <2>1, <3>1
    <3>2. CASE k = Len(g)
      <4>1. g[k] = e
        BY <2>3, <3>2
      <4>2. e.type = "Command" /\ e.index \in 1..(a + 1) /\ <<e.index, e>> \in A
        BY <1>2, <1>6
      <4> QED
        BY <4>1, <4>2
    <3> QED
      BY <2>2, <3>1, <3>2
  <2>5. ASSUME NEW i \in 1..(a + 1), NEW d \in Entry, <<i, d>> \in A, d.type = "Command"
        PROVE  \E k \in 1..Len(g) : g[k] = d
    <3>1. CASE i \in 1..a
      <4>1. PICK k \in 1..Len(f) : f[k] = d
        BY <1>1, <2>5, <3>1
      <4> QED
        BY <2>1, <2>3, <4>1
    <3>2. CASE i = a + 1
      BY <1>4, <2>3, <2>5, <3>2
    <3> QED
      BY <1>2, <3>1, <3>2
  <2>6. ASSUME NEW j \in 1..Len(g), NEW k \in 1..Len(g), j < k
        PROVE  g[j].index < g[k].index
    <3>1. j \in 1..Len(f)
      BY <2>1, <2>6
    <3>2. CASE k \in 1..Len(f)
      BY <1>1, <2>1, <2>6, <3>1, <3>2
    <3>3. CASE k = Len(g)
      <4>1. g[j].index \in 1..a /\ g[k].index = a + 1
        BY <1>1, <2>1, <2>3, <3>1, <3>3
      <4> QED
        BY <1>1, <4>1
    <3> QED
      BY <2>2, <3>2, <3>3
  <2>7. Fed(A, g, a + 1)
    BY <1>2, <1>3, <2>1, <2>4, <2>5, <2>6 DEF Fed
  <2> QED
    BY <1>6, <2>7 DEF g
<1> QED
  BY <1>5, <1>6

\* Then f has one entry for every command.
LEMMA FedCounts ==
  ASSUME NEW f, NEW a, Fed(applied, f, a), applied \subseteq (Nat \ {0}) \X Entry
  PROVE  /\ Len(f) = Cardinality(AppliedCommands(a))
         /\ ToSet(f) = AppliedCommands(a)
         /\ \A i \in 1..a : \E x \in applied : x[1] = i
<1>1. /\ f \in Seq(Entry) /\ a \in Nat
      /\ \A i \in 1..a : \E e \in Entry : <<i, e>> \in applied
      /\ \A k \in 1..Len(f) : f[k].type = "Command" /\ f[k].index \in 1..a /\ <<f[k].index, f[k]>> \in applied
      /\ \A i \in 1..a, e \in Entry :
           <<i, e>> \in applied /\ e.type = "Command" => \E k \in 1..Len(f) : f[k] = e
      /\ \A j, k \in 1..Len(f) : j < k => f[j].index < f[k].index
  BY DEF Fed
<1>2. DOMAIN f = 1..Len(f) /\ Len(f) \in Nat
  BY <1>1, LenProperties
<1> DEFINE S == AppliedCommands(a)
<1>3. \A k \in 1..Len(f) : f[k] \in S
  <2> SUFFICES ASSUME NEW k \in 1..Len(f) PROVE f[k] \in S
    OBVIOUS
  <2> DEFINE x == <<f[k].index, f[k]>>
  <2>1. x \in applied /\ x[1] <= a /\ x[2].type = "Command" /\ x[2] = f[k]
    BY <1>1
  <2> HIDE DEF x
  <2> QED
    BY <2>1 DEF AppliedCommands
<1>4. \A e \in S : \E k \in 1..Len(f) : f[k] = e
  <2> SUFFICES ASSUME NEW e \in S PROVE \E k \in 1..Len(f) : f[k] = e
    OBVIOUS
  <2>1. PICK x \in applied : x[1] <= a /\ x[2].type = "Command" /\ x[2] = e
    BY DEF AppliedCommands
  <2>2. x[1] \in Nat \ {0} /\ x[2] \in Entry /\ x = <<x[1], x[2]>>
    BY <2>1
  <2>3. x[1] \in 1..a
    BY <1>1, <2>1, <2>2
  <2> QED
    BY <1>1, <2>1, <2>2, <2>3
<1> HIDE DEF S
<1>5. ToSet(f) = S
  BY <1>2, <1>3, <1>4 DEF ToSet
<1>6. \A j, k \in 1..Len(f) : f[j] = f[k] => j = k
  <2> SUFFICES ASSUME NEW j \in 1..Len(f), NEW k \in 1..Len(f), f[j] = f[k], j # k PROVE FALSE
    OBVIOUS
  <2>1. j < k \/ k < j
    BY <1>2
  <2>2. f[j].index = f[k].index /\ f[j].index \in Nat
    BY <1>1
  <2> QED
    BY <1>1, <2>1, <2>2
<1>7. f \in [1..Len(f) -> S]
  <2>1. f = [k \in 1..Len(f) |-> f[k]]
    BY <1>1, <1>2
  <2> QED
    BY <1>3, <2>1
<1>8. f \in Bijection(1..Len(f), S)
  BY <1>2, <1>4, <1>6, <1>7 DEF Bijection, Injection, Surjection, IsInjective
<1>9. Cardinality(S) = Len(f)
  <2>1. ExistsBijection(1..Len(f), S)
    BY <1>8 DEF ExistsBijection
  <2> DEFINE I == 1..Len(f)
  <2>2. IsFiniteSet(I) /\ Cardinality(I) = Len(f)
    <3> DEFINE N == Len(f)
    <3>1. N \in Nat
      BY <1>2
    <3> HIDE DEF N
    <3>2. IsFiniteSet(1..N) /\ Cardinality(1..N) = IF 1 > N THEN 0 ELSE N - 1 + 1
      BY <3>1, FS_Interval
    <3>3. Cardinality(1..N) = N
      BY <3>1, <3>2
    <3> QED
      BY <3>2, <3>3 DEF N
  <2> HIDE DEF I
  <2>3. ExistsBijection(I, S)
    BY <2>1 DEF I
  <2> QED
    BY <2>2, <2>3, FS_Bijection
<1>10. \A i \in 1..a : \E x \in applied : x[1] = i
  <2> SUFFICES ASSUME NEW i \in 1..a PROVE \E x \in applied : x[1] = i
    OBVIOUS
  <2>1. PICK e \in Entry : <<i, e>> \in applied
    BY <1>1
  <2>2. <<i, e>>[1] = i
    OBVIOUS
  <2> QED
    BY <2>1, <2>2
<1> QED
  BY <1>5, <1>9, <1>10 DEF S

\* applyCommitted gives the state machine what it has not seen.
LEMMA FedApplied ==
  ASSUME NEW A, Once(A), NEW f, NEW a, Fed(A, f, a), NEW l \in Log, NEW c \in Nat,
         \A i \in a + 1..c : Has(l, i) /\ Get(l, i) \in Entry /\ Get(l, i).index = i /\ <<i, Get(l, i)>> \in A
  PROVE  Fed(A, Apply(f, l, a, c), IF c <= a THEN a ELSE c)
<1>1. f \in Seq(Entry) /\ a \in Nat
  BY DEF Fed
<1>2. PICK h : /\ Apply(f, l, a, c) = h[c]
               /\ \A i \in 0..c :
                    /\ h[i] \in Seq(Entry)
                    /\ h[i] = IF i <= a THEN f
                              ELSE IF i \in Present(l, a, c) /\ Get(l, i).type = "Command"
                                   THEN Append(h[i - 1], Get(l, i))
                                   ELSE h[i - 1]
  BY <1>1, ApplySteps
<1> DEFINE G == {i \in 0..c : Fed(A, h[i], IF i <= a THEN a ELSE i)}
<1>3. \A i \in 0..c : i <= a => i \in G
  BY <1>2
<1>4. ASSUME NEW i \in 0..(c - 1), i \in G PROVE i + 1 \in G
  <2>1. i \in Nat /\ i + 1 \in 0..c /\ i + 1 - 1 = i
    BY <1>4
  <2>2. CASE i + 1 <= a
    BY <1>3, <2>1, <2>2
  <2>3. CASE ~(i + 1 <= a)
    <3>1. a <= i /\ i + 1 \in a + 1..c
      BY <1>1, <1>4, <2>1, <2>3
    <3>2. Fed(A, h[i], i)
      <4>1. (IF i <= a THEN a ELSE i) = i
        BY <1>1, <2>1, <3>1
      <4> QED
        BY <1>4, <4>1
    <3> DEFINE e == Get(l, i + 1)
    <3>3. Has(l, i + 1) /\ e \in Entry /\ e.index = i + 1 /\ <<i + 1, e>> \in A
      BY <3>1
    <3>4. h[i + 1] = IF e.type = "Command" THEN Append(h[i], e) ELSE h[i]
      <4>1. i + 1 \in Present(l, a, c)
        BY <3>1, <3>3 DEF Present
      <4> QED
        BY <1>2, <2>1, <2>3, <4>1
    <3> HIDE DEF e
    <3>5. Fed(A, h[i + 1], i + 1)
      BY <3>2, <3>3, <3>4, FedOne
    <3>6. (IF i + 1 <= a THEN a ELSE i + 1) = i + 1
      BY <2>3
    <3> QED
      BY <2>1, <3>5, <3>6
  <2> QED
    BY <2>2, <2>3
<1>5. 0 \in G
  BY <1>1, <1>3
<1> HIDE DEF G
<1>6. \A i \in 0..c : i \in G
  BY <1>4, <1>5, UpTo
<1>7. c \in G
  BY <1>6
<1> QED
  BY <1>2, <1>7 DEF G

\* So it is with every node.
AllFed == \A n \in Node : Fed(applied, fsm[n], lastApplied[n])

\* At first nothing was applied.
LEMMA FedInit == Init => AllFed
<1> SUFFICES ASSUME Init, NEW n \in Node PROVE Fed({}, <<>>, 0)
  BY DEF Init, AllFed
<1>1. <<>> \in Seq(Entry) /\ Len(<<>>) = 0
  BY EmptySeq
<1> QED
  BY <1>1 DEF Fed

\* Every step keeps it.
LEMMA FedKept ==
  ASSUME NEW T, NEW G, NEW U, NEW H, Passes(T, G, U, H), Commit(U, H, TRUE),
         "restored" \notin mishaps', AllFed, Once(applied')
  PROVE  AllFed'
<1> SUFFICES ASSUME NEW n \in Node PROVE Fed(applied', fsm'[n], lastApplied'[n])
  BY DEF AllFed
<1>1. /\ TypeOK /\ commitIndex \in [Node -> Nat] /\ lastApplied \in [Node -> Nat]
      /\ fsm \in [Node -> Seq(Entry)] /\ lastApplied[n] \in Nat
  BY DEF Passes, TypeOK
<1>2. Fed(applied, fsm[n], lastApplied[n])
  BY DEF AllFed
<1>3. applied \subseteq applied'
  BY DEF Commit, Resets, Advances, ApplyUpTo
<1>4. Fed(applied', fsm[n], lastApplied[n])
  BY <1>2, <1>3, FedMore
<1>5. CASE fsm'[n] = fsm[n] /\ lastApplied'[n] = lastApplied[n]
  BY <1>4, <1>5
<1>6. CASE fsm'[n] = <<>> /\ lastApplied'[n] = 0
  <2>1. <<>> \in Seq(Entry) /\ Len(<<>>) = 0
    BY EmptySeq
  <2>2. Fed(applied', <<>>, 0)
    BY <2>1 DEF Fed
  <2> QED
    BY <1>6, <2>2
<1>7. ASSUME NEW m \in Node, Resets(m)
      PROVE  \/ fsm'[n] = fsm[n] /\ lastApplied'[n] = lastApplied[n]
             \/ fsm'[n] = <<>> /\ lastApplied'[n] = 0
  <2>1. CASE m # n
    <3>1. n \in Node \ {m} /\ \A v \in Node \ {m} : lastApplied'[v] = lastApplied[v] /\ fsm'[v] = fsm[v]
      BY <1>7, <2>1 DEF Resets
    <3> QED
      BY <3>1
  <2>2. CASE m = n
    <3>1. commitIndex'[n] = 0
      BY <1>7, <2>2 DEF Resets
    <3> QED
      BY <1>7, <2>2, <3>1 DEF Resets
  <2> QED
    BY <2>1, <2>2
<1>8. CASE Advances(U, H, TRUE, n)
  <2> DEFINE l == log'[n]
             a == lastApplied[n]
  <2>1. PICK c \in Nat : ApplyUpTo(n, l, c) /\ Cov(U, H, c, l.entries)
    BY <1>8 DEF Advances
  <2>2. l \in Log /\ l.first = 1 /\ InBook(U, l.entries)
    <3>1. TypeOK'
      BY DEF Passes
    <3>2. log'[n] \in Log
      BY <3>1 DEF TypeOK
    <3> QED
      BY <3>2, PassTypes
  <2> HIDE DEF l
  <2>3. /\ fsm'[n] = Apply(fsm[n], l, a, c)
        /\ lastApplied'[n] = Max({a, c})
        /\ applied' = applied \cup {<<i, Get(l, i)>> : i \in Present(l, a, c)}
    BY <1>1, <2>1 DEF ApplyUpTo
  <2>4. Max({a, c}) = IF c <= a THEN a ELSE c
    <3> HIDE DEF a
    <3>1. a \in Nat
      BY <1>1 DEF a
    <3> QED
      BY <3>1, MaxOfTwo
  <2>5. Fed(applied', fsm[n], a)
    BY <1>4
  <2>6. a \in Nat
    BY <1>1
  <2> HIDE DEF a
  <2>7. ASSUME NEW i \in a + 1..c
        PROVE  Has(l, i) /\ Get(l, i) \in Entry /\ Get(l, i).index = i /\ <<i, Get(l, i)>> \in applied'
    <3>1. c # 0 /\ i \in 1..c /\ i >= 1 /\ i \in Nat
      BY <2>6, <2>7
    <3>2. PICK k, j \in Nat : c <= j /\ Agree(l.entries, U[k], j)
      BY <2>1, <3>1 DEF Cov
    <3>3. /\ Len(l.entries) \in Nat /\ j <= Len(l.entries)
          /\ \A q \in 1..Len(l.entries) : l.entries[q] \in Entry
      BY <2>2, <3>2, EntriesOf DEF Agree
    <3>4. i \in 1..Len(l.entries) /\ i - 1 + 1 = i /\ i - 1 < Len(l.entries)
      BY <3>1, <3>2, <3>3
    <3>5. Has(l, i) /\ Get(l, i) = l.entries[i]
      BY <2>2, <3>1, <3>4 DEF Has, Get
    <3>6. l.entries[i] \in Entry /\ l.entries[i].index = i
      BY <2>2, <3>3, <3>4 DEF InBook
    <3>7. i \in Present(l, a, c)
      BY <2>7, <3>5 DEF Present
    <3> QED
      BY <2>3, <3>5, <3>6, <3>7
  <2>8. Fed(applied', Apply(fsm[n], l, a, c), IF c <= a THEN a ELSE c)
    BY <2>2, <2>5, <2>7, FedApplied
  <2> QED
    BY <2>3, <2>4, <2>8
<1>9. ASSUME NEW m \in Node, m # n, Advances(U, H, TRUE, m)
      PROVE  fsm'[n] = fsm[n] /\ lastApplied'[n] = lastApplied[n]
  BY <1>1, <1>9 DEF Advances, ApplyUpTo
<1>10. CASE UNCHANGED <<machine, applied>>
  BY <1>5, <1>10 DEF machine
<1> QED
  BY <1>5, <1>6, <1>7, <1>8, <1>9, <1>10 DEF Commit

\* Where logs are complete, no two entries are applied for one index.
LEMMA OnceSafe ==
  ASSUME Uncompacted', Calm', StateMachineSafety'
  PROVE  Once(applied')
<1> SUFFICES ASSUME NEW i \in Nat, NEW d \in Entry, NEW e \in Entry, <<i, d>> \in applied', <<i, e>> \in applied'
             PROVE  d = e
  BY DEF Once
<1> DEFINE x == <<i, d>>
           y == <<i, e>>
<1>1. x \in applied' /\ y \in applied' /\ x[1] = i /\ y[1] = i /\ x[2] = d /\ y[2] = e
  OBVIOUS
<1> HIDE DEF x, y
<1> QED
  BY <1>1 DEF StateMachineSafety, Sound, Calm

\* Indices are positive.
LEMMA KnownTypes ==
  ASSUME TypeOK, Uncompacted, NEW b, Lasting(b)
  PROVE  applied \subseteq (Nat \ {0}) \X Entry
<1> SUFFICES ASSUME NEW x \in applied PROVE x \in (Nat \ {0}) \X Entry
  OBVIOUS
<1>1. x \in Nat \X Entry
  BY DEF TypeOK
<1>2. \E i \in Nat : x[1] \in 1..i
  BY DEF Lasting, Known
<1>3. x[1] \in Nat \ {0} /\ x[2] \in Entry /\ x = <<x[1], x[2]>>
  BY <1>1, <1>2
<1> QED
  BY <1>3

\* While nothing went wrong and logs are complete.
FedWhole == Accounted(TRUE) /\ (Calm /\ Without({"restored"}) /\ Uncompacted => AllFed)

LEMMA FedWholeKept ==
  ASSUME TypeOK, TypeOK', ElectionSafety, ElectionSafety', StateMachineSafety', [Next]_vars,
         Cardinality(Node) <= 4, FedWhole
  PROVE  FedWhole'
<1>1. Accounted(TRUE)'
  BY AccountedKept DEF FedWhole
<1> SUFFICES ASSUME Calm', Without({"restored"})', Uncompacted' PROVE AllFed'
  BY <1>1 DEF FedWhole
<1>2. "restored" \notin mishaps' /\ Without({"restored"}) /\ Calm
  BY CalmBefore, MishapsStay DEF Without
<1>3. Ordinary /\ Lasting(TRUE)
  BY <1>2 DEF FedWhole, Accounted
<1>4. Ordinary' /\ Turn /\ Moves
  BY <1>3, OrdinaryKept
<1>5. Uncompacted
  BY <1>4, StartsNoEarlier
<1>6. AllFed
  BY <1>2, <1>5 DEF FedWhole
<1>7. OneLeaderPerTerm /\ OneLeaderPerTerm'
  BY CalmLeaders
<1>8. PICK T \in Books, G \in Copies, U \in Books, H \in Copies :
        Passes(T, G, U, H) /\ Commit(U, H, TRUE)
  <2>1. /\ Wires /\ Wires' /\ Reigns /\ Reigns' /\ Reported
    BY <1>3, <1>4 DEF Ordinary
  <2> QED
    BY <1>2, <1>3, <1>4, <1>7, <2>1, LastingStep
<1>9. Once(applied')
  BY OnceSafe
<1> QED
  BY <1>2, <1>6, <1>8, <1>9, FedKept

LEMMA FedWholeCompletes ==
  ASSUME TypeOK, FedWhole
  PROVE  StateMachineComplete
<1> SUFFICES ASSUME Sound, Without({"restored"}), NEW n \in Node
             PROVE  /\ Len(fsm[n]) = Cardinality(AppliedCommands(lastApplied[n]))
                    /\ ToSet(fsm[n]) = AppliedCommands(lastApplied[n])
                    /\ \A i \in 1..lastApplied[n] : \E x \in applied : x[1] = i
  BY DEF StateMachineComplete
<1>1. Calm /\ Uncompacted
  BY DEF Sound, Calm
<1>2. AllFed /\ Lasting(TRUE)
  BY <1>1 DEF FedWhole, Accounted
<1>3. Fed(applied, fsm[n], lastApplied[n])
  BY <1>2 DEF AllFed
<1>4. applied \subseteq (Nat \ {0}) \X Entry
  BY <1>1, <1>2, KnownTypes
<1> QED
  BY <1>3, <1>4, FedCounts

\* The state machine of a node has seen exactly the committed commands up to lastApplied, each
\* once, also after a restart: StateMachineComplete, for any number of terms, entries, crashes
\* and failed calls, in clusters of up to four nodes (applyCommitted, NewNode).
THEOREM StateMachinesComplete ==
  ASSUME Cardinality(Node) <= 4
  PROVE  Spec => []StateMachineComplete
<1>1. Init => FedWhole
  BY AccountedInit, FedInit DEF FedWhole
<1>2. TypeOK /\ TypeOK' /\ ElectionSafety /\ ElectionSafety' /\ StateMachineSafety'
        /\ FedWhole /\ [Next]_vars => FedWhole'
  BY FedWholeKept
<1>3. TypeOK /\ FedWhole => StateMachineComplete
  BY FedWholeCompletes
<1>4. Spec => []TypeOK /\ []ElectionSafety /\ []StateMachineSafety
  BY TypeCorrect, ElectionSafe, StateMachineSafe
<1> QED
  BY <1>1, <1>2, <1>3, <1>4, PTL DEF Spec
=============================================================================
