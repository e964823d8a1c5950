------------------------------- MODULE MCRaft -------------------------------
\* Raft for TLC.
EXTENDS Raft, TLC

\* Nodes are interchangeable.
Symmetry == Permutations(Node)

NoLimit == 9
Quiet == [snapshotAt |-> NoLimit, terms |-> 2, log |-> 2, crashes |-> 0, failures |-> 0,
          overlap |-> FALSE, torn |-> FALSE]

\* Competing leaders with commands; crashes, in one term.
SafetyScopes == {Quiet, [Quiet EXCEPT !.terms = 1, !.crashes = 2]}

\* Walking a follower back; snapshots, saved over by steps and restored; crashes and
\* failed calls.
LiveScopes == {[Quiet EXCEPT !.log = 4],
               [Quiet EXCEPT !.snapshotAt = 2],
               [Quiet EXCEPT !.snapshotAt = 1, !.terms = 1, !.log = 3],
               [Quiet EXCEPT !.snapshotAt = 1, !.terms = 1, !.crashes = 1],
               [Quiet EXCEPT !.crashes = 1, !.failures = 1]}

\* Elections alone.
VoteScopes == {[Quiet EXCEPT !.log = 0, !.overlap = TRUE]}
=============================================================================
