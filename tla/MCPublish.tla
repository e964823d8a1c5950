------------------------------ MODULE MCPublish ------------------------------
(* Model-checking instances of PublishPath. *)
EXTENDS PublishPath, TLC

\* Producers are interchangeable, and so are workers.
Symmetry == Permutations(Producers) \cup Permutations(Workers)

Reliable == [failures |-> {}, overlap |-> FALSE, starts |-> 1, forgets |-> 0]

\* Everything fails in one process; crashes of a broker in which only the metadata
\* cannot be written; a deduper that forgets, of producers that do not wait.
MCScopes ==
  {[Reliable EXCEPT !.failures = {"gate", "wal", "hot", "meta"}, !.overlap = TRUE],
   [Reliable EXCEPT !.failures = {"meta"}, !.starts = 3, !.forgets = 1],
   [Reliable EXCEPT !.overlap = TRUE, !.forgets = 1]}

\* A step after the deduper refuses a message.
RefusalScopes == {[Reliable EXCEPT !.failures = {"gate"}]}

\* A crash.
CrashScopes == {[Reliable EXCEPT !.starts = 2]}
=============================================================================
