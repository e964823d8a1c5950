---------------------------- MODULE MCHotPartition ----------------------------
(* Model-checking instances of HotPartition. *)
EXTENDS HotPartition, TLC

\* Keys are only compared.
Symmetry == Permutations(Key)

Plain == [keys |-> {NoKey}, ttls |-> {0}, segCap |-> 1, maxSegments |-> 0, maxSize |-> 0,
          compact |-> FALSE]

\* One policy for each thing that removes segments: expiry of messages that live
\* equally long and of messages that do not, retention, compaction.
MCPolicies ==
  {[Plain EXCEPT !.ttls = {1}, !.segCap = 2],
   [Plain EXCEPT !.ttls = {0, 1}, !.maxSegments = 1, !.maxSize = 3],
   [Plain EXCEPT !.keys = Key \cup {NoKey}, !.compact = TRUE]}
===============================================================================
