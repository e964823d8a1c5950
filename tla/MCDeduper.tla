------------------------------ MODULE MCDeduper ------------------------------
\* Deduper for TLC.
EXTENDS Deduper, TLC

\* Producers and sequence numbers are interchangeable.
Symmetry == Permutations(Producers) \cup Permutations(Seqs)
=============================================================================
