------------------------------- MODULE MCQueue -------------------------------
(* Model-checking instances of QueueEngine. *)
EXTENDS QueueEngine, TLC

\* Consumers are interchangeable: ids are only compared.
Symmetry == Permutations(Consumer)
=============================================================================
