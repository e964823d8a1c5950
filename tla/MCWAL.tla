-------------------------------- MODULE MCWAL --------------------------------
(* Model-checking instances of WAL. *)
EXTENDS WAL
=============================================================================
