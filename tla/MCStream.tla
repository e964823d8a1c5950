------------------------------- MODULE MCStream ------------------------------
\* StreamSession for TLC.
EXTENDS StreamSession
=============================================================================
