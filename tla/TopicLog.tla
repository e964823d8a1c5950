------------------------------ MODULE TopicLog ------------------------------
(***************************************************************************)
(* What publishing to a topic promises, whatever goroutines do it: three   *)
(* records that only grow.  PublishPath implements it.                     *)
(***************************************************************************)
EXTENDS Integers, Sequences, SequencesExt, FiniteSets

CONSTANT Msg

VARIABLES
  logged,    \* the write-ahead log
  stored,    \* what consumers can read
  acked,     \* messages whose producer was told that they are stored
  forgets,   \* how often the broker has lost its knowledge of a message
  careful    \* nothing fails half-way, and producers wait for their answers

vars == <<logged, stored, acked, forgets, careful>>

Init ==
  /\ logged = <<>>
  /\ stored = <<>>
  /\ acked = {}
  /\ forgets = [m \in Msg |-> 0]
  /\ careful \in BOOLEAN

Log(m) ==
  /\ logged' = Append(logged, m)
  /\ UNCHANGED <<stored, acked, forgets, careful>>

Copies(m) == Cardinality({i \in 1..Len(stored) : stored[i] = m})

\* A message is stored after it is logged; once, and once more for each time the broker
\* has lost its knowledge of it.
Store(m) ==
  /\ m \in ToSet(logged)
  /\ Copies(m) <= forgets[m]
  /\ stored' = Append(stored, m)
  /\ UNCHANGED <<logged, acked, forgets, careful>>

\* A careful broker and its producers take nothing for stored that is not.
Acknowledge(m) ==
  /\ careful => m \in ToSet(stored)
  /\ acked' = acked \cup {m}
  /\ UNCHANGED <<logged, stored, forgets, careful>>

\* The broker loses its knowledge of some messages, of all of them when it restarts; the
\* three records stay.
Forget(lost) ==
  /\ forgets' = [m \in Msg |-> forgets[m] + IF m \in lost THEN 1 ELSE 0]
  /\ UNCHANGED <<logged, stored, acked, careful>>

Next ==
  \/ \E lost \in SUBSET Msg : Forget(lost)
  \/ \E m \in Msg : Log(m) \/ Store(m) \/ Acknowledge(m)

Spec == Init /\ [][Next]_vars
=============================================================================
