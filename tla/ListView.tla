------------------------------ MODULE ListView ------------------------------
(***************************************************************************)
(* What the console promises the reader of its lists and details: each     *)
(* shows nothing or its resource as it was at some version, never replaces *)
(* a version by an earlier one, and never shows one the broker has not     *)
(* had.  The broker and the views move in separate steps.                  *)
(***************************************************************************)
EXTENDS Naturals

CONSTANTS
  Lists,    \* the lists and details
  None      \* shown by an empty view

VARIABLES
  current,  \* list -> version at the broker
  shown     \* list -> version on display, or None

vars == <<current, shown>>

Init ==
  /\ current \in [Lists -> Nat]
  /\ shown = [l \in Lists |-> None]

\* Somebody changes a resource, and with it the lists that show it.
Change ==
  /\ \A l \in Lists : current'[l] \in {current[l], current[l] + 1}
  /\ UNCHANGED shown

\* A view catches up, fully or in part.
Refresh(l) ==
  /\ shown[l] # None => shown'[l] >= shown[l]
  /\ shown'[l] <= current[l]

\* Views catch up or are emptied (reload, garbage collection).
Display ==
  /\ \A l \in Lists : shown'[l] \in {shown[l], None} \/ Refresh(l)
  /\ UNCHANGED current

Next == Change \/ Display

Spec == Init /\ [][Next]_vars
=============================================================================
