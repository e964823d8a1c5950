------------------------------- MODULE MCGroup -------------------------------
(* Model-checking instances of ConsumerGroup. *)
EXTENDS ConsumerGroup

CONSTANTS c1, c2  \* the committers

\* Membership without commits; commits and restarts with one member, where files may
\* fail: of one partition by two goroutines, of two by one; and in a group whose offsets
\* are never saved.
MCScopes ==
  LET Commits == [members |-> {1}, strategies |-> {"range"}, commits |-> {0}, by |-> Committers,
                  starts |-> 2, valid |-> TRUE, failing |-> TRUE]
  IN  {[members |-> Members, strategies |-> Strategies, commits |-> {}, by |-> {},
        starts |-> 1, valid |-> TRUE, failing |-> FALSE],
       Commits,
       [Commits EXCEPT !.commits = {0, 1}, !.by = {c1}],
       [Commits EXCEPT !.valid = FALSE]}
===============================================================================
