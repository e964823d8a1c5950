----------------------------- MODULE MCConsole -----------------------------
(* Sessions to check: each scope is about one hard case of one page or two. *)
EXTENDS Console

CONSTANTS a, b, t1, t2

At(p) == [start |-> p, pages |-> {p}, token |-> t1, deployed |-> FALSE,
          names |-> {a}, editable |-> {}, slow |-> {}, views |-> 0, muts |-> 0,
          edits |-> 0, fails |-> 0, moves |-> 0, offs |-> 0, checks |-> 0,
          revokes |-> 0]

AtLogin == [At("overview") EXCEPT !.start = "login", !.token = None]

Slow == {"health", "cluster", "topics", "consumers"}

MCScopes ==
  { \* changes, their answers crossing with polls and with each other
    [At("topics") EXCEPT !.muts = 2],
    [At("processors") EXCEPT !.muts = 2],
    [At("dlq") EXCEPT !.muts = 1, !.views = 2],
    \* lost requests and answers, other clients
    [At("topics") EXCEPT !.muts = 1, !.fails = 2],
    [At("processors") EXCEPT !.muts = 1, !.views = 1],
    [At("schemas") EXCEPT !.muts = 1, !.views = 1],
    [At("dlq") EXCEPT !.views = 1, !.fails = 1],
    [At("topics") EXCEPT !.edits = 1, !.editable = {"topics"}, !.views = 2],
    [At("consumers") EXCEPT !.pages = {"consumers", "cluster"}, !.views = 1,
       !.moves = 1, !.edits = 1, !.editable = {"consumers"}],
    [At("overview") EXCEPT !.edits = 2, !.editable = {"topics", "consumers"},
       !.slow = {"health", "cluster"}],
    \* the page is left and entered again
    [At("topics") EXCEPT !.pages = {"overview", "topics"}, !.muts = 1, !.moves = 1,
       !.slow = {"health", "cluster"}],
    [At("topics") EXCEPT !.pages = {"topics", "wasm"}, !.muts = 1, !.moves = 1,
       !.fails = 1],
    \* without a network
    [At("processors") EXCEPT !.muts = 1, !.offs = 1],
    [At("wasm") EXCEPT !.muts = 2, !.offs = 1],
    \* signing in and out
    [AtLogin EXCEPT !.checks = 1],
    [AtLogin EXCEPT !.checks = 2, !.moves = 2, !.fails = 1, !.revokes = 1,
       !.slow = Slow],
    [At("wasm") EXCEPT !.checks = 1, !.moves = 2, !.revokes = 1, !.slow = Slow],
    \* the broker as it is
    [At("topics") EXCEPT !.deployed = TRUE, !.views = 1, !.moves = 1],
    [At("wasm") EXCEPT !.deployed = TRUE, !.pages = {"wasm", "schemas", "dlq"},
       !.muts = 1, !.moves = 1] }

\* For the run without a network: two topics, one confirmed deletion.
OfflineScopes == {[At("topics") EXCEPT !.names = {a, b}, !.muts = 1, !.offs = 1]}
=============================================================================
