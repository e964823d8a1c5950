------------------------------ MODULE Console ------------------------------
(***************************************************************************)
(* The web console of frontend/src: its pages with the dialogs and buttons *)
(* that change state, the mutations they start, navigation, the login      *)
(* page and the error boundary, on top of the query cache and the session. *)
(*                                                                         *)
(* Components are functions of their state: a mutation's function and its  *)
(* callbacks are closures made by a render, and the library replaces them  *)
(* by those of the latest render as long as the mutation is its observer's *)
(* current one.  The model keeps that: a mutation records what its dialog  *)
(* or button named, whether its closures are still being replaced, and     *)
(* what was sent.                                                          *)
(***************************************************************************)
EXTENDS QueryClient, Sequences

CONSTANTS
  ChartLength,  \* points the chart keeps
  MaxVersion,   \* bound of the model: changes of one resource
  Scopes        \* bound of the model: where a session starts, the pages it
                \* visits, and how often it selects or changes something,
                \* moves, goes offline, signs in, how often others and faults
                \* do, and which resources the broker is too slow to answer for

ASSUME ConsoleAssumption ==
  /\ ChartLength \in Nat \ {0}
  /\ MaxVersion \in Nat
  /\ None \notin {"replay", "preview"}
  /\ \A s \in Scopes :
       /\ s.pages \subseteq {"overview", "topics", "consumers", "cluster", "schemas",
                            "dlq", "wasm", "processors"}
       /\ s.token \in Tokens \cup {None}
       /\ s.start \in IF s.token = None THEN {"login"} ELSE s.pages
       /\ s.deployed \in BOOLEAN
       /\ s.names \subseteq Names
       /\ s.slow \subseteq {"health", "cluster", "topics", "consumers"}
       /\ {s.views, s.muts, s.edits, s.fails, s.moves, s.offs, s.checks, s.revokes}
            \subseteq Nat

VARIABLES
  path,     \* the route of the page, "login" for /login
  crashed,  \* the ErrorBoundary shows its message instead of the routes
  ui,       \* the useState and useForm values of the mounted page
  muts,     \* the mutations started so far, in order
  chart,    \* chartData of the mounted OverviewPage
  left      \* bound of the model: what may still happen, and where

pageVars == <<path, crashed, ui, muts, chart>>
vars == <<sessionVars, queryVars, pageVars, left>>

Pages == {"overview", "topics", "consumers", "cluster", "schemas", "dlq",
          "wasm", "processors"}

(***************************************************************************)
(* State of a page.  open: the create, register or replay dialog; typed:   *)
(* the form's topic or subject, or the replay options; target:             *)
(* deleteTarget; sel: detailTopic, detailGroup, subject, selectedTopic or  *)
(* detailTarget; clear, view: the two other dialogs of the DLQ page.       *)
(***************************************************************************)
Blank(p) == IF p = "dlq" THEN "replay" ELSE None

NewPage(p) == [open |-> FALSE, typed |-> Blank(p), target |-> None,
               sel |-> None, clear |-> FALSE, view |-> FALSE]

\* A modal dialog is open: nothing behind it can be clicked.
Modal(p, u) ==
  \/ u.open \/ u.target # None \/ u.clear \/ u.view
  \/ p \in {"topics", "consumers"} /\ u.sel # None

(***************************************************************************)
(* Queries of the pages                                                    *)
(***************************************************************************)
Selected(kind, u) == IF u.sel = None THEN {} ELSE {<<kind, u.sel>>}

OverviewQueries ==
  {List("health"), List("topics"), List("consumers"), List("cluster")}
TopicsQueries(u) == {List("topics")} \cup Selected("topicDetail", u)
ConsumersQueries(u) == {List("consumers")} \cup Selected("consumerGroup", u)
ClusterQueries == {List("cluster"), List("health")}
SchemasQueries(u) == {List("schemaSubjects")} \cup Selected("schemaDetail", u)
DLQQueries(u) == {List("dlqTopics")} \cup Selected("dlqEntries", u)
WASMQueries == {List("wasmModules")}
ProcessorsQueries(u) == {List("processors")} \cup Selected("processorDetail", u)

Queries(p, u) ==
  CASE p = "overview"   -> OverviewQueries
    [] p = "topics"     -> TopicsQueries(u)
    [] p = "consumers"  -> ConsumersQueries(u)
    [] p = "cluster"    -> ClusterQueries
    [] p = "schemas"    -> SchemasQueries(u)
    [] p = "dlq"        -> DLQQueries(u)
    [] p = "wasm"       -> WASMQueries
    [] p = "processors" -> ProcessorsQueries(u)
    [] OTHER            -> {}

Observed == IF crashed THEN {} ELSE Queries(path, ui)

\* Mutant: the topics list has no refetchInterval.
Polled_NotTopics ==
  {k \in Keys : (k[2] = None /\ k[1] # "topics") \/ k[1] = "dlqEntries"}

\* The queries with a refetchInterval: every list, and the DLQ entries.
Polled == {k \in Keys : k[2] = None \/ k[1] = "dlqEntries"}

\* The early return with skeletons: the overview waits for all its lists, the
\* other pages for their own.
Waits(p) ==
  CASE p = "overview"   -> OverviewQueries
    [] p = "topics"     -> {List("topics")}
    [] p = "consumers"  -> {List("consumers")}
    [] p = "cluster"    -> {List("cluster")}
    [] p = "schemas"    -> {List("schemaSubjects")}
    [] p = "dlq"        -> {List("dlqTopics")}
    [] p = "wasm"       -> {List("wasmModules")}
    [] p = "processors" -> {List("processors")}
    [] OTHER            -> {}

\* The page p is on the screen, with its content.
On(p) ==
  /\ path = p
  /\ ~crashed
  /\ \A k \in Waits(p) : ~isLoading(cache, k)

\* ... and its buttons can be clicked.
Free(p) == On(p) /\ ~Modal(p, ui)

\* The topic dialog renders topicDetail.partitions as a number; the broker
\* sends an array of objects, which React refuses.
Throws(p, u, c) ==
  /\ deployed
  /\ p = "topics"
  /\ u.sel # None
  /\ Data(c, <<"topicDetail", u.sel>>) # None

(***************************************************************************)
(* Mutations                                                               *)
(***************************************************************************)
DeleteOps == {"deleteTopic", "deleteSchema", "deleteWASMModule", "deleteProcessor"}
DLQOps == {"replayDLQ", "clearDLQ"}
StartStop == {"startProcessor", "stopProcessor"}
Creates == {"createTopic", "registerSchema"}
Ops == DeleteOps \cup DLQOps \cup StartStop \cup Creates

\* The list a mutation changes, and the resource behind it.
Changes ==
  [op \in Ops |->
     CASE op \in {"createTopic", "deleteTopic"}      -> List("topics")
       [] op \in {"registerSchema", "deleteSchema"}  -> List("schemaSubjects")
       [] op \in DLQOps                              -> List("dlqTopics")
       [] op = "deleteWASMModule"                    -> List("wasmModules")
       [] op \in StartStop \cup {"deleteProcessor"}  -> List("processors")]

\* op; asked: the name its dialog, form or button showed; opt: the replay
\* options; arg: the value of its closure once it is no longer replaced;
\* sent: the name in the request; st: its way; cur: current mutation of its
\* observer; live: its page is mounted; waited: it had to wait for the
\* network; by: token it was sent with; at: version it made; told: the name
\* in the success message; shown: its list was on display with data then.
Mutation ==
  [op : Ops, asked : Names \cup {None}, opt : {None, "replay", "preview"},
   arg : Names \cup {None}, sent : Names \cup {None},
   st : {"paused", "sent", "applied", "refused", "ok", "error", "orphan", "gone"},
   cur : BOOLEAN, live : BOOLEAN, waited : BOOLEAN, by : Tokens \cup {None},
   at : Nat, told : Names \cup {None}, shown : BOOLEAN]

Pending == {"paused", "sent", "applied", "refused"}

\* What the closures of an operation read from the page: its mutationFn, and
\* for registerSchema, which takes its name from the form, its onSuccess.
Closure(op, u) ==
  CASE op \in DeleteOps       -> u.target
    [] op \in DLQOps          -> u.sel
    [] op = "registerSchema"  -> u.typed
    [] OTHER                  -> None

Captured(m) == IF m.cur THEN Closure(m.op, ui) ELSE m.arg

\* mutationFn: the name that is put into the request.  Creations and the
\* start and stop buttons pass it as a variable of the mutation.
mutationFn(m) == IF m.op \in DeleteOps \cup DLQOps THEN Captured(m) ELSE m.asked

\* The closures of the mutation are no longer replaced.
Freeze(m) == IF m.cur THEN [m EXCEPT !.arg = Captured(m), !.cur = FALSE] ELSE m

\* The page is unmounted, and the observers of its mutations with it.
Unmounted(ms) == [i \in DOMAIN ms |-> [Freeze(ms[i]) EXCEPT !.live = FALSE]]

isPending(op) == \E i \in DOMAIN muts : muts[i].op = op /\ muts[i].cur

\* mutate of useMutation: the observer's current mutation is replaced; with a
\* network the request goes out before the next render.
Mutate(op, name) ==
  Append([i \in DOMAIN muts |-> IF muts[i].op = op THEN Freeze(muts[i]) ELSE muts[i]],
         [op |-> op, asked |-> name,
          opt |-> IF op = "replayDLQ" THEN ui.typed ELSE None,
          arg |-> None, sent |-> IF Online THEN name ELSE None,
          st |-> IF Online THEN "sent" ELSE "paused",
          cur |-> TRUE, live |-> TRUE, waited |-> ~Online,
          by |-> IF Online THEN setAuthHeader ELSE None,
          at |-> 0, told |-> None, shown |-> FALSE])

(***************************************************************************)
(* OverviewPage: the effect that collects the points of the chart          *)
(***************************************************************************)
Count(c, k) == IF Data(c, k) = None THEN None ELSE Cardinality(c[k].data.names)

\* The dependencies of the effect: topics?.length and consumers?.count.
ChartDeps(c) == <<Count(c, List("topics")), Count(c, List("consumers"))>>

\* Mutant: the effect depends on the topics only.
ChartRuns_TopicsOnly == ChartDeps(cache)[1] # ChartDeps(cache')[1]

ChartRuns == ChartDeps(cache) # ChartDeps(cache')

\* Runs after a render; chartData is lost with the page.
ChartEffect ==
  LET now  == ChartDeps(cache')
      kept == IF path = "overview" /\ ~crashed THEN chart ELSE <<>>
      next == Append(kept, now)
      lost == path' # "overview" \/ crashed' \/ now[1] = None \/ now[2] = None
  IN  chart' =
        CASE lost -> <<>>
          [] ~lost /\ kept # <<>> /\ ~ChartRuns -> kept
          [] OTHER -> IF Len(next) > ChartLength THEN Tail(next) ELSE next

(***************************************************************************)
(* Rendering                                                               *)
(***************************************************************************)
\* The tree shows page p in state u over cache c with mutations ms: its
\* observers are attached, and if it throws the ErrorBoundary replaces it.
Render(p, u, c, ms) ==
  LET seen == Observe(c, Observed, IF crashed THEN {} ELSE Queries(p, u))
      bad  == ~crashed /\ Throws(p, u, seen)
  IN  /\ path' = p
      /\ crashed' = (crashed \/ bad)
      /\ cache' = seen
      /\ ui' = IF bad THEN NewPage(p) ELSE u
      /\ muts' = IF bad THEN Unmounted(ms) ELSE ms
      /\ ChartEffect

\* A click that only changes the page's state, and one that starts op.
Click(u) ==
  /\ Render(path, u, cache, muts)
  /\ UNCHANGED <<sessionVars, srv, online, deployed, left>>

\* A click that selects name n: setDetailTopic and the like.
Select(n, u) ==
  /\ left.views > 0
  /\ left' = [left EXCEPT !.views = @ - 1]
  /\ Render(path, [u EXCEPT !.sel = n], cache, muts)
  /\ UNCHANGED <<sessionVars, srv, online, deployed>>

Launch(op, name, u) ==
  /\ left.muts > 0
  /\ left' = [left EXCEPT !.muts = @ - 1]
  /\ Render(path, u, cache, Mutate(op, name))
  /\ UNCHANGED <<sessionVars, srv, online, deployed>>

(***************************************************************************)
(* TopicsPage                                                              *)
(***************************************************************************)
\* The rows of the table; search and mode filter only hide some of them.
TopicsTable ==
  /\ Free("topics")
  /\ \/ \E n \in Rows(List("topics")) :
          \/ Select(n, ui)
          \/ Click([ui EXCEPT !.target = n])
     \/ \* the button of the empty table opens the form as it was left
        /\ Data(cache, List("topics")) # None
        /\ Rows(List("topics")) = {}
        /\ Click([ui EXCEPT !.open = TRUE])

TopicsCreateDialog ==
  \/ /\ Free("topics")
     /\ Click([ui EXCEPT !.open = TRUE, !.typed = None])
  \/ /\ On("topics")
     /\ ui.open
     /\ \/ \E n \in Names \ {ui.typed} : Click([ui EXCEPT !.typed = n])
        \/ Click([ui EXCEPT !.open = FALSE])
        \/ /\ ui.typed # None
           /\ ~isPending("createTopic")
           /\ Launch("createTopic", ui.typed, ui)

TopicsDetailDialog ==
  /\ On("topics")
  /\ ui.sel # None
  /\ Click([ui EXCEPT !.sel = None])

\* The action button runs its onClick and then closes the dialog.
DeleteDialog(p, op) ==
  /\ On(p)
  /\ ui.target # None
  /\ \/ Click([ui EXCEPT !.target = None])
     \/ Launch(op, ui.target, [ui EXCEPT !.target = None])

TopicsDeleteDialog == DeleteDialog("topics", "deleteTopic")

(***************************************************************************)
(* SchemasPage                                                             *)
(***************************************************************************)
SchemasTable ==
  /\ Free("schemas")
  /\ \/ \E n \in Rows(List("schemaSubjects")) :
          \/ ui.sel # n /\ Select(n, ui)
          \/ Click([ui EXCEPT !.target = n])
     \/ /\ Rows(List("schemaSubjects")) = {}
        /\ Click([ui EXCEPT !.open = TRUE])

SchemasRegisterDialog ==
  \/ /\ Free("schemas")
     /\ Click([ui EXCEPT !.open = TRUE, !.typed = None])
  \/ /\ On("schemas")
     /\ ui.open
     /\ \/ \E n \in Names \ {ui.typed} : Click([ui EXCEPT !.typed = n])
        \/ Click([ui EXCEPT !.open = FALSE])
        \/ /\ ui.typed # None
           /\ ~isPending("registerSchema")
           /\ Launch("registerSchema", ui.typed, ui)

SchemasDeleteDialog == DeleteDialog("schemas", "deleteSchema")

(***************************************************************************)
(* DLQPage                                                                 *)
(***************************************************************************)
\* Inspect toggles; Replay and Clear select the topic and open their dialog,
\* and setReplayOpen(true) does not run the reset of onOpenChange.
DLQTable ==
  /\ Free("dlq")
  /\ \E n \in Rows(List("dlqTopics")) :
       \/ Select(IF ui.sel = n THEN None ELSE n, ui)
       \/ Select(n, [ui EXCEPT !.open = TRUE])
       \/ Select(n, [ui EXCEPT !.clear = TRUE])

DLQEntries ==
  \/ /\ Free("dlq")
     /\ ui.sel # None
     /\ Rows(<<"dlqEntries", ui.sel>>) # {}
     /\ Click([ui EXCEPT !.view = TRUE])
  \/ /\ On("dlq")
     /\ ui.view
     /\ Click([ui EXCEPT !.view = FALSE])

DLQReplayDialog ==
  /\ On("dlq")
  /\ ui.open
  /\ \/ Click([ui EXCEPT !.typed = IF @ = "replay" THEN "preview" ELSE "replay"])
     \/ Click([ui EXCEPT !.open = FALSE])
     \/ /\ ~isPending("replayDLQ")
        /\ Launch("replayDLQ", ui.sel, ui)

DLQClearDialog ==
  /\ On("dlq")
  /\ ui.clear
  /\ \/ Click([ui EXCEPT !.clear = FALSE])
     \/ Launch("clearDLQ", ui.sel, [ui EXCEPT !.clear = FALSE])

(***************************************************************************)
(* WASMPage, ProcessorsPage, ConsumersPage                                 *)
(***************************************************************************)
WASMTable ==
  /\ Free("wasm")
  /\ \E n \in Rows(List("wasmModules")) : Click([ui EXCEPT !.target = n])

WASMDeleteDialog == DeleteDialog("wasm", "deleteWASMModule")

ProcessorsTable ==
  /\ Free("processors")
  /\ \E n \in Rows(List("processors")) :
       \/ ui.sel # n /\ Select(n, ui)
       \/ Click([ui EXCEPT !.target = n])
       \/ Launch("startProcessor", n, ui)
       \/ Launch("stopProcessor", n, ui)

ProcessorsDeleteDialog == DeleteDialog("processors", "deleteProcessor")

ConsumersTable ==
  /\ Free("consumers")
  /\ \E n \in Rows(List("consumers")) : Select(n, ui)

ConsumersDetailDialog ==
  /\ On("consumers")
  /\ ui.sel # None
  /\ Click([ui EXCEPT !.sel = None])

(***************************************************************************)
(* How mutations go on                                                     *)
(***************************************************************************)
\* The broker's part: does it accept the request, and what remains.
Accepts(m) ==
  LET ns == srv[Resource(Changes[m.op])].names
  IN  /\ m.by \in valid
      /\ CASE m.op = "createTopic"    -> m.sent \in Names \ ns
           [] m.op = "registerSchema" -> m.sent \in Names
           [] OTHER                   -> m.sent \in ns

NamesAfter(m, ns) ==
  CASE m.op \in Creates   -> ns \cup {m.sent}
    [] m.op \in DeleteOps -> ns \ {m.sent}
    [] OTHER              -> ns

ServerActs(i) ==
  LET m == muts[i]
      r == Resource(Changes[m.op])
      over == IF m.st = "orphan" THEN "gone" ELSE "applied"
  IN  /\ m.st \in {"sent", "orphan"}
      /\ IF Accepts(m) /\ m.opt # "preview"
         THEN /\ srv[r].ver < MaxVersion
              /\ Edited(r, NamesAfter(m, srv[r].names))
              /\ muts' = [muts EXCEPT ![i].st = over, ![i].at = srv[r].ver + 1]
         ELSE /\ UNCHANGED srv
              /\ muts' = [muts EXCEPT ![i].st = IF Accepts(m) \/ m.st = "orphan"
                                              THEN over ELSE "refused",
                                     ![i].at = srv[r].ver]
      /\ UNCHANGED <<sessionVars, cache, online, deployed, path, crashed, ui, chart, left>>

\* The request does not arrive, or its answer does not.
RequestLost(i) ==
  /\ left.fails > 0
  /\ muts[i].st \in {"sent", "applied"}
  /\ muts' = [muts EXCEPT ![i].st = "refused"]
  /\ left' = [left EXCEPT !.fails = @ - 1]
  /\ UNCHANGED <<sessionVars, queryVars, path, crashed, ui, chart>>

\* onSuccess of the pages: the name in the message, the state afterwards
\* and the query that is invalidated.
Outcome(told, u, k) == [told |-> told, ui |-> u, key |-> k]

\* Mutant: another query key is invalidated.
TopicsSuccess_WrongKey(m) ==
  IF m.op = "createTopic"
  THEN Outcome(m.asked, [ui EXCEPT !.open = FALSE, !.typed = None], List("cluster"))
  ELSE Outcome(Captured(m), [ui EXCEPT !.target = None], List("cluster"))

\* Mutant: the message reads the form, as that of registerSchema does.
TopicsSuccess_FormName(m) ==
  IF m.op = "createTopic"
  THEN Outcome(ui.typed, [ui EXCEPT !.open = FALSE, !.typed = None], List("topics"))
  ELSE Outcome(Captured(m), [ui EXCEPT !.target = None], List("topics"))

TopicsSuccess(m) ==
  IF m.op = "createTopic"
  THEN Outcome(m.asked, [ui EXCEPT !.open = FALSE, !.typed = None], List("topics"))
  ELSE Outcome(Captured(m), [ui EXCEPT !.target = None], List("topics"))

SchemasSuccess(m) ==
  IF m.op = "registerSchema"
  THEN Outcome(Captured(m), [ui EXCEPT !.open = FALSE, !.typed = None],
               List("schemaSubjects"))
  ELSE Outcome(Captured(m), [ui EXCEPT !.target = None, !.sel = None],
               List("schemaSubjects"))

DLQSuccess(m) ==
  IF m.op = "replayDLQ"
  THEN Outcome(IF m.opt = "preview" THEN None ELSE Captured(m),
               [ui EXCEPT !.open = FALSE, !.typed = Blank("dlq")],
               <<"dlqEntries", Captured(m)>>)
  ELSE Outcome(Captured(m), [ui EXCEPT !.clear = FALSE, !.sel = None],
               List("dlqTopics"))

WASMSuccess(m) ==
  Outcome(Captured(m), [ui EXCEPT !.target = None], List("wasmModules"))

ProcessorsSuccess(m) ==
  IF m.op \in StartStop
  THEN Outcome(m.asked, ui, List("processors"))
  ELSE Outcome(Captured(m), [ui EXCEPT !.target = None], List("processors"))

onSuccess(m) ==
  CASE m.op \in {"createTopic", "deleteTopic"}     -> TopicsSuccess(m)
    [] m.op \in {"registerSchema", "deleteSchema"} -> SchemasSuccess(m)
    [] m.op \in DLQOps                             -> DLQSuccess(m)
    [] m.op = "deleteWASMModule"                   -> WASMSuccess(m)
    [] OTHER                                       -> ProcessorsSuccess(m)

\* request reads a JSON body; these answers of the broker have none (204).
NoBody(m) ==
  deployed /\ m.op \in {"deleteSchema", "deleteWASMModule", "deleteProcessor"}

\* Nothing depends on the page any more.
Closed(m) == [m EXCEPT !.cur = FALSE, !.live = FALSE, !.arg = None]

\* The answer arrives and the callbacks run; onError only shows a message.
\* The state of a page that is gone is not set.
Settle(i) ==
  LET m == muts[i]
      o == onSuccess(m)
      k == Changes[m.op]
  IN  /\ m.st \in {"applied", "refused"}
      /\ IF m.st = "applied" /\ ~NoBody(m)
         THEN Render(path, IF m.live THEN o.ui ELSE ui,
                     invalidateQueries(cache, o.key, Observed),
                     [muts EXCEPT ![i] = [Closed(m) EXCEPT !.st = "ok",
                                                           !.told = o.told,
                        !.shown = k \in Observed /\ Data(cache, k) # None]])
         ELSE Render(path, ui, cache,
                     [muts EXCEPT ![i] = [Closed(m) EXCEPT !.st = "error"]])
      /\ UNCHANGED <<sessionVars, srv, online, deployed, left>>

(***************************************************************************)
(* Steps of the queries, with the page they show through                   *)
(***************************************************************************)
Deliver(k) ==
  /\ cache[k].fetch = "answered"
  /\ Render(path, ui, [cache EXCEPT ![k] = Settled(k, @, Observed)], muts)
  /\ UNCHANGED <<sessionVars, srv, online, deployed, left>>

QueryStep(k) ==
  \/ /\ \/ Resource(k) \notin left.slow /\ ServerReads(k)
        \/ Retry(k)
        \/ k \in Observed \cap Polled /\ Poll(k)
     /\ UNCHANGED <<sessionVars, pageVars, left>>
  \/ Deliver(k)

Idle(k) ==
  /\ k \notin Observed
  /\ GoStale(k) \/ Collect(k)
  /\ UNCHANGED <<sessionVars, pageVars, left>>

LoseAnswer(k) ==
  /\ left.fails > 0
  /\ ReadFails(k)
  /\ left' = [left EXCEPT !.fails = @ - 1]
  /\ UNCHANGED <<sessionVars, pageVars>>

(***************************************************************************)
(* Network                                                                 *)
(***************************************************************************)
GoOffline ==
  /\ left.offs > 0
  /\ online = "yes"
  /\ online' = "no"
  /\ left' = [left EXCEPT !.offs = @ - 1]
  /\ UNCHANGED <<sessionVars, srv, cache, deployed, pageVars>>

\* resumePausedMutations: the function a mutation is resumed with is that of
\* the latest render.  The queries follow when these mutations are through.
GoOnline ==
  /\ online = "no"
  /\ online' = "resuming"
  /\ muts' = [i \in DOMAIN muts |->
       IF muts[i].st # "paused" THEN muts[i]
       ELSE [muts[i] EXCEPT !.st = "sent", !.sent = mutationFn(muts[i]),
                            !.by = setAuthHeader]]
  /\ UNCHANGED <<sessionVars, srv, cache, deployed, path, crashed, ui, chart, left>>

Resume ==
  /\ \A i \in DOMAIN muts : ~(muts[i].waited /\ muts[i].st \in Pending)
  /\ ResumeQueries(Observed)
  /\ UNCHANGED <<sessionVars, pageVars, left>>

(***************************************************************************)
(* Routes, AuthGuard, login and logout, error boundary, reload             *)
(***************************************************************************)
\* AuthGuard sends everybody who is not signed in to /login.
AuthGuard(p, t) == IF t = None THEN "login" ELSE p

\* A page is unmounted and page p mounted: its queries are observed afresh.
Mount(p) ==
  /\ path' = p
  /\ ui' = NewPage(p)
  /\ muts' = Unmounted(muts)
  /\ cache' = Observe(cache, {}, IF crashed' THEN {} ELSE Queries(p, NewPage(p)))
  /\ ChartEffect

\* A link of the sidebar or the browser's history, which no dialog blocks.
Navigate(p) ==
  /\ left.moves > 0
  /\ p # path
  /\ left' = [left EXCEPT !.moves = @ - 1]
  /\ UNCHANGED crashed
  /\ Mount(AuthGuard(p, store))
  /\ LeaveLogin(checks)
  /\ UNCHANGED <<store, stored, valid, accepted, srv, online, deployed>>

\* LogoutButton of the sidebar.
Logout ==
  /\ path \in Pages
  /\ ~crashed
  /\ ~Modal(path, ui)
  /\ left.moves > 0
  /\ left' = [left EXCEPT !.moves = @ - 1]
  /\ storeLogout
  /\ UNCHANGED crashed
  /\ Mount("login")
  /\ LeaveLogin(checks)
  /\ UNCHANGED <<valid, accepted, srv, online, deployed>>

\* "Try again" of the ErrorBoundary mounts the routes again.
TryAgain ==
  /\ crashed
  /\ crashed' = FALSE
  /\ Mount(path)
  /\ UNCHANGED <<sessionVars, srv, online, deployed, left>>

\* The user reloads: a new store, an empty cache, no callbacks.  Requests on
\* their way still reach the broker.
Reload ==
  LET p == AuthGuard(path, loadStored)
      end == [paused |-> "gone", sent |-> "orphan", applied |-> "gone",
              refused |-> "gone"]
  IN  /\ left.moves > 0
      /\ online = "yes"
      /\ left' = [left EXCEPT !.moves = @ - 1]
      /\ store' = loadStored
      /\ login' = NewLogin
      /\ checks' = {}
      /\ crashed' = FALSE
      /\ path' = p
      /\ ui' = NewPage(p)
      /\ muts' = [i \in DOMAIN muts |->
           IF muts[i].st \in Pending
           THEN [Closed(muts[i]) EXCEPT !.st = end[@]]
           ELSE muts[i]]
      /\ cache' = Observe(<<>>, {}, Queries(p, NewPage(p)))
      /\ ChartEffect
      /\ UNCHANGED <<stored, valid, accepted, srv, online, deployed>>

\* LoginPage
LoginForm ==
  /\ path = "login"
  /\ ~crashed
  /\ \/ \E t \in Tokens : TypeToken(t) /\ UNCHANGED left
     \/ /\ left.checks > 0
        /\ left' = [left EXCEPT !.checks = @ - 1]
        /\ Submit
  /\ UNCHANGED <<queryVars, pageVars>>

LoginCheck(c) ==
  \/ /\ Verify(c)
     /\ UNCHANGED <<queryVars, pageVars, left>>
  \/ /\ c.res = "refused"
     /\ Rejected(c)
     /\ UNCHANGED <<queryVars, pageVars, left>>
  \/ /\ c.res = "sent"
     /\ left.fails > 0
     /\ left' = [left EXCEPT !.fails = @ - 1]
     /\ Rejected(c)
     /\ UNCHANGED <<queryVars, pageVars>>
  \/ /\ Admitted(c)
     /\ UNCHANGED <<crashed, srv, online, deployed, left>>
     /\ IF path = "overview" THEN UNCHANGED <<path, ui, muts, cache, chart>>
        ELSE Mount("overview")

\* The broker's side: another client changes a resource, or an administrator
\* revokes a token.
OtherClient ==
  \/ \E r \in left.editable, n \in Names :
       /\ left.edits > 0
       /\ srv[r].ver < MaxVersion
       /\ left' = [left EXCEPT !.edits = @ - 1]
       /\ Edited(r, IF n \in srv[r].names THEN srv[r].names \ {n}
                                          ELSE srv[r].names \cup {n})
       /\ UNCHANGED <<sessionVars, cache, online, deployed, pageVars>>
  \/ \E t \in valid :
       /\ left.revokes > 0
       /\ left' = [left EXCEPT !.revokes = @ - 1]
       /\ Revoke(t)
       /\ UNCHANGED <<queryVars, pageVars>>

(***************************************************************************)
(* Specification                                                           *)
(***************************************************************************)
Init ==
  \E s \in Scopes :
    /\ left = s
    /\ path = s.start
    /\ crashed = FALSE
    /\ SessionInit(s.token)
    /\ srv = [r \in Resources |-> [ver |-> 1, names |-> s.names]]
    /\ deployed = s.deployed
    /\ online = "yes"
    /\ ui = NewPage(s.start)
    /\ cache = [k \in Queries(s.start, NewPage(s.start)) |->
                 [NewQuery EXCEPT !.fetch = "sent", !.by = s.token]]
    /\ muts = <<>>
    /\ chart = <<>>

PageStep ==
  \/ TopicsTable \/ TopicsCreateDialog \/ TopicsDetailDialog \/ TopicsDeleteDialog
  \/ SchemasTable \/ SchemasRegisterDialog \/ SchemasDeleteDialog
  \/ DLQTable \/ DLQEntries \/ DLQReplayDialog \/ DLQClearDialog
  \/ WASMTable \/ WASMDeleteDialog
  \/ ProcessorsTable \/ ProcessorsDeleteDialog
  \/ ConsumersTable \/ ConsumersDetailDialog

Next ==
  \/ PageStep
  \/ \E i \in DOMAIN muts : ServerActs(i) \/ RequestLost(i) \/ Settle(i)
  \/ \E k \in DOMAIN cache : QueryStep(k) \/ LoseAnswer(k) \/ Idle(k)
  \/ GoOffline \/ GoOnline \/ Resume
  \/ \E p \in left.pages \cup {"login"} : Navigate(p)
  \/ Logout \/ TryAgain \/ Reload
  \/ LoginForm
  \/ \E c \in checks : LoginCheck(c)
  \/ OtherClient

\* Timers fire, and the broker answers what reaches it.
Fairness ==
  /\ \A k \in {j \in Keys : j[2] = None} :
       WF_vars(k \in DOMAIN cache /\ QueryStep(k))
  /\ WF_vars(\E i \in DOMAIN muts : ServerActs(i) \/ Settle(i))
  /\ WF_vars(Resume)

Spec == Init /\ [][Next]_vars /\ Fairness

(***************************************************************************)
(* Properties                                                              *)
(***************************************************************************)
\* Every variable has the values of its type.
ConsoleTypeOK ==
  /\ SessionTypeOK
  /\ srv \in [Resources -> [ver : 0..MaxVersion, names : SUBSET Names]]
  /\ DOMAIN cache \subseteq Keys
  /\ \A k \in DOMAIN cache : cache[k] \in Query
  /\ online \in {"yes", "no", "resuming"}
  /\ path \in Pages \cup {"login"}
  /\ \A i \in DOMAIN muts : muts[i] \in Mutation
  /\ Len(chart) <= ChartLength

\* What the confirmation dialogs say, "Are you sure you want to delete
\* "{deleteTarget}"?": nothing is deleted, cleared or replayed but what the
\* user was asked about, also when the request had to wait for the network.
OnlyConfirmed ==
  \A i \in DOMAIN muts :
    muts[i].sent # None => muts[i].sent = muts[i].asked

\* After a success message (onSuccess with invalidateQueries) the list of the
\* page, if it was on display, is not taken for up to date while it is older
\* than what the message reports, whatever polls were in flight.  The lists
\* whose query functions swallow errors are exempt.
FreshAfterSuccess ==
  \A i \in DOMAIN muts :
    LET m == muts[i]
        k == Changes[m.op]
    IN  m.st = "ok" /\ m.shown /\ ~Swallows(k)
          => \/ k \notin DOMAIN cache
             \/ cache[k].data = None
             \/ cache[k].old
             \/ cache[k].data.ver >= m.at

\* The messages of createTopic, startProcessor and stopProcessor name what
\* the broker has really done.
ToldTrue ==
  \A i \in DOMAIN muts :
    LET m == muts[i]
    IN  m.told # None /\ m.op \in StartStop \cup {"createTopic"}
          => m.told = m.sent /\ m.at > 1

\* The last point of the overview's chart shows the counts of the cards
\* above it.
ChartCurrent ==
  path = "overview" /\ chart # <<>> => chart[Len(chart)] = ChartDeps(cache)

\* A page behind AuthGuard is shown only to somebody whose token the broker
\* has accepted, and a reload would find the same token in sessionStorage.
SignedIn ==
  /\ path # "login" => store # None
  /\ store # None => store \in accepted
  /\ loadStored = store

\* The lists and details whose query functions let errors through.
Reported == {k \in Keys : ~Swallows(k)}

View == INSTANCE ListView WITH
  Lists   <- Reported,
  current <- [k \in Reported |-> srv[Resource(k)].ver],
  shown   <- [k \in Reported |-> IF Data(cache, k) = None THEN None
                                 ELSE cache[k].data.ver]

\* A list or a detail never goes back to an earlier version, in spite of
\* polls, retries, invalidations, remounts and failures (useQuery of the
\* pages): together they implement ListView.
NeverOlder == View!Spec

\* Somebody signed in looks at a page, with a network and a broker that answers.
Steady ==
  /\ path \in Pages
  /\ ~crashed /\ ~deployed
  /\ store \in valid
  /\ online # "no"
  /\ left.slow = {}

ShowsCurrent ==
  \A k \in Waits(path) : Data(cache, k) = srv[Resource(k)]

\* A page that stays on the screen like that ends up showing its lists as they
\* are (refetchInterval of its queries).
Converges == <>[]Steady => <>[]ShowsCurrent
=============================================================================
