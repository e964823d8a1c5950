--------------------------- MODULE ConsoleProofs ---------------------------
(***************************************************************************)
(* The web console, for any tokens and names, any number of mutations,     *)
(* polls, failures, other clients and sign-ins.                            *)
(***************************************************************************)
EXTENDS Console, TLAPS

\* What a click on a page can do: it shows the page in some state u, with perhaps
\* one more mutation.
PageClick ==
  /\ \E u, ms : /\ ms = muts \/ \E op \in Ops : \E name : ms = Mutate(op, name)
                /\ Render(path, u, cache, ms)
  /\ UNCHANGED <<sessionVars, srv, online, deployed>>

LEMMA ClickIs == ASSUME NEW u, Click(u) PROVE PageClick
BY DEF Click, PageClick

LEMMA SelectIs == ASSUME NEW n, NEW u, Select(n, u) PROVE PageClick
BY DEF Select, PageClick

LEMMA LaunchIs == ASSUME NEW op \in Ops, NEW name, NEW u, Launch(op, name, u) PROVE PageClick
BY DEF Launch, PageClick

LEMMA DeleteIs == ASSUME NEW p, NEW op \in DeleteOps, DeleteDialog(p, op) PROVE PageClick
BY ClickIs, LaunchIs DEF DeleteDialog, Ops

LEMMA PageStepIs == PageStep => PageClick
<1>1. TopicsTable => PageClick
  BY ClickIs, SelectIs DEF TopicsTable
<1>2. TopicsCreateDialog => PageClick
  BY ClickIs, LaunchIs DEF TopicsCreateDialog, Ops, Creates
<1>3. TopicsDetailDialog => PageClick
  BY ClickIs DEF TopicsDetailDialog
<1>4. TopicsDeleteDialog \/ SchemasDeleteDialog \/ WASMDeleteDialog \/ ProcessorsDeleteDialog
        => PageClick
  BY DeleteIs DEF TopicsDeleteDialog, SchemasDeleteDialog, WASMDeleteDialog,
     ProcessorsDeleteDialog, DeleteOps
<1>5. SchemasTable => PageClick
  BY ClickIs, SelectIs DEF SchemasTable
<1>6. SchemasRegisterDialog => PageClick
  BY ClickIs, LaunchIs DEF SchemasRegisterDialog, Ops, Creates
<1>7. DLQTable => PageClick
  BY SelectIs DEF DLQTable
<1>8. DLQEntries => PageClick
  BY ClickIs DEF DLQEntries
<1>9. DLQReplayDialog => PageClick
  BY ClickIs, LaunchIs DEF DLQReplayDialog, Ops, DLQOps
<1>10. DLQClearDialog => PageClick
  BY ClickIs, LaunchIs DEF DLQClearDialog, Ops, DLQOps
<1>11. WASMTable => PageClick
  BY ClickIs DEF WASMTable
<1>12. ProcessorsTable => PageClick
  BY ClickIs, SelectIs, LaunchIs DEF ProcessorsTable, Ops, StartStop
<1>13. ConsumersTable => PageClick
  BY SelectIs DEF ConsumersTable
<1>14. ConsumersDetailDialog => PageClick
  BY ClickIs DEF ConsumersDetailDialog
<1> QED
  BY <1>1, <1>2, <1>3, <1>4, <1>5, <1>6, <1>7, <1>8, <1>9, <1>10, <1>11, <1>12, <1>13, <1>14
     DEF PageStep

-----------------------------------------------------------------------------
\* Who is signed in.  A check that came back ok is about an accepted token, whether
\* or not its LoginPage is still there: its answer signs in.
SessionInv ==
  /\ SessionTypeOK
  /\ SignedIn
  /\ \A c \in checks : c.res = "ok" => c.token \in accepted

\* The steps that neither sign in or out nor check a token, and stay on the page.
LEMMA SessionStays ==
  SessionInv /\ UNCHANGED <<sessionVars, path>> => SessionInv'
BY DEF SessionInv, SessionTypeOK, SignedIn, loadStored, sessionVars

LEMMA CheckIs ==
  ASSUME NEW c \in Check
  PROVE  /\ c.token \in Tokens /\ c.token # None
         /\ \A b \in BOOLEAN : /\ [c EXCEPT !.live = b] \in Check
                               /\ [c EXCEPT !.live = b].token = c.token
                               /\ [c EXCEPT !.live = b].res = c.res
         /\ \A r \in {"ok", "refused"} : /\ [c EXCEPT !.res = r] \in Check
                                         /\ [c EXCEPT !.res = r].token = c.token
                                         /\ [c EXCEPT !.res = r].res = r
BY NoneIsNoToken DEF Check

\* Checks left behind are the same checks.
LEMMA OrphanedChecks ==
  ASSUME NEW cs, cs \subseteq Check, NEW A, \A c \in cs : c.res = "ok" => c.token \in A
  PROVE  Orphaned(cs) \subseteq Check /\ \A c \in Orphaned(cs) : c.res = "ok" => c.token \in A
<1> SUFFICES ASSUME NEW d \in Orphaned(cs)
             PROVE  d \in Check /\ (d.res = "ok" => d.token \in A)
  OBVIOUS
<1>1. PICK c \in cs : d = [c EXCEPT !.live = FALSE]
  BY DEF Orphaned
<1> QED
  BY <1>1, CheckIs

LEMMA NewLoginIs == NewLogin \in [token : Tokens \cup {None}, error : BOOLEAN, loading : BOOLEAN]
BY DEF NewLogin

LEMMA SessionStart == Init => SessionInv
<1> SUFFICES ASSUME NEW s \in Scopes, path = s.start, SessionInit(s.token)
             PROVE  SessionInv
  BY DEF Init
<1>1. s.token \in Tokens \cup {None} /\ (s.token = None => s.start = "login")
  BY ConsoleAssumption
<1> QED
  BY <1>1, NewLoginIs DEF SessionInit, SessionInv, SessionTypeOK, SignedIn, loadStored

\* The steps of LoginPage up to the answer.
LEMMA SessionLoginForm == SessionInv /\ LoginForm => SessionInv'
<1> SUFFICES ASSUME SessionInv, LoginForm PROVE SessionInv'
  OBVIOUS
<1>1. UNCHANGED <<path, store, stored, valid, accepted>>
  BY DEF LoginForm, pageVars, TypeToken, Submit
<1>2. ASSUME NEW t \in Tokens, TypeToken(t)
      PROVE  SessionInv'
  BY <1>1, <1>2 DEF TypeToken, SessionInv, SessionTypeOK, SignedIn, loadStored
<1>3. CASE Submit
  <2>1. /\ login.token \in Tokens /\ login' = [login EXCEPT !.error = FALSE, !.loading = TRUE]
        /\ checks' = checks \cup {[token |-> login.token, res |-> "sent", live |-> TRUE]}
    BY <1>3 DEF Submit, SessionInv, SessionTypeOK
  <2>2. checks' \subseteq Check
    <3>1. [token |-> login.token, res |-> "sent", live |-> TRUE] \in Check
      BY <2>1 DEF Check
    <3>2. checks \subseteq Check
      BY DEF SessionInv, SessionTypeOK
    <3> QED
      BY <2>1, <3>1, <3>2
  <2>3. login' \in [token : Tokens \cup {None}, error : BOOLEAN, loading : BOOLEAN]
    BY <2>1 DEF SessionInv, SessionTypeOK
  <2>4. \A c \in checks' : c.res = "ok" => c.token \in accepted
    BY <2>1 DEF SessionInv
  <2> QED
    BY <1>1, <2>2, <2>3, <2>4 DEF SessionInv, SessionTypeOK, SignedIn, loadStored
<1> QED
  BY <1>2, <1>3 DEF LoginForm

\* The broker's answer to a check, and what handleSubmit makes of it.
LEMMA SessionLoginCheck ==
  ASSUME SessionInv, NEW c \in checks, LoginCheck(c)
  PROVE  SessionInv'
<1>1. c \in Check /\ checks \subseteq Check
  BY DEF SessionInv, SessionTypeOK
<1>2. CASE Verify(c) /\ UNCHANGED pageVars
  <2> DEFINE r == IF c.token \in valid THEN "ok" ELSE "refused"
             d == [c EXCEPT !.res = r]
  <2>1. /\ checks' = (checks \ {c}) \cup {d}
        /\ accepted' = accepted \cup ({c.token} \cap valid)
        /\ UNCHANGED <<store, stored, login, valid, path>>
    BY <1>2 DEF Verify, pageVars
  <2>2. d \in Check /\ d.token = c.token /\ d.res = r
    BY <1>1, CheckIs
  <2>3. d.res = "ok" => d.token \in accepted'
    BY <2>1, <2>2
  <2> HIDE DEF d
  <2>4. checks' \subseteq Check /\ \A e \in checks' : e.res = "ok" => e.token \in accepted'
    BY <1>1, <2>1, <2>2, <2>3 DEF SessionInv
  <2> QED
    BY <2>1, <2>4 DEF SessionInv, SessionTypeOK, SignedIn, loadStored
<1>3. CASE Rejected(c) /\ UNCHANGED pageVars
  <2>1. login' \in [token : Tokens \cup {None}, error : BOOLEAN, loading : BOOLEAN]
    BY <1>3 DEF Rejected, SessionInv, SessionTypeOK
  <2> QED
    BY <1>3, <2>1 DEF Rejected, pageVars, SessionInv, SessionTypeOK, SignedIn, loadStored
<1>4. CASE Admitted(c) /\ path' = "overview"
  <2>1. c.token \in accepted /\ c.token \in Tokens /\ c.token # None
    BY <1>1, <1>4, CheckIs DEF Admitted, SessionInv
  <2>2. /\ store' = c.token /\ stored' = c.token /\ login' = NewLogin
        /\ checks' = Orphaned(checks \ {c}) /\ UNCHANGED <<valid, accepted>>
    BY <1>4 DEF Admitted, storeLogin, LeaveLogin
  <2>3. \A e \in checks \ {c} : e.res = "ok" => e.token \in accepted
    BY DEF SessionInv
  <2>4. checks' \subseteq Check /\ \A e \in checks' : e.res = "ok" => e.token \in accepted
    BY <1>1, <2>2, <2>3, OrphanedChecks
  <2> QED
    BY <1>4, <2>1, <2>2, <2>4, NewLoginIs DEF SessionInv, SessionTypeOK, SignedIn, loadStored
<1> QED
  BY <1>2, <1>3, <1>4 DEF LoginCheck, Mount, pageVars

\* The page is changed: by a link, the logout button or a reload.
LEMMA SessionMoves ==
  ASSUME SessionInv, UNCHANGED <<valid, accepted>>, login' = NewLogin,
         checks' \in {{}, Orphaned(checks)},
         stored' = store', store' \in {store, None}, path' # "login" => store' # None
  PROVE  SessionInv'
<1>1. checks \subseteq Check /\ \A c \in checks : c.res = "ok" => c.token \in accepted
  BY DEF SessionInv, SessionTypeOK
<1>2. checks' \subseteq Check /\ \A c \in checks' : c.res = "ok" => c.token \in accepted
  BY <1>1, OrphanedChecks
<1> QED
  BY <1>2, NewLoginIs DEF SessionInv, SessionTypeOK, SignedIn, loadStored

LEMMA SessionStep == SessionInv /\ [Next]_vars => SessionInv'
<1> SUFFICES ASSUME SessionInv, [Next]_vars PROVE SessionInv'
  OBVIOUS
<1>1. CASE UNCHANGED vars
  BY <1>1, SessionStays DEF vars, pageVars
<1>2. CASE PageStep
  <2>1. PageClick
    BY <1>2, PageStepIs
  <2> QED
    BY <2>1, SessionStays DEF PageClick, Render
<1>3. ASSUME NEW i \in DOMAIN muts, ServerActs(i) \/ RequestLost(i) \/ Settle(i)
      PROVE  SessionInv'
  BY <1>3, SessionStays DEF ServerActs, RequestLost, Settle, Render
<1>4. ASSUME NEW k \in DOMAIN cache, QueryStep(k) \/ LoseAnswer(k) \/ Idle(k)
      PROVE  SessionInv'
  BY <1>4, SessionStays DEF QueryStep, Deliver, LoseAnswer, Idle, Render, pageVars
<1>5. CASE GoOffline \/ GoOnline \/ Resume
  BY <1>5, SessionStays DEF GoOffline, GoOnline, Resume, pageVars
<1>6. ASSUME NEW p, Navigate(p)
      PROVE  SessionInv'
  <2>1. /\ path' = AuthGuard(p, store) /\ login' = NewLogin /\ checks' = Orphaned(checks)
        /\ UNCHANGED <<store, stored, valid, accepted>> /\ stored = store
    BY <1>6 DEF Navigate, Mount, LeaveLogin, SessionInv, SignedIn, loadStored
  <2> QED
    BY <2>1, SessionMoves DEF AuthGuard
<1>7. CASE Logout
  <2>1. /\ path' = "login" /\ login' = NewLogin /\ checks' = Orphaned(checks)
        /\ store' = None /\ stored' = None /\ UNCHANGED <<valid, accepted>>
    BY <1>7 DEF Logout, Mount, LeaveLogin, storeLogout
  <2> QED
    BY <2>1, SessionMoves
<1>8. CASE TryAgain
  BY <1>8, SessionStays DEF TryAgain, Mount
<1>9. CASE Reload
  <2>1. /\ path' = AuthGuard(path, stored) /\ login' = NewLogin /\ checks' = {}
        /\ store' = stored /\ UNCHANGED <<stored, valid, accepted>> /\ stored = store
    BY <1>9 DEF Reload, SessionInv, SignedIn, loadStored
  <2> QED
    BY <2>1, SessionMoves DEF AuthGuard
<1>10. CASE LoginForm
  BY <1>10, SessionLoginForm
<1>11. ASSUME NEW c \in checks, LoginCheck(c)
       PROVE  SessionInv'
  BY <1>11, SessionLoginCheck
<1>12. CASE OtherClient
  <2>1. CASE UNCHANGED <<sessionVars, path>>
    BY <2>1, SessionStays
  <2>2. ASSUME NEW t, Revoke(t), UNCHANGED path
        PROVE  SessionInv'
    BY <2>2 DEF Revoke, SessionInv, SessionTypeOK, SignedIn, loadStored
  <2> QED
    BY <1>12, <2>1, <2>2 DEF OtherClient, pageVars
<1> QED
  BY <1>1, <1>2, <1>3, <1>4, <1>5, <1>6, <1>7, <1>8, <1>9, <1>10, <1>11, <1>12 DEF Next

LEMMA SessionHolds == Spec => []SessionInv
BY SessionStart, SessionStep, PTL DEF Spec

\* Behind AuthGuard there is only who signed in with a token the broker accepted, and
\* a reload finds that token, however sign-ins, their late answers, navigation,
\* logouts, reloads and withdrawn tokens interleave (auth-store.ts, LoginPage).
THEOREM SignedInSafe == Spec => []SignedIn
<1>1. SessionInv => SignedIn
  BY DEF SessionInv
<1> QED
  BY <1>1, SessionHolds, PTL

-----------------------------------------------------------------------------
\* What a mutation records.
Fields == {"op", "asked", "opt", "arg", "sent", "st", "cur", "live", "waited", "by", "at",
           "told", "shown"}

\* The version of the resource that op changes, at a broker with resources sv.
Version(op, sv) == sv[Resource(Changes[op])].ver

\* What is true of every mutation.  applied: the broker accepted it, at a version that
\* is not the first; a mutation that is paused had to wait for the network.
Sound(m, sv) ==
  /\ DOMAIN m = Fields /\ m.op \in Ops
  /\ m.st = "paused" => m.waited
  /\ m.opt = "preview" => m.op = "replayDLQ"
  /\ m.by # None /\ (m.waited => m.op \notin DeleteOps \cup DLQOps) => m.sent = m.asked
  /\ m.st \in {"applied", "ok"} =>
       m.by # None /\ m.at \in Nat /\ m.at <= Version(m.op, sv) /\ (m.op # "replayDLQ" => m.at > 1)
  /\ m.told # None => m.st = "ok" /\ (m.op \in StartStop \cup {"createTopic"} => m.told = m.asked)

\* The broker's resources have a version, from one on.
Versioned(sv) == DOMAIN sv = Resources /\ \A r \in Resources : sv[r].ver \in Nat /\ sv[r].ver >= 1

MutInv ==
  /\ Versioned(srv)
  /\ \E n \in Nat : DOMAIN muts = 1..n
  /\ \A i \in DOMAIN muts : Sound(muts[i], srv)

\* The versions only grow.
Grows(sv, tv) == \A r \in Resources : tv[r].ver >= sv[r].ver

\* Every mutation changes one of the broker's resources.
LEMMA ChangesOne ==
  ASSUME NEW op \in Ops
  PROVE  /\ Resource(Changes[op]) \in Resources
         /\ op = "createTopic" => Changes[op] = List("topics")
         /\ op = "deleteTopic" => Changes[op] = List("topics")
         /\ op = "deleteWASMModule" => Changes[op] = List("wasmModules")
         /\ op \in StartStop \cup {"deleteProcessor"} => Changes[op] = List("processors")
         /\ op \in {"registerSchema", "deleteSchema"} => Changes[op] = List("schemaSubjects")
         /\ op \in DLQOps => Changes[op] = List("dlqTopics")
<1>1. op \in {"deleteTopic", "deleteSchema", "deleteWASMModule", "deleteProcessor", "replayDLQ",
              "clearDLQ", "startProcessor", "stopProcessor", "createTopic", "registerSchema"}
  BY DEF Ops, DeleteOps, DLQOps, StartStop, Creates
<1>2. /\ op = "createTopic" => Changes[op] = List("topics")
      /\ op = "deleteTopic" => Changes[op] = List("topics")
      /\ op = "deleteWASMModule" => Changes[op] = List("wasmModules")
      /\ op \in StartStop \cup {"deleteProcessor"} => Changes[op] = List("processors")
      /\ op \in {"registerSchema", "deleteSchema"} => Changes[op] = List("schemaSubjects")
      /\ op \in DLQOps => Changes[op] = List("dlqTopics")
  BY DEF Changes, DLQOps, StartStop
<1>3. \A kind \in {"topics", "wasmModules", "processors", "schemaSubjects", "dlqTopics"} :
        Resource(List(kind)) \in Resources
  BY DEF Resource, List, Reads, Resources
<1> QED
  BY <1>1, <1>2, <1>3 DEF DLQOps, StartStop

\* Closures of a mutation may change, and more may have happened at the broker.
SameMut(m, d) ==
  /\ DOMAIN d = Fields
  /\ d.op = m.op /\ d.asked = m.asked /\ d.opt = m.opt /\ d.sent = m.sent /\ d.st = m.st
  /\ d.waited = m.waited /\ d.by = m.by /\ d.at = m.at /\ d.told = m.told /\ d.shown = m.shown

LEMMA SoundStays ==
  ASSUME NEW sv, NEW tv, Versioned(sv), Versioned(tv), Grows(sv, tv),
         NEW m, Sound(m, sv), NEW d, SameMut(m, d)
  PROVE  Sound(d, tv)
<1>1. Resource(Changes[m.op]) \in Resources
  BY ChangesOne DEF Sound
<1>2. /\ Version(m.op, tv) >= Version(m.op, sv)
      /\ Version(m.op, sv) \in Nat /\ Version(m.op, tv) \in Nat
  BY <1>1 DEF Version, Versioned, Grows
<1> QED
  BY <1>2 DEF Sound, SameMut

LEMMA SameFreeze ==
  ASSUME NEW m, DOMAIN m = Fields
  PROVE  /\ SameMut(m, m) /\ SameMut(m, Freeze(m))
         /\ SameMut(m, [Freeze(m) EXCEPT !.live = FALSE]) /\ SameMut(m, Closed(m))
BY DEF SameMut, Freeze, Closed, Fields

LEMMA SameUnmounted ==
  ASSUME NEW ms, \A i \in DOMAIN ms : DOMAIN ms[i] = Fields
  PROVE  /\ DOMAIN Unmounted(ms) = DOMAIN ms
         /\ \A i \in DOMAIN ms : SameMut(ms[i], Unmounted(ms)[i])
BY SameFreeze DEF Unmounted

\* A sequence with one element more.
LEMMA AppendIs ==
  ASSUME NEW n \in Nat, NEW f, f = [i \in 1..n |-> f[i]], NEW e
  PROVE  Append(f, e) = [i \in 1..n + 1 |-> IF i = n + 1 THEN e ELSE f[i]]
<1> DEFINE S == {f[i] : i \in 1..n}
<1>1. f \in [1..n -> S]
  OBVIOUS
<1> HIDE DEF S
<1>2. f \in Seq(S) /\ Len(f) = n
  BY <1>1
<1> QED
  BY <1>2

\* Mutations stay what they are, but for those that are shown to be sound.
LEMMA MutsMove ==
  ASSUME MutInv, Versioned(srv'), Grows(srv, srv'), DOMAIN muts' = DOMAIN muts,
         \A i \in DOMAIN muts : SameMut(muts[i], muts'[i]) \/ Sound(muts'[i], srv')
  PROVE  MutInv'
<1>1. \A i \in DOMAIN muts : Sound(muts'[i], srv')
  BY SoundStays DEF MutInv
<1> QED
  BY <1>1 DEF MutInv

LEMMA MutsStay == MutInv /\ UNCHANGED <<muts, srv>> => MutInv'
<1> SUFFICES ASSUME MutInv, UNCHANGED <<muts, srv>> PROVE MutInv'
  OBVIOUS
<1>1. Versioned(srv') /\ Grows(srv, srv')
  BY DEF MutInv, Versioned, Grows
<1>2. \A i \in DOMAIN muts : SameMut(muts[i], muts'[i])
  BY SameFreeze DEF MutInv, Sound
<1> QED
  BY <1>1, <1>2, MutsMove

\* A page that is rendered may throw, and is unmounted then.
SoundAll(ms, sv) == (\E n \in Nat : DOMAIN ms = 1..n) /\ \A i \in DOMAIN ms : Sound(ms[i], sv)

LEMMA MutsRender ==
  ASSUME Versioned(srv), srv' = srv, NEW ms, SoundAll(ms, srv), muts' \in {ms, Unmounted(ms)}
  PROVE  MutInv'
<1>1. Versioned(srv') /\ Grows(srv, srv')
  BY DEF Versioned, Grows
<1>2. /\ DOMAIN Unmounted(ms) = DOMAIN ms
      /\ \A i \in DOMAIN ms : SameMut(ms[i], Unmounted(ms)[i]) /\ SameMut(ms[i], ms[i])
  BY SameUnmounted, SameFreeze DEF SoundAll, Sound
<1>3. DOMAIN muts' = DOMAIN ms /\ \A i \in DOMAIN ms : SameMut(ms[i], muts'[i])
  BY <1>2
<1>4. \A i \in DOMAIN ms : Sound(muts'[i], srv')
  BY <1>1, <1>3, SoundStays DEF SoundAll
<1> QED
  BY <1>1, <1>3, <1>4 DEF MutInv, SoundAll

\* mutate: a new mutation names what was asked, and one of before may be frozen.
LEMMA MutateSound ==
  ASSUME MutInv, NEW op \in Ops, NEW name
  PROVE  SoundAll(Mutate(op, name), srv)
<1> DEFINE f == [i \in DOMAIN muts |-> IF muts[i].op = op THEN Freeze(muts[i]) ELSE muts[i]]
           m == [op |-> op, asked |-> name,
                 opt |-> IF op = "replayDLQ" THEN ui.typed ELSE None,
                 arg |-> None, sent |-> IF Online THEN name ELSE None,
                 st |-> IF Online THEN "sent" ELSE "paused",
                 cur |-> TRUE, live |-> TRUE, waited |-> ~Online,
                 by |-> IF Online THEN setAuthHeader ELSE None,
                 at |-> 0, told |-> None, shown |-> FALSE]
<1>1. PICK n \in Nat : DOMAIN muts = 1..n
  BY DEF MutInv
<1>2. f = [i \in 1..n |-> f[i]]
  BY <1>1
<1>3. \A i \in 1..n : SameMut(muts[i], f[i]) /\ Sound(muts[i], srv)
  BY <1>1, SameFreeze DEF MutInv, Sound
<1>4. \A i \in 1..n : Sound(f[i], srv)
  <2>1. Versioned(srv) /\ Grows(srv, srv)
    BY DEF MutInv, Versioned, Grows
  <2> HIDE DEF f
  <2> QED
    BY <1>3, <2>1, SoundStays
<1>5. Mutate(op, name) = Append(f, m)
  BY DEF Mutate
<1>6. Sound(m, srv)
  <2>1. /\ DOMAIN m = Fields /\ m.op = op /\ m.told = None
        /\ m.st = (IF Online THEN "sent" ELSE "paused") /\ m.waited = ~Online
        /\ m.by = (IF Online THEN setAuthHeader ELSE None)
        /\ m.sent = (IF Online THEN name ELSE None) /\ m.asked = name
        /\ m.opt = IF op = "replayDLQ" THEN ui.typed ELSE None
    BY DEF Fields
  <2> HIDE DEF m
  <2> QED
    BY <2>1, ConsoleAssumption DEF Sound
<1> HIDE DEF f, m
<1>7. Append(f, m) = [i \in 1..n + 1 |-> IF i = n + 1 THEN m ELSE f[i]]
  BY <1>2, AppendIs
<1>8. \A i \in 1..n + 1 : i = n + 1 \/ i \in 1..n
  OBVIOUS
<1> QED
  BY <1>4, <1>5, <1>6, <1>7, <1>8 DEF SoundAll

LEMMA MutsClick == MutInv /\ PageClick => MutInv'
<1> SUFFICES ASSUME MutInv, PageClick PROVE MutInv'
  OBVIOUS
<1>1. PICK u, ms : /\ ms = muts \/ \E op \in Ops : \E name : ms = Mutate(op, name)
                   /\ Render(path, u, cache, ms)
  BY DEF PageClick
<1>2. SoundAll(ms, srv)
  BY <1>1, MutateSound DEF SoundAll, MutInv
<1>3. muts' \in {ms, Unmounted(ms)} /\ srv' = srv /\ Versioned(srv)
  BY <1>1 DEF Render, PageClick, MutInv
<1> QED
  BY <1>2, <1>3, MutsRender

\* A page is left and another one mounted.
LEMMA MutsMount == ASSUME MutInv, srv' = srv, muts' = Unmounted(muts) PROVE MutInv'
<1>1. SoundAll(muts, srv) /\ Versioned(srv)
  BY DEF SoundAll, MutInv
<1>2. PICK ms : ms = muts
  OBVIOUS
<1> QED
  BY <1>1, <1>2, MutsRender

\* The broker changes a resource, for the console or for somebody else.
LEMMA EditGrows ==
  ASSUME Versioned(srv), NEW r, NEW ns, Edited(r, ns)
  PROVE  /\ Versioned(srv') /\ Grows(srv, srv')
         /\ r \in Resources => srv'[r].ver = srv[r].ver + 1
BY DEF Versioned, Grows, Edited

LEMMA MutsServer ==
  ASSUME SessionInv, MutInv, NEW i \in DOMAIN muts, ServerActs(i)
  PROVE  MutInv'
<1> DEFINE m == muts[i]
           r == Resource(Changes[m.op])
           d == muts'[i]
<1>1. Sound(m, srv) /\ Versioned(srv) /\ r \in Resources
  BY ChangesOne DEF MutInv, Sound
<1>2. m.st \in {"sent", "orphan"}
  BY DEF ServerActs
<1>3. Accepts(m) => m.by # None
  BY NoneIsNoToken DEF Accepts, SessionInv, SessionTypeOK
<1>4. /\ DOMAIN muts' = DOMAIN muts
      /\ \A j \in DOMAIN muts : j # i => muts'[j] = muts[j]
  BY DEF ServerActs
<1>5. /\ DOMAIN d = DOMAIN m
      /\ \A x \in DOMAIN m : x \notin {"st", "at"} => d[x] = m[x]
  BY DEF ServerActs
<1>6. /\ DOMAIN d = Fields /\ d.op = m.op /\ d.asked = m.asked /\ d.opt = m.opt
      /\ d.sent = m.sent /\ d.waited = m.waited /\ d.by = m.by /\ d.told = m.told
  BY <1>1, <1>5 DEF Sound, Fields
<1>7. Versioned(srv') /\ Grows(srv, srv') /\ Sound(d, srv')
  <2>1. CASE Accepts(m) /\ m.opt # "preview"
    <3>1. Versioned(srv') /\ Grows(srv, srv') /\ srv'[r].ver = srv[r].ver + 1
      BY <1>1, <2>1, EditGrows DEF ServerActs
    <3>2. d.st \in {"gone", "applied"} /\ d.at = srv[r].ver + 1
      <4>1. PICK x \in {"gone", "applied"} :
              d = [[m EXCEPT !.st = x] EXCEPT !.at = srv[r].ver + 1]
        BY <2>1 DEF ServerActs
      <4>2. "st" \in DOMAIN m /\ "at" \in DOMAIN m
        BY <1>1 DEF Sound, Fields
      <4> HIDE DEF m, d, r
      <4> QED
        BY <4>1, <4>2
    <3>3. srv[r].ver \in Nat /\ srv[r].ver >= 1 /\ Version(d.op, srv') = srv'[r].ver
      BY <1>1, <1>6 DEF Versioned, Version
    <3> HIDE DEF d, r
    <3> QED
      BY <1>1, <1>2, <1>3, <1>6, <2>1, <3>1, <3>2, <3>3 DEF Sound
  <2>2. CASE ~(Accepts(m) /\ m.opt # "preview")
    <3>1. srv' = srv /\ Versioned(srv') /\ Grows(srv, srv')
      BY <1>1, <2>2 DEF ServerActs, Versioned, Grows
    <3>2. /\ d.st \in {"gone", "applied", "refused"} /\ d.at = srv[r].ver
          /\ d.st = "applied" => Accepts(m)
      <4>1. PICK x \in {"gone", "applied", "refused"} :
              /\ d = [[m EXCEPT !.st = x] EXCEPT !.at = srv[r].ver]
              /\ x = "applied" => Accepts(m)
        BY <1>2, <2>2 DEF ServerActs
      <4>2. "st" \in DOMAIN m /\ "at" \in DOMAIN m
        BY <1>1 DEF Sound, Fields
      <4> HIDE DEF m, d, r
      <4> QED
        BY <4>1, <4>2
    <3>3. srv[r].ver \in Nat /\ Version(d.op, srv') = srv[r].ver
      BY <1>1, <1>6, <3>1 DEF Versioned, Version
    <3> HIDE DEF d, r
    <3> QED
      BY <1>1, <1>2, <1>3, <1>6, <2>2, <3>1, <3>2, <3>3 DEF Sound
  <2> QED
    BY <2>1, <2>2
<1> HIDE DEF d
<1>8. \A j \in DOMAIN muts : SameMut(muts[j], muts'[j]) \/ Sound(muts'[j], srv')
  <2> TAKE j \in DOMAIN muts
  <2>1. CASE j = i
    BY <1>7, <2>1 DEF d
  <2>2. CASE j # i
    BY <1>4, <2>2, SameFreeze DEF MutInv, Sound
  <2> QED
    BY <2>1, <2>2
<1> QED
  BY <1>4, <1>7, <1>8, MutsMove

LEMMA MutsLost ==
  ASSUME MutInv, NEW i \in DOMAIN muts, RequestLost(i)
  PROVE  MutInv'
<1> DEFINE m == muts[i]
           d == [m EXCEPT !.st = "refused"]
<1>1. Sound(m, srv) /\ Versioned(srv) /\ m.st # "ok"
  BY DEF MutInv, RequestLost
<1>2. muts' = [muts EXCEPT ![i] = d] /\ srv' = srv
  BY DEF RequestLost, queryVars
<1>3. /\ DOMAIN d = Fields /\ d.op = m.op /\ d.asked = m.asked /\ d.opt = m.opt
      /\ d.sent = m.sent /\ d.waited = m.waited /\ d.by = m.by /\ d.told = m.told
      /\ d.st = "refused"
  BY <1>1 DEF Sound, Fields
<1> HIDE DEF d
<1>4. Sound(d, srv)
  BY <1>1, <1>3 DEF Sound
<1>5. Versioned(srv') /\ Grows(srv, srv')
  BY <1>1, <1>2 DEF Versioned, Grows
<1>6. \A j \in DOMAIN muts : SameMut(muts[j], muts'[j]) \/ Sound(muts'[j], srv')
  BY <1>2, <1>4, SameFreeze DEF MutInv, Sound
<1> QED
  BY <1>2, <1>5, <1>6, MutsMove

\* The answer: the message of the callbacks that take no name from the page is the
\* name that was asked for.
LEMMA TellsAsked ==
  ASSUME NEW m, m.op \in StartStop \cup {"createTopic"}
  PROVE  onSuccess(m).told = m.asked
BY DEF onSuccess, TopicsSuccess, ProcessorsSuccess, Outcome, StartStop, DLQOps

\* The mutation m becomes d with its answer.
Answered(m, d) ==
  \/ /\ m.st = "applied"
     /\ \E b : d = [Closed(m) EXCEPT !.st = "ok", !.told = onSuccess(m).told, !.shown = b]
  \/ d = [Closed(m) EXCEPT !.st = "error"]

LEMMA SettleIs ==
  ASSUME NEW i \in DOMAIN muts, Settle(i)
  PROVE  \E d, ms : /\ ms = [muts EXCEPT ![i] = d] /\ muts' \in {ms, Unmounted(ms)}
                    /\ Answered(muts[i], d)
<1>1. CASE muts[i].st = "applied" /\ ~NoBody(muts[i])
  BY <1>1 DEF Settle, Render, Answered
<1>2. CASE ~(muts[i].st = "applied" /\ ~NoBody(muts[i]))
  BY <1>2 DEF Settle, Render, Answered
<1> QED
  BY <1>1, <1>2

LEMMA MutsSettle ==
  ASSUME MutInv, NEW i \in DOMAIN muts, Settle(i)
  PROVE  MutInv'
<1> DEFINE m == muts[i]
<1>1. Sound(m, srv) /\ Versioned(srv)
  BY DEF MutInv
<1>2. PICK d, ms : /\ ms = [muts EXCEPT ![i] = d] /\ muts' \in {ms, Unmounted(ms)}
                   /\ Answered(m, d)
  BY SettleIs
<1>3. /\ DOMAIN d = Fields /\ d.op = m.op /\ d.asked = m.asked /\ d.opt = m.opt
      /\ d.sent = m.sent /\ d.waited = m.waited /\ d.by = m.by /\ d.at = m.at
      /\ \/ m.st = "applied" /\ d.st = "ok" /\ d.told = onSuccess(m).told
         \/ m.st # "ok" /\ d.st = "error" /\ d.told = m.told
  <2> DEFINE c == Closed(m)
  <2>1. m.st \in {"applied", "refused"}
    BY DEF Settle
  <2>2. /\ DOMAIN c = Fields /\ c.op = m.op /\ c.asked = m.asked /\ c.opt = m.opt
        /\ c.sent = m.sent /\ c.waited = m.waited /\ c.by = m.by /\ c.at = m.at
        /\ c.told = m.told
    BY <1>1, ZenonT(30) DEF Closed, Sound, Fields
  <2>3. \/ /\ m.st = "applied"
           /\ \E b : d = [c EXCEPT !.st = "ok", !.told = onSuccess(m).told, !.shown = b]
        \/ d = [c EXCEPT !.st = "error"]
    BY <1>2 DEF Answered
  <2> HIDE DEF c
  <2>4. CASE /\ m.st = "applied"
             /\ \E b : d = [c EXCEPT !.st = "ok", !.told = onSuccess(m).told, !.shown = b]
    BY <2>2, <2>4, ZenonT(30) DEF Fields
  <2>5. CASE d = [c EXCEPT !.st = "error"]
    BY <2>1, <2>2, <2>5, ZenonT(30) DEF Fields
  <2> QED
    BY <2>3, <2>4, <2>5
<1>4. Sound(d, srv)
  BY <1>1, <1>3, TellsAsked DEF Sound
<1>5. SoundAll(ms, srv)
  BY <1>2, <1>4 DEF MutInv, SoundAll
<1>6. srv' = srv
  BY DEF Settle
<1> QED
  BY <1>1, <1>2, <1>5, <1>6, MutsRender

\* Paused mutations go out.
LEMMA MutsOnline ==
  ASSUME MutInv, GoOnline
  PROVE  MutInv'
<1>1. srv' = srv /\ Versioned(srv') /\ Grows(srv, srv') /\ DOMAIN muts' = DOMAIN muts
  <2>1. srv' = srv /\ DOMAIN muts' = DOMAIN muts
    BY DEF GoOnline
  <2> QED
    BY <2>1 DEF MutInv, Versioned, Grows
<1>2. ASSUME NEW i \in DOMAIN muts
      PROVE  SameMut(muts[i], muts'[i]) \/ Sound(muts'[i], srv')
  <2> DEFINE m == muts[i]
             d == [m EXCEPT !.st = "sent", !.sent = mutationFn(m), !.by = setAuthHeader]
  <2>1. Sound(m, srv)
    BY DEF MutInv
  <2>2. CASE m.st # "paused"
    BY <2>1, <2>2, SameFreeze DEF GoOnline, Sound
  <2>3. CASE m.st = "paused"
    <3>1. muts'[i] = d
      BY <2>3 DEF GoOnline
    <3>2. /\ DOMAIN d = Fields /\ d.op = m.op /\ d.asked = m.asked /\ d.opt = m.opt
          /\ d.sent = mutationFn(m) /\ d.waited = m.waited /\ d.told = m.told
          /\ d.st = "sent"
      BY <2>1 DEF Sound, Fields
    <3>3. m.op \notin DeleteOps \cup DLQOps => mutationFn(m) = m.asked
      BY DEF mutationFn
    <3> HIDE DEF d
    <3> QED
      BY <1>1, <2>1, <2>3, <3>1, <3>2, <3>3 DEF Sound
  <2> QED
    BY <2>2, <2>3
<1> QED
  BY <1>1, <1>2, MutsMove

LEMMA MutsReload ==
  ASSUME MutInv, Reload
  PROVE  MutInv'
<1>1. srv' = srv /\ Versioned(srv') /\ Grows(srv, srv') /\ DOMAIN muts' = DOMAIN muts
  BY DEF Reload, MutInv, Versioned, Grows
<1>2. ASSUME NEW i \in DOMAIN muts
      PROVE  SameMut(muts[i], muts'[i]) \/ Sound(muts'[i], srv')
  <2> DEFINE m == muts[i]
             d == muts'[i]
  <2>1. Sound(m, srv)
    BY DEF MutInv
  <2>2. CASE m.st \notin Pending
    BY <2>1, <2>2, SameFreeze DEF Reload, Sound
  <2>3. CASE m.st \in Pending
    <3>1. /\ DOMAIN d = Fields /\ d.op = m.op /\ d.asked = m.asked /\ d.opt = m.opt
          /\ d.sent = m.sent /\ d.waited = m.waited /\ d.by = m.by /\ d.told = m.told
          /\ d.st \in {"gone", "orphan"}
      <4> DEFINE end == [paused |-> "gone", sent |-> "orphan", applied |-> "gone",
                         refused |-> "gone"]
      <4>1. Closed(m).st = m.st
        BY <2>1 DEF Closed, Sound, Fields
      <4>2. end[Closed(m).st] \in {"gone", "orphan"}
        BY <2>3, <4>1 DEF Pending
      <4>3. d = [Closed(m) EXCEPT !.st = end[Closed(m).st]]
        BY <2>3 DEF Reload
      <4>4. PICK x \in {"gone", "orphan"} : d = [Closed(m) EXCEPT !.st = x]
        <5> HIDE DEF end, d, m
        <5> QED
          BY <4>2, <4>3
      <4> HIDE DEF d
      <4> QED
        BY <2>1, <4>4 DEF Closed, Sound, Fields
    <3>2. m.st # "ok"
      BY <2>3 DEF Pending
    <3> HIDE DEF d
    <3>3. Sound(d, srv')
      BY <2>1, <3>1, <3>2 DEF Sound
    <3> QED
      BY <3>3 DEF d
  <2> QED
    BY <2>2, <2>3
<1> QED
  BY <1>1, <1>2, MutsMove

LEMMA MutStart == Init => MutInv
<1> SUFFICES ASSUME Init PROVE MutInv
  OBVIOUS
<1>1. PICK ns : srv = [r \in Resources |-> [ver |-> 1, names |-> ns]]
  BY DEF Init
<1>2. Versioned(srv)
  BY <1>1 DEF Versioned
<1>3. muts = <<>>
  BY DEF Init
<1>4. DOMAIN muts = {} /\ 1..0 = {} /\ 0 \in Nat
  BY <1>3
<1> QED
  BY <1>2, <1>4 DEF MutInv

LEMMA MutStep == SessionInv /\ MutInv /\ [Next]_vars => MutInv'
<1> SUFFICES ASSUME SessionInv, MutInv, [Next]_vars PROVE MutInv'
  OBVIOUS
<1>1. CASE UNCHANGED vars
  BY <1>1, MutsStay DEF vars, pageVars, queryVars
<1>2. CASE PageStep
  BY <1>2, PageStepIs, MutsClick
<1>3. ASSUME NEW i \in DOMAIN muts, ServerActs(i) \/ RequestLost(i) \/ Settle(i)
      PROVE  MutInv'
  BY <1>3, MutsServer, MutsLost, MutsSettle
<1>4. ASSUME NEW k \in DOMAIN cache, QueryStep(k) \/ LoseAnswer(k) \/ Idle(k)
      PROVE  MutInv'
  <2>1. CASE UNCHANGED <<muts, srv>>
    BY <2>1, MutsStay
  <2>2. CASE Deliver(k)
    <3>1. muts' \in {muts, Unmounted(muts)} /\ srv' = srv
      BY <2>2 DEF Deliver, Render
    <3> QED
      BY <3>1, MutsStay, MutsMount
  <2> QED
    BY <1>4, <2>1, <2>2 DEF QueryStep, LoseAnswer, Idle, pageVars, ServerReads, Retry, Poll,
       GoStale, Collect, ReadFails
<1>5. CASE GoOffline \/ Resume
  BY <1>5, MutsStay DEF GoOffline, Resume, ResumeQueries, pageVars
<1>6. CASE GoOnline
  BY <1>6, MutsOnline
<1>7. ASSUME NEW p, Navigate(p)
      PROVE  MutInv'
  BY <1>7, MutsMount DEF Navigate, Mount
<1>8. CASE Logout \/ TryAgain
  BY <1>8, MutsMount DEF Logout, TryAgain, Mount
<1>9. CASE Reload
  BY <1>9, MutsReload
<1>10. CASE LoginForm
  BY <1>10, MutsStay DEF LoginForm, pageVars, queryVars
<1>11. ASSUME NEW c \in checks, LoginCheck(c)
       PROVE  MutInv'
  BY <1>11, MutsStay, MutsMount DEF LoginCheck, Mount, pageVars, queryVars
<1>12. CASE OtherClient
  <2>1. CASE UNCHANGED <<muts, srv>>
    BY <2>1, MutsStay
  <2>2. ASSUME NEW r, NEW ns, Edited(r, ns), muts' = muts
        PROVE  MutInv'
    <3>1. Versioned(srv') /\ Grows(srv, srv')
      BY <2>2, EditGrows DEF MutInv
    <3>2. \A i \in DOMAIN muts : SameMut(muts[i], muts'[i])
      BY <2>2, SameFreeze DEF MutInv, Sound
    <3> QED
      BY <2>2, <3>1, <3>2, MutsMove
  <2> QED
    BY <1>12, <2>1, <2>2 DEF OtherClient, pageVars, queryVars
<1> QED
  BY <1>1, <1>2, <1>3, <1>4, <1>5, <1>6, <1>7, <1>8, <1>9, <1>10, <1>11, <1>12 DEF Next

LEMMA MutHolds == Spec => []MutInv
BY MutStart, MutStep, SessionHolds, PTL DEF Spec

\* A success message of createTopic, startProcessor and stopProcessor names what the
\* broker has done, whatever was clicked, opened, left or lost since (onSuccess of
\* TopicsPage and ProcessorsPage).
THEOREM MessagesTrue == Spec => []ToldTrue
<1>1. MutInv => ToldTrue
  <2> SUFFICES ASSUME NEW m, NEW sv, Sound(m, sv), m.told # None,
                      m.op \in StartStop \cup {"createTopic"}
               PROVE  m.told = m.sent /\ m.at > 1
    BY DEF MutInv, ToldTrue
  <2>1. m.op # "replayDLQ" /\ m.op \notin DeleteOps \cup DLQOps
    BY DEF StartStop, DeleteOps, DLQOps
  <2> QED
    BY <2>1 DEF Sound
<1> QED
  BY <1>1, MutHolds, PTL

-----------------------------------------------------------------------------
\* What the lists show.
QueryFields == {"data", "old", "fetch", "ans", "tries", "by"}

\* A query and the version v its resource has: neither what it shows nor what is on
\* its way is newer, and what is on its way is no older than what it shows.
InOrder(q, v) ==
  /\ DOMAIN q = QueryFields
  /\ q.data # None => q.data.ver \in Nat /\ q.data.ver <= v
  /\ q.fetch = "answered" => \/ q.ans = Failed
                             \/ /\ q.ans.ver \in Nat /\ q.ans.ver <= v
                                /\ q.data # None => q.data.ver <= q.ans.ver

CacheInv == \A k \in Reported \cap DOMAIN cache : InOrder(cache[k], srv[Resource(k)].ver)

\* A query a success message at version a was about: it is known to be old or shows
\* that version, and an answer on its way to it has that version.
Caught(q, a) ==
  /\ q.data = None \/ q.old \/ q.data.ver >= a
  /\ q.fetch = "answered" => q.ans = Failed \/ q.ans.ver >= a

\* m was successful and its list on display.
Reports(m) == m.st = "ok" /\ m.shown /\ ~Swallows(Changes[m.op])

FreshInv ==
  \A i \in DOMAIN muts :
    Reports(muts[i]) /\ Changes[muts[i].op] \in DOMAIN cache
      => Caught(cache[Changes[muts[i].op]], muts[i].at)

\* The chart of the overview is kept while that page is on the screen, and its last
\* point is what the cards show.
ChartInv ==
  /\ \E S : chart \in Seq(S)
  /\ chart # <<>> => path = "overview" /\ ~crashed /\ chart[Len(chart)] = ChartDeps(cache)

\* A query r that shows what q did, and to which no more answers are on their way; and
\* one that shows nothing.
Calm(q, r) ==
  /\ DOMAIN r = QueryFields
  /\ r.data = q.data /\ (q.old => r.old)
  /\ r.fetch = "answered" => q.fetch = "answered" /\ r.ans = q.ans

Empty(r) == DOMAIN r = QueryFields /\ r.data = None /\ r.fetch # "answered"

Shaped(c) == \A k \in Reported \cap DOMAIN c : DOMAIN c[k] = QueryFields

CalmMove(c, d) ==
  \A k \in Reported \cap DOMAIN d : Empty(d[k]) \/ (k \in DOMAIN c /\ Calm(c[k], d[k]))

LEMMA CalmFetch ==
  ASSUME NEW q, DOMAIN q = QueryFields
  PROVE  /\ Calm(q, q) /\ Calm(q, [q EXCEPT !.old = TRUE])
         /\ Calm(q, Sent(q)) /\ Calm(q, Start(q)) /\ Calm(q, Fetch(q))
         /\ Start(q).fetch \in {"sent", "paused"} /\ Start(q).old = q.old
<1>1. Calm(q, q) /\ Calm(q, [q EXCEPT !.old = TRUE])
  BY DEF Calm, QueryFields
<1>2. Calm(q, Sent(q)) /\ Sent(q).fetch \in {"sent", "paused"} /\ Sent(q).old = q.old
  BY DEF Calm, QueryFields, Sent
<1>3. Calm(q, Start(q)) /\ Start(q).fetch \in {"sent", "paused"} /\ Start(q).old = q.old
  <2> DEFINE r == [q EXCEPT !.ans = None, !.tries = 0]
  <2>1. DOMAIN r = QueryFields /\ r.data = q.data /\ r.old = q.old
    BY DEF QueryFields
  <2>2. Start(q) = Sent(r)
    BY DEF Start
  <2> HIDE DEF r
  <2>3. /\ DOMAIN Sent(r) = QueryFields /\ Sent(r).data = r.data /\ Sent(r).old = r.old
        /\ Sent(r).fetch \in {"sent", "paused"}
    BY <2>1 DEF QueryFields, Sent
  <2> QED
    BY <2>1, <2>2, <2>3 DEF Calm
<1> QED
  BY <1>1, <1>2, <1>3 DEF Fetch

LEMMA CalmRefetch ==
  ASSUME NEW q, DOMAIN q = QueryFields, NEW r, r = [q EXCEPT !.old = TRUE]
  PROVE  /\ Calm(q, Refetch(r))
         /\ q.data # None => Refetch(r).fetch # "answered" /\ Refetch(r).old = TRUE
<1>1. DOMAIN r = QueryFields /\ r.data = q.data /\ r.old = TRUE /\ r.fetch = q.fetch /\ r.ans = q.ans
  BY DEF QueryFields
<1>2. /\ Calm(r, r) /\ Calm(r, Start(r))
      /\ Start(r).fetch \in {"sent", "paused"} /\ Start(r).old = r.old
  BY <1>1, CalmFetch
<1> QED
  BY <1>1, <1>2 DEF Refetch, Calm

LEMMA EmptyNew == Empty(NewQuery) /\ Empty(Fetch(NewQuery))
<1>1. DOMAIN NewQuery = QueryFields /\ NewQuery.data = None /\ NewQuery.fetch = "idle"
  BY DEF NewQuery, QueryFields
<1> QED
  BY <1>1, CalmFetch DEF Empty, Calm, Fetch

LEMMA ObserveCalm ==
  ASSUME NEW c, Shaped(c), NEW before, NEW new
  PROVE  CalmMove(c, Observe(c, before, new))
<1> SUFFICES ASSUME NEW k \in Reported, k \in DOMAIN c \cup new
             PROVE  \/ Empty(Observe(c, before, new)[k])
                    \/ k \in DOMAIN c /\ Calm(c[k], Observe(c, before, new)[k])
  BY DEF CalmMove, Observe
<1>1. CASE k \in DOMAIN c
  <2>1. Observe(c, before, new)[k] \in {c[k], Fetch(c[k])}
    BY <1>1 DEF Observe
  <2>2. DOMAIN c[k] = QueryFields
    BY <1>1 DEF Shaped
  <2>3. Calm(c[k], c[k]) /\ Calm(c[k], Fetch(c[k]))
    BY <2>2, CalmFetch
  <2>4. Calm(c[k], Observe(c, before, new)[k])
    BY <2>1, <2>3
  <2> QED
    BY <1>1, <2>4
<1>2. CASE k \notin DOMAIN c
  <2>1. Observe(c, before, new)[k] \in {NewQuery, Fetch(NewQuery)}
    BY <1>2 DEF Observe
  <2> QED
    BY <2>1, EmptyNew
<1> QED
  BY <1>1, <1>2

LEMMA InvalidateCalm ==
  ASSUME NEW c, Shaped(c), NEW k, NEW obs
  PROVE  CalmMove(c, invalidateQueries(c, k, obs))
<1> SUFFICES ASSUME NEW j \in Reported, j \in DOMAIN c
             PROVE  Calm(c[j], invalidateQueries(c, k, obs)[j])
  BY DEF CalmMove, invalidateQueries
<1>1. PICK r : r = [c[j] EXCEPT !.old = TRUE]
  OBVIOUS
<1>2. invalidateQueries(c, k, obs)[j] \in {c[j], r, Refetch(r)}
  BY <1>1 DEF invalidateQueries
<1>3. DOMAIN c[j] = QueryFields
  BY DEF Shaped
<1>4. Calm(c[j], c[j]) /\ Calm(c[j], r)
  BY <1>1, <1>3, CalmFetch
<1>5. Calm(c[j], Refetch(r))
  BY <1>1, <1>3, CalmRefetch
<1> QED
  BY <1>2, <1>4, <1>5

LEMMA CalmTwice ==
  ASSUME NEW c, NEW d, NEW e, CalmMove(c, d), CalmMove(d, e)
  PROVE  CalmMove(c, e)
<1> SUFFICES ASSUME NEW k \in Reported \cap DOMAIN e
             PROVE  Empty(e[k]) \/ (k \in DOMAIN c /\ Calm(c[k], e[k]))
  BY DEF CalmMove
<1>1. Empty(e[k]) \/ (k \in DOMAIN d /\ Calm(d[k], e[k]))
  BY DEF CalmMove
<1>2. k \in DOMAIN d => Empty(d[k]) \/ (k \in DOMAIN c /\ Calm(c[k], d[k]))
  BY DEF CalmMove
<1> QED
  BY <1>1, <1>2 DEF Empty, Calm

LEMMA CalmShaped == ASSUME NEW c, NEW d, CalmMove(c, d) PROVE Shaped(d)
BY DEF CalmMove, Shaped, Empty, Calm

LEMMA CalmSame == ASSUME NEW c, Shaped(c) PROVE CalmMove(c, c)
BY CalmFetch DEF CalmMove, Shaped

\* The ways of the cache in a step: the broker reads for a query, an answer is taken,
\* the broker changes a resource, or nothing of the kind.
Reading(k) == ServerReads(k) \/ ReadFails(k)

Taking(k) ==
  /\ cache[k].fetch = "answered" /\ srv' = srv
  /\ CalmMove([cache EXCEPT ![k] = Settled(k, @, Observed)], cache')

Editing == cache' = cache /\ \E r, ns : Edited(r, ns)

LEMMA TakingIs ==
  ASSUME Shaped(cache), NEW k \in DOMAIN cache, Deliver(k)
  PROVE  Taking(k)
<1> DEFINE c == [cache EXCEPT ![k] = Settled(k, @, Observed)]
<1>1. PICK new : cache' = Observe(c, Observed, new)
  BY DEF Deliver, Render
<1>2. Shaped(c)
  <2>1. ASSUME k \in Reported PROVE DOMAIN Settled(k, cache[k], Observed) = QueryFields
    <3>1. DOMAIN cache[k] = QueryFields
      BY <2>1 DEF Shaped
    <3> QED
      BY <3>1 DEF Settled, QueryFields
  <2> QED
    BY <2>1 DEF Shaped
<1> HIDE DEF c
<1>3. CalmMove(c, cache')
  BY <1>1, <1>2, ObserveCalm
<1> QED
  BY <1>3 DEF Taking, Deliver, c

LEMMA QueryCalm ==
  ASSUME Shaped(cache), NEW k \in DOMAIN cache, Retry(k) \/ Poll(k) \/ GoStale(k) \/ Collect(k)
  PROVE  CalmMove(cache, cache') /\ srv' = srv
<1>1. CASE Collect(k)
  BY <1>1, CalmFetch DEF Collect, CalmMove, Shaped
<1>2. CASE ~Collect(k)
  <2>1. PICK q : /\ cache' = [cache EXCEPT ![k] = q]
                 /\ q \in {Sent(cache[k]), Start(cache[k]), [cache[k] EXCEPT !.old = TRUE]}
    BY <1>2 DEF Retry, Poll, GoStale
  <2>2. k \in Reported => Calm(cache[k], q)
    BY <2>1, CalmFetch DEF Shaped
  <2>3. \A j \in Reported \cap DOMAIN cache : Calm(cache[j], cache[j])
    BY CalmFetch DEF Shaped
  <2> QED
    BY <1>2, <2>1, <2>2, <2>3 DEF CalmMove, Retry, Poll, GoStale
<1> QED
  BY <1>1, <1>2 DEF Collect

LEMMA ResumeCalm ==
  ASSUME Shaped(cache), Resume
  PROVE  CalmMove(cache, cache') /\ srv' = srv
<1>1. /\ DOMAIN cache' = DOMAIN cache /\ srv' = srv
      /\ \A k \in DOMAIN cache : cache'[k] \in {Sent(cache[k]), Fetch(cache[k]), cache[k]}
  BY DEF Resume, ResumeQueries
<1>2. \A k \in Reported \cap DOMAIN cache : Calm(cache[k], cache'[k])
  BY <1>1, CalmFetch DEF Shaped
<1> QED
  BY <1>1, <1>2 DEF CalmMove

LEMMA SettleCalm ==
  ASSUME Shaped(cache), NEW i \in DOMAIN muts, Settle(i)
  PROVE  CalmMove(cache, cache') /\ srv' = srv
<1>1. PICK c, new : /\ cache' = Observe(c, Observed, new)
                    /\ c = cache \/ \E k : c = invalidateQueries(cache, k, Observed)
  BY DEF Settle, Render
<1>2. CalmMove(cache, c)
  BY <1>1, CalmSame, InvalidateCalm
<1>3. CalmMove(c, cache')
  BY <1>1, <1>2, CalmShaped, ObserveCalm
<1> QED
  BY <1>2, <1>3, CalmTwice DEF Settle

LEMMA ReloadCalm ==
  ASSUME Reload
  PROVE  CalmMove(cache, cache') /\ srv' = srv
<1>1. PICK new : cache' = Observe(<<>>, {}, new)
  BY DEF Reload
<1>2. PICK c : c = <<>> /\ DOMAIN c = {}
  OBVIOUS
<1>3. CalmMove(c, cache')
  BY <1>1, <1>2, ObserveCalm DEF Shaped
<1> QED
  BY <1>2, <1>3 DEF CalmMove, Reload

LEMMA MountCalm ==
  ASSUME Shaped(cache), NEW p, Mount(p)
  PROVE  CalmMove(cache, cache')
BY ObserveCalm DEF Mount

LEMMA CacheSteps ==
  ASSUME Shaped(cache), [Next]_vars
  PROVE  \/ CalmMove(cache, cache') /\ srv' = srv
         \/ Editing
         \/ \E k \in DOMAIN cache : Reading(k) \/ Taking(k)
<1>1. CASE UNCHANGED <<cache, srv>>
  BY <1>1, CalmSame
<1>2. CASE PageStep
  <2>1. PICK new : cache' = Observe(cache, Observed, new) /\ srv' = srv
    BY <1>2, PageStepIs DEF PageClick, Render
  <2> QED
    BY <2>1, ObserveCalm
<1>3. ASSUME NEW i \in DOMAIN muts, ServerActs(i) \/ RequestLost(i) \/ Settle(i)
      PROVE  UNCHANGED <<cache, srv>> \/ Editing \/ (CalmMove(cache, cache') /\ srv' = srv)
  BY <1>3, SettleCalm DEF ServerActs, RequestLost, Editing, queryVars
<1>4. ASSUME NEW k \in DOMAIN cache, QueryStep(k) \/ LoseAnswer(k) \/ Idle(k)
      PROVE  Reading(k) \/ Taking(k) \/ (CalmMove(cache, cache') /\ srv' = srv)
  BY <1>4, TakingIs, QueryCalm DEF QueryStep, LoseAnswer, Idle, Reading
<1>5. CASE GoOffline \/ GoOnline \/ LoginForm
  BY <1>1, <1>5 DEF GoOffline, GoOnline, LoginForm, queryVars
<1>6. CASE Resume
  BY <1>6, ResumeCalm
<1>7. ASSUME NEW p, Navigate(p)
      PROVE  CalmMove(cache, cache') /\ srv' = srv
  BY <1>7, MountCalm DEF Navigate
<1>8. CASE Logout \/ TryAgain
  BY <1>8, MountCalm DEF Logout, TryAgain
<1>9. CASE Reload
  BY <1>9, ReloadCalm
<1>10. ASSUME NEW c \in checks, LoginCheck(c)
       PROVE  CalmMove(cache, cache') /\ srv' = srv
  BY <1>10, MountCalm, CalmSame DEF LoginCheck, queryVars
<1>11. CASE OtherClient
  BY <1>1, <1>11 DEF OtherClient, Editing, queryVars
<1>12. CASE UNCHANGED vars
  BY <1>1, <1>12 DEF vars, queryVars
<1> QED
  BY <1>1, <1>2, <1>3, <1>4, <1>5, <1>6, <1>7, <1>8, <1>9, <1>10, <1>11, <1>12 DEF Next

LEMMA ReportedIs ==
  ASSUME NEW k \in Reported
  PROVE  Resource(k) \in Resources /\ ~Swallows(k)
<1>1. k[1] \in Kinds
  BY DEF Reported, Keys, List, DetailKinds, Kinds, Reads
<1> QED
  BY <1>1 DEF Reported, Resource, Kinds, Reads, Resources

LEMMA OrderStays ==
  ASSUME NEW q, NEW v \in Nat, InOrder(q, v), NEW w \in Nat, v <= w, NEW r,
         Empty(r) \/ Calm(q, r)
  PROVE  InOrder(r, w)
<1>1. CASE Empty(r)
  BY <1>1 DEF InOrder, Empty
<1>2. CASE Calm(q, r)
  <2>1. /\ DOMAIN r = QueryFields /\ r.data = q.data
        /\ r.fetch = "answered" => q.fetch = "answered" /\ r.ans = q.ans
    BY <1>2 DEF Calm
  <2>2. \A x \in Nat : x <= v => x <= w
    OBVIOUS
  <2> QED
    BY <2>1, <2>2 DEF InOrder
<1> QED
  BY <1>1, <1>2

\* What a query is after an answer.
LEMMA TakesAnswer ==
  ASSUME NEW k \in Reported, NEW q, DOMAIN q = QueryFields, NEW obs, NEW s, s = Settled(k, q, obs)
  PROVE  /\ DOMAIN s = QueryFields /\ s.fetch # "answered"
         /\ \/ q.ans # Failed /\ s.data = q.ans
            \/ s.data = q.data /\ (q.old => s.old)
<1>1. QueryFn(k, q.ans) = q.ans
  BY ReportedIs DEF QueryFn
<1> DEFINE e == [q EXCEPT !.fetch = "idle", !.ans = None, !.tries = 0, !.by = None]
<1>2. /\ DOMAIN e = QueryFields /\ e.fetch = "idle" /\ e.data = q.data
  BY DEF QueryFields
<1>3. CASE q.ans # Failed
  <2>1. s = [e EXCEPT !.data = q.ans, !.old = FALSE]
    BY <1>1, <1>3 DEF Settled
  <2> HIDE DEF e
  <2> QED
    BY <1>2, <1>3, <2>1 DEF QueryFields
<1>4. CASE q.ans = Failed
  <2>1. \/ s = [q EXCEPT !.fetch = "retry", !.ans = None, !.tries = @ + 1]
        \/ s = [e EXCEPT !.old = TRUE]
    BY <1>1, <1>4 DEF Settled
  <2> HIDE DEF e
  <2> QED
    BY <1>2, <2>1 DEF QueryFields
<1> QED
  BY <1>3, <1>4

LEMMA CacheStart == Init => CacheInv
<1> SUFFICES ASSUME Init, NEW k \in Reported \cap DOMAIN cache
             PROVE  InOrder(cache[k], srv[Resource(k)].ver)
  BY DEF CacheInv
<1>1. PICK t : cache[k] = [NewQuery EXCEPT !.fetch = "sent", !.by = t]
  BY DEF Init
<1>2. DOMAIN cache[k] = QueryFields /\ cache[k].data = None /\ cache[k].fetch = "sent"
  BY <1>1 DEF NewQuery, QueryFields
<1> QED
  BY <1>2 DEF InOrder

LEMMA CacheShaped == CacheInv => Shaped(cache)
BY DEF CacheInv, Shaped, InOrder

LEMMA CacheCalm ==
  ASSUME Versioned(srv), NEW c, \A k \in Reported \cap DOMAIN c : InOrder(c[k], srv[Resource(k)].ver),
         srv' = srv, CalmMove(c, cache')
  PROVE  CacheInv'
<1> SUFFICES ASSUME NEW k \in Reported, k \in DOMAIN cache'
             PROVE  InOrder(cache'[k], srv[Resource(k)].ver)
  BY DEF CacheInv
<1>1. srv[Resource(k)].ver \in Nat
  BY ReportedIs DEF Versioned
<1>2. Empty(cache'[k]) \/ (k \in DOMAIN c /\ Calm(c[k], cache'[k]))
  BY DEF CalmMove
<1>3. CASE Empty(cache'[k])
  BY <1>3 DEF Empty, InOrder
<1>4. CASE k \in DOMAIN c /\ Calm(c[k], cache'[k])
  BY <1>1, <1>4, OrderStays
<1> QED
  BY <1>2, <1>3, <1>4

LEMMA TakingOrder ==
  ASSUME CacheInv, NEW k \in DOMAIN cache, Taking(k), NEW c,
         c = [cache EXCEPT ![k] = Settled(k, @, Observed)]
  PROVE  \A j \in Reported \cap DOMAIN c : InOrder(c[j], srv[Resource(j)].ver)
<1> SUFFICES ASSUME NEW j \in Reported, j \in DOMAIN cache
             PROVE  InOrder(c[j], srv[Resource(j)].ver)
  OBVIOUS
<1>1. CASE j # k
  BY <1>1 DEF CacheInv
<1>2. CASE j = k
  <2>1. InOrder(cache[k], srv[Resource(k)].ver)
    BY <1>2 DEF CacheInv
  <2>2. PICK s : s = Settled(k, cache[k], Observed)
    OBVIOUS
  <2>3. /\ DOMAIN s = QueryFields /\ s.fetch # "answered"
        /\ (cache[k].ans # Failed /\ s.data = cache[k].ans) \/ s.data = cache[k].data
    <3>1. k \in Reported /\ DOMAIN cache[k] = QueryFields
      BY <1>2, <2>1 DEF InOrder
    <3>2. PICK q, obs : q = cache[k] /\ obs = Observed
      OBVIOUS
    <3>3. s = Settled(k, q, obs)
      BY <2>2, <3>2
    <3>4. /\ DOMAIN s = QueryFields /\ s.fetch # "answered"
          /\ \/ q.ans # Failed /\ s.data = q.ans
             \/ s.data = q.data /\ (q.old => s.old)
      BY <3>1, <3>2, <3>3, TakesAnswer
    <3> QED
      BY <3>2, <3>4
  <2>4. InOrder(s, srv[Resource(k)].ver)
    BY <2>1, <2>3 DEF InOrder, Taking
  <2> QED
    BY <1>2, <2>2, <2>4
<1> QED
  BY <1>1, <1>2

\* The broker's answer.
LEMMA AnswerIs == ASSUME NEW k, NEW t PROVE Answer(k, t) \in {Failed, srv[Resource(k)]}
BY DEF Answer

LEMMA ReadingIs ==
  ASSUME NEW k \in DOMAIN cache, Reading(k), DOMAIN cache[k] = QueryFields
  PROVE  /\ DOMAIN cache' = DOMAIN cache /\ srv' = srv
         /\ \A j \in DOMAIN cache : j # k => cache'[j] = cache[j]
         /\ DOMAIN cache'[k] = QueryFields /\ cache'[k].data = cache[k].data
         /\ cache'[k].old = cache[k].old /\ cache'[k].ans \in {Failed, srv[Resource(k)]}
<1>1. PICK a \in {Failed, srv[Resource(k)]} :
        cache' = [cache EXCEPT ![k] = [[@ EXCEPT !.fetch = "answered"] EXCEPT !.ans = a]]
  <2>1. CASE ServerReads(k)
    BY <2>1, AnswerIs DEF ServerReads
  <2>2. CASE ReadFails(k)
    BY <2>2 DEF ReadFails
  <2> QED
    BY <2>1, <2>2 DEF Reading
<1>2. srv' = srv
  BY DEF Reading, ServerReads, ReadFails
<1> QED
  BY <1>1, <1>2 DEF QueryFields

LEMMA CacheRead ==
  ASSUME Versioned(srv), CacheInv, NEW k \in DOMAIN cache, Reading(k)
  PROVE  CacheInv'
<1>1. srv' = srv /\ DOMAIN cache' = DOMAIN cache
  BY DEF Reading, ServerReads, ReadFails
<1> SUFFICES ASSUME NEW j \in Reported, j \in DOMAIN cache
             PROVE  InOrder(cache'[j], srv[Resource(j)].ver)
  BY <1>1 DEF CacheInv
<1>2. srv[Resource(j)].ver \in Nat /\ InOrder(cache[j], srv[Resource(j)].ver)
  BY ReportedIs DEF Versioned, CacheInv
<1>3. CASE j # k
  BY <1>2, <1>3 DEF Reading, ServerReads, ReadFails
<1>4. CASE j = k
  <2>1. /\ DOMAIN cache'[k] = QueryFields /\ cache'[k].data = cache[k].data
        /\ cache'[k].ans \in {Failed, srv[Resource(k)]}
    BY <1>2, <1>4, ReadingIs DEF InOrder
  <2> QED
    BY <1>2, <1>4, <2>1 DEF InOrder
<1> QED
  BY <1>3, <1>4

LEMMA CacheStep == MutInv /\ CacheInv /\ [Next]_vars => CacheInv'
<1> SUFFICES ASSUME MutInv, CacheInv, [Next]_vars PROVE CacheInv'
  OBVIOUS
<1>1. Versioned(srv)
  BY DEF MutInv
<1>2. CASE CalmMove(cache, cache') /\ srv' = srv
  BY <1>1, <1>2, CacheCalm DEF CacheInv
<1>3. CASE Editing
  <2> SUFFICES ASSUME NEW k \in Reported, k \in DOMAIN cache
               PROVE  InOrder(cache[k], srv'[Resource(k)].ver)
    BY <1>3 DEF CacheInv, Editing
  <2>1. Versioned(srv') /\ Grows(srv, srv')
    BY <1>1, <1>3, EditGrows DEF Editing
  <2>2. /\ srv[Resource(k)].ver \in Nat /\ srv'[Resource(k)].ver \in Nat
        /\ srv[Resource(k)].ver <= srv'[Resource(k)].ver
    BY <1>1, <2>1, ReportedIs DEF Versioned, Grows
  <2>3. InOrder(cache[k], srv[Resource(k)].ver) /\ Calm(cache[k], cache[k])
    BY CalmFetch DEF CacheInv, InOrder
  <2> QED
    BY <2>2, <2>3, OrderStays
<1>4. ASSUME NEW k \in DOMAIN cache, Reading(k) PROVE CacheInv'
  BY <1>1, <1>4, CacheRead
<1>5. ASSUME NEW k \in DOMAIN cache, Taking(k) PROVE CacheInv'
  <2>1. PICK c : c = [cache EXCEPT ![k] = Settled(k, @, Observed)]
    OBVIOUS
  <2> QED
    BY <1>1, <1>5, <2>1, TakingOrder, CacheCalm DEF Taking
<1> QED
  BY <1>2, <1>3, <1>4, <1>5, CacheSteps, CacheShaped

LEMMA CacheHolds == Spec => []CacheInv
BY CacheStart, CacheStep, MutHolds, PTL DEF Spec

-----------------------------------------------------------------------------
\* What a list shows of the cache c, and the versions of the broker: the refinement
\* mapping of View.
ShownIn(c, k) == IF Data(c, k) = None THEN None ELSE c[k].data.ver

LEMMA CalmShows ==
  ASSUME NEW c, NEW d, CalmMove(c, d), NEW k \in Reported
  PROVE  ShownIn(d, k) \in {ShownIn(c, k), None}
<1>1. CASE k \notin DOMAIN d
  BY <1>1 DEF ShownIn, Data
<1>2. CASE k \in DOMAIN d /\ Empty(d[k])
  BY <1>2 DEF ShownIn, Data, Empty
<1>3. CASE k \in DOMAIN d /\ k \in DOMAIN c /\ Calm(c[k], d[k])
  BY <1>3 DEF ShownIn, Data, Calm
<1> QED
  BY <1>1, <1>2, <1>3 DEF CalmMove

\* A view catches up with an answer.
LEMMA TakingShows ==
  ASSUME Versioned(srv), CacheInv, NEW k \in DOMAIN cache, Taking(k), NEW l \in Reported
  PROVE  \/ ShownIn(cache', l) \in {ShownIn(cache, l), None}
         \/ /\ ShownIn(cache, l) # None => ShownIn(cache', l) >= ShownIn(cache, l)
            /\ ShownIn(cache', l) <= srv[Resource(l)].ver
<1>1. PICK c : c = [cache EXCEPT ![k] = Settled(k, @, Observed)]
  OBVIOUS
<1>2. CalmMove(c, cache')
  BY <1>1 DEF Taking
<1>3. ShownIn(cache', l) \in {ShownIn(c, l), None}
  BY <1>2, CalmShows
<1>4. CASE l # k \/ l \notin DOMAIN cache
  <2>1. ShownIn(c, l) = ShownIn(cache, l)
    BY <1>1, <1>4 DEF ShownIn, Data
  <2> QED
    BY <1>3, <2>1
<1>5. CASE l = k
  <2>1. InOrder(cache[l], srv[Resource(l)].ver) /\ cache[l].fetch = "answered"
    BY <1>5 DEF CacheInv, Taking
  <2>2. PICK q, s, obs : q = cache[l] /\ obs = Observed /\ s = Settled(l, q, obs)
    OBVIOUS
  <2>3. /\ c[l] = s /\ l \in DOMAIN c
        /\ \/ q.ans # Failed /\ s.data = q.ans
           \/ s.data = q.data
    <3>1. DOMAIN q = QueryFields
      BY <2>1, <2>2 DEF InOrder
    <3>2. \/ q.ans # Failed /\ s.data = q.ans
          \/ s.data = q.data /\ (q.old => s.old)
      BY <2>2, <3>1, TakesAnswer
    <3>3. c[l] = s /\ l \in DOMAIN c
      BY <1>1, <1>5, <2>2
    <3> QED
      BY <3>2, <3>3
  <2>4. CASE s.data = q.data
    <3>1. ShownIn(c, l) = ShownIn(cache, l)
      BY <1>5, <2>2, <2>3, <2>4 DEF ShownIn, Data
    <3> QED
      BY <1>3, <3>1
  <2>5. CASE q.ans # Failed /\ s.data = q.ans
    <3>1. /\ q.ans.ver <= srv[Resource(l)].ver
          /\ q.data # None => q.data.ver <= q.ans.ver /\ q.data.ver \in Nat
          /\ q.ans.ver \in Nat
      BY <2>1, <2>2, <2>5 DEF InOrder
    <3>2. ShownIn(c, l) = IF q.ans = None THEN None ELSE q.ans.ver
      BY <2>3, <2>5 DEF ShownIn, Data
    <3>3. ShownIn(cache, l) = IF q.data = None THEN None ELSE q.data.ver
      BY <1>5, <2>2 DEF ShownIn, Data
    <3> QED
      BY <1>3, <3>1, <3>2, <3>3
  <2> QED
    BY <2>3, <2>4, <2>5
<1> QED
  BY <1>4, <1>5

LEMMA ViewStep ==
  ASSUME MutInv, CacheInv, [Next]_vars
  PROVE  [View!Next]_(View!vars)
<1>1. Versioned(srv)
  BY DEF MutInv
<1>2. ASSUME srv' = srv,
             \A l \in Reported :
               \/ ShownIn(cache', l) \in {ShownIn(cache, l), None}
               \/ /\ ShownIn(cache, l) # None => ShownIn(cache', l) >= ShownIn(cache, l)
                  /\ ShownIn(cache', l) <= srv[Resource(l)].ver
      PROVE  View!Display
  BY <1>2 DEF View!Display, View!Refresh, ShownIn
<1>3. CASE CalmMove(cache, cache') /\ srv' = srv
  <2>1. View!Display
    BY <1>2, <1>3, CalmShows
  <2> QED
    BY <2>1 DEF View!Next
<1>4. CASE Editing
  <2>1. \A k \in Reported : srv'[Resource(k)].ver \in {srv[Resource(k)].ver, srv[Resource(k)].ver + 1}
    BY <1>1, <1>4, ReportedIs DEF Editing, Edited, Versioned
  <2>2. View!Change
    BY <1>4, <2>1 DEF View!Change, Editing
  <2> QED
    BY <2>2 DEF View!Next
<1>5. ASSUME NEW k \in DOMAIN cache, Reading(k) PROVE View!Display
  <2>1. srv' = srv /\ DOMAIN cache' = DOMAIN cache
    BY <1>5 DEF Reading, ServerReads, ReadFails
  <2>2. ASSUME NEW l \in Reported PROVE ShownIn(cache', l) = ShownIn(cache, l)
    <3>1. CASE l \notin DOMAIN cache
      BY <2>1, <3>1 DEF ShownIn, Data
    <3>2. CASE l \in DOMAIN cache /\ l # k
      BY <1>5, <2>1, <3>2 DEF Reading, ServerReads, ReadFails, ShownIn, Data
    <3>3. CASE l = k
      <4>1. DOMAIN cache[k] = QueryFields
        BY <3>3 DEF CacheInv, InOrder
      <4>2. cache'[k].data = cache[k].data
        BY <1>5, <4>1, ReadingIs
      <4> QED
        BY <2>1, <3>3, <4>2 DEF ShownIn, Data
    <3> QED
      BY <3>1, <3>2, <3>3
  <2> QED
    BY <1>2, <2>1, <2>2
<1>6. ASSUME NEW k \in DOMAIN cache, Taking(k) PROVE View!Display
  BY <1>1, <1>2, <1>6, TakingShows DEF Taking
<1> QED
  BY <1>3, <1>4, <1>5, <1>6, CacheSteps, CacheShaped DEF View!Next

\* No list and no detail of the console goes back to an earlier version, nor shows one
\* the broker never had, in spite of polls, retries, lost answers, invalidations,
\* remounts, reloads and garbage collection (useQuery of the pages): the cache
\* implements ListView.
THEOREM ListsImplementView == Spec => NeverOlder
<1>1. Init => View!Init
  <2> SUFFICES ASSUME Init PROVE View!Init
    OBVIOUS
  <2>1. \A k \in Reported : srv[Resource(k)].ver \in Nat
    BY MutStart, ReportedIs DEF MutInv, Versioned
  <2>2. \A k \in Reported : Data(cache, k) = None
    <3> SUFFICES ASSUME NEW k \in Reported, k \in DOMAIN cache PROVE cache[k].data = None
      BY DEF Data
    <3>1. PICK t : cache[k] = [NewQuery EXCEPT !.fetch = "sent", !.by = t]
      BY DEF Init
    <3> QED
      BY <3>1 DEF NewQuery
  <2> QED
    BY <2>1, <2>2 DEF View!Init
<1> QED
  BY <1>1, ViewStep, MutHolds, CacheHolds, PTL DEF Spec, NeverOlder, View!Spec

-----------------------------------------------------------------------------
\* Of the mutations ns, those that were successful were so among ms.
Settles(ms, ns) ==
  \A i \in DOMAIN ns : ns[i].st = "ok" => i \in DOMAIN ms /\ SameMut(ms[i], ns[i])

LEMMA SettlesUnmounted ==
  ASSUME NEW ms, \A i \in DOMAIN ms : DOMAIN ms[i] = Fields
  PROVE  Settles(ms, ms) /\ Settles(ms, Unmounted(ms))
BY SameUnmounted, SameFreeze DEF Settles

LEMMA SettlesTwice ==
  ASSUME NEW ms, NEW ns, NEW os, Settles(ms, ns), Settles(ns, os)
  PROVE  Settles(ms, os)
<1> SUFFICES ASSUME NEW i \in DOMAIN os, os[i].st = "ok"
             PROVE  i \in DOMAIN ms /\ SameMut(ms[i], os[i])
  BY DEF Settles
<1>1. i \in DOMAIN ns /\ SameMut(ns[i], os[i]) /\ ns[i].st = "ok"
  BY DEF Settles, SameMut
<1>2. i \in DOMAIN ms /\ SameMut(ms[i], ns[i])
  BY <1>1 DEF Settles
<1> QED
  BY <1>1, <1>2 DEF SameMut

LEMMA SettlesMutate ==
  ASSUME MutInv, NEW op \in Ops, NEW name
  PROVE  Settles(muts, Mutate(op, name))
<1> DEFINE f == [i \in DOMAIN muts |-> IF muts[i].op = op THEN Freeze(muts[i]) ELSE muts[i]]
           m == [op |-> op, asked |-> name,
                 opt |-> IF op = "replayDLQ" THEN ui.typed ELSE None,
                 arg |-> None, sent |-> IF Online THEN name ELSE None,
                 st |-> IF Online THEN "sent" ELSE "paused",
                 cur |-> TRUE, live |-> TRUE, waited |-> ~Online,
                 by |-> IF Online THEN setAuthHeader ELSE None,
                 at |-> 0, told |-> None, shown |-> FALSE]
<1>1. PICK n \in Nat : DOMAIN muts = 1..n
  BY DEF MutInv
<1>2. f = [i \in 1..n |-> f[i]]
  BY <1>1
<1>3. \A i \in 1..n : SameMut(muts[i], f[i])
  BY <1>1, SameFreeze DEF MutInv, Sound
<1>4. Mutate(op, name) = Append(f, m)
  BY DEF Mutate
<1>5. m.st # "ok"
  OBVIOUS
<1> HIDE DEF f, m
<1>6. Append(f, m) = [i \in 1..n + 1 |-> IF i = n + 1 THEN m ELSE f[i]]
  BY <1>2, AppendIs
<1>7. \A i \in 1..n + 1 : i = n + 1 \/ i \in 1..n
  OBVIOUS
<1> QED
  BY <1>1, <1>3, <1>4, <1>5, <1>6, <1>7 DEF Settles

\* Only an answer makes a mutation successful.
LEMMA OthersSettleNone ==
  ASSUME MutInv, [Next]_vars
  PROVE  Settles(muts, muts') \/ \E i \in DOMAIN muts : Settle(i)
<1>1. \A i \in DOMAIN muts : DOMAIN muts[i] = Fields
  BY DEF MutInv, Sound
<1>2. CASE muts' \in {muts, Unmounted(muts)}
  BY <1>1, <1>2, SettlesUnmounted
<1>3. CASE PageStep
  <2>1. PICK u, ms : /\ ms = muts \/ \E op \in Ops : \E name : ms = Mutate(op, name)
                     /\ Render(path, u, cache, ms)
    BY <1>3, PageStepIs DEF PageClick
  <2>2. Settles(muts, ms)
    BY <1>1, <2>1, SettlesUnmounted, SettlesMutate
  <2>3. \A i \in DOMAIN ms : DOMAIN ms[i] = Fields
    BY <1>1, <2>1, MutateSound DEF SoundAll, Sound
  <2>4. Settles(ms, muts')
    BY <2>1, <2>3, SettlesUnmounted DEF Render
  <2> QED
    BY <2>2, <2>4, SettlesTwice
<1>4. ASSUME DOMAIN muts' = DOMAIN muts,
             \A i \in DOMAIN muts : muts'[i] = muts[i] \/ muts'[i].st # "ok"
      PROVE  Settles(muts, muts')
  BY <1>1, <1>4, SameFreeze DEF Settles
<1>5. ASSUME NEW i \in DOMAIN muts, ServerActs(i)
      PROVE  Settles(muts, muts')
  <2>1. PICK x \in {"gone", "applied", "refused"} : \E v :
          muts' = [muts EXCEPT ![i] = [[@ EXCEPT !.st = x] EXCEPT !.at = v]]
    <3> DEFINE m == muts[i]
               now == srv[Resource(Changes[m.op])].ver
    <3>1. CASE Accepts(m) /\ m.opt # "preview"
      <4>1. \E x \in {"gone", "applied"} :
              muts' = [muts EXCEPT ![i] = [[@ EXCEPT !.st = x] EXCEPT !.at = now + 1]]
        BY <1>5, <3>1 DEF ServerActs
      <4> QED
        BY <4>1
    <3>2. CASE ~(Accepts(m) /\ m.opt # "preview")
      <4>1. \E x \in {"gone", "applied", "refused"} :
              muts' = [muts EXCEPT ![i] = [[@ EXCEPT !.st = x] EXCEPT !.at = now]]
        BY <1>5, <3>2 DEF ServerActs
      <4> QED
        BY <4>1
    <3> QED
      BY <3>1, <3>2
  <2>2. PICK v : muts' = [muts EXCEPT ![i] = [[@ EXCEPT !.st = x] EXCEPT !.at = v]]
    BY <2>1
  <2>3. [[muts[i] EXCEPT !.st = x] EXCEPT !.at = v].st = x
    BY <1>1 DEF Fields
  <2> QED
    BY <1>4, <2>1, <2>2, <2>3
<1>6. ASSUME NEW i \in DOMAIN muts, RequestLost(i)
      PROVE  Settles(muts, muts')
  <2>1. muts' = [muts EXCEPT ![i] = [@ EXCEPT !.st = "refused"]]
    BY <1>6 DEF RequestLost
  <2>2. [muts[i] EXCEPT !.st = "refused"].st = "refused"
    BY <1>1 DEF Fields
  <2> QED
    BY <1>4, <2>1, <2>2
<1>7. CASE GoOnline
  <2>1. ASSUME NEW i \in DOMAIN muts
        PROVE  [muts[i] EXCEPT !.st = "sent", !.sent = mutationFn(muts[i]), !.by = setAuthHeader].st
                 = "sent"
    BY <1>1 DEF Fields
  <2> QED
    BY <1>4, <1>7, <2>1 DEF GoOnline
<1>8. CASE Reload
  <2> DEFINE end == [paused |-> "gone", sent |-> "orphan", applied |-> "gone", refused |-> "gone"]
  <2>1. ASSUME NEW i \in DOMAIN muts, muts[i].st \in Pending
        PROVE  [Closed(muts[i]) EXCEPT !.st = end[@]].st # "ok"
    <3>1. Closed(muts[i]).st = muts[i].st /\ DOMAIN Closed(muts[i]) = Fields
      BY <1>1 DEF Closed, Fields
    <3>2. end[Closed(muts[i]).st] # "ok"
      BY <2>1, <3>1 DEF Pending
    <3> HIDE DEF end
    <3>3. [Closed(muts[i]) EXCEPT !.st = end[@]].st = end[Closed(muts[i]).st]
      BY <3>1 DEF Fields
    <3> QED
      BY <3>2, <3>3
  <2>2. DOMAIN muts' = DOMAIN muts
    BY <1>8 DEF Reload
  <2>3. ASSUME NEW i \in DOMAIN muts
        PROVE  muts'[i] = IF muts[i].st \in Pending THEN [Closed(muts[i]) EXCEPT !.st = end[@]]
                                                     ELSE muts[i]
    BY <1>8 DEF Reload
  <2> HIDE DEF end
  <2> QED
    BY <1>4, <2>1, <2>2, <2>3
<1>9. ASSUME NEW k \in DOMAIN cache, QueryStep(k) \/ LoseAnswer(k) \/ Idle(k)
      PROVE  muts' \in {muts, Unmounted(muts)}
  BY <1>9 DEF QueryStep, Deliver, Render, LoseAnswer, Idle, pageVars
<1>10. CASE GoOffline \/ Resume \/ LoginForm \/ OtherClient \/ Logout \/ TryAgain \/ UNCHANGED vars
  BY <1>2, <1>10 DEF GoOffline, Resume, LoginForm, OtherClient, Logout, TryAgain, Mount, pageVars, vars
<1>11. ASSUME NEW p, Navigate(p) PROVE muts' = Unmounted(muts)
  BY <1>11 DEF Navigate, Mount
<1>12. ASSUME NEW c, LoginCheck(c) PROVE muts' \in {muts, Unmounted(muts)}
  BY <1>12 DEF LoginCheck, Mount, pageVars
<1> QED
  BY <1>2, <1>3, <1>5, <1>6, <1>7, <1>8, <1>9, <1>10, <1>11, <1>12 DEF Next

LEMMA CalmCaught ==
  ASSUME NEW q, NEW a, Caught(q, a), NEW r, Calm(q, r) \/ Empty(r)
  PROVE  Caught(r, a)
<1>1. CASE Empty(r)
  BY <1>1 DEF Caught, Empty
<1>2. CASE Calm(q, r)
  BY <1>2 DEF Caught, Calm
<1> QED
  BY <1>1, <1>2

\* The query stays caught up with a mutation m of before, at broker sv: what is read
\* now has its version.
LEMMA StaysCaught ==
  ASSUME MutInv, CacheInv, [Next]_vars, NEW k \in Reported, k \in DOMAIN cache',
         NEW a \in Nat, a <= srv[Resource(k)].ver,
         k \in DOMAIN cache => Caught(cache[k], a)
  PROVE  Caught(cache'[k], a)
<1>1. ASSUME NEW c, CalmMove(c, cache'), k \in DOMAIN c => Caught(c[k], a)
      PROVE  Caught(cache'[k], a)
  <2>1. Empty(cache'[k]) \/ (k \in DOMAIN c /\ Calm(c[k], cache'[k]))
    BY <1>1 DEF CalmMove
  <2>2. CASE Empty(cache'[k])
    BY <2>2 DEF Empty, Caught
  <2> QED
    BY <1>1, <2>1, <2>2, CalmCaught
<1>2. CASE CalmMove(cache, cache') \/ Editing
  BY <1>1, <1>2 DEF Editing
<1>3. ASSUME NEW j \in DOMAIN cache, Reading(j) PROVE Caught(cache'[k], a)
  <2>1. CASE j # k
    BY <1>3, <2>1 DEF Reading, ServerReads, ReadFails
  <2>2. CASE j = k
    <3>1. DOMAIN cache[k] = QueryFields
      BY <1>3, <2>2 DEF CacheInv, InOrder
    <3>2. /\ cache'[k].data = cache[k].data /\ cache'[k].old = cache[k].old
          /\ cache'[k].ans \in {Failed, srv[Resource(k)]}
      BY <1>3, <2>2, <3>1, ReadingIs
    <3>3. srv[Resource(k)].ver >= a
      BY ReportedIs DEF MutInv, Versioned
    <3> QED
      BY <1>3, <2>2, <3>2, <3>3 DEF Caught
  <2> QED
    BY <2>1, <2>2
<1>4. ASSUME NEW j \in DOMAIN cache, Taking(j) PROVE Caught(cache'[k], a)
  <2>1. PICK c : c = [cache EXCEPT ![j] = Settled(j, @, Observed)]
    OBVIOUS
  <2>2. CalmMove(c, cache')
    BY <1>4, <2>1 DEF Taking
  <2>3. ASSUME k \in DOMAIN c PROVE Caught(c[k], a)
    <3>1. CASE j # k
      BY <2>1, <2>3, <3>1
    <3>2. CASE j = k
      <4>1. PICK q, s, obs : q = cache[k] /\ obs = Observed /\ s = Settled(k, q, obs)
        OBVIOUS
      <4>2. DOMAIN q = QueryFields /\ q.fetch = "answered" /\ Caught(q, a)
        BY <1>4, <2>1, <2>3, <3>2, <4>1 DEF CacheInv, InOrder, Taking
      <4>3. /\ DOMAIN s = QueryFields /\ s.fetch # "answered"
            /\ \/ q.ans # Failed /\ s.data = q.ans
               \/ s.data = q.data /\ (q.old => s.old)
        BY <4>1, <4>2, TakesAnswer
      <4>4. Caught(s, a)
        BY <4>2, <4>3 DEF Caught
      <4> QED
        BY <1>4, <2>1, <3>2, <4>1, <4>4
    <3> QED
      BY <3>1, <3>2
  <2> QED
    BY <1>1, <2>2, <2>3
<1> QED
  BY <1>2, <1>3, <1>4, CacheSteps, CacheShaped

\* The callbacks invalidate the list their mutation changes.
LEMMA ChangesKey ==
  ASSUME NEW m, m.op \in Ops, ~Swallows(Changes[m.op])
  PROVE  /\ Changes[m.op] \in Reported /\ onSuccess(m).key = Changes[m.op]
         /\ Resource(Changes[m.op]) \in Resources
<1>1. Changes[m.op] \in {List("topics"), List("wasmModules"), List("processors")}
  BY ChangesOne DEF Swallows, List, Ops, DeleteOps, DLQOps, StartStop, Creates
<1>2. \A k \in {List("topics"), List("wasmModules"), List("processors")} : k \in Keys
  BY DEF Keys, Kinds, DetailKinds, Reads
<1>3. Changes[m.op] \in Reported
  BY <1>1, <1>2 DEF Reported
<1>4. onSuccess(m).key = Changes[m.op]
  <2>1. m.op \in {"createTopic", "deleteTopic", "deleteWASMModule", "deleteProcessor",
                  "startProcessor", "stopProcessor"}
    BY <1>1, ChangesOne DEF List, Ops, DeleteOps, DLQOps, StartStop, Creates
  <2> QED
    BY <2>1, ChangesOne DEF onSuccess, TopicsSuccess, WASMSuccess, ProcessorsSuccess, Outcome,
       DLQOps, StartStop
<1> QED
  BY <1>3, <1>4, ReportedIs

LEMMA SettleOp ==
  ASSUME MutInv, NEW i \in DOMAIN muts, Settle(i)
  PROVE  muts'[i].op = muts[i].op
<1>1. PICK d, ms : /\ ms = [muts EXCEPT ![i] = d] /\ muts' \in {ms, Unmounted(ms)}
                   /\ Answered(muts[i], d)
  BY SettleIs
<1>2. \A l \in DOMAIN muts : DOMAIN muts[l] = Fields
  BY DEF MutInv, Sound
<1>3. DOMAIN d = Fields /\ d.op = muts[i].op
  BY <1>1, <1>2 DEF Answered, Closed, Fields
<1>4. (\A l \in DOMAIN ms : DOMAIN ms[l] = Fields) /\ ms[i] = d /\ i \in DOMAIN ms
  BY <1>1, <1>2, <1>3
<1>5. SameMut(d, muts'[i])
  BY <1>1, <1>4, SameUnmounted, SameFreeze
<1> QED
  BY <1>3, <1>5 DEF SameMut

\* A success message of a list on display has that list read afresh.
LEMMA NewsAwaited ==
  ASSUME CacheInv, MutInv, NEW i \in DOMAIN muts, Settle(i), NEW k, k = Changes[muts[i].op],
         Reports(muts'[i]), k \in DOMAIN cache', NEW a
  PROVE  Caught(cache'[k], a)
<1> DEFINE m == muts[i]
           o == onSuccess(m)
           b == k \in Observed /\ Data(cache, k) # None
           d == [Closed(m) EXCEPT !.st = "ok", !.told = o.told, !.shown = b]
<1>1. DOMAIN m = Fields /\ m.op \in Ops
  BY DEF MutInv, Sound
<1>2. CASE m.st = "applied" /\ ~NoBody(m)
  <2>1. PICK ms, u : /\ Render(path, u, invalidateQueries(cache, o.key, Observed), ms)
                     /\ ms = [muts EXCEPT ![i] = d]
    BY <1>2 DEF Settle
  <2>2. d.shown = b /\ d.op = m.op /\ DOMAIN d = Fields
    BY <1>1 DEF Closed, Fields
  <2> HIDE DEF d
  <2>3. SameMut(d, muts'[i])
    <3>1. muts' \in {ms, Unmounted(ms)}
      BY <2>1 DEF Render
    <3>2. \A j \in DOMAIN ms : DOMAIN ms[j] = Fields
      BY <2>1, <2>2 DEF MutInv, Sound
    <3>3. ms[i] = d /\ i \in DOMAIN ms
      BY <2>1
    <3> QED
      BY <3>1, <3>2, <3>3, SameUnmounted, SameFreeze
  <2>4. k \in Reported /\ o.key = k
    <3>1. Reports(d)
      BY <2>2, <2>3 DEF Reports, SameMut
    <3>2. ~Swallows(Changes[m.op])
      BY <2>2, <3>1 DEF Reports
    <3> QED
      BY <3>2, <1>1, ChangesKey
  <2>5. b
    BY <2>2, <2>3 DEF Reports, SameMut
  <2>6. k \in DOMAIN cache /\ cache[k].data # None /\ k \in Observed
    BY <2>5 DEF Data
  <2>7. DOMAIN cache[k] = QueryFields
    BY <2>4, <2>6 DEF CacheInv, InOrder
  <2>8. PICK c, r : /\ c = invalidateQueries(cache, k, Observed)
                    /\ r = [cache[k] EXCEPT !.old = TRUE]
    OBVIOUS
  <2>9. c[k] = Refetch(r) /\ k \in DOMAIN c
    BY <2>6, <2>8 DEF invalidateQueries
  <2>10. c[k].fetch # "answered" /\ c[k].old = TRUE /\ c[k].data # None
    <3>1. PICK q : q = cache[k]
      OBVIOUS
    <3>2. Calm(q, Refetch(r)) /\ Refetch(r).fetch # "answered" /\ Refetch(r).old = TRUE
      BY <2>6, <2>7, <2>8, <3>1, CalmRefetch
    <3> QED
      BY <2>6, <2>9, <3>1, <3>2 DEF Calm
  <2>11. CalmMove(c, cache')
    <3>1. Shaped(c)
      BY <2>8, CacheShaped, InvalidateCalm, CalmShaped
    <3>2. PICK new : cache' = Observe(c, Observed, new)
      BY <2>1, <2>4, <2>8 DEF Render
    <3> QED
      BY <3>1, <3>2, ObserveCalm
  <2>12. Caught(c[k], a)
    BY <2>10 DEF Caught
  <2>13. Calm(c[k], cache'[k]) \/ Empty(cache'[k])
    BY <2>4, <2>11 DEF CalmMove
  <2> QED
    BY <2>12, <2>13, CalmCaught
<1>3. CASE ~(m.st = "applied" /\ ~NoBody(m))
  <2> DEFINE e == [Closed(m) EXCEPT !.st = "error"]
  <2>1. PICK ms : Render(path, ui, cache, ms) /\ ms = [muts EXCEPT ![i] = e]
    BY <1>3 DEF Settle
  <2>2. e.st = "error" /\ DOMAIN e = Fields
    BY <1>1 DEF Closed, Fields
  <2> HIDE DEF e
  <2>3. muts' \in {ms, Unmounted(ms)}
    BY <2>1 DEF Render
  <2>4. \A j \in DOMAIN ms : DOMAIN ms[j] = Fields
    BY <2>1, <2>2 DEF MutInv, Sound
  <2>5. ms[i] = e /\ i \in DOMAIN ms
    BY <2>1
  <2>6. SameMut(e, muts'[i])
    BY <2>3, <2>4, <2>5, SameUnmounted, SameFreeze
  <2> QED
    BY <2>2, <2>6 DEF SameMut, Reports
<1> QED
  BY <1>2, <1>3

\* The others of a step in which one mutation is settled.
LEMMA SettleOthers ==
  ASSUME MutInv, NEW i \in DOMAIN muts, Settle(i), NEW j \in DOMAIN muts', j # i
  PROVE  j \in DOMAIN muts /\ SameMut(muts[j], muts'[j])
<1>1. PICK d, ms : /\ ms = [muts EXCEPT ![i] = d] /\ muts' \in {ms, Unmounted(ms)}
                   /\ Answered(muts[i], d)
  BY SettleIs
<1>2. \A l \in DOMAIN muts : DOMAIN muts[l] = Fields
  BY DEF MutInv, Sound
<1>3. DOMAIN d = Fields
  BY <1>1, <1>2 DEF Answered, Closed
<1>4. \A l \in DOMAIN ms : DOMAIN ms[l] = Fields
  BY <1>1, <1>2, <1>3
<1>5. DOMAIN muts' = DOMAIN ms /\ DOMAIN ms = DOMAIN muts
  BY <1>1, <1>4, SameUnmounted
<1>6. SameMut(ms[j], muts'[j])
  BY <1>1, <1>4, <1>5, SameUnmounted, SameFreeze
<1> QED
  BY <1>1, <1>5, <1>6

LEMMA FreshStart == Init => FreshInv
<1> SUFFICES ASSUME Init PROVE FreshInv
  OBVIOUS
<1>1. muts = <<>>
  BY DEF Init
<1>2. DOMAIN muts = {}
  BY <1>1
<1> QED
  BY <1>2 DEF FreshInv

LEMMA FreshStep ==
  MutInv /\ CacheInv /\ FreshInv /\ [Next]_vars => FreshInv'
<1> SUFFICES ASSUME MutInv, CacheInv, FreshInv, [Next]_vars,
                    NEW j \in DOMAIN muts', Reports(muts'[j]),
                    Changes[muts'[j].op] \in DOMAIN cache'
             PROVE  Caught(cache'[Changes[muts'[j].op]], muts'[j].at)
  BY DEF FreshInv
<1>1. ASSUME j \in DOMAIN muts, SameMut(muts[j], muts'[j])
      PROVE  Caught(cache'[Changes[muts'[j].op]], muts'[j].at)
  <2>1. PICK m, k : m = muts[j] /\ k = Changes[m.op]
    OBVIOUS
  <2>2. /\ muts'[j].op = m.op /\ muts'[j].at = m.at /\ Reports(m) /\ Sound(m, srv)
        /\ k \in DOMAIN cache => Caught(cache[k], m.at)
    BY <1>1, <2>1 DEF SameMut, Reports, MutInv, FreshInv
  <2>3. /\ m.op \in Ops /\ m.at \in Nat /\ m.at <= Version(m.op, srv)
        /\ ~Swallows(Changes[m.op])
    BY <2>2 DEF Sound, Reports
  <2>4. k \in Reported
    BY <2>1, <2>3, ChangesKey
  <2>5. m.at <= srv[Resource(k)].ver /\ k \in DOMAIN cache'
    BY <2>1, <2>2, <2>3 DEF Version
  <2>6. Caught(cache'[k], m.at)
    BY <2>2, <2>3, <2>4, <2>5, StaysCaught
  <2> QED
    BY <2>1, <2>2, <2>6
<1>2. CASE Settles(muts, muts')
  BY <1>1, <1>2 DEF Settles, Reports
<1>3. ASSUME NEW i \in DOMAIN muts, Settle(i)
      PROVE  Caught(cache'[Changes[muts'[j].op]], muts'[j].at)
  <2>1. CASE j # i
    BY <1>1, <1>3, <2>1, SettleOthers
  <2>2. CASE j = i
    <3>1. muts'[i].op = muts[i].op
      BY <1>3, SettleOp
    <3> QED
      BY <1>3, <2>2, <3>1, NewsAwaited
  <2> QED
    BY <2>1, <2>2
<1> QED
  BY <1>2, <1>3, OthersSettleNone

LEMMA FreshHolds == Spec => []FreshInv
BY FreshStart, FreshStep, MutHolds, CacheHolds, PTL DEF Spec

\* After a success message the list it is about, if it was on display, is known to be
\* old or shows what the message reports, whichever polls and answers were on their
\* way (onSuccess with invalidateQueries).
THEOREM FreshAfterMessage == Spec => []FreshAfterSuccess
<1>1. FreshInv => FreshAfterSuccess
  BY DEF FreshInv, FreshAfterSuccess, Caught, Reports
<1> QED
  BY <1>1, FreshHolds, PTL

-----------------------------------------------------------------------------
LEMMA SeqsGrow == ASSUME NEW S, NEW T, S \subseteq T, NEW f \in Seq(S) PROVE f \in Seq(T)
OBVIOUS

\* The effect adds a point, keeps the points or loses them.
LEMMA ChartPoint ==
  ASSUME ChartInv, ChartEffect
  PROVE  ChartInv'
<1>1. PICK now : now = ChartDeps(cache')
  OBVIOUS
<1> DEFINE kept == IF path = "overview" /\ ~crashed THEN chart ELSE <<>>
           next == Append(kept, now)
           lost == path' # "overview" \/ crashed' \/ now[1] = None \/ now[2] = None
<1>2. PICK S : chart \in Seq(S)
  BY DEF ChartInv
<1>3. kept \in Seq(S \cup {now}) /\ (kept # <<>> => kept[Len(kept)] = ChartDeps(cache))
  <2>1. CASE path = "overview" /\ ~crashed
    BY <1>2, <2>1, SeqsGrow DEF ChartInv
  <2>2. CASE ~(path = "overview" /\ ~crashed)
    BY <2>2
  <2> QED
    BY <2>1, <2>2
<1>4. /\ lost => chart' = <<>>
      /\ ~lost /\ kept # <<>> /\ ~ChartRuns => chart' = kept
      /\ ~lost /\ ~(kept # <<>> /\ ~ChartRuns)
           => chart' = IF Len(next) > ChartLength THEN Tail(next) ELSE next
  BY <1>1 DEF ChartEffect
<1> HIDE DEF kept
<1>5. /\ next \in Seq(S \cup {now}) /\ Len(next) = Len(kept) + 1 /\ next[Len(next)] = now
      /\ next # <<>> /\ Len(next) \in Nat
  <2>1. PICK T : T = S \cup {now}
    OBVIOUS
  <2>2. kept \in Seq(T) /\ now \in T
    BY <1>3, <2>1
  <2>3. /\ next \in Seq(T) /\ Len(next) = Len(kept) + 1 /\ next[Len(kept) + 1] = now
        /\ Len(kept) \in Nat
    BY <2>2
  <2>4. next # <<>>
    BY <2>3
  <2> QED
    BY <2>1, <2>3, <2>4
<1>6. CASE lost
  <2>1. chart' = <<>>
    BY <1>4, <1>6
  <2>2. <<>> \in Seq({})
    OBVIOUS
  <2> QED
    BY <2>1, <2>2 DEF ChartInv
<1>7. CASE ~lost /\ kept # <<>> /\ ~ChartRuns
  BY <1>1, <1>3, <1>4, <1>7 DEF ChartInv, ChartRuns
<1>8. CASE ~lost /\ ~(kept # <<>> /\ ~ChartRuns)
  <2> HIDE DEF next
  <2>1. CASE Len(next) <= ChartLength
    <3>1. chart' = next
      BY <1>4, <1>5, <1>8, <2>1, ConsoleAssumption
    <3> QED
      BY <1>1, <1>5, <1>8, <3>1 DEF ChartInv
  <2>2. CASE Len(next) > ChartLength
    <3>1. chart' = Tail(next) /\ Len(next) > 1
      BY <1>4, <1>5, <1>8, <2>2, ConsoleAssumption
    <3>2. /\ chart' \in Seq(S \cup {now}) /\ Len(chart') = Len(next) - 1
          /\ chart'[Len(next) - 1] = next[Len(next)]
      BY <1>5, <3>1
    <3> QED
      BY <1>1, <1>5, <1>8, <3>2 DEF ChartInv
  <2> QED
    BY <1>5, <2>1, <2>2, ConsoleAssumption
<1> QED
  BY <1>6, <1>7, <1>8

ChartKeys == {List("topics"), List("consumers")}

LEMMA ChartKeysReported == ChartKeys \subseteq Reported
BY DEF ChartKeys, Reported, Keys, Kinds, DetailKinds, Reads, List, Swallows

\* The cards do not change.
LEMMA SameCounts ==
  ASSUME NEW c, NEW d, \A k \in ChartKeys : /\ k \in DOMAIN c <=> k \in DOMAIN d
                                            /\ k \in DOMAIN c => d[k].data = c[k].data
  PROVE  ChartDeps(d) = ChartDeps(c)
<1>1. \A k \in ChartKeys : Count(d, k) = Count(c, k)
  BY DEF Count, Data
<1> QED
  BY <1>1 DEF ChartDeps, ChartKeys

LEMMA ChartStays ==
  ASSUME ChartInv, UNCHANGED <<path, crashed, chart>>,
         chart # <<>> => \A k \in ChartKeys : /\ k \in DOMAIN cache <=> k \in DOMAIN cache'
                                              /\ k \in DOMAIN cache => cache'[k].data = cache[k].data
  PROVE  ChartInv'
<1>1. chart # <<>> => ChartDeps(cache') = ChartDeps(cache)
  BY SameCounts
<1> QED
  BY <1>1 DEF ChartInv

LEMMA ChartQuery ==
  ASSUME ChartInv, Shaped(cache), NEW k \in DOMAIN cache,
         QueryStep(k) \/ LoseAnswer(k) \/ Idle(k)
  PROVE  ChartInv'
<1>1. CASE Deliver(k)
  BY <1>1, ChartPoint DEF Deliver, Render
<1>2. CASE (Reading(k) \/ Retry(k) \/ Poll(k) \/ GoStale(k)) /\ UNCHANGED pageVars
  <2>1. /\ DOMAIN cache' = DOMAIN cache
        /\ \A j \in DOMAIN cache : j # k => cache'[j] = cache[j]
    BY <1>2 DEF Reading, ServerReads, ReadFails, Retry, Poll, GoStale
  <2>2. ASSUME k \in ChartKeys PROVE cache'[k].data = cache[k].data
    <3>1. DOMAIN cache[k] = QueryFields
      BY <2>2, ChartKeysReported DEF Shaped
    <3>2. CASE Reading(k)
      BY <3>1, <3>2, ReadingIs
    <3>3. CASE Retry(k) \/ Poll(k) \/ GoStale(k)
      <4>1. cache'[k] \in {Sent(cache[k]), Start(cache[k]), [cache[k] EXCEPT !.old = TRUE]}
        BY <3>3 DEF Retry, Poll, GoStale
      <4>2. PICK q : q = cache[k] /\ DOMAIN q = QueryFields
        BY <3>1
      <4>3. Calm(q, Sent(q)) /\ Calm(q, Start(q)) /\ Calm(q, [q EXCEPT !.old = TRUE])
        BY <4>2, CalmFetch
      <4> QED
        BY <4>1, <4>2, <4>3 DEF Calm
    <3> QED
      BY <1>2, <3>2, <3>3
  <2> QED
    BY <1>2, <2>1, <2>2, ChartStays DEF pageVars
<1>3. CASE Collect(k) /\ k \notin Observed /\ UNCHANGED pageVars
  <2>1. chart # <<>> => ChartKeys \subseteq Observed
    BY DEF ChartInv, Observed, Queries, OverviewQueries, ChartKeys
  <2>2. /\ DOMAIN cache' = DOMAIN cache \ {k}
        /\ \A j \in DOMAIN cache \ {k} : cache'[j] = cache[j]
    BY <1>3 DEF Collect
  <2> QED
    BY <1>3, <2>1, <2>2, ChartStays DEF pageVars
<1> QED
  BY <1>1, <1>2, <1>3 DEF QueryStep, LoseAnswer, Idle, Reading

LEMMA ChartStep == CacheInv /\ ChartInv /\ [Next]_vars => ChartInv'
<1> SUFFICES ASSUME CacheInv, ChartInv, [Next]_vars PROVE ChartInv'
  OBVIOUS
<1>1. CASE ChartEffect
  BY <1>1, ChartPoint
<1>2. CASE UNCHANGED <<path, crashed, chart, cache>>
  BY <1>2, ChartStays
<1>3. CASE PageStep
  BY <1>1, <1>3, PageStepIs DEF PageClick, Render
<1>4. ASSUME NEW i \in DOMAIN muts, ServerActs(i) \/ RequestLost(i) \/ Settle(i)
      PROVE  ChartInv'
  BY <1>1, <1>2, <1>4 DEF ServerActs, RequestLost, Settle, Render, queryVars
<1>5. ASSUME NEW k \in DOMAIN cache, QueryStep(k) \/ LoseAnswer(k) \/ Idle(k)
      PROVE  ChartInv'
  BY <1>5, ChartQuery, CacheShaped
<1>6. CASE GoOffline \/ GoOnline \/ LoginForm \/ OtherClient \/ UNCHANGED vars
  BY <1>2, <1>6 DEF GoOffline, GoOnline, LoginForm, OtherClient, vars, pageVars, queryVars
<1>7. CASE Resume
  <2>1. /\ DOMAIN cache' = DOMAIN cache /\ UNCHANGED <<path, crashed, chart>>
        /\ \A k \in DOMAIN cache : cache'[k] \in {Sent(cache[k]), Fetch(cache[k]), cache[k]}
    BY <1>7 DEF Resume, ResumeQueries, pageVars
  <2>2. \A k \in Reported \cap DOMAIN cache : Calm(cache[k], cache'[k])
    BY <2>1, CacheShaped, CalmFetch DEF Shaped
  <2>3. \A k \in ChartKeys : k \in DOMAIN cache => cache'[k].data = cache[k].data
    BY <2>2, ChartKeysReported DEF Calm
  <2> QED
    BY <2>1, <2>3, ChartStays
<1>8. ASSUME NEW p, Navigate(p) PROVE ChartInv'
  BY <1>1, <1>8 DEF Navigate, Mount
<1>9. CASE Logout \/ TryAgain \/ Reload
  BY <1>1, <1>9 DEF Logout, TryAgain, Reload, Mount
<1>10. ASSUME NEW c, LoginCheck(c) PROVE ChartInv'
  BY <1>1, <1>2, <1>10 DEF LoginCheck, Mount, pageVars, queryVars
<1> QED
  BY <1>3, <1>4, <1>5, <1>6, <1>7, <1>8, <1>9, <1>10 DEF Next

\* The last point of the overview's chart is what the cards above it show, whatever
\* was polled, invalidated, collected or remounted since the effect ran (OverviewPage).
THEOREM ChartIsCurrent == Spec => []ChartCurrent
<1>1. Init => ChartInv
  BY DEF Init, ChartInv
<1>2. ChartInv => ChartCurrent
  BY DEF ChartInv, ChartCurrent
<1> QED
  BY <1>1, <1>2, ChartStep, CacheHolds, PTL DEF Spec
=============================================================================
