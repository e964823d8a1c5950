------------------------------ MODULE Session ------------------------------
(***************************************************************************)
(* Who is signed in to the web console: the zustand store of              *)
(* stores/auth-store.ts with its copy in sessionStorage, and LoginPage,    *)
(* which asks the broker about a token before it is stored.  A check that  *)
(* is on its way belongs to the LoginPage that sent it, but its answer is  *)
(* acted upon whether or not that page is still there.                     *)
(*                                                                         *)
(* Navigation is the business of Console, which composes these actions     *)
(* with the pages.                                                         *)
(***************************************************************************)
EXTENDS Integers, FiniteSets

CONSTANTS
  Tokens,   \* access tokens a user may type
  None      \* JavaScript's null and undefined

ASSUME NoneIsNoToken == None \notin Tokens

VARIABLES
  store,    \* token of the store; isAuthenticated is store # None
  stored,   \* sessionStorage[TOKEN_KEY]
  login,    \* state of the mounted LoginPage: token, error, loading
  checks,   \* calls of handleSubmit that wait for /v1/health/detailed
  valid,    \* tokens the broker accepts now
  accepted  \* history: tokens the broker has accepted in a check

sessionVars == <<store, stored, login, checks, valid, accepted>>

NewLogin == [token |-> None, error |-> FALSE, loading |-> FALSE]

\* A check: the token its closure holds, what became of it, and whether the
\* LoginPage it belongs to is still mounted.
Check == [token : Tokens, res : {"sent", "ok", "refused"}, live : BOOLEAN]

SessionTypeOK ==
  /\ store \in Tokens \cup {None}
  /\ stored \in Tokens \cup {None}
  /\ login \in [token : Tokens \cup {None}, error : BOOLEAN, loading : BOOLEAN]
  /\ checks \subseteq Check
  /\ valid \subseteq Tokens
  /\ accepted \subseteq Tokens

(* loadStored: user id and roles are never written, so that only the token *)
(* can come back.                                                          *)
loadStored == stored

SessionInit(t) ==
  /\ stored = t
  /\ store = t
  /\ login = NewLogin
  /\ checks = {}
  /\ valid = Tokens
  /\ accepted = {t} \cap Tokens

\* Mutant: sessionStorage keeps the token.
storeLogout_Memory == store' = None /\ UNCHANGED stored

(* The store's login and logout, which keep sessionStorage in step, and    *)
(* the token setAuthHeader puts into a request that is sent now.           *)
storeLogin(t) == store' = t /\ stored' = t
storeLogout == store' = None /\ stored' = None
setAuthHeader == store

\* The input is not disabled while a check runs.
TypeToken(t) ==
  /\ login.token # t
  /\ login' = [login EXCEPT !.token = t]
  /\ UNCHANGED <<store, stored, checks, valid, accepted>>

\* handleSubmit up to its await; the button is disabled while loading.
Submit ==
  /\ login.token # None
  /\ ~login.loading
  /\ login' = [login EXCEPT !.error = FALSE, !.loading = TRUE]
  /\ checks' = checks \cup
       {[token |-> login.token, res |-> "sent", live |-> TRUE]}
  /\ UNCHANGED <<store, stored, valid, accepted>>

\* The broker answers a check.
Verify(c) ==
  /\ c.res = "sent"
  /\ checks' = (checks \ {c}) \cup
       {[c EXCEPT !.res = IF c.token \in valid THEN "ok" ELSE "refused"]}
  /\ accepted' = accepted \cup ({c.token} \cap valid)
  /\ UNCHANGED <<store, stored, login, valid>>

\* The rest of handleSubmit after an answer that is not ok, or after fetch
\* threw because the broker was not reached.
Rejected(c) ==
  /\ checks' = checks \ {c}
  /\ login' = IF c.live THEN [login EXCEPT !.error = TRUE, !.loading = FALSE]
                        ELSE login
  /\ UNCHANGED <<store, stored, valid, accepted>>

\* A LoginPage that is unmounted leaves its checks behind.
Orphaned(cs) == {[c EXCEPT !.live = FALSE] : c \in cs}
LeaveLogin(cs) == login' = NewLogin /\ checks' = Orphaned(cs)

\* The rest of handleSubmit after an ok answer; Console navigates.
Admitted(c) ==
  /\ c.res = "ok"
  /\ storeLogin(c.token)
  /\ LeaveLogin(checks \ {c})
  /\ UNCHANGED <<valid, accepted>>

\* The broker stops accepting a token.
Revoke(t) ==
  /\ t \in valid
  /\ valid' = valid \ {t}
  /\ UNCHANGED <<store, stored, login, checks, accepted>>
=============================================================================
