---------------------------- MODULE QueryClient ----------------------------
(***************************************************************************)
(* The data the web console shows: TanStack Query's cache, configured in   *)
(* main.tsx, filled through request of lib/api.ts from the broker.         *)
(*                                                                         *)
(* The broker's resources carry a version, which every change raises, and  *)
(* the names they hold; what a query returns is the resource as it was     *)
(* when the broker read it.  A fetch goes through steps, so that changes,  *)
(* invalidations, failures and navigation come between reading and         *)
(* showing:                                                                *)
(*     idle -> sent -> answered -> idle      an answer                     *)
(*                     answered -> retry -> sent   a failure, once         *)
(*     idle -> paused -> sent                started without a network     *)
(* The library is external: it is modelled from how the console uses it,   *)
(* with the behaviour of the version the repository ships.                 *)
(***************************************************************************)
EXTENDS Session

CONSTANTS
  Names,    \* names of topics, groups, subjects, modules, processors
  Failed    \* what request throws

ASSUME NoneIsNoName == None \notin Names

VARIABLES
  srv,      \* the broker: resource -> [ver, names]
  cache,    \* QueryCache: query key -> query, for the keys that exist
  online,   \* onlineManager: "yes", "no", or "resuming" after a reconnect,
            \* until the paused mutations are through
  deployed  \* TRUE: the broker answers as internal/protocol/http does;
            \* FALSE: as the types and functions of lib/api.ts say it does

queryVars == <<srv, cache, online, deployed>>

(***************************************************************************)
(* Query keys and api functions                                            *)
(***************************************************************************)
Resources == {"health", "cluster", "topics", "consumers", "subjects", "dlq",
              "wasm", "processors"}

\* The query function of each kind of key, as the resource it reads.
\* getHealth, getCluster, getTopics, getTopicDetail, getConsumers,
\* getConsumerGroupDetail, listSchemaSubjects, getSchemas, listDLQTopics,
\* getDLQ, listWASMModules, listProcessors, getProcessor
Reads ==
  [health |-> "health", cluster |-> "cluster",
   topics |-> "topics", topicDetail |-> "topics",
   consumers |-> "consumers", consumerGroup |-> "consumers",
   schemaSubjects |-> "subjects", schemaDetail |-> "subjects",
   dlqTopics |-> "dlq", dlqEntries |-> "dlq",
   wasmModules |-> "wasm",
   processors |-> "processors", processorDetail |-> "processors"]

Kinds == DOMAIN Reads
DetailKinds == {"topicDetail", "consumerGroup", "schemaDetail", "dlqEntries",
                "processorDetail"}
List(kind) == <<kind, None>>
Keys == {List(kind) : kind \in Kinds \ DetailKinds} \cup (DetailKinds \X Names)
Resource(k) == Reads[k[1]]

\* GET /v1/schemas and GET /v1/dlq are called by the console and are not
\* among the broker's routes.
Unrouted(k) == deployed /\ k \in {List("schemaSubjects"), List("dlqTopics")}

\* What the broker answers to the request of a query that carries token t.
\* /v1/health is the one route without authentication.
Answer(k, t) ==
  IF \/ k[1] # "health" /\ t \notin valid
     \/ Unrouted(k)
     \/ k[2] # None /\ k[2] \notin srv[Resource(k)].names
  THEN Failed
  ELSE srv[Resource(k)]

\* loadSubjects, listDLQ and peekDLQ turn every error into an empty list; the
\* other query functions let it through to the library.
Swallows(k) == k[1] \in {"schemaSubjects", "dlqTopics", "dlqEntries"}
NoList == [ver |-> 0, names |-> {}]

\* Mutant: every query function swallows errors.
QueryFn_Empty(k, ans) == IF ans = Failed THEN NoList ELSE ans

QueryFn(k, ans) == IF ans = Failed /\ Swallows(k) THEN NoList ELSE ans

(***************************************************************************)
(* Queries                                                                 *)
(***************************************************************************)
\* The response types of lib/api.ts, as what the properties tell apart.
Response == [ver : Nat, names : SUBSET Names]

\* data: what was last read (None: undefined); old: invalidated, failed or
\* past its staleTime; fetch, ans, tries: the fetch in flight, what the
\* broker answered and how often it failed; by: the token the request bears.
Query == [data  : Response \cup {None},
          old   : BOOLEAN,
          fetch : {"idle", "paused", "sent", "answered", "retry"},
          ans   : Response \cup {None, Failed},
          tries : 0..1,
          by    : Tokens \cup {None}]

NewQuery == [data |-> None, old |-> TRUE, fetch |-> "idle", ans |-> None,
             tries |-> 0, by |-> None]

Online == online # "no"

\* request reads the token from the store when the query function is called.
Sent(q) == IF Online THEN [q EXCEPT !.fetch = "sent", !.by = setAuthHeader]
                     ELSE [q EXCEPT !.fetch = "paused"]
Start(q) == Sent([q EXCEPT !.ans = None, !.tries = 0])

\* A fetch in flight is shared; only a refetch that may cancel replaces it,
\* and not the first one of a query.
Fetch(q) == IF q.fetch = "idle" THEN Start(q) ELSE q
Refetch(q) == IF q.fetch = "idle" \/ q.data # None THEN Start(q) ELSE q

\* invalidateQueries: queries on the screen (obs) are refetched at once.
invalidateQueries(c, k, obs) ==
  [j \in DOMAIN c |->
     IF j # k THEN c[j]
     ELSE LET q == [c[j] EXCEPT !.old = TRUE]
          IN  IF j \in obs THEN Refetch(q) ELSE q]

\* useQuery: the keys in new become observed, those in before were already.
Observe(c, before, new) ==
  [j \in DOMAIN c \cup new |->
     LET q == IF j \in DOMAIN c THEN c[j] ELSE NewQuery
     IN  IF j \in new \ before /\ (q.data = None \/ q.old) THEN Fetch(q) ELSE q]

isLoading(c, k) ==
  k \in DOMAIN c /\ c[k].data = None /\ c[k].fetch \in {"sent", "answered", "retry"}

Data(c, k) == IF k \in DOMAIN c THEN c[k].data ELSE None
Rows(k) == IF Data(cache, k) = None THEN {} ELSE cache[k].data.names

\* defaultOptions of the QueryClient: one retry
Retries == 1

\* The query after its fetch ended with ans.  A failure is tried again unless
\* nobody observes the query any more.
Settled(k, q, obs) ==
  LET got == QueryFn(k, q.ans)
      end == [q EXCEPT !.fetch = "idle", !.ans = None, !.tries = 0, !.by = None]
  IN  CASE got # Failed -> [end EXCEPT !.data = got, !.old = FALSE]
        [] got = Failed /\ q.tries < Retries /\ k \in obs ->
             [q EXCEPT !.fetch = "retry", !.ans = None, !.tries = @ + 1]
        [] OTHER -> [end EXCEPT !.old = TRUE]

(***************************************************************************)
(* Steps of the broker and of the library that no page takes part in       *)
(***************************************************************************)
ServerReads(k) ==
  /\ cache[k].fetch = "sent"
  /\ cache' = [cache EXCEPT ![k].fetch = "answered",
                            ![k].ans = Answer(k, cache[k].by)]
  /\ UNCHANGED <<srv, online, deployed>>

\* The request or its answer is lost, or the broker fails.
ReadFails(k) ==
  /\ cache[k].fetch = "sent"
  /\ cache' = [cache EXCEPT ![k].fetch = "answered", ![k].ans = Failed]
  /\ UNCHANGED <<srv, online, deployed>>

Retry(k) ==
  /\ cache[k].fetch = "retry"
  /\ cache' = [cache EXCEPT ![k] = Sent(@)]
  /\ UNCHANGED <<srv, online, deployed>>

\* The refetchInterval of an observed query.
Poll(k) ==
  /\ cache[k].fetch = "idle"
  /\ cache' = [cache EXCEPT ![k] = Start(@)]
  /\ UNCHANGED <<srv, online, deployed>>

\* 30 seconds have passed since the data came (staleTime).
GoStale(k) ==
  /\ cache[k].data # None
  /\ ~cache[k].old
  /\ cache' = [cache EXCEPT ![k].old = TRUE]
  /\ UNCHANGED <<srv, online, deployed>>

\* Garbage collection of a query nobody has observed for five minutes.
Collect(k) ==
  /\ cache[k].fetch = "idle"
  /\ cache' = [j \in DOMAIN cache \ {k} |-> cache[j]]
  /\ UNCHANGED <<srv, online, deployed>>

\* onOnline of every query: paused fetches go on, observed data that is old
\* is read again.
ResumeQueries(obs) ==
  /\ online = "resuming"
  /\ online' = "yes"
  /\ cache' = [k \in DOMAIN cache |->
                 IF cache[k].fetch = "paused" THEN Sent(cache[k])
                 ELSE IF k \in obs /\ cache[k].old THEN Fetch(cache[k])
                 ELSE cache[k]]
  /\ UNCHANGED <<srv, deployed>>

\* Another client changes a resource.
Edited(r, ns) == srv' = [srv EXCEPT ![r] = [ver |-> @.ver + 1, names |-> ns]]
=============================================================================
