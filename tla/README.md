# A TLA+ model of ChimeraMQ

ChimeraMQ is a message broker in one Go binary: queue topics (competing consumers,
acknowledgements, delays) and stream topics (offsets, consumer groups) over a
segmented log with a write-ahead log, several wire protocols, tiered storage and an
optional cluster with Raft for its metadata, and a web console written in TypeScript
with React. This directory models the core of the broker and the console in TLA+,
checks them with TLC on small instances and proves the most important invariants with
TLAPS for every value of the constants.

`PROJECT.json` holds the details a tool can read: for every definition the source
lines it stands for, for every property of a run a mutation of the model that breaks
it, the hazards the properties are aimed at, and the theorems.

    tlc -workers 2 -config Queue.cfg MCQueue      # one run
    tlapm QueueEngineProofs.tla                   # one module of proofs

## 1. Inventory

Paths are relative to `src/internal/`, those of the console to `src/frontend/src/`.

| Component | State | Operations | What is hard | What makes it correct |
|---|---|---|---|---|
| Queue engine `engine/queue` | consumer list and round-robin index, in-flight windows, pending entries, two bounded channels, a heap of delayed messages | dispatch, track, ack, nack, visibility tick, schedule, promote, drain | dispatch and track are separate critical sections; tickers race clients; channels drop when full | one fate per message; no index out of range; windows bounded; delayed messages neither early nor twice |
| Hot tier `storage/hot`, expirer `engine/ttl` | chain of segments with base offsets and frozen flags, high watermark | append with rollover, read, retention, compaction, trim, recovery | expirer and compactor read without the partition's lock and act later; crash in a rollover | offsets unique and dense; the newest data readable; only what the policy names is removed |
| Write-ahead log `storage/wal` | files, write buffer, offset, checkpoint | append in two sync modes, rotate, flush, checkpoint, truncate, close, recover | what a crash cuts off; reopening | what is recovered is a gapless prefix; durable as promised by the mode |
| Publish path and topics `broker/publish.go`, `broker/topic.go` | deduplication window, log, partition, metadata file | publish (dedup, gates, log, partition, answer), create and delete topic, restart | failures after the message is remembered; overlapping retries; crash between two steps; a window that forgets | stored once per memory of it; logged first; what is acknowledged is stored |
| Idempotence `idempotent` | per-producer windows of sequence numbers | check, evict, remove | limits reached; map order | nothing accepted twice in the window; limits respected |
| Consumer groups `engine/stream/consumer_group.go`, `engine.go`, `offset.go` | members, assignment, committed offsets, offset file | join, leave, heartbeat, expire, rebalance (3 strategies), commit, save | members change in one critical section and are rebalanced in another; commits in two steps, of which the second may fail | every partition has one present owner; fair shares; file agrees with memory |
| Stream sessions `protocol/ws`, `engine/stream` Fetch, waiter | subscription position, waiter registry, session's consumer id | subscribe, fetch loop, long poll, stop | watermark and registration are two steps; retention under a reader; session moves on while a fetch runs | each message once, in order, and eventually |
| Raft `cluster/raft` | term, vote, log, commit and apply indices, rounds and votes under way, shared connections, snapshot | election, vote, replicate, propose, apply, snapshot, crash, restart | lock released during calls; answers without ids; snapshots save the log beside the node's own saves | one leader per term, matching logs, agreed state machines, progress |
| Console: session `stores/auth-store.ts`, `pages/LoginPage.tsx`, `components/shared/AuthGuard.tsx` | token in memory and in sessionStorage, login form, checks on their way | type, submit, answer, sign out, reload, guard | an answer arrives after its page was left, after another sign-in or a sign-out | pages only with a token the broker accepted; memory and storage agree |
| Console: data `lib/api.ts`, `main.tsx` | cache of queries: data, staleness, fetch in flight | fetch, poll, retry, invalidate, observe, pause, resume | polls, refetches, failures and navigation cross; errors swallowed by some readers | a list never goes back; not taken for fresh when it lacks a reported change; ends up current |
| Console: pages `pages/*.tsx` | selections, dialogs, forms, pending changes, chart points | open, type, confirm, cancel, create, delete, start, stop, replay, clear | closures of one render run after another one; answers arrive under another dialog | what is sent is what was asked; messages tell what was done; chart agrees with the cards |
| Console: shell `App.tsx`, `components/layout`, `components/shared/ErrorBoundary.tsx` | route, error state | navigate, sign out, try again | a page that throws while rendering | |
| Warm and cold tiers, migrator `storage/{warm,cold,tier}` | memtables, SSTables, manifest, archives | put, flush, compact, migrate, read through | crash between manifest and files; reads during migration | a message is always in some tier until it expires |
| Replication, gossip, cluster manager, geo `cluster/*` | in-sync sets, member states with incarnations, assignments | fetch, ack, suspect, refute, propose | partitions, late acknowledgements | high watermark on the in-sync set; live members not declared dead for ever |
| Dead letters, exchange, schema, tenants, flow control, processing | small tables and counters | route, match, check, account | concurrent accounting, loops of dead letters | matching as defined; quotas respected |
| Protocol servers `protocol/*` | sessions | parse, call the broker, answer | session state against acknowledgements | the guarantees of each protocol's delivery modes |
| Auth, audit, FIPS, encryption, metrics, tracing, MCP, CLI, client, deployment | | | mostly sequential or I/O | |

How they interact: a protocol server calls `Broker.Publish`, which asks the deduper,
the rate limiter, tenant quota and schema registry, appends to the write-ahead log
and then to a hot partition, notifies the waiter registry (streams) and calls
`TryDispatch` (queues). Subscriptions of stream topics run a fetch loop over the hot
partition; queue consumers get what the dispatcher hands them. Expirer, retention,
compactor and migrator run as goroutines over the same partitions. The cluster
manager proposes topics and assignments through Raft. The console talks to the HTTP
server only: its pages read through the query cache and change things by requests of
their own, after which they invalidate what they show.

## 2. Modules

| Module | Models | Runs | Proofs |
|---|---|---|---|
| `QueueEngine` | queue engine with the ack and nack handlers of the native, HTTP and WebSocket servers | `queue` | `QueueEngineProofs` |
| `HotPartition` | one hot partition, TTL expirer, retention, compaction | `hot` | `HotPartitionProofs` |
| `WAL` | write-ahead log | `wal` | `WALProofs` |
| `PublishPath` | `Broker.Publish` and the topic manager, composed with deduplication, log, partition and metadata at the level of "message stored" | `publish` | `PublishPathProofs` |
| `TopicLog` | abstract specification of publishing to a topic; `PublishPath` implements it | `publish` (`ImplementsTopicLog`) | `PublishPathProofs` |
| `Deduper` | producer windows and their eviction | `dedup` | `OnceProofs` |
| `ConsumerGroup` | membership, rebalancing, offsets and their file | `group` | `ConsumerGroupProofs` |
| `StreamSession` | fetch loop of a subscription, long poll, retention, group membership of a session | `stream` | `OnceProofs` |
| `Raft` | consensus, transport, persistence, snapshots | `raft`, `raft_live`, `raft_votes` | `RaftProofs` |
| `Session` | the console's sign-in state and login page | through `Console` | `ConsoleProofs` |
| `QueryClient` | the console's query cache over `request` of `lib/api.ts`; extends `Session` | through `Console` | `ConsoleProofs` |
| `Console` | pages, dialogs, changes, navigation, error boundary; extends `QueryClient` | `console`, `console_offline` | `ConsoleProofs` |
| `ListView` | abstract specification of what the console's lists and details promise; `Console` implements it | `console` (`NeverOlder`) | `ConsoleProofs` |

The `MC*` modules hold what TLC needs: symmetry sets and the scopes.

### Conventions

*A step is a critical section.* An action is what the code does while it holds a lock,
with everything it calls; where the code releases the lock between two parts of a
handler there are two actions (`TryDispatch` and `Track`, `CompactRead` and
`CompactSwap`, `Leave` and `rebalance`, `Commit` and `Save`, `StartRound` and
`AppendReply`, the six steps of Raft's `TakeSnapshot`).

*Scopes.* Several modules have a variable that never changes (`policy`, `syncMode`,
`scope`, `protocol`, `strategy` once a group exists): Init picks it from a constant
set. One run thus explores several configurations of the program, each within its own
bounds, and a property that is promised only in some of them says so in its
hypothesis.

*Bounds.* Counters that grow without limit are bounded by constants named `Max...`,
in guards. Time is abstract in `QueueEngine`, `Raft`, `ConsumerGroup` and
`StreamSession` (a time-out may happen at any moment), a bounded clock in
`HotPartition` and `Deduper`, where durations are compared.

*Mutants.* A definition `X_Something` before `X` is a mutated form of `X`; it is used
nowhere in the specification and shows that a property would notice the mistake.

### QueueEngine

`order` and `nextIdx` are `Dispatcher.consumers` and `nextIdx`; `inFlight` the
`InFlight` maps; `pending`, `redeliverChan` the fields of `AckTracker`; `heap`,
`readyCh` those of `DelayScheduler`. `acked`, `dropped`, `dlqTopic`, `dlqReported`,
`taker` are histories for the properties. `AppendMsg` stores a message, `TryDispatch`
and `TryDispatchBusy` are the two outcomes of `Dispatch`, `Track` the second half of
`TryDispatch`. `NackDeadNative`, `NackDeadHTTP`, `NackDeadWS` are the handlers that
get `shouldDLQ`. `VisibilityTick` and `Promote` are whole ticks over the map or the
heap in any order. `Expire` and `BecomeDue` are time passing.

### HotPartition

`old \o <<active>>` is `Partition.segments`. A record knows the offset it was
appended at, its key and its deadline. The deadline counts from a timestamp that
`Publish` takes before it has the partition's lock, or that the producer has set
(`AppendRecord`'s `stamp`), so that deadlines need not ascend with the offsets. Sizes are in records. `ScanRead` and
`ScanTrim`, `CompactRead` and `CompactSwap` are the two halves of `Expirer.scan` and
`LogCompactor.Compact`. `Restart` is a crash, perhaps in the middle of a rollover
(the new segment's file exists or not), followed by `OpenPartition`; file writes of
the process survive it.

### WAL

Entries instead of bytes: `files[n]` are the entries in segment file n, `pos` where
the next write goes, `writeBuf` the 64 KB buffer, which may spill any part of itself at
any time (`Overflow`). `Open` positions the write at the start of the last file, as
the code does.

### PublishPath

`work[w]` is a goroutine inside `Publish` and how far it is; `seen` the deduper, `wal`
and `hot` what is stored, `topic` and `meta` the topic table and `meta.json`. `Gates`
stands for rate limit, quota, schema, transform and encryption, each of which may
refuse. `Restart` empties `seen` and `work`. `Forget` drops one message from `seen`: the
window has passed, or the deduper is full. `forgotten` counts, for each message, how
often it was lost in one of the two ways.

`TopicLog` is what remains when goroutines, deduper and topic table are hidden: what is
logged, stored and acknowledged, each growing by a message at a time. Its `forgets`
counts how often the broker lost its knowledge of a message, which it may then store
once more; its `careful` says that nothing fails half-way and retries wait, without
which a message may be acknowledged without being stored.

### ConsumerGroup

`rebalance(by)` is the second critical section of a join, a leave or an expiry, for
each of the three strategies, with the sticky strategy's two passes over the members
in map order made deterministic by its sorting. Committed offsets are in three places:
`committed` is the group's map, `store` the map of the `OffsetStore`, `file`
`offsets.json`. `Commit` updates the first; `Save` the second and then, unless the write
fails or the group's name is refused (`scope.valid`), the third. A restart loads the
third into the second, a new group the second into the first. `mixed`, `unwritten` and `dropped` are histories: partitions
whose last commits overlapped, whether the last save failed, partitions whose last
commit was answered with success and kept nowhere.

### StreamSession

Each subscription of a session is its own fetch loop with a program counter: check the
context, read the watermark, register, wait, read, send. `consumerID` is the
session's field, which the loop reads without the lock. `Records` says which records
decode. `protocol` other than `"ws"` is the loop of the NATS and STOMP servers.

### Raft

`conn[n][p]` is the one TCP connection from n to p: requests in order, answers in
order, and the caller that reads first takes the next answer. `scope.overlap` says
whether a node may call a peer before it has the peer's answer to its last call; nothing
in the code keeps it from that, and the five-second deadlines make it rare.
`round[n][r]` is a goroutine in `replicateLog`, with the term and commit index it read at
its start. `Crash` may come at any point; with `scope.torn` it may fall inside the
rewrite of `state.json`. `CallFails` is a failed AppendEntries, after which the code
unlocks `mu` twice and the process ends.

`disk` is `log.bin`. The handlers replace it with the log under `RaftNode.mu` (`Save`).
`TakeSnapshot` does not hold that lock; its six steps, between which any handler may run,
are `CaptureSnapshot` (state machine and end of the log), `WriteSnapshot`
(`snapshot.json`), `LabelSnapshot` (`meta.json`), `CompactLog`, `EncodeLog` and
`ReplaceLog`, which may put back an older log than a handler has saved since: the node is
then in `overwritten` until it saves again.

`mishaps` records what the code does not exclude and what its safety depends on: calls
that crossed (`"crossed"`), a vote that was counted in another term than it was given in
(`"miscounted"`), a torn `state.json` (`"torn"`), a crash that found another log on disk
than was in memory (`"reverted"`), a start from a snapshot (`"restored"`). Each is an
event of the behaviour, not an assumption about it; the properties say which of them they
bear.

### Session, QueryClient, Console

A step is an event handler, a callback or a timer with the render that follows it:
JavaScript does not interrupt them. `store` and `stored` are the zustand store and
sessionStorage; `login` is the mounted LoginPage and `checks` its calls of
`handleSubmit` that wait for the broker.

A resource of the broker is a version and a set of names; `cache` maps query keys to
queries in the way of TanStack Query, whose behaviour was taken from the version the
lock file names: a fetch in flight is shared, an invalidation cancels and
repeats it, one retry, no fetch without a network, paused changes first and paused
reads after them once the network is back. `QueryFn` is where `loadSubjects`,
`listDLQ` and `peekDLQ` turn errors into empty lists.

`ui` holds the `useState` and form values of the mounted page; `muts` the changes
started so far. The function and the callbacks of `useMutation` are closures, which
the library replaces by those of the latest render while the change is its observer's
current one (`cur`). With a network a request is made before the next render and names
what its dialog showed; a paused one is made on reconnection from the page as it is
then (`mutationFn`, `Captured`, `Freeze`). That the first is so rests on how TanStack Query
calls its functions, which is not in this repository. `onSuccess` of each page
(`TopicsSuccess` ...) gives the name in the message, the state afterwards and the query
that is invalidated. `Render` attaches observers and lets the error boundary take
over when the page throws.

`deployed` tells two brokers apart: one that answers as the types of `lib/api.ts` say,
and the one of `protocol/http/server.go`, which has no `GET /v1/schemas` and no
`GET /v1/dlq`, answers three deletions without a body, and sends a topic's partitions
as an array. Authentication is enabled in both. `left` bounds a session: where it
starts, which pages it visits and how often each kind of event happens.

## 3. Runs

| Run | Instance | Distinct states | What it shows |
|---|---|---|---|
| `queue` | 1 partition, 2 messages, 2 consumers, prefetch 1, 1 delayed message, channels of capacity 1, retry limits 0 and 1 | 139 823 | `NextIdxInRange`, `PrefetchRespected`, `OneFate`, `Accounted`, `DelayedOnce`; `PendingExpires` and `DelayedReachesConsumer` under fairness |
| `hot` | 5 offsets, timestamps in any order, 2 clock ticks, 1 restart; policies: one TTL, mixed TTLs with retention, compaction with 2 keys | 169 164 | `OffsetsNeverReused`, `ActiveReadable`, `NoHoles`, `RestartKeeps`, `TrimsOnlyExpired` |
| `wal` | segments of 3 entries, 7 entries, 3 opens, both sync modes | 19 121 | `RecoversPrefix`, `ImmediateDurable`, `EventuallyWritten` |
| `raft` | 3 nodes; 2 terms with 2 entries, or 1 term with 2 entries and 2 crashes | 581 943 | `ElectionSafety`, `LogMatching`, `StateMachineSafety`, `LeaderCompleteness`, `CommittedStays` |
| `raft_live` | 2 nodes; 2 terms with 4 entries; snapshots from 2 entries on in 2 terms; from 1 entry on in 1 term with 3 entries; from 1 entry on in 1 term with a crash; a crash and a failed call in 2 terms | 142 582 | `StateMachineComplete`, `LogOnDisk`; `Replicates` under fairness |
| `group` | 3 members, 4 partitions, all strategies; 1 member with a restart and writes that fail: 2 committers of one partition, 1 committer of two, a group whose name is refused; 2 offsets | 126 187 | `EveryPartitionOwned`, `Balanced`, `SilentMembersDrop`, `StoreAgrees`; no deadlock |
| `stream` | 3 messages, some undecodable, 2 subscriptions, log start moved by 1 | 159 501 | `SentOnce`, `Delivered` |
| `dedup` | 3 producers for 2 places, 3 sequence numbers for 2, window of 3 ticks, 7 ticks | 29 908 | `RejectsRepeats` |
| `publish` | 2 producers, 2 goroutines, 2 messages each, 5 attempts, 3 topic operations; all failures with overlapping retries, or failing metadata with 2 crashes and forgetting, or forgetting with overlapping retries | 1 838 285 | `OncePerMemory`, `AckedStored`; `ImplementsTopicLog`, the refinement of `TopicLog` |
| `raft_votes` | 3 nodes, 2 terms, no entries, crossing calls | violated | `OneLeaderPerTerm` |
| `console` | 19 scopes of one page or two, 1 or 2 names, up to 2 changes, 2 lost messages, 2 changes of other clients, 2 moves, 1 loss of the network, 2 sign-ins with 2 tokens | 112 868 | `FreshAfterSuccess`, `ToldTrue`, `ChartCurrent`, `SignedIn`; `NeverOlder`, the refinement of `ListView`; `Converges` under fairness |
| `console_offline` | 2 topics, 1 deletion, 1 loss of the network | violated | `OnlyConfirmed` |

`TypeOK` of `QueueEngine`, `HotPartition`, `PublishPath`, `ConsumerGroup`,
`StreamSession` and `Raft`, and `DeduperTypeOK`, are proved (section 4). The other modules state it too, and it holds on the instances
above (add it to a cfg's `INVARIANTS`).

**Why the bounds are enough for the cases that matter.** `queue`: with capacity 1
both channels overflow, with prefetch 1 and two consumers every subset of full
windows occurs, and two messages with two retry limits give every race of ack, nack
and ticker. `hot`: five offsets in segments of one or two records give chains of up
to five segments, so that a rollover falls between the two halves of a scan or a
compaction, and a restart after either. `wal`: seven entries are three rotations,
three opens a reopen after a crash and one after a stop. `raft`: two terms are enough
for a deposed leader whose round goes on, and a conflicting entry and its truncation;
a re-vote after a crash needs one term only; three nodes are the smallest cluster with
a majority that excludes one. They are not enough for everything: five nodes break
`StateMachineSafety` (section 5), which no run of this size can show and which the attempt
to prove it did; up to four nodes it is proved. Three nodes with crossing calls and
entries are too many states for a run: `raft_votes` has the elections among them, which
are what crossing calls break, and that nothing else breaks `ElectionSafety` is proved
for any calls. `raft_live`: two nodes are enough for what one node's snapshot does between
its own saves, and the crash scope restores one. `group`: three
members and four partitions are the smallest with an uneven share; two committers of one
partition are the smallest for commits that cross, one of two partitions for a save that
makes up for a failed one. `dedup`: one more
producer and one more number than there is room for, and time for two windows.
`console`: what pages share is the cache, the session and the network, so one page, or
two with a move between them, shows every crossing of its own events; two changes give
an answer that arrives under another dialog and two refetches of one list; two lost
messages exhaust the single retry; a chart of two points is cut. A session with all
the pages and all the events at once is the same events in more orders, and too large.

**Fairness.** Only goroutines that the broker itself runs are fair, and only weakly:
the visibility ticker, the promotion loop, the drain loop and a publishing goroutine
that has begun (`QueueEngine`), together with the passage of time; the sync ticker
(`WAL`); heartbeats of a leader, the servers and the readers of answers (`Raft`);
the heartbeat ticker, and rebalances and saves that have begun (`ConsumerGroup`);
the fetch loop with its time-out, and notifications and stops that have begun
(`StreamSession`); timers of the browser, the broker's answers to what reaches it and
the resumption after a reconnect (`Console`: the refetch intervals are the library's
timers, and `Converges` assumes a broker that answers and a network that stays).
Users, other clients, elections, crashes, proposals and retention owe nothing.

**Deadlock** is checked in `group`. The other runs stop at their bounds (or, as a
broker does, after `Close`), so they do not check it.

**Conditions in properties.** `Accounted` speaks of messages whose key (the offset) no
other message that was taken has; `RecoversPrefix` and `ImmediateDurable` of a
directory opened once;
`RestartKeeps` and `NoHoles` of topics without compaction; `TrimsOnlyExpired` of topics
without compaction, and of trims up to which the messages expire in the order of their
offsets; `Balanced` of range and round robin; `StoreAgrees` of groups whose last write
did not fail, and of partitions whose last commits did not overlap; `OncePerMemory`
allows one more copy for each time the deduper has forgotten the message, after its
window, at its limit or in a restart; `AckedStored` speaks of publishes that do not fail
and retries that wait; `RejectsRepeats` of entries the limits did not displace; `ToldTrue`
of the three messages that take their name from the change; `FreshAfterSuccess` and
`NeverOlder` of lists whose readers report errors, `FreshAfterSuccess` of a list on the
screen.

Of the Raft properties, `ElectionSafety` speaks of behaviours until a vote is miscounted
or `state.json` torn, with any crossing of calls otherwise. `LogMatching`,
`StateMachineSafety` and `LeaderCompleteness` speak of states that are `Sound`: no log
compacted so far, nothing crossed, miscounted, torn or reverted. `StateMachineComplete`
and `CommittedStays` besides of those in which nothing started from a snapshot.
`LogOnDisk` leaves out the nodes whose `log.bin` a `TakeSnapshot` has overwritten.

In each case the code does not keep the property without the condition: see section 5.

## 4. Proofs

The theorems hold for every value of the constants that satisfies the module's
`ASSUME`, so for any number of nodes, partitions, consumers, offsets, restarts, workers
and pages. What a theorem assumes beyond that is in its statement and named below.

| Theorem | States | Inductive invariant |
|---|---|---|
| `QueueEngineProofs!TypeCorrect` | `TypeOK` | itself |
| `QueueEngineProofs!NextIdxSafe` | `NextIdxInRange` | with `TypeOK`; `RemoveAt` is the step that could break it, and sets the index to 0 when it falls off the end |
| `QueueEngineProofs!PrefetchSafe` | `PrefetchRespected` | with `TypeOK`; the cardinality of a window that grows only if it has room |
| `QueueEngineProofs!OneFateSafe` | `OneFate` | `OneFate` alone is not inductive: it needs that what is settled was tracked (`SettledTracked`), that an entry is filed under its own key (`KeyMatches`), and that a message not yet tracked has no fate (`Fresh`) |
| `QueueEngineProofs!DelayedOnceSafe` | `DelayedOnce` | needs that a dropped delayed message is in neither heap nor channel (`DroppedGone`) |
| `QueueEngineProofs!AccountedSafe` | `Accounted` | `AccountInv`: with `FateInv`, and that nobody has taken a message before its publisher dispatched it (`Undispatched`). A tick visits the pending entries in any order; that such a visit misses none is `OrdersCover` |
| `HotPartitionProofs!OffsetsSafe` | `OffsetsNeverReused` | `OffsetInv`: the active segment is well formed, and its records are the tail of what was accepted, each at the position its offset says; from that a rollover and a restart derive the right next offset |
| `HotPartitionProofs!ActiveTailSafe` | the active segment holds the latest messages at their offsets | the same |
| `HotPartitionProofs!TypeCorrect`, `ActiveReads` | `TypeOK`, `ActiveReadable` | `ChainInv`: no segment reaches into the active one's offsets, nor does what a compaction is about to write, and frozen segments do not overlap. `Read` is a binary search: its lemmas say what it finds in a chain that ascends only where it is searched |
| `HotPartitionProofs!ReadsWithoutHoles` | `NoHoles` | `PlainInv`, without compaction: segments ascend, each holds what was appended at its offsets, and as long as retention works from the front each starts where the one before it ends |
| `HotPartitionProofs!RestartSafe` | `RestartKeeps` | the same |
| `HotPartitionProofs!TrimSafe` | `TrimsOnlyExpired` | with `PlainInv` and `Doomed`: the record before the offset that a scan is about to trim to has expired, however much later the trim comes; if deadlines ascend up to there, so have those before it |
| `WALProofs!PrefixRecovered`, `AppendedDurable` | `RecoversPrefix`, `ImmediateDurable` | `WalInv`: while the log is up, finished segments, active file and buffer in this order are what was appended (`Writing`); after a crash or `Close` the files are a beginning of it (`Left`); until the directory is opened again. Rotation and a partial flush regroup that concatenation |
| `OnceProofs!RepeatsRejected`, `DeduperTypeCorrect` | `RejectsRepeats`, `DeduperTypeOK` | `DedupInv`: an entry accepted within the window, and not displaced, is in it with the time it was accepted (`Remembers`), and no producer's last activity is older than its entries (`Dated`), which is why `ProducerTTL` cannot forget it |
| `OnceProofs!StreamSentOnce`, `StreamTypeCorrect` | `SentOnce`, `TypeOK` of `StreamSession` | both at once (`StreamInv`): what has been sent is what the records below the loop's offset give (`Part`). A read goes on behind the last message it sent, which may be before the last record it saw; what lies between could not be decoded, so that nothing is missed or repeated (`PartEnd`, `PartJoin`) |
| `ConsumerGroupProofs!GroupSafe`, `TypeCorrect` | `GroupInv`, `TypeOK` | `GroupInv`: when no rebalance is owed, the members' lists hold every partition once and agree with the assignment, and are even under range and round robin (`AtRest`) |
| `ConsumerGroupProofs!PartitionsOwned`, `GroupBalanced` | `EveryPartitionOwned`, `Balanced` | the same. Each strategy is a recursion over the partitions or the members; `RoundRobinDeals`, `RangeDeals` and `StickyDeals` say what it computes |
| `ConsumerGroupProofs!CommitsKept` | `StoreAgrees`, for any number of committers | `CommitInv`: a partition is answered from its only commit under way or, if there is none, from what the cache has (`Traced`); the file is the cache unless the last write failed |
| `PublishPathProofs!TypeCorrect` | `TypeOK` | itself, in three parts: the variables' sets, what a scope without a failure leaves off, and the scope's bounds |
| `PublishPathProofs!StoredOnce` | `OncePerMemory` | `Accounts`: the copies of a message and the workers past the dedup check that carry it are together no more than the times it was forgotten, and one more while it is in `seen` |
| `PublishPathProofs!AcknowledgedIsStored` | `AckedStored` | `StoredInv`: in a scope without failures and overlap, what the deduper remembers is stored or in the hands of a worker of the same producer, and a worker about to return has stored its message |
| `PublishPathProofs!LoggedFirst` | `WalFirst` | `LoggedInv`: a worker at the partition has its message in the log |
| `PublishPathProofs!Refinement` | `ImplementsTopicLog` | the three invariants before, one for each guard of `TopicLog`: `Accounts` for what `Store` adds, `LoggedInv` for its being logged, `StoredInv` for `Acknowledge`; a restart and a forgetting are `Forget`, every other step leaves the records alone |
| `RaftProofs!ElectionSafe` | `ElectionSafety` | `Tally`, explained below |
| `RaftProofs!TypeCorrect` | `TypeOK` | itself; what `StoreAll`, `Apply` and `Compact` return is a log, a sequence of commands, a log |
| `RaftProofs!OnDisk` | `LogOnDisk` | `AllSaved`: disk and memory are equal, unless between `CompactLog` and `ReplaceLog`, where memory is the compacted disk; `CompactEnd` says that `Compact` leaves the last entry, so that candidates are judged alike from both |
| `RaftProofs!LogsMatch` | `LogMatching` | `Wires`, `Reigns`, `Reported` and `Order` as long as nothing crossed, was miscounted, torn or reverted (`Calm`), with `TypeOK` and `ElectionSafety`; explained below |
| `RaftProofs!StateMachineSafe`, `LeaderComplete` | `StateMachineSafety`, `LeaderCompleteness`, with at most four nodes | `Accounted(FALSE)`: while `Calm`, `Ordinary` (`Wires`, `Reigns`, `Reported`) and `Lasting(FALSE)`; explained below |
| `RaftProofs!CommittedStaysPut` | `CommittedStays`, with at most four nodes | `Accounted(TRUE)`: while besides nothing was restored, `Lasting(TRUE)`, which adds that what a node counts as committed two nodes have (`Covered`) |
| `RaftProofs!StateMachinesComplete` | `StateMachineComplete`, with at most four nodes | `FedWhole`: with `AllFed`, that what a state machine has seen are the commands that were applied up to `lastApplied`, in the order of their indices |
| `ConsoleProofs!SignedInSafe` | `SignedIn` | `SessionInv`: with the types of the session, and that a check answered with success is of a token the broker accepted |
| `ConsoleProofs!MessagesTrue` | `ToldTrue` | `MutInv`: each change by itself is `Sound`, that is what it sent, what it was applied to and what its message says are linked, and the broker has at least the version it was applied in |
| `ConsoleProofs!ListsImplementView` | `NeverOlder` | `CacheInv`: what is on its way to a list is no older than what the list shows and no newer than what the broker has; each step is one of `ListView` for every query at once |
| `ConsoleProofs!FreshAfterMessage` | `FreshAfterSuccess` | `FreshInv`: a list that a success message was about is known to be old or has the change, and so has any answer on its way to it (`Caught`) |
| `ConsoleProofs!ChartIsCurrent` | `ChartCurrent` | `ChartInv`: with the chart a sequence, and empty unless the overview is on the screen |

**One leader per term.** Calls may cross, answers may go to other calls than their own,
messages may be under way in any number and nodes may crash; the property is only lost
when a vote is counted in another term than it was given in, or `state.json` is torn.
`Tally` is about ballots: B[t][v], the node v voted for in term t, is not a variable of
the program, which forgets the votes of earlier terms. The proof carries it along as a
witness, `\E B : Tally(B)`: every step keeps it or adds a ballot. A voter knows its ballot
in its current term (`Honest`). Of n's requests for a vote in a term, and p's grants of
it, at most one is under way from n to p (`Orderly`): so that it does not matter which
call reads the answer, only that it reads it in the term the vote names. A granted vote
under way is a ballot (`Posted`), a candidate's count is covered by the ballots of peers
whose vote is no longer under way (`Counted`), and a leader has had the ballots of a
majority (`Won`). Two majorities share a voter, who has one ballot.

**What the other theorems on Raft start from.** An invariant that holds while nothing went
wrong has the form `Calm => ...`: `mishaps` only grows, so that a step into a calm state
comes from one. `Wires` says what it is worth that nothing crossed: a connection carries at
most one message, with one caller behind it, and an answer goes to the call it is for.

**Logs that match.** That logs match is not inductive: nothing in it keeps a node from
having an entry of a leader's term that the leader lacks, and that the next one the
leader adds would contradict. The proof carries along a book, again a witness and not a
variable of the program: for every term the log its leader had when it last added to it.
Each log is, up to each of its entries, what the book has for the entry's term, and a
leader's log is the book's for its own term (`Matching`, `InBook`). A term that nobody
won has no page in the book, so that one leader per term is what keeps two of them from
writing on one page. The usual argument, that a request of term t holds a part of the
page of t, fails for this code: a round keeps the term it began with and reads the log
anew for each peer, also when its node has long been deposed and its log overwritten.
What is on a connection is therefore only known to be an excerpt of some log that is in
the book (`Shipped`, `Excerpt`); `StoreAllBook` shows that this is enough: whoever
stores it after the consistency check has afterwards the log it had, or that one. A
leader does not store it, since the sender of a request was elected in the request's
term (`Reported`). `Order` says all this of logs that still have their beginning, and
`StartsNoEarlier` that none gets it back.

**What is committed stays.** The textbook says: an entry that a majority has is in the
log of whoever wins later, since the two majorities share a voter, and the voter grants
its vote to no log that is behind its own. Two things in this code are in the way.
`advanceCommitIndex` does not ask whether its node still leads, and a round of a deposed
leader goes on. And its log may meanwhile have been truncated: a next index beyond the
end gives `PrevLogTerm` 0 and no entries, which a follower whose log does not reach as
far either confirms (`node.go:440`, `:536`), and then it commits of its own log what the
request says is committed. With five nodes the state machines come to disagree in this
way (section 5). This is what the hypothesis `Cardinality(Node) <= 4` is for: any two
nodes leave too few others for a majority, so that one of them has voted in every
election that was won, and what two nodes have is never truncated again. The bound is
sharp.

The proof adds a third witness to ballots and book, the copies G: `<<p, k, i>>` is in G
if p had the first i entries of the page of term k at a time when it was not yet beyond
term k. A log may lose them again, but G does not. An entry is `Settled` if two nodes
have a copy, and `Firm` if two nodes have one or, not yet beyond the term, may still get
it; who is beyond the term never will (`Holds`). `Core` says that every later page of
the book begins with what is firm (`Complete`), and that a copy which another node still
backs has not been truncated (`Kept`). A new page begins with the log of the node that
was elected, so `Votes` links the ballots to the copies: who voted for a candidate had,
of what another node still backs, nothing that the candidate lacks (`Behind`), and a
candidate whose log is already beyond its own term can no longer win (`Blocked`).
`Sending` carries this through rounds, requests and answers: what a leader counts as
stored is a copy (`Backed`, `Answered`), and what is on the wire as committed is settled
(`Sent`). `Known` is the result, that all that was applied was settled when it was. In a
log that was never compacted two settled entries of one index are equal, as the page of
the later term begins with the other; and a leader whose term no election passed has
both.

`Lasting(b)` is the conjunction, for some ballots, book and copies. Its parameter says
whether commit indices are trusted too: a node that restarts from a snapshot counts as
committed what the snapshot is labelled with, which was never agreed on. That is why
`CommittedStays` and `StateMachineComplete` hold until a node starts from a snapshot, while
for `StateMachineSafety` and `LeaderCompleteness` that does not matter. Snapshots may be
taken throughout; what ends all four is a log that has lost its beginning.

**Recursion.** The recursive definitions of these modules are functions on `0..n` (what
a deal has given after i partitions, what is found after i halvings, what the first n
files hold, what is left when some records do not decode). A claim about all their
values is proved by its least counterexample, which exists as `<` on `Nat` is
well-founded (`LeastNat`).

**Only model-checked.** What is about liveness (`PendingExpires`,
`DelayedReachesConsumer`, `EventuallyWritten`, `Replicates`, `SilentMembersDrop`,
`Delivered`, `Converges`), which this prover does not handle. Every invariant and every
action property that a passing run checks is a theorem, under the conditions the table
names.

## 5. Known divergences

Two runs show a disagreement between the code and what the repository says of it.

* `raft_votes` (`OneLeaderPerTerm`): an answer belongs to whoever reads the connection first
  (`cluster/raft/transport.go:229`), and `startElection` counts a granted vote without
  comparing terms. Two leaders in a term.
* `console_offline`: `mutationFn` of a deletion reads `deleteTarget` when the request is
  sent (`pages/TopicsPage.tsx:89`). Confirmed without a network, it deletes the topic
  whose dialog is open on reconnection, or sends `null` if none is. The schemas,
  WASM and processors pages have the same function.

The modules state the following as well, at their end or as a property without its
condition. Each was found violated by TLC on an instance like the one given; none has
a run of its own.

| Formula | Instance | What the code does |
|---|---|---|
| `QueueEngine!Accounted` | two partitions, without the condition that nobody took a message with the same key | pending entries are keyed by the offset alone (`engine/queue/ack.go:42`) |
| `QueueEngine!AckFreesWindow` | as `queue` | nothing removes from `InFlight` (`dispatcher.go:35`) |
| `QueueEngine!RedeliveryHappens` | as `queue` | nothing receives from `redeliverChan` (`ack.go:81`) |
| `QueueEngine!RemoveReclaims` | as `queue` | `RemoveConsumer` leaves the pending entries of the consumer (`dispatcher.go:57`) |
| `QueueEngine!ReportedIsRouted` | as `queue` | the HTTP nack reports `dlq_routed` and routes nothing (`protocol/http/server.go:1133`) |
| `QueueEngine!DelayedNotLost` | as `queue` | a due message finds every consumer busy and is discarded (`delay_drain.go:26`) |
| `HotPartition!TrimsNothingLive` | mixed TTLs, or one TTL and timestamps that do not ascend with the offsets | the timestamp is the producer's, or taken before the partition's lock (`broker/publish.go:99`, `:148`); the scan passes over messages that live on and trims them with the next expired one (`engine/ttl/expirer.go:227`) |
| `HotPartition!TrimsOnlyExpired` | one TTL, compaction of records with and without a key, without the condition on compaction | a compacted segment holds the records without a key first (`compaction.go:170`), so that the scan meets an expired one behind one that lives on |
| `HotPartition!RetentionBound` | after a restart | loaded segments do not count as frozen (`storage/hot/retention.go:50`) |
| `HotPartition!CompactsToLatest` | compaction, `MaxCompactionKeys = 1` | at the key limit updates of known keys are skipped too (`compaction.go:126`) |
| `HotPartition!SwapKeepsUnread` | compaction | a segment frozen after the snapshot is deleted unread (`compaction.go:196`) |
| `HotPartition!SwapStoresResult` | two compactions | the second removes the file it has just written (`compaction.go:198`) |
| `HotPartition!RestartKeeps` | compaction | `N.compacted.log` is not loaded (`partition.go:219`) |
| `HotPartition!ReadFaithful` | compaction | compacted records are renumbered (`compaction.go:205`) |
| `WAL!ImmediateDurable` | after a reopen | the last file is written from its start (`storage/wal/wal.go:306`) |
| `WAL!CheckpointDurable` | a crash in `Stop` | the checkpoint is written before the flush (`broker/broker.go:798`) |
| `WAL!TruncateKeeps` | two segments | a file's size is compared with a global offset (`wal.go:227`) |
| `WAL!OffsetGlobal` | after a reopen | only the last segment is counted (`wal.go:317`) |
| `Raft!CommittedOnMajority` | two `Rounds`, `scope.overlap` | a longer request is credited with the answer to a shorter one (`transport.go:229`) |
| `Raft!OneLeaderPerTerm` | `scope.torn`, a crash | an unreadable `state.json` is ignored (`node.go:714`) |
| `Raft!NothingOverwritten` | snapshots from 1 entry on | `TakeSnapshot` encodes the log under its read lock and replaces `log.bin` without one, with what may be older than a save of a handler in between (`snapshot.go:83`, `log_binary.go:126`) |
| `Raft!StateMachineSafety` | five nodes, four elections, no crash, no snapshot | a round outlives its leadership and its log was truncated, so that its next request has `PrevLogTerm` 0 and no entries; a follower whose log is short as well accepts it and commits another entry than was applied elsewhere (`node.go:440`, `:536`, `:565`). Proved for up to four nodes (section 4) |
| `Raft!CommittedStays` | snapshots, a crash, three nodes, without the condition that nothing was restored | a snapshot is labelled with the end of the log (`snapshot.go:50`); after a restart uncommitted entries count as committed, and the next leader replaces them |
| `Raft!StateMachineComplete` | snapshots, a crash, without the same condition | a snapshot is labelled with the end of the log, not with what was applied (`snapshot.go:50`) |
| `Raft!SnapshotTruncates` | snapshots | `Compact` refuses to remove the whole log (`log.go:169`) |
| `Raft!EntriesInPlace` | snapshots, three nodes | what a lagging follower needs is gone and the rest is filed under lower indices (`node.go:441`) |
| `Raft!OnlyCrashesStop` | a failed call | a double unlock ends the process (`node.go:457`) |
| `Raft!CandidateYields` | as `raft` | a candidate that takes entries of its own term stays one (`node.go:527`) |
| `Raft!NamesLeader` | as `raft` | `LeaderID` is the node's vote (`node.go:220`) |
| `ConsumerGroup!Balanced` | sticky | 3 and 1 of four partitions stay so (`engine/stream/consumer_group.go:227`) |
| `ConsumerGroup!CommitPersists` | two committers | memory and file take two commits in different orders (`consumer_group.go:98`) |
| `ConsumerGroup!CommitPersists` | a write that fails | memory keeps what the caller was told was not stored (`consumer_group.go:96`, `offset.go:90`) |
| `ConsumerGroup!NoneDropped` | a commit without a group | it is answered with success and stored nowhere (`engine.go:113`) |
| `StreamSession!WokenUp` | as `stream` | a publish between watermark and registration wakes nobody until the time-out (`engine.go:163`) |
| `StreamSession!AutoCommits` | as `stream` | the comparison is against an offset already moved (`protocol/ws/server.go:646`) |
| `StreamSession!NoResend` | `"nats"`, `"stomp"` | every fetch asks for offset 0 (`protocol/nats/server.go:338`, `protocol/stomp/server.go:405`) |
| `StreamSession!LeavesGroup`, `StaysMember` | as `stream`, two subscriptions | the loop leaves under whatever id the session has by then (`protocol/ws/server.go:619`) |
| `Deduper!EvictsOldest` | as `dedup` | one pass in map order may remove a recent entry (`idempotent/deduper.go:183`) |
| `PublishPath!AckedAlwaysStored` | `RefusalScopes`: a gate refuses | `IsDuplicate` records a message before the later steps have accepted it: a refused message is acknowledged on its retry and stored nowhere (`publish.go:29`) |
| `PublishPath!AckedAlwaysStored` | overlapping retries | a retry is acknowledged before the first attempt has stored anything (`publish.go:29`) |
| `PublishPath!StoredOnlyOnce` | a deduper that forgets, or a restart | a retry is stored a second time when the window has passed (`idempotent/deduper.go:91`), when its entry made room for others (`:97`), and after a restart, as nothing saves the windows |
| `PublishPath!Replayed` | `CrashScopes`: a crash | `Start` does not read the log: what a crash leaves between log and partition is lost (`broker/broker.go:275`) |
| `PublishPath!StaysDeleted` | a crash in `DeleteTopic` | the tombstone in the log is never read (`topic.go:137`) |

What the console's model shows besides, without a formula of its own (paths below
`src/frontend/src/`):

* the messages after a deletion read `deleteTarget`, which closing the dialog has reset:
  they say `"null" deleted` (`pages/TopicsPage.tsx:91`, and its siblings); the one after
  a registration reads the form (`pages/SchemasPage.tsx:80`), which the user may have
  changed since;
* the answer to a clearing resets `selectedTopic` under a replay dialog opened meanwhile
  (`pages/DLQPage.tsx:183`), whose button then replays the topic `null`; the options of a
  replay survive closing the dialog, as `setReplayOpen(true)` does not run the reset of
  `onOpenChange` (`pages/DLQPage.tsx:258`);
* a list whose reader swallows errors shows a failure as an empty list
  (`pages/DLQPage.tsx:111`, `pages/SchemasPage.tsx:46`), and with the broker as it is
  always, `GET /v1/schemas` and `GET /v1/dlq` not being routed;
* `request` parses a body from every answer (`lib/api.ts:25`): the 204 answers of the
  broker to deletions of schemas, modules and processors are reported as errors, and
  the list is not refreshed;
* the topic dialog renders `partitions`, which the broker sends as an array of objects:
  React throws and the error boundary replaces the console (`pages/TopicsPage.tsx:355`);
* an answer that was read before a change, but arrives for a page that was left in
  between, counts as fresh for 30 seconds when the change's invalidation came first and
  found no data to refetch (`pages/TopicsPage.tsx:93`); `FreshAfterSuccess` is about
  lists on the screen;
* the detail of a processor is not invalidated by start, stop or deletion
  (`pages/ProcessorsPage.tsx:53`);
* signing out leaves the cache as it is (`components/layout/Sidebar.tsx:47`): the next
  user sees the previous one's data until it is refetched;
* the chart has a point for every change of the two counts, and not one per refresh as
  `pages/OverviewPage.tsx:76` and `:172` say.

## 6. Not modelled

The components with status `not_modelled` in `PROJECT.json`, with reasons. Within the
modelled ones: I/O errors of the hot tier's rollover, of Raft's saves and of the
write-ahead log, where no write fails (the flush errors that `rotate`,
`storage/wal/wal.go:271`, and `syncLoop`, `:381`, ignore, and those that `Append` returns;
`PublishPath` has the failing `Append`); power loss (a process crash keeps what was written to a file);
two saves of a node's log at a time, which share `log.bin.tmp`
(`cluster/raft/log_binary.go:126`): the model has whichever is renamed last, whole, and no
mixture of the two; handlers of Raft interleaved with a snapshot's reading of state machine
and end of log, which the model takes in one step; the moment between the check of `run`
that its node does not lead and the lock of `startElection` (`node.go:247`, `:295`): the
model has one step, which a leader may take as well; byte formats; TLS, authentication and
framing of the protocol servers; of the console the theme, the drawer and the collapsed
sidebar, prefetching, search text and filters (they hide rows), form validation of
fields other than the name, formatting, and `EntriesVirtualList`, which nothing uses; `HandleInstallSnapshot`, which nothing calls; group
listings and statistics, which only read.

## 7. Plan

In this order; each module comes with a run, mutants and, where it says so, proofs.

1. `Tiering`: warm LSM tree (memtables, flush goroutine and its one-token channel, L0
   compaction, manifest, restart), cold archives, migrator and read-through. Abstract
   specification: a set of messages that shrinks only by expiry. The composed run asks
   whether a message is readable in some tier at every step of a migration, a flush, a
   compaction and a crash.
2. `Replication`: leader, followers, in-sync set, quorum acknowledgement; with the
   cluster manager and the Raft offset store on top of a committed log, for which
   `Raft` is the refinement.
3. `Gossip`: suspicion, refutation, dissemination.
4. `Sessions`: MQTT QoS 1 and 2, STOMP and AMQP acknowledgement modes, the native
   protocol, on top of an abstract queue that `QueueEngine` implements.
5. `Broker`: start, stop, lock file and hand-off, dead-letter routing and replay,
   quotas and flow control against concurrent publishes.
6. Pure algorithms against reference definitions: exchange trie, schema
   compatibility, windows of the processing engine, priority dispatch.
7. Proofs: `TypeOK` of `WAL` and of the console. Should `replicateLog` come to drop a
   round when its node no longer leads, the theorems about commitment ought to hold
   without the bound on the nodes, with a majority in the place of two in `Settled`.
