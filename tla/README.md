# A TLA+ model of Pennant

Pennant is a feature-flag service: a management API over a configuration
store, a hub that streams snapshots of an environment to SDKs, SDKs in Go and
TypeScript that evaluate flags locally, and an analytics pipeline. This
directory models the server, the stores, the SDKs' evaluation and the Go
client, checks the models with TLC on small instances, and proves what matters
most with TLAPS for every size.

`PROJECT.json` lists components, runs, mutants, the correspondence between
definitions and source lines, findings, hazards and theorems.

## 1. The system

| component | state | operations | correct means |
|---|---|---|---|
| Store (`internal/store`) | projects with environments and SDK keys, flags, segments, flag configs, a version per environment, the audit log | one method call each, under one lock (memory) or one statement (SQL) | the version of an environment only grows; a configuration is never older than its version says |
| Management API (`internal/api/server.go`) | none of its own | create, update, delete of projects, environments, SDK keys, flags, segments; `putFlagConfig`; `publishFlagChange` | a change is stored, versioned, built and published, and the request is answered |
| Snapshot builder (`internal/snapshot/builder.go`) | none | `Build`: version, flags, segments, configs, each a store call | the label never promises more than was read |
| Delta and checksum (`internal/snapshot`) | none | `ComputeDelta`, `ApplyDelta`, `Checksum` | applying the delta of two snapshots to the first gives the second |
| Replay ring (`internal/stream/ring.go`) | circular buffer, head, count, minVer, maxVer | `Append`, `Since` | `Since` gives every missed message in order, or refuses |
| Hub (`internal/stream/hub.go`) | rings and subscribers per environment key, `ActiveConnections` | `Subscribe`, `Unsubscribe`, `Publish`, `Replay` | never blocks the publisher; every subscriber gets every message or is removed |
| Stream handler (`sdkStream`) | fromVersion, sentVersion, its queue | subscribe, replay or build, deliver, unsubscribe | nothing is missed between the first events and the queue |
| Go client (`sdk/go/pennant`) | the snapshot in hand, one connection | `connect`, `handleEvent`, `streamLoop`, evaluation, `Close` | ends up with the current configuration; keeps serving the last one meanwhile |
| SDK keys (`internal/sdkauth`) | in-memory registry | `Register`, `Revoke`, `Lookup` | a stored key is accepted and a revoked one is not, after a restart too |
| Evaluation (`internal/eval`, `sdk/ts/src`) | none | `Evaluate`, `ComputeBucket`, `Explain` | targets before rules, first rule wins, prerequisites terminate, both languages agree |
| Ingestor (`internal/analytics`) | buffer, done | `Track`, `flush`, `loop`, `Stop` | each tracked event is stored once, up to the documented loss |
| Users and tokens (`internal/auth`) | users, refresh tokens | login, refresh, role check | a refresh token is used at most once |
| Rate limiter (`internal/ratelimit`) | token bucket per key | `Allow`, `cleanup` | forgetting a key never grants more than a full bucket |
| Process (`cmd/server/main.go`) | what it has seeded | `seedDemoData`, `seedAdminUser`, signal, `Shutdown`, `Stop` | a clean shutdown stores every event; a restart undoes no revocation |
| Experiments, statistics | experiments in memory | results, tests | numerical |

How they interact: a management handler calls the store, then for each
environment of the project `IncrementEnvVersion`, `Build` (four or more store
calls) and `Hub.Publish`. `Publish` appends to the environment's ring and
copies its subscribers under a read lock, then sends to each one's channel
without blocking, then unsubscribes those whose channel was full. A stream
handler subscribes, calls `Replay`, writes either the replayed messages or a
snapshot that it builds, and then forwards its channel. The client keeps the
last snapshot it was sent and reconnects with that snapshot's version. Every
handler has a goroutine of its own, and no lock spans two of these calls.

Hard behaviours: all the interleavings of these calls; publishing out of
version order; a queue that fills up; a subscriber that is removed twice;
a connection that drops in the middle of a replay; the boundaries of the ring;
liveness of the publisher and of delivery; environments that disappear under
a handler; a list of keys that two handlers read and write back; a crash
between a store call and the registry; batches that overtake each other;
prerequisites that share others or form cycles; the edges of a rollout.
`PROJECT.json` lists them as hazards, each at its line.

## 2. Modules

| module | models | used by |
|---|---|---|
| `EventRing` | `ring.go`, as operators on a record with the fields of the Go struct | `EventRingLog`, `Propagation` |
| `EventRingLog` | one ring and the log of all that was appended to it | run `event_ring` |
| `SnapshotContent` | the content of a snapshot as revisions | `SnapshotFeed`, `Propagation` |
| `SnapshotFeed` | the abstract specification: what an SDK may be given | refined by `Propagation` |
| `Propagation` | management handlers, builder, hub, stream handlers, Go clients | `MCPropagation` |
| `StoreData` | the contents of a `ConfigStore` | the two stores |
| `MemoryStore`, `SqlStore` | `memory.go`, `sqlite.go`: one operator per method, with its error result | `Management` |
| `Management` | every management handler, SDK keys, process start, crash | `MCManagement` |
| `Evaluation` | `internal/eval`, `internal/model`: `Evaluate`, `Explain`, `Validate` | `TsEvaluation` |
| `TsEvaluation` | `sdk/ts/src`: the same algorithm, where it differs | `FlagEvaluation` |
| `FlagEvaluation` | server, Go SDK and TypeScript SDK asked about one flag | `MCEvaluation` |
| `EventStore` | `memstore.go`: the queries | `Ingestor` |
| `Ingestor` | `Track`, `flush`, the loop, `Stop`, shutdown | `MCServices` |
| `Sessions` | login, refresh, the user stores, restart | `MCServices` |
| `RateLimit` | the limiter and its cleanup | `MCServices` |
| `GoClient` | `New`, `Close`, `streamLoop` | `MCServices` |
| `SnapshotDelta` | `ComputeDelta`, `ApplyDelta`, put and patch | `MCServices` |
| `MCPropagation`, `MCManagement`, `MCEvaluation`, `MCServices` | instances for TLC | the runs |
| `UpToInduction` | lemmas: induction and recursion up to a bound | `EventRingProofs`, `ManagementProofs`, `ServicesProofs`, `EvaluationProofs` |
| `EventRingSlots` | lemmas about slots of a ring | `EventRingProofs`, `PropagationProofs` |
| `EventRingProofs` | theorems about `EventRingLog` | |
| `PropagationProofs` | theorems about `Propagation`: types and honest labels | `DeliveryProofs` |
| `DeliveryProofs` | the refinement, subscribers, no update lost, scoped delivery, one request at a time | |
| `ManagementProofs` | theorems about `Management` and the two stores | |
| `ServicesProofs` | theorems about `Ingestor`, `Sessions`, `RateLimit`, `SnapshotDelta`, `GoClient` | |
| `EvaluationProofs` | theorems about `FlagEvaluation` and the evaluators | |

### EventRing and EventRingLog

`RingAppend(r, msg)` and `Since(r, v)` are the two methods, atomic because
each holds the ring's mutex. Slots are numbered from 0 and index arithmetic is
that of the code. `EventRingLog` appends messages with arbitrary versions,
because concurrent handlers publish out of order and projects that use the same
environment key share a ring. The log is a history variable.

### Propagation

The variables are named in the module, each with the Go state it stands for;
`pc` says where a handler is.

| action | code | one step because |
|---|---|---|
| `PutFlagConfig`, `ChangeFlags`, `ChangeSegments` | a handler up to the end of its store write | one store call changes state |
| `IncrementEnvVersion` | the call of that name, for the next environment | one store call |
| `BuildGetEnvVersion`, `BuildListFlags`, `BuildListSegments`, `BuildGetFlagConfig` | `Build` | one store call each (the configs together) |
| `Publish` | the part of `Publish` under the read lock | one critical section |
| `Send` | one iteration of the send loop, either case of the `select` | one channel operation |
| `UnsubscribeSlow`, `Unsubscribe` | the second loop, `Unsubscribe` | one critical section |
| `Respond` | the end of the handler | |
| `Subscribe` | `Hub.Subscribe` with `ensureEnv` | one critical section |
| `Replay` | `Hub.Replay` and the choice that `sdkStream` makes | a copy taken under the ring's lock |
| `WriteReplayed` | one iteration over the replayed messages | one write to the connection |
| `SendInitial` | `GetEnvVersion` after `Build`, and the write | one store call |
| `Deliver` | one message of the loop | one channel operation |
| `Disconnected` | the return of the handler and its deferred `Unsubscribe` | one critical section |
| `Connect`, `HandleEvent` | `connect`, `handleEvent` (put) | |
| `Drop` | the network | external |

The environments of a project are published in any order (the code takes the
order of the project's list; no property depends on it). Subscribers are sent
to in any order, as the code ranges over a map.

Data is abstracted to revisions: every write of the flags or segments of a
project, or of the configs of an environment, makes the next revision of that
part. Two snapshots have the same content exactly when they hold the same
revisions. The per-flag `GetFlagConfig` calls of `Build` are one step, so a
snapshot that mixes configs of two moments is not modelled; one that mixes
flags, segments and configs of different moments is.

Projects and environments are fixed, so the store calls of this path cannot
fail (`Management` has the failures). A refused request changes nothing and is left out. `sdkSnapshot` runs the
same `Build` and changes nothing. Audit entries are not modelled: nothing on
this path reads them.

History variables, which no guard reads: `committed` records the content at
every version, `published` the highest version given to `Publish`, `best` the
highest-labelled snapshot written to a stream, and `exact` whether the first
events of a stream cover the version that it skips by and all that was
published before.

### SnapshotFeed

The content of an environment moves forward; now and then it is recorded under
the next version; a client may be given any *honest* snapshot of its own
environment: one labelled v that holds at least what was recorded under each
version up to v and nothing the environment does not hold. Late, repeated and
out-of-order snapshots are allowed, and so are torn ones (parts read at
different moments): `Build` takes no lock across its reads, so the code
promises no more. `SPEC.md` asks for snapshot atomicity "at some version";
what holds is honesty of the label.

### Management, MemoryStore, SqlStore

A store is a record (`StoreData`), and each method of a store is an operator
that returns whether the call succeeded and the store after it. `Management`
chooses one of the two when it starts. They differ where the code does: the
maps of the in-memory store exist only while the project does, so its calls
fail without the project; no SQL table refers to another, so there a config or
a version may belong to nothing, `GetEnvVersion` answers 0 without a row, and
`IncrementEnvVersion` makes the row. `postgres.go` has the statements of
`sqlite.go` in the other dialect. The audit log is written and never read by a
handler, and is left out. Errors of the database itself are not modelled.

A handler of one store call is one action. The body of a project carries its
environments and their keys, as JSON can. `createSDKKey` and `revokeSDKKey` are
four and three: read the environment, change the list (with the read when it makes a new
list), write the environment, change the registry. `GetEnvironment` of the in-memory store copies the slice
of keys and not its array, so `append` may write into the list of the store and
of any other handler of that environment: `AppendSDKKey` chooses whether there
was room, and if so writes into every longer list that begins alike. A
change of a flag, segment or config is a write, then (per environment)
`IncrementEnvVersion`, `Build`, `Publish`, each of which may fail; the steps
inside `Build` and `Publish` are in `Propagation`. `Crash` may happen at any
moment: it loses handlers, registry and hub, and the store if it is the
in-memory one; `seedDemoData` then runs again, in its three steps.

`issued`, `revoked`, `gone` and `owed` are history variables.

### Evaluation, TsEvaluation, FlagEvaluation

A world is a set of flags, segments, a context and a hash; `IsWorld` says what
JSON can decode to, malformed flags included, and `Init` starts with any of
these. The operators follow `evaluate.go`, `clause.go`, `operators.go`,
`bucket.go`, `explain.go` and the TypeScript files of the same names, in the
order in which the code tests and returns. Values are typed as JSON is. Texts
are opaque. What the parsers of numbers, times and versions make of them, and
which texts a pattern matches, are constants of which each language has its own
(`ParseFloat` and `JsParseFloat`, `RFC3339` and `DateParse`, `SemVer` and
`JsSemVer`, `Matches` and `JsMatches`; a pattern that does not compile matches
nothing). That a text contains, begins or ends with another is one relation for
both. Numbers are tenths, so that there are fractions: Go cuts them off a date
(`time.UnixMilli(int64(t))`, `Trunc`) and TypeScript does not. SHA-1 is a function that the world gives, a bucket is a number in
0..`FullWeight`, `FullWeight` included because the largest hashes round to 1.0.
Weights are added exactly; the error of floating-point sums is not modelled.

The recursion of the code is written as recursive functions. `evaluateAt` is
the body of `evaluateWithDepth` at one depth, given the calls one level deeper;
`evaluateWithDepth` is then a function of the depth, from the limit upwards,
whose value at a depth is a function of the flag and of the visited set.
`segmentMatches` is a function on the segments, as one may refer to another;
`clauseMatchesIn` takes it as an argument. Loops over a list that stop at the
first hit are `First` of the positions that hit; a loop that adds weights up is
a recursive function of the position (`WeightUpTo`).

`FlagEvaluation` asks the server, the Go client and the TypeScript client about
a flag, before and after the SDKs have the snapshot, and `Explain` beside them.
`ServedWith(bucket, variations)` is what the fallthrough would serve with these
weights if the hash were this bucket: it is how the rollout properties speak of
all contexts and of a rollout before and after a change.

### Services

`MCServices` runs five small specifications that share no state, one of them in
each behaviour.

- `Ingestor`: handlers, the loop and `main` each take the buffer under the mutex
  and insert it in a step of its own. `Shutdown` returns when no request is in
  progress or after its timeout (`clean` says which). `EventStore` has the
  queries as their loops over the list of events, one recursive function per
  loop.
- `Sessions`: a refresh uses up its token in one critical section and issues
  the next in another. Tokens are random and taken to be different. `root` is a
  history variable that says from which login a token stems.
- `RateLimit`: time is counted in earned tokens. The bucket of
  `golang.org/x/time` is external. `ideal` is a history variable: the bucket that
  would be there if none was ever forgotten.
- `GoClient`: `New` with its timeout, `Close`, and the goroutine of `streamLoop`:
  connect, read, store the snapshot, close `ready`, sleep with back-off. A
  snapshot on a line above the buffer of `bufio.Scanner` ends the connection. The
  server and the network are external.
- `SnapshotDelta`: snapshots follow each other and reach the client whole or as
  patches. Whether a delta is too large is a choice. `ComputeDelta` is called by
  tests only: the server sends whole snapshots today.

## 3. Runs

| run | bounds | distinct states | shows |
|---|---|---|---|
| `event_ring` | ring of 3, 5 appends, versions 1..6 | 9 331 | the ring is the end of the log, `Since` is exact or refuses |
| `two_writers` | 2 concurrent requests of every kind, 1 stream, queue of 1, ring of 2 | 894 000 | honest labels, counted subscribers, no update lost, refinement of `SnapshotFeed` |
| `reconnects` | 1 writer, 3 requests, 2 connections, queue of 1, ring of 1 | 3.2 million | the same across a reconnection, and changes reach the SDK |
| `publisher` | 1 writer, 3 requests, 2 environments, 1 stream | 284 000 | liveness |
| `management` | both stores, 2 handlers, 3 requests, 1 crash, 2 keys and the demo key, 2 environments | 430 000 | revocation, versions, failures |
| `evaluation` | five families of worlds, prerequisite depth 2, weights of 4 | 459 000 | the evaluators, and their parity on common ground |
| `services` | 4 events, 2 trackers, batches of 2; 3 tokens, 2 refreshes; bucket of 3, idle limit 4; 2 keys with 2 contents, 3 snapshots | 43 000 | the five services, with liveness |
| `snapshot_race`, `slow_client`, `shared_env_key`, `publish_order`, `sdk_parity` | the smallest instance that shows each | | findings, section 5 |

Why the bounds are enough for the cases that matter. Five appends to a ring of
three fill it and overwrite two slots, so head wraps around and both branches
of `minVer` are taken. A queue of one is full after one message, which is when
`Send` takes its other case; a ring of one evicts on the second message, so
`Since` refuses; two requests are enough to publish out of order, and two
connections for a replay by Last-Event-ID.

`management`: a conflict over a list of keys takes two handlers; three requests
are a create, a revoke of the same key, and a third that writes the old list
back or removes the environment meanwhile; one crash is enough for a restart
on what any of them left. Two environments let one fail and the other succeed.

`evaluation`: the families are prerequisites (any three flags of a set of
shapes, cycles included, and diamonds of four flags, with a limit of 2 in place
of 20, so chains of exactly the limit and of one more occur), clauses (every
operator on every kind of attribute and value, among them dates with a
fraction, a pattern that only Go compiles, and null for the key of a segment
that is called "null"), rollouts (every split of the
full weight over three entries, every bucket, 1.0 included), flags of any shape
(malformed ones and a negative weight too) and segments (pairs of rules, weights, references).

`services`: four events in batches of two make two full batches that two
handlers and the loop hold at once. Three tokens are a login and two exchanges,
with two requests that race for one token. An idle limit above the bucket is
what the code's numbers give, and the smallest one in which a bucket is
forgotten. Three snapshots let an item be deleted and added again.

Symmetry is used in `two_writers` (writers) and `management` (handlers), which
check no liveness. Deadlock is checked in `evaluation`; in the other runs the
bounds on requests, connections, tokens or events, or a closed client, let an
instance stop.

Every property of a passing run has a mutant: a definition of the model changed
as a plausible bug would change the code, which makes that property fail.

Fairness. `PublisherNeverStalls` assumes only that the Go scheduler runs a
management handler that can run (weak fairness of `WriterStep`); nothing is
assumed of streams and clients, which is the point of the property.
`ConnectedClientCatchesUp` and the run `slow_client` also assume that stream
handlers run, and that clients read and reconnect: `streamLoop` is an endless
loop and a goroutine per stream does nothing but its next step. Connections
are never forced to drop and writes are never forced to happen.
`EventsGetStored` assumes that the ticker ticks, that a flush which has begun
goes on (`InsertEvents` only waits for a mutex), and that `Stop` goes on when
the loop has returned; requests need not end. `CloseComesBack` and `SelfHeals`
assume that the goroutine of the client takes its next step, and `SelfHeals`
that a server which is there sends the snapshot that `sdkStream` starts every
connection with; `New`, `Close` and the comings and goings of the server are
not forced. `Shutdown` has a timeout but nothing assumes that it expires.

`NoUpdateLost`, `SerialChangesReachSDK` and `ConnectedClientCatchesUp` speak of
streams that are *in step* (`InStep`). A stream gets out of step in three ways:
a version is incremented between `Build` and `GetEnvVersion` of `sdkStream`
(run `snapshot_race`), its queue is full when a message is sent
(`slow_client`), or the ring that it replays lacks the newest message. The
last needs concurrent requests: a message published before the ring exists is
in no ring, and one that is published late may evict a newer one.

Some properties hold under a condition that the code needs, too.
`RevocationHolds` is about keys that an answered `createSDKKey` gave out, and
about the registry. It says nothing of three other things: a revocation that
overtakes the registration of its key is undone by it; a demo key that was
revoked is accepted again after a restart on the in-memory store, because
`seedDemoData` registers it (`main.go:196`); and a key may be in the list of the
store and not in the registry, or the other way round. `NothingMissed` is about
messages appended in version order: out of order, an eviction can raise `minVer`
above a version that is still to come or is still there. `SelfHeals` assumes
that the snapshot fits the 64 KiB line of `bufio.Scanner`: one that does not is
never received, however often the client connects. `HubBehindStore`
leaves out environments that this process saw removed: the ring of a recreated
environment keeps the old, higher versions. `PrerequisitesCompose` and
`ExplainAgrees` are about prerequisites within the limit and free of cycles,
`WeightsAreShares` and `GrowthIsMonotone` about rollouts without a negative
weight (section 5), the latter about weight moved between two
variations that are listed once, `ValidFlagsServe` about flags that are right
also where `Validate` does not look. `ParityOnCommonGround` says in
`CommonGround` what the two languages treat alike, clause by clause: texts that
both parsers read alike (`SameReading`), dates that are whole numbers, patterns
that match the same texts and segment keys that are texts (`SameValue`).
Segments are part of it, as long as a rule with a weight is the last of its
segment.
`QueriesAgree` attributes a metric event to one variation that its context was
exposed to, the same for all metrics, and not to the latest one by time; flags
whose evaluations all have a time of 0 or below are never reported stale.

## 4. Proofs

All theorems hold for every value of the constants that satisfies the named
assumptions: `RingCapAssumption` (a positive capacity), `LogAssumption`,
`PropagationAssumption` (scopes are pairs of a project and an environment key,
every client has one of them, a positive queue capacity, requests and
connections are different things), `WritersAssumption` (finitely many
handlers), `NilAssumption`, `ManagementAssumption` (the demo
project and environment are among the names, the demo key is not a generated
one, a body lists keys, `Absent` is no value), `IngestorAssumption` (a
positive batch size, events with the fields that the queries read), `SessionsAssumption` (tokens and requests are different
things), `RateLimitAssumption` (a bucket fills up within the idle limit, which
is what makes forgetting safe), `DeltaAssumption`, `EvaluationAssumption` (a
positive full weight, any limit on the depth, `None` is no value, the empty
text is no version). `FeedImplemented`,
`ScopedDeliveryAlways` and `SerialChangesReachSDKAlways` have the further
hypothesis `NoSharedEnvKeys`, which the code needs: run `shared_env_key` shows
what happens without it.

| property | theorem | from |
|---|---|---|
| `Window`, `NothingMissed`, `TypeOK`, `ReplayExact`, `RefusedIffEvicted` | `EventRingProofs` | `RingInv` |
| `TypeOK`, `LabelsAreHonest` | `PropagationProofs` | `HonestInv` |
| `ImplementsFeed` | `FeedImplemented` | `HonestInv`, `WiringInv` |
| `SubscribersCounted` | `SubscribersCountedAlways` | `WiringInv` |
| `NoUpdateLost` | `NoUpdateLostAlways` | `HonestInv`, `WiringInv`, `DeliveryInv` |
| `ScopedDelivery` (the property that `shared_env_key` refutes without the hypothesis) | `ScopedDeliveryAlways` | `HonestInv`, `WiringInv` |
| `SerialChangesReachSDK` | `SerialChangesReachSDKAlways` | all of these, `SettledInv`, `OrderInv`, `TipInv` |
| `TypeOK`, `RevocationHolds`, `ChangesAreVersioned`, `ZeroVersionLosesNothing`, `HubBehindStore` | `ManagementProofs` | `ManagementInv` |
| `NothingLost`, `StoredOnce` | `ServicesProofs` | `IngestorInv`, `OnePlace` |
| `QueriesAgree` | `QueriesAgreeAlways` | `IngestorInv`, `OnePlace`, what each loop has computed after k events |
| `SessionsNeverFork`, `ForgettingIsInvisible`, `PatchesFollow`, `ReadyMeansSnapshot` | `ServicesProofs` | `SessionsInv`, `RateLimitInv`, `DeltaInv`, `SnapshotFirst` |
| `TypeOK`, `ValidFlagsServe`, `PrerequisitesCompose`, `ExplainAgrees`, `GrowthIsMonotone`, `WeightsAreShares`, `ParityOnCommonGround` | `EvaluationProofs` | `EvaluationInv`, what the recursive functions compute |

### The ring

The inductive invariant has four parts. `CountInv` bounds `head` and `count`;
`SlotInv` says that the slot i places behind the head holds the i-th message
from the end of the log, which is what makes the window exact; `MinInv` says
that `minVer` is the version of the oldest entry, `MaxInv` that no message is
above `maxVer`. From it follow `WindowTheorem` (any version order),
`NothingMissedTheorem` (version order) and `RingTypeCorrect`. `EventRingSlots`
has the modular arithmetic they share.

`ReplayExactTheorem` is about the loop of `Since`, which keeps the messages
above a version. For messages in version order these are an end of the walk;
that the loop returns exactly this end is an induction over its iterations.
`RefusedIffEvictedTheorem` needs that versions without gaps count up from the
first, another induction. `UpToInduction` has the two principles, in a form
that the provers can use: the least number of a set (from the library's
`WFMin`), and the existence and uniqueness of what a loop of n iterations
computes, where the loop body is a function and not an operator.

### Propagation

`PropagationProofs`: `LabelsAreHonest` is about the snapshots that clients
hold. It is not inductive: a client takes its snapshot off the wire, the wire
is filled from a queue or a ring, these by `Publish` from a draft. So
`HonestInv` says that everything in transit is sound (`TransitInv`, `RingInv`),
that a draft is as recent as its label in the parts that it has read
(`DraftInv`), that what a version promised is still in the store
(`HistoryInv`), and that handlers work on environments that exist
(`ScopeInv`). The key lemmas are `NextGrows` (no step takes anything out of the
store or of its history), `SoundGrows` (so a sound snapshot stays sound), and
`BuildSoFar` with the four `Build...Step` lemmas: because `Build` reads the
version first, each part it reads afterwards is at least as recent as what was
recorded under that version. `HonestInv` was checked with TLC on the instances
of `two_writers` and `publisher` before it was proved.

`DeliveryProofs`: `WiringInv` says who is connected to what: a stream is
subscribed to its own environment only, and only between `Subscribe` and its
end; what is in a ring, a queue or on a wire is of that environment; `Publish`
sends to streams of the environment that its handler works on; no message is
above the version of its snapshot. With it each step of the code is a step of
`SnapshotFeed` or leaves it unchanged (`FeedImplemented`): a client takes a
snapshot of its own environment, which `HonestInv` says is honest. It also
gives that a stream is in one set of subscribers at most, so that the second of
two `Unsubscribe` of one stream finds nothing (`SubscribersCountedAlways`).

`NoUpdateLost` speaks of streams in their loop. `DeliveryInv` extends it to
where a version can be before: it has been given to `Publish` or is still being
built (`PublishedInv`); what a stream has written covers what it skips by
(`SentInv`); and while a stream replays, a version may also be covered by what
is left to be replayed (`CoverInv`).

The last part of `DeliveryProofs` has the rest of the way, for one handler at a
time. `SettledInv`
(for any number of handlers) says that what the store holds has a version, or a
handler has still to make one. `OrderInv` says that a message carries the
snapshot of its own version and that rings, queues, replays and the stream's
own history are in version order; this is where one handler is needed, as
`publish_order` shows. `TipInv` says that what was written last is what the
client holds or the end of the wire. When everything has been read, the client
thus holds the newest version (`NoUpdateLost`), which is what the store holds.

### Management

`ManagementInv` has the types, the store with itself, the hub and the requests
(`StoreInv`), the keys (`KeysInv`) and what each handler may rely on where it
is (`HandlerInv`). The proof of `RevocationHoldsAlways` rests on this: a key that
a handler is about to register is not yet answered, and a key that was revoked
was. `ChangesAreVersionedAlways` needs `Pays`: an environment that a
handler owes a version is still among those it has to do, or has a higher one
already. `ZeroVersionLosesNothingAlways` needs `ZeroOf`: between the failed
`IncrementEnvVersion` and `Publish`, the environment has no version (and `Build`
fails) or the config that the handler wrote is gone or replaced, and no other
request writes that value.
`HubBehindStoreAlways` needs `NotAhead`: a version that a handler carries to
`Publish` is one that the store has reached.

There are two stores, and every call of a handler may be overtaken by calls of
all others. So the proof has three layers. `CallsFollow` says of every method of
both stores that it does to the store one of a few things (`Follows`).
`Bystander` says that none of these disturbs the invariant of a handler that is
somewhere else in its code. What is left is what each step does to the handler
that takes it. `KeysWithoutType`, about the loop of `revokeSDKKey`, is proved
with `UpToInduction`.

### Services

`NothingLost` alone says nothing about a flush in progress. `IngestorInv` adds
where each goroutine may be and that only a flush in progress has a batch
(`Places`), and that `main` flushes after the loop has returned and, after a
clean shutdown, after the last request (`StopIsLast`), so that what it takes is
the last batch. `Conserved` follows step by step from what `Append` and
concatenation do to the set of elements. `StoredOnce` counts; its proof has
positions instead: `OnePlace` says that buffer, batches and store have no
element in common and none repeats one, and only at the end this is turned into
cardinalities.

A fork of a session could come from a new token that was live before.
`HoldersAreIssued` excludes it: whatever holds a session, and the token that
the session began with, was issued. `IdleEarns` says that a bucket which is not
full has at least as many tokens as it was idle for; so a bucket that is
forgotten is full. `DeltaRoundTrip` (the delta of two snapshots, applied to the
first, has the content of the second) rests on `PatchedIsTarget` for one map;
the invariant adds that what is published carries the checksum of its content.
`SnapshotFirst` adds to `ReadyMeansSnapshot` that there is a snapshot already when
the goroutine of the client is about to close `ready`.

`QueriesAgree` compares three loops with sets and cardinalities. For each loop
there is a closed form of what it has computed after k events, in terms of the
events before k (`Before`): `InsightOf`, `StaleOf` and, for `QueryConversions`,
the variation that a context was last stored with and the events counted under
it (`ConvertedAt`). Each is shown to hold of no event and to survive one more
(`InsightStep`, `ConvertedStep` and so on), and the induction over k is
`UpToInduction`'s. That counting a list is the cardinality of a set needs that
no event is in the list twice (`CountsUp`), which is where `OnePlace` comes in.

### Evaluation

The state machine is small: `EvaluationInv` says that an answer is what the
operators give for the world, before or after the snapshot has arrived. What is
hard is what those operators compute, for any flags, any limit and any list.

- *The recursion.* A recursive function satisfies its equation only if some
  function does. `DefinedDownFrom` (from `DefinedUpTo`) gives that for a
  recursion over depths, so `EvaluateIs` and `TsEvaluateIs` are the equations of
  the two evaluators, with the calls one level deeper as arguments. From it and
  the types of all that a call can return follows `TypeCorrect`.
- *Prerequisites.* An answer must not depend on depth and visited set. `Above`
  says that every flag in the visited set is above the flag that is called, in
  the order that chains of prerequisites give; so the test for a cycle fails
  where there is none (`NotAboveItself`) and stays false one level down
  (`AbovePrerequisite`). `Steady(n)`: flags from which no chain of n starts get
  the same answer at every depth that leaves n levels. `SteadyStep` goes from n
  to n + 1, and `Hierarchical` ends it at the limit
  (`PrerequisitesByThemselves`).
- *Explain.* Its list of steps is a sequence in which nothing decided
  (`Undecided`) and then one step that did (`Decided`). `UndecidedSteps` says
  that appending the steps of a loop keeps this, and that prerequisites come
  out alike in both algorithms is `PrerequisitesByThemselves`
  (`ExplainTellsEvaluate`).
- *Rollouts.* `Falls(v, b, i)`: bucket b is in the i-th interval of the
  cumulative weights, which is when the loop stops at i (`ChoiceIs`). Moving
  weight moves the sums between the two entries, up or down (`GrownSum`), and
  both cases keep b in the interval that grows (`GrowthKeepsContexts`). `Getting`
  is the set of buckets below the n-th sum that get a variation; one more entry
  adds an interval of its weight or nothing (`SharesStep`), so by induction the
  set has as many members as the weights say (`SharesAre`), and validation makes
  the last sum the full weight (`WeightsAreServed`). `ValidFlagsNeverFail` needs
  of a rollout that it has an entry: the sum of none is 0.
- *Parity.* One lemma per layer: an operator on two scalars (`MatchSame`), a
  clause (`ClauseSame`), the function of all segments (`SegmentsSame`), rules
  and rollouts (`OutcomeSame`), and then the recursion (`CallsSame`): at every
  depth both give the same variation, for any visited set, and at the first
  the same reason. The reasons of nested calls differ, and nobody sees them.
  Cycles and chains above the limit are included. The theorem takes the tables
  of parsers and patterns as they come; `SameClause` names the entries that have
  to agree, those that the clause uses. On whole numbers `Trunc` is the identity,
  which is where `MatchSame` needs that condition. Of segments that refer to
  each other in a cycle this says nothing: the calls do not return.

### Only model-checked

Liveness under fairness, which the prover does not do: `PublisherNeverStalls`,
`ConnectedClientCatchesUp`, `EventsGetStored`, `CloseComesBack`, `SelfHeals`.
Every other property of a passing run is stated by a theorem.

## 5. What the code does and its documentation does not say

Runs that show a disagreement:

- `snapshot_race`: `sdkStream` reads the version it will skip messages by after
  it has built the snapshot that it sends. A request that increments the
  version in between loses its message for this stream.
- `slow_client`: `Publish` unsubscribes a client with a full queue and counts
  on it to reconnect, but nothing closes the channel or the connection. The
  stream stays open and silent, and the client has no reason to reconnect.
- `shared_env_key`: the hub is keyed by environment key. Two projects with a
  `production` environment send each other's snapshots to their SDKs.
- `publish_order`: requests increment the version and publish in separate
  steps, `sdkStream` does not raise `sentVersion` in its loop, and the client
  stores what it is sent. Two concurrent changes can leave it with the older.
- `sdk_parity`: in a segment whose first matching rule has a weight that the
  context is not within, Go stops and TypeScript tries the next rule.

Met while modelling, and visible in the conditions of the properties:

- SDK keys. Two concurrent `createSDKKey` can lose one key from the store while
  the registry accepts it; such a key cannot be revoked. Keys of an environment
  that was deleted are still accepted. On a SQL store no key is accepted after
  a restart: nothing fills the registry, and `seedDemoData` returns early. On
  the in-memory store a restart accepts the demo keys again, revoked or not.
- `updateProject` on the in-memory store replaces the environments by those of
  the body and keeps their versions and configs.
- Prerequisites. `PREREQUISITE_CYCLE` (SPEC.md:1647) never shows in the answer
  for the flag that was asked for: the nested error is a prerequisite that
  failed. A cycle can be satisfied through an off variation. The kill switch
  reaches the flags that require it directly.
- Rollouts. Growth is monotone (SPEC.md:1641) for a transfer between two
  variations; when several weights change at once a context may move back. A
  bucket of 1.0 gets the last variation, even with weight 0.
- `Validate` adds the weights of a rollout up and does not look at their signs:
  -1 and 100001 are accepted, although `README.md:604` has weights in 0-100000,
  and neither variation is then served as often as its weight says.
- `Validate` does not look at the variations of targets and of the fallthrough,
  and `putFlagConfig` does not validate.
- Differences of the languages outside the common ground: segment rules without
  clauses, `bucket_by` of segment rules, null clause values and attributes,
  numbers in strings, the default kind, dates that are not RFC 3339, numbers
  with a tail, versions with a pre-release, Go integers; dates in milliseconds
  with a fraction (`operators.go:160` and `176` cut it off, `operators.ts:52`
  does not: 1.2 is after 1.0 in TypeScript only); patterns that RE2 and `RegExp`
  read differently (`(?i)free` does not compile in JavaScript, a look-ahead
  not in Go); keys of segments that are not texts (`String(value)` in
  `evaluate.ts:164`).
- Differences outside the data of the model, read off the code: a null list of
  clause values (TypeScript throws); attributes, flags and segments with names
  that every JavaScript object inherits, such as `constructor`; numbers that a
  double does not hold exactly or that a JSON reader overflows on; texts
  that are not valid Unicode; attributes of Go types that no JSON decodes to.
- `Track` drops nothing, whatever its comment says of the oldest events.
  Conversions are attributed by the order of insertion, not by time.
- `Shutdown` waits for open streams, which end only when the client leaves: with
  an SDK connected it runs into its timeout of ten seconds.

## 6. Not modelled

- Canonical JSON and SHA-256 of a snapshot: functions of character strings. The
  checksum is taken to identify the content.
- Experiments and their statistics: floating-point numerics; the store of
  experiments is a map under a lock, one call per handler.
- Signing and verification of access tokens, and the comparison of roles: no
  state.
- The audit log (never read by a handler), metrics, the event bus (never
  published on), the console and the load generator.
- Segments that refer to each other in a cycle: the code recurses without
  limit, and the model would too. No world of the run has one.
- Dates beyond the range of an int64 in milliseconds: what Go's conversion gives
  there depends on the processor.
- `postgres.go` beyond the statements that it shares with `sqlite.go`.
- Reconnection of the TypeScript client, which is the browser's `EventSource`.

## 7. Plan

1. What holds across steps and is now part of the invariants' proofs, stated for
   itself: the version of an environment and the registry's record of a revoked
   key never go back while the process runs.
2. The per-flag `GetFlagConfig` calls of `Build` as steps of their own.
3. The experiment store and the handlers over it, without the statistics.
