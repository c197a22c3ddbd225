# A TLA+ verification of nabiz

nabiz is a small observability platform: agents inside applications export
OpenTelemetry spans, a collector batches them into ClickHouse and derives a
service graph, an API server answers queries, manages accounts and pulls
profiles and memory dumps out of the applications, and a Kubernetes operator
injects the agent. This directory holds TLA+ models of the parts of it where
several goroutines, processes or requests meet, TLC runs over small instances,
and TLAPS proofs for instances of any size. Paths below are relative to the
repository, which is mounted under `src/`.

## 1. Inventory

### Components

| component | code | state | operations | what makes it correct |
|---|---|---|---|---|
| Ingest pipeline | `internal/pipeline` | a bounded channel of chunks, one batch per worker, five atomic counters | `Accept`, `worker`, `dispatch`, `Stop` | a chunk is nowhere twice and nowhere lost; every processor sees it once, whatever the others do; `Stop` drains; a quiet partial batch still goes out; the counters agree |
| Topology builder | `internal/topology` | two generations of pending spans per shard, aggregated edges, counters | `Process`/`observe`, `rotate`, `flush`, `record`, `Stop` | no call is counted twice, no nameable edge is lost, memory is bounded, a call's two ends may be a rotation apart, aggregates are exact under concurrent flushes |
| Collector process, OTLP receiver | `cmd/collector`, `internal/otlp/receiver.go` | two servers, an error channel, a context | start, gRPC/HTTP export, shutdown | nothing sends on the closed channel, the drain comes before the last flush, the process goes down |
| OTLP conversion | `internal/otlp/convert.go`, `internal/model` | none | `parseResource`, `convertSpan`, `promoteAttribute` | a span carries the place its pod really got, whatever order the attributes come in |
| ClickHouse storage | `internal/storage/clickhouse` | tables, of which `trace_index` is filled by a view and merged at any time | `Process`, `WriteEdges`, schema | what a query adds up does not depend on what has been merged |
| Dump jobs | `internal/api/diagnostics.go`, `internal/identity/diagnostics.go` | a record per job, a map of cancel functions, files | capture, fetch, stop, delete | the status a user sees is true and final, no job hangs |
| Dump janitor | `internal/api/dumpjanitor.go` | none of its own; a list read at the start of a round | age, quota and orphan rules | never takes a file that is being written or belongs to a ready record; keeps the quota; collects orphans |
| Agent dump store | `agent/dotnet/Nabiz.Agent.Diagnostics` | a gate, two published fields, a directory | capture, stop, delete, trim | one capture at a time, each can be stopped, its file survives its own trim, the gate opens again |
| Agent registration | `AgentRegistration.cs`, `RegisterAgent`, `GetAgent` | a row per instance, a token per project | register every minute, match the token, trigger a dump | an instance is verified exactly when it knows a token of its projects; a token goes only where it is known |
| Identity store | `internal/identity` | users, sessions, role groups, projects | their creation, change and deletion | an administrator remains, a session dies with its password, a save of a project is whole |
| Sign-in, sessions | `internal/api/auth.go` | an attempt window per address and email | login, logout, middleware | the window bounds attempts |
| Administration, access scope | `internal/api/admin.go`, `authz.go` | none | handlers over the identity store | a user sees the services of his projects only |
| Query API | `internal/api/server.go` | none | SQL and folds over its rows | the graph counts each call once, a search shows only traces that match, breakdowns and hot spots add up |
| Operator | `internal/k8s`, `cmd/operator` | certificates | `Inject`, webhook | a pod is injected once, nothing of its own is overwritten |
| API process, configuration | `cmd/api`, `internal/config` | none | start-up | - |
| .NET tracing agent, web UI | `agent/dotnet/Nabiz.Agent`, `web` | the library's, the browser's | - | - |

### Interactions

- An application's exporter calls the receiver; a handler calls `Accept`, which
  sends on the channel or drops. Workers call ClickHouse and the topology
  builder, in this order, with each batch. The builder's goroutine writes edges
  to ClickHouse. `main` takes them down in an order that matters.
- A browser calls the API server, which opens a record in PostgreSQL and leaves
  a goroutine behind; that goroutine calls the agent inside the application,
  twice, and writes a file. Stop requests, delete requests and the janitor work
  on the same record, the same file and the same agent.
- The agent's endpoints run on the application's thread pool and meet in the
  dump store's gate and in two fields outside it.
- A process registers with the API server every minute; a trigger reads its row
  and its project's token, in two statements, and sends the token to the address
  in the row. Projects decide which services a user sees, in every query.
- A pod passes the webhook, the kubelet and the SDK before its spans reach the
  converter; what the webhook wrote comes out of the converter as columns.
- Administrators' requests and sign-ins, each in a goroutine of its own, meet in
  PostgreSQL's tables. Few of them use a transaction, none a lock.

### What is hard

Steps after an unlock (`emitPair`, `record`); a goroutine's counter updated
after the operation it counts; spans that arrive twice, late, or on both sides
of a rotation; full tables and full channels; shutdown with requests in flight,
with and without a signal; a job whose context ends at any point; lists read
before an await and used after it; a restart; fields read without the lock that
orders their writes; a row read in one statement and acted on in the next; a
save in three transactions; rows that are merged at any time and filtered before
they are grouped; references that are expanded only in one order.
`PROJECT.json` lists each at its line under `hazards`.

## 2. Modules

```
EdgeLedger <--implements-- Topology
                              ^
                           TopologyView    MCTopology    TopologyProofs
ChunkLedger <--implements-- Pipeline       MCPipeline
                              ^                          CollectorProofs
                           Collector       MCCollector
                           DumpJobs        MCDumpJobs    DumpJobsProofs
                           Accounts        MCAccounts    AccountsProofs
                           Projects
                              ^
                           AgentRegistry                 RegistryProofs
                           AgentDumps                    AgentDumpsProofs
                           LoginLimiter
                           PodTelemetry                  PartsProofs
                           Traces
                           Sums                          SumTheorems
```

`^` is EXTENDS, and a module of proofs EXTENDS what stands left of it. `MCParts`
EXTENDS AgentRegistry, AgentDumps, LoginLimiter, PodTelemetry and Traces; the other
`MC` modules EXTEND the one they stand beside. They hold the constants of the
instances and nothing the proofs need. `Sums` is the sum of a function over a finite
set, `SumTheorems` what is known of it. Definitions that only serve to show that a property can
fail (a dropped guard, an off-by-one) stand before the definition they vary and
say "mutant" in the comment; nothing else refers to them.

### Topology (`internal/topology/graph.go`) and EdgeLedger

A shard's critical section is one step; what the code does after the unlock is
a later step of the same goroutine. `cur` and `prev` are `sh.cur` and `sh.prev`
of all shards, `emit[w]` the edge a worker holds between the unlock and
`record`, `loop` the goroutine of `Start`, `dropped` the generation it discards,
`agg` the aggregate map, `out` the snapshot a flush writes. `observe` is split
by outcome: `Match` (the other end was waiting), `Hold` (room), `Overflow` (no
room: a client's edge at once, a server dropped), `EnterHere` (no parent),
`observeInternal`. Rotation goes shard by shard (`RotateShard`, then `Evict` for
each record). A span is a record with an arrival identity, so that a retried
export is two arrivals of one span ID.

`EdgeLedger` is the abstract promise: a span waits, is counted in exactly one
edge, or is discarded, and none of this is revised; a client with a nameable
target is only displaced by a retransmission of itself. `LedgerSpec` is the
refinement, with the status of a span computed from where it is.

Abstracted: the minute bucket and the node in an edge's key (two edges here
differ when source, target and connection type do), `peerNameOf` and `connTypeOf`
(a span carries their result), the hash (any `ShardOf`). The counter an edge
bumps and its record under `aggMu` are one step; `stats` is exact at the ends
of both. The TTL/2 and flush tickers may fire at any time.

### Pipeline (`internal/pipeline/pipeline.go`)

`Send`/`CountSent` are the select in `Accept` and the counters after it, so a
worker may have the chunk before it is counted; `Drop` is the default case;
`Panic` is the send on a closed channel. `Receive`, `Tick`, `SeeClosed` and
`SeeDone` are the cases of the worker's select, all of which may be ready
together; `Process` and `EndDispatch` are `dispatch`. `chunkCap` is computed as
`New` computes it. Empty chunks are not modelled (`Accept` returns at once).

`ChunkLedger` is the abstract promise about a chunk: taken or refused once, given to
the processors in order and to all of them, then done; when `Stop` returns none is half
way and no processor is called again. `ChunkLedgerSpec` is the refinement: `Status`,
`HadBy` and `Phase` read the ledger's variables from the pipeline's.

`Workers # {}` is assumed; the code takes whatever number the environment
variable gives, and with none nothing would ever leave the queue.

### Collector (`cmd/collector/main.go`, `internal/otlp/receiver.go`)

EXTENDS Pipeline, whole, and puts around it the request handlers (a body that
arrives at the client's pace, then a run to the end), the topology goroutine
reduced to what shutdown depends on (what has been folded in, what has been
flushed), and `main`: `Listen`, `Serve`'s select, `GracefulStop`, the HTTP
server's bounded `Shutdown`, `pipe.Stop`, `topo.Stop`, exit. A handler that
outlives the HTTP deadline goes on and may meet the closed channel, where
net/http recovers its panic; gRPC would not. The first processor is the store,
the second the topology. The receiver's own counters, the debug server and the
retry of the ClickHouse connection are left out.

### DumpJobs (`internal/api/diagnostics.go`, `dumpjanitor.go`, `internal/identity/diagnostics.go`)

One action per step of `fetchDump` at which something else can intervene: the
two calls to the agent, the file's creation, copy and close, `fail`'s look at
the context and its write, `CompleteArtifact`, the deferred removal from the map.
Stop requests read the record, ask the agent, and if that fails take and call
the cancel function; delete requests and the janitor remove the file, then the
record. `JanitorLists` fixes what the round will remove; the rest of the round
works from that list. `Restart` ends every goroutine and keeps records and
files. Each SQL statement is one step, conditional as its WHERE clause is.

Assumptions on time: a job is over in ten minutes (`dumpFetchTimeout`), a round
of the janitor is short, and a file counts as an orphan after half an hour
without a write, so neither a file nor a record of a running job grows old. A
write to the database succeeds unless `DbMayFail`; under a context that is no
longer live it fails, which is how pgx behaves. The removal of an orphan
succeeds; that of a named file may not. `DUMP_RETENTION_DAYS=0` is not modelled.
`ListLimit` is the number of records `ListArtifacts` returns to the janitor, the
newest first: the quota and the orphan rule go by that list. `gaveUp`, `unlinked`,
`unwritten`, `unlisted` and `undeleted` are history: what the properties excuse, a
write or a removal that failed and a record that was not in the list, each as long
as it is the reason.

### AgentDumps (`DumpStore.cs`, driven by `NabizDiagnostics.cs`)

`Request` to `Dispose` follow a capture through the gate, the two fields, the
recording, `Trim`, the answer and the `finally` block, one field at a time;
`StopReads`, `StopChecks`, `StopCalls` are the reads and the call in `Cancel`,
which does not take the gate. Field writes are taken in program order. Files are
named by kind and second; `MaxClock` bounds the seconds. The deletions of `Trim`
and of the DELETE endpoint succeed. The token check in front of the endpoints,
and the listing, change no state.

### Accounts (`internal/identity/store.go`, driven by `admin.go` and `auth.go`)

A request is a record that says which handler it runs and what it asks for; each
SQL statement is a step, so that another request may run between any two.
`Begin`, `Check`, `Count`, `ApplyUpdate` and `ApplyDelete` are `UpdateUser` and
`DeleteUser` with the two queries of `isLastActiveAdmin`; `SnapshotTaken`,
`Remove` and `Insert` the transaction of `SetUserRoleGroups`; `BeginPassword`,
`ChangePassword` and `CloseSessions` are `SetPassword`; `Authenticate` and
`CreateSession` the sign-in. `Abandon` ends a request after any statement, as a
database error, a client that goes away or a restart does: what has been
committed stays, an open transaction is rolled back.

PostgreSQL's READ COMMITTED is modelled as this transaction meets it. The DELETE
removes the rows committed when it began (`snap`), waits while another
transaction holds one of them, and passes over those that are gone by then; a
row inserted meanwhile is not seen. A conflicting INSERT waits for the deletion
of the row to be decided. INSERTs and COMMIT are one step: until the COMMIT
nobody sees them. A row of `user_role_groups` carries the request that inserted
it, because a row that was deleted and inserted again is another row.

Left out: attempts with a wrong password (they change nothing; the limiter is a
module of its own), names and `last_login_at`. The queries of the authorization, made at
the beginning of a request, are one step with its first statement. Role groups
are fixed. An id in a request was once read from a row. A session is its user,
the password it was opened with and the request that opened it. `late`,
`cutOff`, `overlapped`, `last` and `during` are history that no action reads.

### TopologyView (`handleTopology` of `internal/api/server.go`)

EXTENDS Topology and reads the snapshot that `flush` writes as the query reads
`service_edges`: `LabelAt` is `groupExprs`, `Visible` the scope's filter, `Added`
the sums of the query, `GraphEdges` and `GraphNodes` the answer, and
`histogramQuantile` is exact, as a fraction. It has no state of its own:
`GraphFaithful` compares the answer with the calls behind the snapshot in every
state of the builder. The type, namespace and workload of a node, which depend
on the order of the rows when rows disagree, are left out, as is the limit.

### Projects (`store.go`, `admin.go`, `authz.go`) and AgentRegistry

`Projects` has the tables of projects and their two lists of bindings. `Save` is
`handleUpdateProject`: `BeginSave`, then `Replace` (the DELETE) and `Commit` (the
INSERTs and the commit) for each list, with `CutOff` between any two, and other
saves, creations and deletions in between. As in `Accounts`, a DELETE removes
the rows committed when it began and a binding carries the request that
inserted it; a reference to a project or a group that is gone fails the
transaction. Waiting for locks is left out: it takes interleavings away and
adds none. `Scope` is `LoadAccess` with `scopeFor`. Its two queries, of which
only the second concerns projects, read one state here.

`AgentRegistry` EXTENDS it with processes, tokens and rows. `Round` to `Stop` are
the loop of `AgentRegistration.cs`, `Match` and `Upsert` the two statements of
`RegisterAgent`, `ReadRow` and `ReadToken` those of `GetAgent`, `SetToken` the
administrator's handler, `Forgotten` what the schema does to rows and tokens of
a deleted project. A client that has timed out may leave its request behind at
the server, where it is carried through or cancelled. `sent` and `proved` are
history. The age of a row (`last_seen`), which only the listing reads, is left
out, and so is the database without an encryption key.

### LoginLimiter (`auth.go`)

The map of windows, `Allow` with its sweep, and the end of an attempt, `Accept`
with `clear` or `Reject`, which come after the password has been verified outside
the lock. Time is a counter; `passed` is history.

### PodTelemetry (`inject.go`, `webhook.go`, `convert.go`)

One pod from its submission to the columns of a span: `Admit` is `handleMutate`
with all of `Inject`, `Copy` a new pod made from the manifest of an admitted one
(external), `Start` the kubelet (external: a reference is expanded only if the
variable stands before it), `Export` the SDK's resource (external) through
`parseResource` and `convertSpan`. A name is the sequence of its parts between
dashes, since `trimPodHash` cuts at dashes; `Hashlike` says which parts look like
hashes. Constant variables are represented by one of them. `IsPod` is what is assumed
of a pod: containers with names of their own, and the naming of a Deployment's pods.

### Traces (`schema.go`, `store.go`, `server.go`)

`Insert` is a batch through `Process` and the materialized view, `Merge` a merge of
ClickHouse (external): the same `Combine` is what the query does with the rows it
has found. `Search` filters rows and groups what is left, as the SQL does.
`Shown`, `Self`, `buildBreakdown` and `Hotspots` are the trace detail. Sums of
durations are exact where the code adds floating-point milliseconds; the order of
slices and hotspots, the limit of 10000 spans and the paging are left out.

`IsTrace` is what is assumed of a trace: span identifiers of its own, and one root.

### MCParts

Five parts that share no state are checked in one run: `part` says which of them
a behaviour is about, and the others stay as they begin. The state space is the
sum of theirs and not the product; no property relates two parts, so nothing is
lost. `Parts` restricts a run to some of them.

## 3. Runs

All runs are exhaustive within their constants. `CHECK_DEADLOCK FALSE` stands
only where the system stops: the topology goroutine has ended and every span has
arrived, the pipeline has stopped, the collector has exited, the captures are
over, every request has been answered.

| run | instance | shows |
|---|---|---|
| `topology_retry` | 2 workers, 1 shard with room for 1, two calls, one client span exported twice, one target without a name | `KeyHeldOnce`, `CountedOnce`, `EdgeNotLost`, `SurvivesOneRotation`, and the refinement `LedgerSpec` |
| `topology_edges` | 2 workers, 2 shards, two calls with one target, an entry point, a span of no interest | `StatsMatchEdges`, `AggregatesExact` (samples and histograms against a reference over the edges behind them), `GraphFaithful` at three levels and in two scopes, and under fairness `ClientsSettle`, `EdgesReachSink` |
| `pipeline` | 2 senders, 2 workers, 3 chunks of 3, 2 and 1 spans, a channel of 2 chunks, batches of 4, 2 processors | `ChunkInOnePlace`, `EachProcessorOnce`, `DepthNeverDrifts`, `CountersBalance`, `StopTerminates`, `AcceptedIsDispatched`, and the refinement `ChunkLedgerSpec` |
| `collector` | one gRPC and one HTTP handler, 2 workers, 2 chunks | `CompleteWithoutSignal`, `GrpcMeetsNoClosedQueue`, `ShutdownEnds` |
| `collector_signal` | the same with 1 worker | finding: `DrainedThenWritten` is violated |
| `dumps` | 1 job, stop, delete, janitor, failing database, 2 restarts; or 2 jobs of 2 units over a quota of 3, with none of stop, deadline, restart and failure | `FileKept`, `CancelledWasStopped`, `RoundFits`, `StatusFinal`, `JobsSettle`, `OrphansGo` |
| `dumps_stop` | 1 job, nothing else fails | finding: `StopSettles` is violated |
| `dumps_many` | 2 jobs, a janitor that reads 1 record | finding: `OnlyOrphansGo` is violated |
| `accounts` | 3 accounts, one administrator beside whom there is another, an inactive one or a plain user; any 4 (`MaxMade`) of 8 requests, two of them saves of one user's groups | `AdminRemainsAlone`, `OldSessionsClosed`, `GroupsFromSaves` |
| `accounts_admin` | 2 administrators, each request taking the other away | finding: `AdminRemains` is violated |
| `parts` | projects: 3 users, 2 groups, 2 projects, 2 services, any 3 of 7 requests; or 2 processes, in one row or two, a trigger and one of 10 requests | `ScopeFromSaves`, `TokenGoesHome`, `AgentsSettle` |
| | captures: a profile, a dump, a stop request, `MaxFiles` 0 | `StopMeetsCapture`, `AnswerHasFile`, `CaptureEnds` |
| | attempts: 2 keys, 2 per window, 6 attempts over 4 moments, sweeping from 2 entries on | `AttemptsLimited` |
| | pods: 720 submissions (3 names of which one ends in a hash, 3 owners, 5 environments, 1 or 2 containers, with and without the annotations), copied up to twice | `InjectedOnce`, `DimensionsArrive` |
| | traces: 144 traces of 4 spans in up to 3 blocks, 36 filters, 4 scopes, days of 8 units | `SearchFaithful`, `ViewAddsUp` |
| `agent_timeout` | one process, one failure | finding: `RetriedNextRound` is violated |

Why these bounds. A pairing table with room for one record meets a full
generation on every second arrival, and two calls of which one is seen three
times exercise every combination of duplicate, match, overflow and rotation;
two shards suffice to see a rotation between them. A channel of two with three
chunks is found full, empty and closed, and chunks of 3, 2 and 1 fill a batch of
4 by size, exceed it, and leave a rest for the timer. Two handlers, one per
server, meet both ways of being shut down. One job meets everything that can
happen to a job, since jobs only share the quota and the janitor's list, for
which there are two. Four
requests are one more than any of the anomalies of the accounts needs: a save
that runs into another, a sign-in and a reset, a change to an administrator and
one to the other.
Three requests about projects are two saves and a third that falls between their
transactions; with two projects a service may come from the wrong one. Two
processes share a row or do not, and two tokens may belong to one service's two
projects. Two keys and a sweep from two entries on meet every way in which one
key's attempts move another's; six attempts use up a window and the next. A trace
of four spans in three blocks has the root in one of them and a filter's service
in another; two days keep two rows from ever merging.
What holds for any number is proved (section 5).

Type invariants are parts of the inductive invariants that are proved, for
Topology and Pipeline as theorems of their own (`TypeCorrect`), and are not run.
So is `StopDrains` (`StopDrainsAlways`), which the collector's proof rests on: the step in
which `Stop` returns is held to the same by `ChunkLedgerSpec`, which is run.
So are the bound of a generation and the exclusion of captures: they restate
guards, and the runs are spent on what could break.

### Fairness

- Goroutines that can go on do (`WF` of a worker, the loop, `main`, a job). They
  wait for mutexes held for a bounded time, or for calls with a deadline.
- A ticker of a select gets `SF`: it fires again and again, and Go chooses among
  ready cases at random, so a case that is ready infinitely often is taken. The
  pipeline's worker needs no more than `WF` of its whole step.
- A capture entering the agent's gate gets `SF`: `SemaphoreSlim` queues waiters.
- Nothing obliges a client to finish its request: `GracefulStop` has no deadline
  and `ReadHeaderTimeout` covers headers only. `ShutdownEnds` says so: the
  collector ends unless a gRPC client stalls for ever.
- A process's registration loop gets `WF` of its round, which a timer starts, and
  of the server's two statements; triggers and saves get none. A process that
  has stopped or ended is not expected to settle.
- Signals, stop and delete requests, callers that go away, restarts and new work
  are never assumed to happen.

## 4. Findings

Each is a run of its own, whose counterexample is a behaviour of the code that a
comment or a document says it does not have.

1. `collector_signal`. "Drain the queue first, then write the topology"
   (`cmd/collector/main.go:95`) holds when a server fails
   (`CompleteWithoutSignal`), not on SIGTERM: workers and the topology goroutine
   run under the context the signal cancels.
2. `dumps_stop`. `docs/usage.md:304-306` has a job that nabiz gave up waiting
   for marked *stopped*; a stop that arrives between the copy and
   `CompleteArtifact` leaves the record pending for ever, with a whole file.
3. `dumps_many`. "removeOrphans deletes files that have no counterpart in the
   database" (`dumpjanitor.go:109`); it goes by a list of at most 10000 records
   (`dumpjanitor.go:55`), so that beyond it the files of the oldest ready records
   are deleted half an hour after they were written, whatever their age and the quota
   say.
4. `accounts_admin`. "The last administrator in the system cannot be demoted,
   deactivated or deleted" (`docs/usage.md:393`) holds while changes to users do
   not overlap (`AdminRemainsAlone`), not when two administrators take each other
   away at the same time: the check and the write are separate statements.
5. `agent_timeout`. "A failed registration must not affect the application, and it
   is retried next round" (`AgentRegistration.cs:53-54`): a request that runs into
   the ten seconds of `HttpClient.Timeout` raises `TaskCanceledException`, which is
   an `OperationCanceledException`, which the filter of the catch lets through. The
   loop is over, and by the host's default the application stops with it.

More differences were met while modelling and have no run.

- `MaxPendingPerShard` "caps the pending spans per shard" (`graph.go:98`), but is
  compared with the current generation only, so a shard holds up to twice as many
  (`MemoryBound` is what holds). `QueueSize` "caps the spans waiting in the queue"
  (`pipeline.go:26`), but `New` turns it into a number of chunks by guessing their
  size.
- `GroupsFromSaves` says less than "replaces the user's groups with the given set"
  (`store.go:247`) does: after two concurrent saves a user may have the groups of
  both. The same holds of the two lists of a project. Between the transactions
  of a save, users of the old groups see the new applications.
- The agent's README (81-85) has a stop of a memory dump answered with
  `cancelled: false`; `Cancel` (`DumpStore.cs:67`) reads the token and the kind
  without the gate, and between the two writes, or the two clears, of
  `CaptureMemoryAsync` it answers true.
- "Ten failed attempts per five minutes" (`server.go:53`): windows are fixed, so
  the end of one and the beginning of the next may let 19 through; that it is
  never 20 is `AttemptsLimited`.
- `trimPodHash` leaves a suffix alone that is no hash (its comment,
  `convert.go:87`), but takes any part of 3 to 10 lower-case letters and digits
  for one: a pod of the DaemonSet `node-exporter` without owner attributes gets
  the workload `node`. `serviceName` derives a name from `generateName`, which
  still has the hash of the ReplicaSet in it ("derived from the workload",
  `inject.go:20-21`).
- "The slices add up to the trace's total duration" (`server.go:796`,
  `docs/usage.md:130`) holds of traces that ran one step at a time
  (`ViewAddsUp`), not of parallel children.
- The trace search filters rows of the index before it groups them: a trace whose
  spans came in several blocks may be missed, or shown with some of its spans,
  until its rows are merged. Rows of different days are never merged. A restricted
  user's trace detail covers a minute around the rows in scope.
- A row stays verified with a replaced token until its process registers again;
  a trigger meanwhile sends the new token to that address, which has proved that
  it knew the old one of the same project.

## 5. Proofs

`tlapm` checks every theorem to the last leaf. Each proof module states an
inductive invariant (`IInv`, or `Typed` and one part per property), shows `Init => IInv` and `IInv /\ [Next]_vars => IInv'`
with one lemma per action or per group of actions that touch the same state, and
derives the properties from it. The assumptions are those the modules declare of
their constants, and no more; there is no bound on workers, spans, shards,
chunks, processors, jobs, restarts, requests, attempts, pods or traces. What the
assumptions say of data is what the code is given: the spans of a trace have
identifiers of their own and one root (`IsTrace`), the containers of a pod have
names of their own and a Deployment's pod the Deployment's name and two hashes
(`IsPod`), there are latency bounds and they ascend (`BoundsAssumption`,
`graph.go:52`).

- **Topology** (`TypeCorrect`, `KeyHeldOnceAlways`, `MemoryBound`,
  `CountedOnceAlways`, `EdgeNotLostAlways`, `SurvivesOneRotationAlways`). That no
  span is counted twice is not inductive: it needs that a span is in *one* place
  at a time. `DroppedInv`, `EmitInv` and `RecordedInv` order the places (table,
  discarded generation, workers' hands, recorded edges) and say that what is
  further along is not further back; `NotLost` says that what must be kept is
  somewhere. The proof splits an arrival into what leaves the table and what
  enters it (`ArriveMatch`, `ArriveUnpaired`), which are then used for
  `Match`, `Hold` and `Overflow`.
- **Topology, what is added up** (`StatsMatchEdgesAlways`,
  `AggregatesExactAlways`). `StatsInv` is inductive once the recorded edges are
  known to be finite; that a new edge has not been counted comes from `IInv`.
  The aggregate of a key is the sum over the edges with that key (`With`), which a
  new edge changes by its own sample and in its own bucket only.
- **TopologyView** (`GraphFaithfulAlways`). Aggregates are exact, so the sums of a
  group count the calls whose key is in it (`CountGroups`, from `SumFamily`); the
  nodes share the edges out by their target. The buckets of a group are thus a
  histogram of the calls behind it (`Histogram`). The true quantile lies in the first
  bucket up to which there are enough calls (`QuantileBucket`, as longer latencies
  are in no earlier bucket), where `histogramQuantile` stops as well, and what
  it interpolates stays between the bounds of it (`Interpolates`).
- **Topology implements EdgeLedger** (`ImplementsLedger`), the safety part of the
  refinement step by step: the initial states map, and every step of the builder
  is a step of the ledger or a stutter. `StatusOf` reads the status of a span from
  `HasEdge`, `Carried` and `InTable`; that these exclude one another is `IInv`.
- **Pipeline** (`TypeCorrect`, `ChunkInOnePlaceAlways`, `EachProcessorOnceAlways`,
  `StopDrainsAlways`). `HandedInv` says of each batch which processors it has
  passed; `LeavingInv` says that a worker leaves only when the channel is closed
  and empty, which then stays so, or the context is cancelled; `LenInv` that an
  empty count means an empty batch, so skipping its dispatch loses nothing.
- **Pipeline, the counters** (`DepthNeverDriftsAlways`, `CountersBalanceAlways`).
  `SentInv` says which chunks have been sent and not yet counted. The depth is then
  the sum over what is in the channel less what is not counted, and each
  action moves a chunk between two of the sets summed over.
- **Pipeline implements ChunkLedger** (`ImplementsChunkLedger`), step by step and
  without strengthening the invariant. `Give` needs `HandedInv`: a worker at processor
  `p` holds chunks the processors before `p` have had, and no others. `StopReturns` needs
  `LeavingInv`: the workers are gone and their batches empty, so what is neither refused nor
  done is in the channel, and a worker left it there only on a cancelled context.
  Since the collector contains the pipeline, it keeps to the ledger as well
  (`CollectorImplementsChunkLedger`).
- **Collector** (`ContainsPipeline`, `CompleteWithoutSignalAlways`,
  `GrpcMeetsNoClosedQueueAlways`). Every step of the collector is a step of the
  pipeline or leaves it alone, so the pipeline's invariant holds here; on top of
  it `MainInv`, `FoldInv` and `GrpcInv` tie the pieces to how far `main` is.
- **DumpJobs** (`FileKeptAlways`, `CancelledWasStoppedAlways`,
  `StatusFinalAlways`, `RoundFitsAlways`). `RecordInv` says that only the job itself gives its record
  a final status, as its last act; `TakenInv` that a file is only removed by name
  when the job has had its last word; `AgeInv` is the argument from time that
  lets the janitor trust a stale list. For the quota, `RoundInv` says that what a
  round has spared of its list fits, which the removals only make smaller; the
  list itself is a part of `order` without repetitions (`OrderInv`).
- **AgentDumps** (`OneAtATimeAlways`, `StopMeetsCaptureAlways`,
  `AnswerHasFileAlways`). `FieldInv` says
  for how long each field is the holder's, which is why the clearing must come
  before the gate opens. `FileOwned` and `FileNewest` say that the holder's file is
  there from the recording to the answer, and the newest if its name is its own:
  what `Trim` removes is older.
- **Accounts** (`AdminRemainsAloneAlways`, `OldSessionsClosedAlways`,
  `GroupsFromSavesAlways`). Three invariants over the same types. `AloneInv` says
  that a change to users that is alone and about to take an administrator away
  has seen another one who is still there. `SessionInv` adds that only users that
  exist have sessions, so that an account that is created finds none. `SaveInv`
  says that a row the transaction has not seen, or not deleted, was inserted by a
  save that ran into it; locks are not needed for that.
- **Projects, AgentRegistry** (`ProjectWholeAlways`, `ScopeFromSavesAlways`,
  `TokenGoesHomeAlways`). `AloneInv` follows the last save of a project, as long
  as it has met no other: no other is under way, what it is about to delete is all
  there is, and what it has committed is there. `SaveInv` adds that a project that
  has never existed has no save. From it, what `LoadAccess` joins is what settled
  saves bind. For the token, `ProvedInv` says that whoever is named in a row as
  verified against a project, in the table or already read by a trigger, has
  registered with that project's token; a trigger compares projects, so it sends a
  token to nobody else.
- **LoginLimiter** (`AttemptsLimitedAlways`). That any stretch of a window's length
  lets less than twice the limit through is not inductive, nor is anything said of
  single moments: `LastWindow` says of the last window of a key when it began, how its
  counter bounds what it has let through, and what a stretch that reaches back
  before it may hold. It survives the sweep because it speaks of windows whose
  entry is gone as well.
- **Traces** (`SearchFaithfulAlways`, `ViewAddsUpAlways`). `IndexInv` says that a row
  stands for a set of blocks (`StandsFor`): its columns are what `Combine` gives for
  their spans, and the rows of a trace share the blocks out; merging joins two such
  sets. A row of all the blocks then answers a filter as the trace does. For the
  views: in a trace that ran one step at a time the times a span's children take
  fit into it (`InsideInterval`, `SequentialAdds`), so that what is left of each adds
  up to the root's duration, and sums over groups add up to the sum over all
  (`GroupsAddUp`).
- **PodTelemetry** (`InjectedOnceAlways`, `DimensionsArriveAlways`). `Adds` says of a
  container's variables that they are the user's and then new ones, each once;
  `mergeEnv` has it of any two lists, by induction along its loop, and it composes,
  so that a second injection adds nothing (`PodInv`). `Wired` says that the three
  fields stand before the attributes that refer to them; a merge into a list without
  them has it, and later variables leave it (`WiredInv`). From it the kubelet's
  values are the pod's (`PlaceResolved`), the conversion reads them back whatever
  the SDK has added (`PlaceRead`, with `TrimAppended` for the workload), and the
  last `server.address` is the peer (`CurrentPeer`).

`SumTheorems` has what is needed of sums and loops. Both are defined by recursive
functions, and the induction is over sets: a set of naturals (or of finite sets)
without a least element is empty (`SubsetInduction`, `SetOfNaturals`), which needs
no operator as a parameter. From it `SumUnfold`, `SumUnion`, `SumFamily` (a sum over
disjoint sets), `SumCard`, and that a finite set of numbers has a least and a greatest.

Only model-checked: everything under fairness (`ClientsSettle`, `EdgesReachSink`,
`StopTerminates`, `AcceptedIsDispatched`, `ShutdownEnds`, `JobsSettle`,
`OrphansGo`, `CaptureEnds`, `AgentsSettle`), which is out of the prover's reach.

## 6. Not modelled, and the plan

Not modelled at all: configuration (environment variables), the .NET tracing
agent (the behaviour is OpenTelemetry's), the web UI (rendering). Of components
that are modelled in part: the listings and downloads, which change no state;
`handleServices` and `handleOperations`, which are sums over one table; the
creation and renaming of role groups (one statement each); the operator's
certificates and start-up; hashing, sealing and settings. `PROJECT.json` gives the
reason for each.

In this order:

1. The dump jobs over `AgentRegistry` and `AgentDumps` in place of the
   nondeterministic agent.
2. The dump dialog's polling in the browser, as a liveness property of the UI.
