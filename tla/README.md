# A TLA+ development of resleeve

resleeve keeps the sessions of coding agents, and the memory those agents share
(scopes, plans, learnings), in a local SQLite database per device, and replicates
them through a server, `resleeve serve`, that stores sealed blobs.  This directory
holds a model of the parts of it whose correctness depends on the order of
concurrent steps, the TLC configurations that check the model, and TLAPS proofs.

Paths below are relative to `src/internal/` unless they start with `docs/`.

## 1. Inventory

A device runs one daemon (`agent/`).  Editors' hooks, the CLI and MCP servers talk
to it over HTTP; it talks to `resleeve serve` (`serve/`), which keeps users, brains
and keys in SQLite and blobs in a file backend (`sync/local`).

| part | state | operations | talks to |
|---|---|---|---|
| **outbox and push** (`agent/sync.go`, `storage/sql/sqlite/sync.go`, `serve/server.go` handlePush) | table `outbox` (seq, kind, key, payload, attempts, next_attempt_at), `UNIQUE(kind, key)`; sealer | Enqueue*, drainLoop every second, DrainNow (push-now), Ack, bumpAll; handlePush | every handler that writes enqueues; the push request goes to the server |
| **pull** (`agent/sync.go` pullLoop, pullKind; handlePull; `Backend.List`) | one cursor per kind in `sync_state` | pull every 30 s, pull-now; list a page, ingest it row by row, save the cursor | writes the same tables as ingest does |
| **memory feed** (`agent/sync.go` sseLoop, runSSE; `serve/fanout.go`, handleSSE) | the memory cursor, shared with pull; hub subscribers with a buffer of 64; slots per user | subscribe, backlog, live rows, drop, reconnect | handlePush publishes what it stored |
| **plan log** (`storage/sql/sqlite/memory.go` AppendPlanVersion, `agent/memory_handlers.go`, `mcp/tools.go`, `cli/plan.go`) | `plan_versions`, HEAD in `plans` | append with a base version, or forced; 409 with HEAD; enqueue after the commit | outbox |
| **scopes** (`agent/memory_handlers.go`, `memory/walk.go`, `memory/context.go`, `storage/sql/sqlite/memory.go`) | `scopes`, `learnings`, plans | put, delete, append, the context document from an ancestor walk with boundaries | plan log, outbox |
| **seal decision** (`agent/sync.go` getSealer, getShouldSeal, SetActiveBrain, sampleSealDecision; `agent/seal_handlers.go`) | sealer, shouldSeal, active brain; the brain's policy on the server | login, lock, unlock, choose a brain, whoami | read by enqueue and pull at different times |
| **ingest** (`agent/ingest.go`, `cli/hook.go`, `adapter/claude/watcher.go`) | sessions, events, event_count, heartbeats; the sweep's buffers | IngestBatch: several statements, then the enqueues; hooks; the sweep over transcripts at start-up; offline repairs of doctor | hooks and the sweep call it concurrently; feeds the outbox |
| **file backend** (`sync/local/local.go`) | one file per key | Put (tmp and rename), Get, List by key order | all server handlers |
| **brains and tenancy** (`serve/brains.go`, `serve/tenancy.go`) | brains with their policy, memberships | create (capped), add and remove members, set the policy, list | decides the prefix of every key |
| **at-rest keys** (`serve/atrest.go`) | wrapped DEK per brain, a cache of DEKs | lazy provisioning, wrap, unwrap | handlePush, handlePull |
| **accounts** (`serve/auth_handlers.go`, `cli/auth.go`, `cli/pair.go`, `storage/sql/sqlite/identity.go`) | users, devices, pairing codes with attempts and expiry; keychain and sealer of each machine | register, login, logout, invite, accept, sweep | brains, seal decision |
| **transport** (`adapter/claude`, `adapter/codex`, `adapter/common/prime.go`, `cli/resume.go`) | the vendors' transcripts, rows of `events` with deterministic UUIDs and a seq | hook, sweep, resume in replay or prime mode | ingest, outbox and pull |
| **life cycle** (`cli/lifecycle.go`, `cli/install_bridge.go`, `agent/daemon.go`, `agent/endpoint.go`) | PID file, endpoint file, data directory, the agents' config files | up, down, purge, install-bridge, uninstall-bridge; the daemon's start and shutdown | all of the above |
| MCP protocol, envelopes, event schema, doctor | bytes, key material, statistics | framing, encryption, reports | the daemon |

What makes each part correct:

* outbox and push: what was handed over is queued or upstream; a row goes only after
  the backend has it; the upstream never goes back to an older blob for good; an
  unlocked daemon with a working upstream empties the table.
* pull, memory feed: the cursor passes a row that could have been ingested and was not
  only if a statement failed on it; pull, backlog and live stream together bring every
  other row; ingesting a row twice changes nothing.
* plan log: a reported version is immutable and queued; a write that was made from an
  old version is refused.
* scopes: a context document shows what is in view and nothing behind a boundary,
  although it is built statement by statement; a fresh machine that reads the rows in
  key order gets what the others have.
* seal decision: a machine that is logged in leaves nothing plain unless the server was
  asked; a cycle that could not open a row comes back to it, unless a later row went in.
* ingest: each event once, counted once, on its way after its session; what one path
  misses the other brings.
* transport: an event has one key whichever path saw it, but for a prompt made of
  blocks; what resume writes out is whole and in order.
* file backend: a Get sees a whole blob; a List shows what was put before it.
* brains, at-rest keys: what was encrypted can be read; a created brain has its owner and
  its key.
* accounts: one account row, brain and KEK; a code brings in one device; the device that
  an invite made for itself ends.
* life cycle: what a command reports is so, unless another process has the daemon's PID;
  one daemon per database; the user's hooks survive ours.

### What is hard

* **Nobody holds a lock over a push.**  A drain reads rows, posts them and acks or
  bumps them afterwards.  The drain loop and any number of push-now calls do this to
  the same table; the client gives up after 30 s while the server goes on; the
  server stores a batch row by row and fails in the middle.  Correct means: no row
  lost, no row acked that was not stored, no row overwritten by an older one.
* **The cursor is a key, not a position in time.**  It moves to the largest key
  ingested, several pulls share one row of `sync_state`, and a row that fails, for good
  or because the database was busy once, is logged and passed by the next one.
  Correct means: whatever is upstream and can be opened arrives in the end, or its
  failure is the reason why not.
* **Optimistic concurrency across processes.**  The version a writer sends must be
  the one its content was made from, and the database must not hand out a version
  twice.  Correct means: no edit is silently overwritten, and every version is
  queued for the other devices.
* **Steps without a transaction.**  IngestBatch, brain creation, registration,
  scope deletion and lazy key provisioning are sequences of statements with
  concurrent callers and crashes between them.
* **Decisions sampled apart.**  Sealer, seal decision and active brain are read one
  after the other, while login, lock and brain switches change them.
* **Processes that find each other by files.**  `up`, `down` and `purge` look at a PID
  file and go on; the daemon removes its files by name, whoever wrote them last.
* **One event, several witnesses.**  A hook, the sweep, and the sweep of another machine
  over the transcript that resume wrote there see the same event with different clocks.

`PROJECT.json` ("hazards") lists these one by one, with the line where each bites
and the property that covers it, or why none does.

## 2. Modules

| module | models | proofs |
|---|---|---|
| `Delivery` | abstract: keys are accepted, delivered, and only then no longer owed | |
| `Outbox` | outbox, drains and handlePush; `D` maps it to `Delivery` | `OutboxProofs` |
| `PlanLog` | one plan slot, its writers, the enqueue after the commit | `MemoryProofs` |
| `PullCursor` | pulls of sessions and events over a shared cursor | `EventProofs` |
| `MemoryFeed` | put and publish, SSE streams, the pull of kind memory, one cursor for both | `MemoryProofs` |
| `Capture` | hooks and the start-up sweep into IngestBatch, up to the outbox | `CaptureProofs` |
| `Transport` | one conversation on several machines: keys, order, sweep, resume and prime | `EventProofs` |
| `Scopes` | scope tree, learnings and plans, the context document, the rows between machines | `MemoryProofs` |
| `SealGate` | sealer, seal decision and brain, as enqueue and pull read them | `SealGateProofs` |
| `Accounts` | register, login, logout, invite and accept, from keychain to table | `AccountsProofs` |
| `Brains` | create, push, pull and membership over tables, DEK cache and backend | `BrainsProofs` |
| `Lifecycle` | up, down, purge, install and uninstall, the daemon and the files between them | `LifecycleProofs` |
| `MC...` | instances for TLC, symmetry where it is used | |

The modules follow a row through the system.  `Capture` and `PlanLog` end where a
row is handed to the outbox, `Outbox` takes it from there to the backend, and
`PullCursor` and `MemoryFeed` bring what is in the backend to another device.  Each
models its neighbour by the one action in which the two meet: `ShipSession` and
`Ship` are what `Outbox` does, `Push` and `Put` are other devices.  `Scopes` and
`Transport` look at the same path from its ends, where a queue is a set and a sync one
step.  `SealGate`, `Accounts`, `Brains` and `Lifecycle` are about what the path needs:
a key, an account, a place upstream and a running daemon.

`PlanLog`, `MemoryFeed` and `Scopes` are the memory of a brain and are proved about in
one module, which reads the three side by side.  That is why the latter two name their
parts apart: `FeedInit`, `FeedNext`, `FeedSpec` and `FeedTypeOK`, `ScopesInit` and so on,
and `req` and `outbox` in `Scopes` for what is `pc` and `queue` elsewhere.

Operators such as `EnqueueWithoutUnique`, `ClaimAgain` or `BeginsBlindly`, each under a
comment that starts with "Mutant", are wrong variants of the definition that follows
them.  No action of `Next` uses them; putting one in place of the definition must break
the property that `PROJECT.json` names.

### Outbox

State: `outbox` is the table (a row is seq, key, blob), `nextSeq` its AUTOINCREMENT
counter, `due` the rows whose `next_attempt_at` has come, `posts` the HTTP requests
(rows, those already stored, and whether they are open, answered ok or answered with
an error), `pc` and `req` where each drainer is, `upstream` the backend.  `latest`
and `landed` are history.

| code | actions |
|---|---|
| Enqueue* → EnqueueOutbox (`INSERT OR IGNORE`) | `EnqueueOutbox` |
| drainLoop's tick → drainOnce, up to the post | `DrainLoop` |
| DrainNow: depth, drainOnce, depth | `PushNow`, `DepthBefore`, `DrainNow`, `NothingDue`, `DepthAfter` |
| handlePush: size cap, key checks, one Put per row, the answer, an error | `Refuse`, `PutRow`, `Reply`, `Break` |
| drainOnce from the answer on | `AckOutbox`, `BumpAll`, `GiveUp` |
| time | `Elapse` |
| login, lock; the daemon stops and starts | `SetSealer`, `ClearSealer`, `Restart` |

Abstractions.  A kind and key are one model value, `Rejected` are the keys
handlePush refuses (a foreign prefix, a dot segment), `Bulky` those of which only
`BodyCap` fit into a request.  A blob is a number that counts the distinct blobs
handed over under a key; a sealed and a plain blob are not told apart (that is
`SealGate`).  `GiveUp` is every way in which a drainer may not learn the
answer; it leaves the request with the server or not, and bumps the rows or not.
A device has one brain.

### PlanLog

The content of a version is the set of writers whose edits are in it, and a writer
adds its edit to what it read, so "overwritten" is "an edit of HEAD is missing from
the version that replaces it".  `fresh` holds the transactions that read HEAD under a
snapshot that no write has invalidated; only those can commit (a deferred
transaction on a WAL database gets SQLITE_BUSY otherwise).  `epoch` counts scope
deletions.  An agent sends the version it read (`ReadPlan`) or 0 (`WriteNew`); the
CLI looks the version up after the content was made (`LookUpBase`); both may force
(`AnyHead`).  `Conflict` is the 409 with HEAD, after which an agent merges and retries.
`EnqueuePlan` and `EnqueueFails` are the end of putPlan, `Crash` kills the daemon
between the two transactions, `Ship` stands for module Outbox.

### PullCursor

A row is the rank of its key in the order `List` returns; `SessionOf` gives the
session an event belongs to, `Bad` the events this device cannot open.  `Ingest` is
one turn of pullKind's loop.  It has three outcomes: the row goes in and moves the
pull's cursor; the row cannot go in, since it is bad or its session is not there (the
foreign key); or a statement fails on it (SQLITE_BUSY, a full disk), which `missed`
records.  After the last two the loop goes on, and the next row that goes in moves the
cursor past the one that did not.  A failed request, GetCursor or SetCursor ends the
pull (`Fail`).  `Failed` is a row that was missed, or whose session was; `GivenUp` one
that in addition will not be asked for again.  An error of SyncEventCount after the
event went in counts as missed too.  `KeyOrder` is a parameter: TRUE restricts the other devices to pushing
keys in order, a session before its events, which is the case in which the code's
cursor is right; FALSE is what session ids (random) really do.

### MemoryFeed

State: `store` is the version under each key in the backend (`List` gives keys in
order, so a key is its rank), `putting` the rows that handlePush has stored and not
yet published, `conn` the server's side of each SSE request (its cursor, the rest of
its backlog page, its buffer in the hub, what is on the wire), `slots` the user's
entry of `sseCounts`.  On the device: `reading` the connection of runSSE, `moved` the
row it has ingested and not yet saved, `cursor` the row of `sync_state`, `local` the
tables, `pull` a pullKind under way.  `twice`, `dropped`, `missed`, `inOrder` and the
`told` of a connection are history.  A row is `Lost` when a full buffer dropped it or a
statement of its ingestion failed, or when that happened to the row of its scope.

| code | actions |
|---|---|
| handlePush: Put, then Publish | `Put`, `Publish` (`Deliver` drops the row when a buffer is full) |
| handleSSE: slot, subscribe, backlog, live loop, deferred release | `Accept`, `Reject`, `Subscribe`, `ListBacklog`, `BacklogRow`, `BacklogPage`, `LiveRow`, `Hangup` |
| sseLoop, runSSE | `Dial`, `StreamRow`, `StreamCursor` |
| pullKind("memory") | `PullStart`, `PullList`, `PullRow`, `PullCursor` |
| ingestMemoryRow | `Ingestible`, `IngestMemoryRow`, `RowFails` (a statement of it fails; the reader goes on) |
| broken connections, failed pulls, restarts | `Break`, `PullFails`, `RestartDaemon`, `RestartServer` |

Abstractions.  Only scope rows are written again (`Rewritten`); a plan or a learning
has a key of its own per write.  `Late` are the keys that may be put after a later one,
by another handler or another device.  A SetCursor that fails on the stream is logged
and leaves the cursor where a row before it has put it; it is left out.  Rows that this device cannot open, and backlog blobs
that cannot be read any more, are left out (both are skipped with a log line).  Back-off
times, keep-alive comments and the other users of the hub are left out.

### Capture

State: `written` and `Rooted` describe one transcript (which records carry a cwd),
`sweep` is ingestFile over it (position, `pending`, `batch`), `call` holds the calls of
IngestBatch with what is left of each batch, `session`, `events` and `eventCount` are
the tables, `outSession` and `upSession` the session's row in the outbox and upstream,
`handed` the rows of events given to the outbox.  `torn` is history.  An event is an id
(its deterministic UUID) and `at`, what its seq is made from: the record's timestamp on
the sweep's path, the time of the call on the hook's.

| code | actions |
|---|---|
| the CLI writes its transcript and runs `resleeve hook` → appendEvents | `Write`, `Hook` |
| Serve starts the reconcilers; ingestFile's loop, its flush, its end | `Start`, `ReadRecord`, `EndOfFile` (`Buffer`, `Flush`, `Return`) |
| IngestBatch statement by statement | `CreateSession`, `AppendEvents`, `SyncEventCount`, `EnqueueSession`, `EnqueueEvent` |
| the drain stores the session's row | `ShipSession` |
| a statement fails, a request is cancelled; the daemon dies | `CallFails`, `Crash` |

Abstractions.  One session, so resetSession is not in it; one event per record; every
record has a timestamp; a line that the CLI has written half is not read.  The
heartbeat of the slot, which stays on the machine, is left out.  The other adapters'
reconcilers have the shape of this one and are not modelled.

### Transport

State: `record` is what the CLI has written, in order and with what it could see then
(`after`), `file` the transcript on each machine, `store` the table events of each
machine, `prime` the last prompt that prime mode made.  A key stands for what the
deterministic UUID is the hash of; `flip` says which way two hashes sort, `Ahead` how
far a machine's clock is ahead.

| code | actions |
|---|---|
| the vendor's CLI writes, and runs the hooks | `Open`, `Write`, `Stop` (`HookEvents`: claude's and codex's hook events) |
| ReconcileOnce: claude `eventsFromLine`, codex `FromNative` with lastSeq | `Sweep` (`ClaudeFromJSONL`, `CodexFromJSONL`, `FromFile`, `Bumped`) |
| push and pull | `Sync` |
| `resleeve resume`: ResolveSession, loadAllEvents, Hydrate, the CLI it starts | `Resume` (`Replay`, `Prime`) |

Abstractions.  A line of the vendor makes the events that the adapter's switch gives it,
without their payload.  A claude prompt is of kind `prompt` when its content is a string
and it has a promptId, so that hook and sweep make one key of it, and of kind `blocks`
when its content is an array with a text block or it has no promptId: the sweep then
takes the record's uuid for the key, and only the hook, if it has a prompt_id, the
prompt's.  `EventKind` says that both rows are user messages.  `RenderRows` keeps which calls a prompt pairs with results and
`PickNext` what it names as next; wording and truncation are left out.  opencode and
antigravity are not modelled.

`OrderKept` has a condition for each vendor.  Claude's sweep takes the record's time as
the seq, so the order is kept only while the clocks tell two lines apart.  Codex finds
`lastSeq` anew from the transcript it reads, which on another machine is the one that
resume wrote, so two machines number the same lines alike only if that transcript shows
all that the first one did: no hook stored its row before the sweep, no two lines have one
key, no page ends between two rows of one seq (`LinesMissing`), and the session row and
the Stop hook leave the start where it was (`StartMoved`).  Instances larger than that of
the run showed TLC that none of these can be left out.

### Scopes

State: on each machine `db` (the row of each scope, which scopes have a plan, the
learnings), its `outbox`, and `up`, the rows upstream.  `req` holds the requests, a
context document with the chain it walks and what it has collected.

| code | actions |
|---|---|
| PUT /v1/scopes, learnings, plans: the write, the read back, the enqueue | `SetScope`, `AppendLearning`, `PutPlan`, `ReadBack`, `Enqueue` |
| DeleteScope: SELECT COUNT, then DELETE with its cascade | `CountChildren`, `Delete` (`DeleteRow`) |
| BuildContext: ResolveChain, GetPlan and ListLearnings per scope | `BuildContext`, `ResolveChain`, `GetPlan`, `ListLearnings`, `Return` |
| the drain; ingestMemoryRow | `Push`, `Receive` (`IngestRow`) |

`watch` is history: what was a boundary, superseded or in view at each step since a
document was begun.  It is what makes `ContextSound` a statement about a document that
overlaps with writes.

### SealGate

State: `sealer` is the number of its login (each login installs a fresh object that
derives the same key), `sampler` the goroutines that ask whoami, `enq` where each enqueue
is between reading the sealer, reading the decision, sealing and inserting, and
`pullKind` row by row.

| code | actions |
|---|---|
| up, down, crash | `Up`, `Down` |
| /v1/seal/unlock, /v1/seal/lock | `Unlock`, `Lock` |
| `brain use`, `brain encrypt` | `BrainUse`, `SetPolicy` |
| sampleSealDecision | `Whoami`, `WhoamiFails`, `SetShouldSeal` |
| Enqueue*: sealer, decision, Seal, EnqueueOutbox | `GetSealer`, `GetShouldSeal`, `SealFails`, `EnqueueOutbox` |
| pullLoop, pullKind | `StartPull`, `List`, `PullFails`, `PickSealer`, `Open`, `OpenWiped`, `OpenPanics`, `SetCursor` |

`Envelopes` are the rows of a brain whose blob is an envelope; the rest are plain JSON.
A brain holds both, since other devices enqueue plain what they capture while nobody is
logged in, and since `brain encrypt` re-encrypts nothing.  A row that does not `Fit` the
sealer and decision it is read under is `refused`, one on which a statement fails is
`missed`, and the cursor stays in either case.

### Accounts

One email address.  A call of the CLI is a process over client and server steps; the
device it mints, the token, and for a registration the account row and its KEK bear the
call's name.  A secret typed wrong, a daemon that is not running and an accept without an
email are choices of the step that meets them.

| code | actions |
|---|---|
| /v2/auth/register | `Check`, `Insert`, `Mint`, `Provision` (three statements) |
| login-challenge, login | `Challenge`, `Verify`, `Mint` |
| pair/publish, SweepExpired | `Publish`, `SweepExpired` |
| pair/claim | `GetCode`, `RecordFailure`, `Lockout`, `Claim`, `ClearAttempts`, `Mint` |
| logout; the invite's own device | `ReadToken`, `Revoke`, `DeleteToken`, `Lock` |
| keychain, unlockLocalDaemon | `Put`, `Unlock` |
| failures, restarts, time | `Fail`, `RestartServer`, `DaemonStops`, `Tick` |

### Brains

A request that makes a data encryption key gives it its own name, and a blob is the name
of the key it was encrypted with.  `made` is history: which keys were ever put for a
brain.

| code | actions |
|---|---|
| POST /v1/brains | `Count`, `Insert`, `Join`, `PutBrainKey`, `WarmCache` |
| requireBrain, resolveBrain | `RequireBrain` |
| brainDEK: cache, table, lazy provisioning | `ReadCache`, `GetBrainKey`, `FillCache`, `PutBrainKey`, `WarmCache`, `Reread` |
| push, pull | `Put`; `List`, `Open` |
| members | `RequireOwner`, `Apply` |
| a statement fails; the server restarts | `Fail`, `RestartServer` |

### Lifecycle

A daemon is the number of its process; `endpoint` and `pidfile` hold such a number or 0.
`foreign` are the daemons that are gone and whose PID another process of the user has by
now; processAlive (signal 0) finds those as well, `down` sends them its SIGTERM, and
`misled` are the `up`s that took one for the daemon.  That a daemon of a later `up` gets
the very PID in a stale file is left out.  A rewritten config file is written and
renamed in one step: in the code two rewritings that overlap share one `.tmp` file
(adapter/claude/install.go:297-303).  A config file maps slots to the set of handlers in them, `capture` and `memory` being
ours.

| code | actions |
|---|---|
| Daemon.New, Serve, the shutdown goroutine, the end of the process | `OpenStore`, `WriteEndpoint`, `WritePid`, `Shutdown`, `RemoveEndpoint`, `RemovePid`, `Exit` |
| up: daemonAlive, spawn, waitForDaemon | `Begin`, `Spawn`, `Healthy`, `WaitTimesOut` |
| down: SIGTERM, thirty looks at the PID file | `Begin`, `Terminate`, `Gone`, `AwaitTimesOut` |
| purge | `Begin`, `Remove` |
| InstallBridge, UninstallBridge, InstallMCP, UninstallMCP | `ReadSettings`, `WriteSettings`, `Finish` |
| daemonAlive, processAlive | `DaemonAlive`, `ProcessAlive` |
| crashes, PIDs used again, and the user's editor | `Crash`, `Reuse`, `ForeignEnds`, `UserEdit` |

## 3. Runs

Eleven runs pass, one finds a statement of the user guide violated.

| run | instance | question |
|---|---|---|
| `outbox` | 2 keys (one refused, both bulky), loop and one push-now caller, 2 requests, 2 blobs a key, 3 rows, 1 fault | is a key lost, is a row acked that was not stored, is a waiting row ever older than the stored one, does the path implement `Delivery`, does an unlocked daemon empty its outbox? |
| `plan_log` | one agent, one CLI, 2 versions, 1 delete, 1 fault | does a reported version stay, is it queued, does an agent's append lose edits? |
| `pull` | 4 sessions, 2 events, one bad, pages of 3, 2 faults, keys in order | does the cursor pass a row that could have been ingested and on which no statement failed, does the pull catch up with the others? |
| `feed` | two scopes and a plan, whose first key may be put late, 2 requests, 1 slot, pages and buffers of one row, 1 fault | does the hand-over from backlog to live lose a row, are slots given back, does the shared cursor pass a row that nothing lost, does the stream alone bring every row? |
| `capture` | 3 records, the second with the cwd, batches of 2, 2 hook calls, 1 fault | is the count exact, is anything sent before what it refers to, does the sweep bring what hooks and dead processes missed? |
| `transport` | up to 3 records of 6 kinds, claude and codex, 2 machines of which the first has the hooks and a clock that is ahead, pages of 2, 2 resumes | is an event stored twice, does a resumed transcript lack or reorder lines, does a prime prompt pair calls with results? |
| `scopes` | 2 machines, a scope and one below it, 2 learnings, 4 requests, two at a time (machines and callers are symmetric) | is a context document right although writes come in between, and does a fresh machine get everything? |
| `seal` | 2 brains, 3 and 2 rows of both forms, pages of 2, 1 item, 2 logins, 1 change of policy, 1 switch, 1 fault | is a row left plain without an answer of whoami, does the cursor pass a row that fits, does a pull end? |
| `accounts` | 2 registrations, a login, a logout, an invite, 2 accepts, 3 machines, 1 fault | one account row and KEK, one device per code, and does the invite's device end? |
| `brains` | 2 creates, 2 pushes, 2 pulls, an add, a removal, 2 users, 1 keyless brain, 1 fault | is what was encrypted readable, does a created brain keep owner and key? |
| `lifecycle` | 2 `up`s, a `down --keep-bridge`, a `purge`, an `uninstall`, two at a time, 1 crash, PIDs used again, a user's hook | is what the commands report so, do two daemons share a database, do hooks survive? |
| `boundary` | one machine, one scope below another, 3 requests | *violation*: the older row of a scope comes back and undoes the boundary |

The type invariants of `MemoryFeed`, `Transport` and `Scopes` are checked by their runs
and proved as well; that of every other module is proved (`TypeCorrect` of its proof
module) and is not checked again.

Why the bounds are enough.  Two drainers and two requests give every overlap of a
read, a post, an ack and a bump, and with `MaxFaults = 1` a request that outlives its
client; three rows over two keys let a key be queued, acked and queued again
while an old request is under way.  Two writers and two versions give each order of
read, look-up, commit, conflict and enqueue, and the delete makes the log start
again; a third version or writer adds nothing that the proofs do not cover for every
number.  Six keys and pages of three make a pull take several pages and stop inside
one.  In `feed` a page, a buffer and a wire of one row are full at the second row,
and the second request with one slot is the reconnect that meets its predecessor's
slot; behind a first row whose statement fails, its plan is refused and the other scope
goes in and moves the cursor.  A scope that is written twice, and more late keys, are
left to the proofs.  In `capture` a batch of two is flushed in the middle of the transcript and
again at its end, the first record waits for the second's cwd, and the tool hook sends
the very events that the sweep reads.  In `transport` three records are a call and its
result behind a prompt, five rows are three pages, and two resumes lead to the other
machine and back.  In `scopes` four requests are two scopes, a learning and a document
or a deletion beside it; the two learnings, one of which may correct the other, may be
made on different machines.  In `seal` the two logins around a logout are the fewest
that make a sealer stale, and three rows in pages of two a pull that takes a second
page; whichever decision holds, a row of the first page fits and one does not.  In `accounts` two registrations race for the address, two accepts for the code,
and `MaxTime` past which the clock runs only while a device has to expire.  In `brains`
two users reach the same brain as owner and member, and the owner has room for one
create more than exists.  In `lifecycle` any two commands overlap, in both orders, and
the crash is where the files go stale and the PID in them becomes another process'.  For `accounts`, `brains`, `seal`,
`lifecycle`, `feed` and `scopes` the proofs cover every number of calls, requests, rows,
commands, streams and scopes.

The counters are bounded by `MaxBlob`, `MaxRows`, `MaxVersions`, `MaxDeletes`,
`Rewritten`, `Late`, `MaxConns`, `Length`, `MaxFires`, `MaxRecords`, `MaxNow`, `MaxResumes`,
`MaxCalls`, `MaxLogins`, `MaxFlips`, `MaxSwitches`, `MaxTime`, `MaxRunning`,
`MaxFaults` and, in `MemoryFeed`, `MaxFailures`, in the guards of the actions that count.

`CHECK_DEADLOCK` is off where the calls, requests, commands or records of the instance
are a fixed number and may all be through: `Capture`, `Scopes`, `SealGate`, `Accounts`,
`Brains` and `Lifecycle`.

Fairness.  `Outbox!Fairness`: the ticker of drainLoop fires (`WF` of `DrainLoop`), an
answer is handled, a push-now call that has begun goes on, a request that has reached
the server is worked on, a timer expires.  Enqueues, logins, push-now calls and faults
are not fair, and faults are bounded, because nothing in the code makes an upstream
come back.  `EventuallyDrained` therefore assumes `<>[]sealer`: the loop is parked
while locked.  `PullCursor!Fairness`: pullLoop's ticker starts a pull, and a pull that
has begun goes on; nobody has to push.  `MemoryFeed!Fairness`: each SSE handler and
runSSE go on, sseLoop dials again, and a handlePush that has stored a row publishes
it; `StreamDelivers` does without the pull.
`Capture!Fairness`: the sweep and the calls of IngestBatch go on; nobody has to write,
run a hook or start a daemon.  `SealGate!FairSpec`: the goroutine of pullLoop goes on;
nobody has to log in, and the handshake need not be answered.  `Accounts!FairSpec`: time
passes, and nothing else has to happen.  Every fairness condition is a weak one.

## 4. What is proved

All proofs hold for every value of the constants that the modules' assumptions
admit (disjointness of kinds of writers, bounds are naturals, batches are not empty).

`OutboxProofs`:
* `TypeCorrect`, `NothingIsLost`, `SeqsName`, `AcksAreSound`, `RetriesAreNewest`:
  the invariants `TypeOK`, `NoLoss`, `SeqNamesRow`, `OwedIsNewest` and the action
  property `AckedIsStored`.
* `OutboxDelivers`: `Outbox` implements `Delivery`.

The argument.  None of the properties is inductive alone.  `AckedIsStored` needs to
know that the seqs in an "ok" answer name the very rows of the request
(`SeqNamesRow`), which needs that a seq is issued once (`Issued`), also when the row
is gone and a request still carries it; that "ok" means every row was stored
(`Stored`); and for `NoLoss`, that what was stored left a blob under its key
(`LandedIsUpstream`), which needs that rows have blobs (`RowsReal`).  `IInv` is their
conjunction.  `Ages` on top of it says that no row anywhere, queued, in flight or
stored, is younger than the queued row of its key; `UNIQUE(kind, key)` makes a new row
come only when no other is queued.

`MemoryProofs`, of `PlanLog`:
* `TypeCorrect`; `VersionsAreImmutable` (`AckedStays`), from `FreshIsNext`: a
  transaction that can still commit holds the number after HEAD, since every write
  invalidates every snapshot.
* `AgentsLoseNothing` (`AgentsMerge`), from `ViewIsLog`: until the log is cut back
  the base version of an agent names the version its content was made from.  The
  theorem is about agents and unforced writes only; of the CLI it is false
  (`NoSilentOverwrite`, section 5).
* `VersionsTravel` (`EveryVersionQueued`), from `Accounted`: every row of the slot and
  every handler that still has to enqueue holds a version of the log, and every version
  has one of the two, so that `INSERT OR IGNORE` can only meet its own row.

`MemoryProofs`, of `MemoryFeed`:
* `FeedTypeCorrect` (`FeedTypeOK`) and `SlotsAreCounted` (`SlotsCounted`), together: a slot
  is taken and given back by the steps that make a request active and idle again, so the
  count is the cardinality of a finite set that grows or shrinks by one, which is also why
  it stays a natural number when a request hangs up.
* `HandOverHasNoGap` (`NoGap`), from `RowsStored` and `HandedOver`.  Whatever is on its
  way holds rows that the backend has.  A row after the `since=` of a subscribed request
  was told to it, or waits in its buffer, or is about to be published to it, or is still
  to come from its backlog.  The last case ends with a page that is not full: a page leaves out
  only rows that come after its own (`PageIsFirst`), and none unless it is full
  (`FirstsAreFull`), which is a fact about cardinalities of initial segments.
* `FeedCursorIsSafe` (`CursorSafe`), from `Ordered`, which speaks of histories in which
  the rows are put in the order of their keys.  A cursor is more than the row of
  `sync_state`: `Marks` is about all that may become it, the row ingested and not saved,
  the pull's own cursor and the `since=` of every request.  A row on the wire, in a buffer,
  in the rest of a backlog or in the pull's page has the missing rows before it ahead of it
  in the same queue (`WireInLine`, `BufInLine`, `BacklogInLine`, `PageInLine`), so that
  ingesting the first of a queue makes it a mark.  The exceptions are a row that a full
  buffer drops, one whose statement fails, and the rows that such a scope row keeps out,
  since the foreign key refuses them (`Lost`).

`MemoryProofs`, of `Scopes`:
* `ScopesTypeCorrect` (`ScopesTypeOK`): the foreign keys of plans and learnings hold on
  every machine, although scopes are deleted there and rows come back in any order, and
  an outbox has one row per key.  `Filed` is inductive: each statement keeps the keys
  (`UpdateKeeps`, `PlanKeeps`, `LearningKeeps`, `DeleteKeeps`, `IngestKeeps`), and a row in
  an outbox, upstream or in a request names a learning that was made, whose scope does
  not change (`RowsHold`, `CallsHold`, `MadeStays`).
* `ContextIsSound` (`ContextSound`), from `Followed`.  What the history says has been so
  all along is so now (`Less`), therefore no statement can miss it.  `Walked`: the chain
  has, in the order of the path, each scope that was in view all along as far as the walk
  has come, and each that was a boundary as a boundary.  `Limited`: once the walk is
  through and the chain cut at its last boundary (`ChainIsCut`), no scope of the chain is
  above one that was a boundary all along, and none in view is cut off.  `Collected`: each
  round has, of the scopes it has passed, the items in view all along, and no learning
  that was superseded all along.
* `FreshMachineIsWhole` (`FreshIsWhole`), from `OnTheirWay`: every scope, plan and
  learning of a table is upstream, in an outbox, with a request that is about to enqueue
  it, or with one that has yet to read it back on that machine.  No step loses one: a
  second setting takes the first one's place in the outbox under the same key, a deletion
  takes the table's rows with it, and a row that is received came from upstream.  Once all
  is pushed, the rows upstream are therefore complete (`PushedIsComplete`): a plan or a
  learning has its scope there, a correction what it corrects.  The rest is about any
  finite set of rows.  Their keys are in a total order (`PathsAreOrdered`, `SortsOrders`),
  so there is a last row (`LastRow`), and a scope's row is not later than what belongs to
  it (`ScopeIsFirst`); the rows without the last one are complete for what is left
  (`CompleteBefore`), and ingesting the last adds its own (`IngestHolds`).  `FreshHolds`
  is the strong induction over the number of rows, and `FreshIs`, from `Recursion`, says
  that the recursive function is what that induction takes it to be.

`EventProofs`, of `PullCursor`:
* `TypeCorrect`; `CursorIsSafe`: with one puller and keys in order `NoneSkipped` holds,
  for any sessions, events, bad rows, page sizes, failed requests, failed statements and
  restarts: what the cursor has passed is in the tables, cannot be ingested, or has
  failed, itself or by its session.  Without the last case it is false (section 5).  With two pullers it is
  false (section 5); that the order is needed is plain, since a row pushed
  under a key below the cursor is never listed.

`EventProofs`, of `Transport`:
* What its recursive functions compute.  The library's induction takes an operator as a
  parameter, but that the naturals are well-founded (`NatLessThanWellFounded`, `WFMin`) is
  stated without one, and gives `BySize`, strong induction over a subset, and `Recursion`:
  a function that satisfies its equation exists if the equation looks at smaller arguments
  only, so the CHOOSE behind a recursive function picks one.  From them: `Bumped` only
  raises seqs (`BumpedIs`), `FlattenSeq` keeps elements and order (`FlattenIs`), `Sorted`
  lists the whole table in the order of the rows (`SortedIs`, over a total order:
  `PrecedesOrders`), `LoadAllEvents` gives rows of the table in that order and, unless
  a page may end between two rows of one seq (`Torn`), all of them (`LoadIs`).
* `TransportTypeCorrect` (`TransportTypeOK`) and `EventsStoredOnce` (`NothingTwice`), from
  `ConversationInv`: a row has the key that its kind and its record give it (`KeyedBy`), a
  line the time of its record, and both stay so as the conversation grows (`GoodStays`).
  Only a prompt of blocks has two keys of one kind of event, the hook's and the
  transcript's, and each of them once;
  a table has a key once, which `INSERT OR IGNORE` keeps (`AddedKeeps`, `MergedKeeps`).
* `ResumeWritesAll` (`ResumeIsWhole`) and `PrimesPair` (`PrimePairs`), from the invariant
  and `LoadIs`.
* `OrderIsKept` (`OrderKept`), for claude from `ClaudeInv`: the seq of a captured line is
  its time (`Timely`), so a transcript that was written out is in the order of the times; a
  line that the CLI adds is of a record that no earlier one knew of (`CausalAfter`).
  For codex from `CodexInv`, since the seqs that two machines give are related only through
  the transcripts.  `TableShape` is about the rows of one table: what the author of a line
  had read has a row with a smaller seq in the same table (`AfterIn`), and there is a
  potential `w` that bounds each seq by the time of its line, the start, or one more than
  the potential of a row before it (`Explains`).  `FileTable` relates a transcript to its
  machine's table: the rows of two lines are in the order of the lines (`InSeq`), a line
  that was not swept is behind everything its author had read (`Unswept`), and the seqs the
  next sweep would give (`Numbered`) reach those that the rows have (`SeqsReached`).  The
  last one holds of a transcript just written out by the potential (`ListingReaches`), and
  it is why a sweep cannot put a new row in front of an old one (`SweepInSeq`,
  `SweepAfter`).  `Known` says that a line not yet swept is on one machine only, `OneRow`
  that all tables have the same row for a line, so a pull unites the tables
  (`PullOrdered`).  `CodexFromFile` shows that the sweep's rows are those of `Numbered`,
  `WrittenIsListing` that resume writes a table out in its order behind its session_meta;
  `KeptBefore` says that what is missing stays missing, which makes the condition one
  about the present state.

`CaptureProofs`:
* `TypeCorrect`; `CountsAreExact` (`CountIsExact`): only SyncEventCount sets the
  count, from the table, and after every append some call still has to do it unless
  it failed.
* `Groundedness` (`PushedIsGrounded`) and `SweepKeepsAll` (`SweptIsKept`), from one
  invariant.  `Calls` says what the statements a call has executed have achieved,
  which no other actor takes back (`Monotone`); `Waits` that the sweep waits for its own
  call and holds nothing back meanwhile, and that of `pending` and `batch` one is
  empty; `Kept` that each record the sweep has read is handed over, in its call, or
  held back.  At the end nothing is held back and no call is left.
* `CwdIsFound` (`SweepFindsCwd`), from `Origin`: as long as nothing fails a batch of the
  sweep begins with the made-up session_start, unless the session is there already or the
  batch is that of the end of the file of a sweep that found no cwd; after it nothing is
  read.

`SealGateProofs`:
* `TypeCorrect`; `PlaintextIsDecided` (`FailClosed`), from `Grounded`, a decision for
  plaintext has an answer of the running handshake behind it, and `Off`, a daemon that
  is down has forgotten everything, so that the next one starts sealing.
* `CursorIsSafe` (`NoneSkipped`), for rows of both forms in any order, from `Cursor`.  `At`:
  a cursor, the saved one and the pull's own, is the empty one or stands at a row that was
  ingested.  `Upto`: every row up to it was ingested, refused or missed, and so was, of
  the page, every row that is not still to come (`Seen`).  `PageIsLowest` says of a page
  that what it leaves out comes after it; it needs cardinalities of finite sets, and
  `HasLeast` the well-founded order of the naturals.

`AccountsProofs`:
* `TypeCorrect`; `RegisterIsWhole` (`AnsweredRegister`), from `Registered`: the account
  row is the first registration's and stays, and only that call adds to the brain.
* `OneSealer` (`SealersAgree`), from `OneKek`: what a call has unwrapped, a code carries
  or a daemon holds is the KEK of the account row.
* `OneWinner` (`OneDevicePerCode`), from `Spent`: a code that was won is claimed or
  gone, its invite publishes no other under its name, and one call won it.

`BrainsProofs`:
* `TypeCorrect`; `OneKeyIsReadable` (`OneKeyReadable`), from `Keyed`: every key in the
  table, the cache, a request or a blob was once put for that brain; with one put there
  is one key.
* `CreatedStaysUsable` (`CreatedIsUsable`), from `Creating` (how far a create has come)
  and from what `Apply` spares: a removal never names the owner.

`LifecycleProofs`:
* `TypeCorrect`; `HandlersAreRight` (`HandlersRight`).  `Alone` says that one command runs
  at a time while none has overlapped, `Rest` that what is still to edit is the end of the
  command's list, `Standing` that the files edited so far are right and stay so until
  another command starts to edit, `Spared` that a user's handler is in the file and in
  every copy that a command is about to write.
* `ReportsAreTrue` (`SaidIsSo`) and `OneDaemonPerHome` (`OneHome`), from `Orderly`: while
  commands come one after the other, one process at most may still write to the files, it
  starts only while its `up` waits and ends only while a `down` waits, and from its PID
  file on both files name it (`Home`); `Phase` says what a command has made sure of when
  it goes on, `LastSaid` what the last one left.  A PID that another process has got means
  that no daemon of ours is left (`Quiet`): a `down` that signals that process still says
  the truth, an `up` that finds it does not, which is why `SaidIsSo` excepts the `misled`
  ones and says of every other `up` what the code prints.

Only model-checked: liveness (`EventuallyDrained`, `CatchesUp`, `StreamDelivers`,
`SweepRepairs`, `PullReturns`, `EphemeralEnds`).  Fairness and ENABLED are out of the
prover's reach.

The inductive invariants of `MemoryFeed`, `Scopes` and `Transport` were checked by TLC
before they were proved, but for `CodexInv`, whose potential TLC cannot enumerate; there
it checked `OrderKept` itself, and simulated instances with more records and resumes than
the run's.  The proofs lean on no assumption beyond those the modules name:
`FeedAssumption` and `ScopesAssumption` say that keys and learnings are numbered, that the
row of a scope is no later than what belongs to it, and that paths are not empty.

## 5. Disagreements

The run `boundary` shows one statement of the user guide that the code does not keep
(`PROJECT.json`, "findings"): of two settings of a scope the outbox sends the first one,
which comes back and replaces the second.

Each of the following was met while modelling and seen in a counterexample or in the
code.  Where a module states it as a definition, that stands at the module's end under
"Stated by the docs and not kept by the code"; no run checks it, since another run of
the module covers the steps.

*Push, pull and feed.*
* `AcceptableDrained` (Outbox): one row the server refuses keeps acceptable rows of its
  batch in the outbox for ever (docs/use-cases/02-cross-machine-sync.md:209-210), and
  so does a batch larger than the body cap, which is never split.
* `ReplaySafe`, `Converges` (MemoryFeed): ingesting a plan row is a forced append, so a
  row of the backlog that comes live as well makes two versions; and a page that was read
  before a scope was written again overwrites what the stream brought since.
* `CursorOnSuccess`, `AllCatchUp` (PullCursor), `CursorOnSuccess` (MemoryFeed): a row
  whose ingestion fails once, because the database was busy or the disk full, is logged,
  the loop goes on, and the next row that goes in moves the saved cursor past it
  (agent/sync.go:673-683, on the stream 973-981).  It is not asked for again, although the
  cursor is to move "on success" (docs/design/round-4/02, agent/sync.go:923).
  `NoneSkipped`, `CatchesUp`, `CursorSafe` and `StreamDelivers` except such rows and what
  hangs on them, and no others.
* With pull-now beside the loop, an event whose session is not in yet is passed for good;
  `NoneSkipped` of PullCursor is about one puller, and is proved for one.
* `NoSilentOverwrite` (PlanLog): `resleeve plan write --edit` looks its base version up
  after the edit.
* `LaterBatchesAbsorbed` (Capture): a later batch of a sweep can replace the session row
  upstream by one without the cwd.

*Seal and keys.*
* `SwitchPulls` (SealGate): `brain use` writes a file that a running daemon does not read,
  and cursors are kept per kind, not per brain, so after a restart the rows of the new
  brain below the old cursor are not pulled (docs/use-cases/06-team-shared-memory.md:138-140).
* A logout while a pull is under way fails the rest of its rows, and since a full page
  that could not be ingested is asked for again, the pull does not end before a login
  (agent/sync.go:150-151 says a lock parks the loops).  A full page none of whose rows has
  the form expected is asked for again without end even while nothing changes.
  `PullReturns` assumes that the machine stays logged in and that a row of every full
  page fits.  A login in the middle of a page lets the cursor pass the rows that failed
  before it (`mixed`).
* `FormsArePulled` (SealGate): what a device enqueued while logged out goes up as plain
  JSON, and what was pushed before a change of policy keeps its form.  A device that
  expects the other form fails to open it, and the next row that fits moves the cursor
  past it, with nothing else going on.  agent/sync.go:355-357 says that enqueueing while
  logged out is what keeps capture from losing events.
* A wipe between Open's nil check and its use panics in the goroutine of pullLoop
  (`OpenPanics`, auth/envelope.go:112).
* The handshake is a goroutine of its own, although agent/sync.go:313-315 says that it comes
  before the loops; what is captured while logged out is stored plain.
* `BlobsReadable` (Brains): two first requests for a brain without a key both make one;
  the later put replaces the key that the other's blobs were encrypted with.
* `EveryUserHasBrain`, `RerunUnlocks` (Accounts): a registration that fails between its
  statements leaves an account without a brain; and an accept that found no daemon
  cannot be run again, its code is used up (cli/pair.go:312-313).

*Life cycle.*
* `UpIsUp`: processAlive asks whether any process has the PID (cli/lifecycle.go:778-792,
  cli/lifecycle_unix.go:24-30).  After a crash, or a reboot, that PID may be another
  process' of the user.  `up` then prints "daemon already running" and "resleeve is up."
  (cli/lifecycle.go:54, 87) and starts nothing; `down` sends that process a SIGTERM, and
  `purge` refuses.  `SaidIsSo` is about every other `up`.
* `down` gives up after three seconds and says that the daemon is stopped; an `up` right
  after it finds the process alive and starts none (`hurried`).  Two overlapping `up`s
  start two daemons, and the first one's shutdown removes the files of the other
  (`overlap`).  Serve may end before its shutdown goroutine has removed the files (`Exit`).
* install-bridge and uninstall-bridge drop a user's group whose list of hooks is empty.

*Conversations.*
* `PromptsOnce` (Transport): a claude prompt whose content is an array of blocks, or whose
  record has no promptId, is keyed by the record's uuid on the sweep's path
  (adapter/claude/fromnative.go:241-244, 281-289) and by its prompt_id on the hook's (154).
  It is stored twice, against the table of keys in adapter/claude/uuid.go:22.
  `NothingTwice` excepts these prompts, of which it still says one row per path.
* `OriginalKept` (Transport): resuming on the machine that holds the original replaces
  its transcript by what is stored, while the sweep runs only when the daemon starts
  (adapter/claude/hydrate.go:20-22).
* The comments on Hydrate say that prime is forced between different CLIs
  (codex/hydrate.go:30-32, claude/hydrate.go:24-26), but auto is replay.  What prime shows as the
  "last unanswered" message is the last one, answered or not (common/prime.go:114, 283).
* A claude record with several blocks is replayed once per block; its records without a
  uuid share one key; rows of one seq can be lost between two pages.  A codex transcript
  that is replayed contains the envelopes of hooks, and two prompts of one text are one
  event.  A replayed transcript that lacks a line is numbered differently by the next
  sweep, which can put a line before one that its author had read, although lastSeq is
  there to keep the order (adapter/codex/watcher.go:75-83).

*Scopes.*
* Deletes are not sent: a pull, or the machine's own row coming back, makes the scope
  again.  DeleteScope's count and its DELETE are two statements, so a child that is made
  in between loses its parent.
* A correction in another scope, or from a machine whose clock is behind, sorts before
  what it corrects and is refused on a fresh machine (`InKeyOrder` excludes it).  Deleting
  the scope of such a correction brings the corrected learning back.
* Other machines do not see the same updated_at, as agent/memory_handlers.go:81-84 says:
  ingest sets it anew.

Behaviour that the models contain and no run singles out: deleting and recreating a
scope reuses version numbers, so an old base version can match again; session ids are
random, so rows pushed under a key below another device's cursor are never listed there
(`KeyOrder` excludes it); an event that both a hook and the sweep capture goes out under
two keys, since the seq in the key is the time of the call in the one and that of the
record in the other.

## 6. Not modelled

* Envelopes and key derivation: bytes over the standard library.  The modules use only
  that what one key sealed no other opens.
* The event schema, MCP framing, doctor's report and statistics: records and output.
* opencode and antigravity, whose adapters have the shape of the two that are modelled;
  their storage (a database, and none) would need state of its own for the same
  questions.
* Password change, recovery and the device list; the list endpoints of brains; a change
  of the master key.
* The file backend below List: two Puts of one key share a .tmp file (`PROJECT.json`
  lists it as a hazard without a property), and a server crash between write and rename
  leaves a file that List skips.
* The `.tmp` file that two overlapping rewritings of one settings file share
  (adapter/claude/install.go:297-303): the rename of one may bring the other's copy, whose
  own rename then fails.
* A read error of GetScope in the walk, which the code treats as a missing row and which
  would hide a boundary; an enqueue that fails after the write, except for plans.

What would come next, in this order: `PlanLog` on two devices with the forced append of
`MemoryFeed` between them; `Put` of the file backend.
