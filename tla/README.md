# Castrelyx verification project

TLA+ models of the parts of Castrelyx that keep state across failures, overlapping requests
and several people, the TLC runs that check them on small instances, and theorems about them
that TLAPS checks for every value of the constants. The models are translated from the code,
action by action; `PROJECT.json` maps every definition to the lines it stands for, lists the
runs, a mutant of the code for every property, the findings, the hazards and the theorems.

Contents: 1 the system · 2 inventory · 3 the modules and how they compose · 4 what is
modelled, module by module · 5 the runs · 6 bounds · 7 fairness · 8 the proofs · 9 findings ·
10 what is not modelled · 11 running it.

## 1. The system

Castrelyx watches hosts. An **agent** (Go, `src/agent`) runs on each of them, collects
inventories, metrics, log lines and security events, keeps them in a durable queue and
sends them over mTLS to the **logparser** (Java, `src/logparser`), which takes them in,
parses and transforms them in worker threads and writes them to ClickHouse. The **manager**
(Java, `src/manager`) reads ClickHouse and shows dashboards, hunts and router controls.
**CastrelSign** (Java) is the certificate authority, key-management, update and task
server of the agents; **CastrelVault** (Java) keeps secrets for the servers. The front
ends, the manual and `laya-security-lab` stand beside these.

    host --collectors--> agent runtime --Push--> spool --Peek/Ack--> sender
                              |                                        | mTLS, one batch at a time
                        state file, log cursor                         v
                                          logparser input queue -> dispatcher -> workers
                                                                                  |
             manager <--queries-- ClickHouse <--inserts-- ClickHouse adapter <- delivery worker
    CastrelSign: enrolment, renewal, update policy, remote tasks  <--polls--  agent

The promise that goes through all of it: *what a host reported is stored once, in order,
and what the dashboard shows is what the host reported last*. No single component can
promise it. Each module below has one link of that chain, with its failures.

## 2. Inventory

For each component: its state, its operations, what is hard, and what makes it correct.

### Agent

**Durable queue** (`internal/spool/spool.go`). *State:* one JSON file per record in
`queue/`, dead letters in `deadletter/`, an index of both in memory, a mutex. *Operations:*
`Open` (migrates `queue.ndjson`, rebuilds the index, quarantines damaged records), `Push`,
`Peek`, `Ack`, `Reject`, `Stats`, with expiry, pruning and compaction inside them. *Hard:*
a crash between any two file operations; a rename that succeeds while the directory sync
fails; limits in records and bytes that dead letters share; a clock that is set back; two
loops that share it. *Correct when:* no accepted record is lost in silence, delivery is
oldest first and never over age, every record leaves in the end, the disk stays bounded.

**Runtime** (`internal/agent/agent.go`, `internal/collectors/log_tailer.go`,
`internal/envelope`). *State:* the cache inventories are compared with, collection times,
the set of failed collectors, the state file, the log tailer's committed and pending cursor
and its file. *Operations:* `CollectOnce` (ask the due collectors, filter to changes, cut
into chunks, push all of them, save the state, commit the cursor, or take everything back)
and `FlushPending`. *Hard:* three files written one after the other; a cycle undone after
the sender has delivered half of it. *Correct when:* no log line is skipped, the state file
says nothing that was not reported, and the dashboard's query over what arrived shows the
host's inventory.

**Sender** (`internal/sender/sender.go`). *State:* one TLS connection. *Operations:*
`Send` with a deadline, one retry over a new connection, permanent refusals. *Hard:* a late
answer, a batch sent again while the server still works on its first copy. *Correct when:*
an acknowledged batch is in the server's queue.

**mTLS identity** (`internal/tlsidentity`, loop in `cmd/castrelyx-agent/main.go`). *State:*
CA, certificate with key, metadata; staged copies, backups, absence records, a marker.
*Operations:* `SaveEnrollment`, `RecoverEnrollment`. *Hard:* three files must change
together; crash, failing rename, failing sync and failing roll-back at every step.
*Correct when:* the bundle changes only as a whole and the answer is true of the files.

**Self-update** (`internal/updater`). *State:* the update record (`STAGED`,
`APPLY_INTENT`, probation, reports), staged and backup binaries. *Operations:*
`CheckAndApply`, `MarkApplied`, `Rollback`, reconcile at start. *Hard:* the process
replaces itself and dies at every step by design. *Correct when:* what runs is the binary
the record names, a broken version is rolled back, a version never flaps.

**Remote and router tasks** (`internal/remotetasks`, `internal/securityrouter`). *State:*
a journal of started commands; the server's task rows. *Operations:* poll up to five tasks,
execute one after the other, report. *Hard:* a row is claimed again after 180 s, a task may
take 75 s; outcome unknown after a crash. *Correct when:* a command is carried out at most
once and its result reported.

**Host collectors and security events** read the operating system; **configuration,
enrolment, file manager, SSH** validate and call out; neither keeps state between calls.
**Main** starts the loops: collection, sender, identity maintenance, tasks, updates.

### logparser

**TCP/mTLS/gzip input** (`TcpMtlsGzipInputAdapter`). *State:* the listener, client
connections with a thread each, the bounded `eventQueue`, the memory of recent batches.
*Operations:* accept, read a frame, decode, enqueue a batch atomically, answer; poll; TLS
reload; close. *Hard:* threads add while the input thread polls and the adapter closes.
*Correct when:* each batch is put in once, whole, and acknowledged only then.

**Dispatcher, workers, reload** (`MessageDispatcher`, `ProcessingDispatcher`,
`InputAdapterComponent`, `PipelineReloadService`, `ThreadManager`). *State:* dispatch
queue, in-flight count, the running pipeline. *Operations:* dispatch, process, drain, swap,
roll back. *Hard:* the moment between counting idle and stopping. *Correct when:* a reload
loses nothing and leaves exactly one pipeline.

**Output delivery worker** (`OutputDeliveryWorker`, `OutputAdapterComponent`). *State:*
retry queue, adapter or none, flags for a scheduled retry, a pending flush, a pause.
*Operations:* deliver, drain, background failure, close, replace. *Correct when:* an event
is stored, queued for retry or counted as rejected, and recovery is always armed.

**ClickHouse adapter** (`ClickHouseOutputAdapter`). *State:* legacy buffer, groups of
chunk items, the DLQ directory, tokens. *Operations:* send, flush, flusher, quarantine,
close. *Hard:* one chunk is several inserts; a reply may be lost; limits evict the group an
item belongs to; the flusher shares the monitor. *Correct when:* a chunk is in every
canonical table whole and once.

**Other inputs and outputs** (`RouterInbox`, MariaDB, …), **parsing and transformation**
(pure functions), **configuration** (CRUD in one transaction).

### manager

**Telemetry queries** (`ClickHouseClient`): stateless, but the inventory query decides what
is current from the rows alone: it is one half of the agent's delta protocol. **Hunt**
(`hunt/v2/HuntJobs`): a job table with limits of 2 per user, 20 in total, 3 running, over which
dispatch, cancel, complete and recover race; investigations, rules and exceptions as versioned
records. **Assets, alerts, remote access, SNMP,
vault migration**: request-scoped transactions; the migration alone has several steps.
**Router control**: a command becomes a task
of CastrelSign, which an agent claims; the console asks until it knows what became of it.

### CastrelSign

**CA and enrolment**, **agents as the console manages them** (`AgentController`,
`AgentRepository`, `EnrollmentTokenRepository`, `CastrelSignView.tsx`). *State:* rows of
agents, certificates, one-use tokens, the update policy; the page's list, selection, dialogs.
*Operations:* create, revoke and use a token, enrol, renew, block, reactivate, save a policy.
*Hard:* loads of the page overlap, and an agent renews while it is blocked. *Correct when:* a
certificate rests on a token that was used for it, and a blocked agent gets none.

**Key management** (`KeyManagementService`, `KmsBackupTool`). *State:* the versions of each
key, approvals waiting, the audit chain, the checkpoint file beside the database, archives.
*Operations:* create, activate, rotate, suspend, revoke, declare compromised, destroy, with
two-person approvals; start, checkpoint, commit, archive, restore. *Hard:* an approval is
given for a key that has moved on; the process dies between checkpoint and commit; an older
copy of the database is put back. *Correct when:* one version signs, nothing needed is
destroyed, nothing older than the checkpoint is ever served.

**Services, portal and console** (`Operations.jsx`, `Portal.jsx`, `App.jsx`, `runtime.jsx`).
*State:* services with permissions, enrolment tokens, certificate requests, certificates,
releases; a browser's session, route and dialog. *Hard:* two sessions of one browser one
after the other with answers of the first still on their way. *Correct when:* what one person
asked for is never shown to the next.

**Update service** and **task repository**: the servers' side of the agent's loops.

### CastrelVault

**Secrets and console** (`SecretService`, `App.tsx`). *State:* secrets, versions, the
current version; the list, the selection, a dialog with a payload. *Operations:* create,
rotate, delete, reveal, each several statements. *Hard:* they are not transactional and
several consoles run them. *Correct when:* a payload shown is the one of the secret named
above it. **Sessions and applications' access**: checks within a request, and a cache of
CastrelSign's answers: an `ALLOWED` is kept until the earlier of a minute after the decision
and the end of the certificate, but at least a second; a late answer may overwrite a newer
`DENIED`, and reading it has no timeout.

### Front ends

**Manager** (`App.tsx`, `AssetsView`, `AssetFileManager`, `OverviewView`, `AgentLogsView`,
`TrafficView`, `SecurityHuntView`): lists, details and figures read every 30 s and after every
change, some answers numbered, others not. **Log parser** (Pipeline Studio, mapping editor,
Live Tail, lists, settings, SNMP form): drafts over a configuration that others change, and
tests that run on the kept result of the step before. **Hunt workbench**
(`HuntWorkbench.tsx` and its panels): queries polled while they are cancelled, versioned
investigations with an independent review, rules, exceptions. *Hard in all of them:* a
handler reads state, awaits a request and writes state that has changed meanwhile. *Correct
when:* what is on the screen belongs to what its headings, filters and selection name, and
an action acts on what was shown when its button was pressed.

**Manual, lab, prototypes, retired static pages** (`logparser/src/main/resources/static`,
which `build.gradle:108` leaves out), **deployment**: nothing that runs in the product.

## 3. The modules and how they compose

a *composes* b: a EXTENDS or INSTANCEs b and adds the steps between them.

| modules | of | proofs |
|---------|----|--------|
| `Spool`, contract `SpoolContract` | the agent's durable queue | `SpoolProofs` |
| `OutputDelivery` composes `ClickHouseOutput` | delivery worker around the ClickHouse adapter | `OutputProofs` |
| `TcpIngest` | sender, connections, input adapter, reload | `TcpIngestProofs` |
| `Identity`, contract `IdentityContract` | the identity transaction | `IdentityProofs` |
| `Collection` | runtime, cursor, state file, dashboard query | `CollectionProofs` |
| `HuntConsole` composes `HuntQueries`, `HuntCaseEditor` (twice), `HuntRules`, `HuntExceptions` | the hunt console with its server | `HuntProofs`, `HuntCaseProofs` |
| `Consoles` composes `Vault`, `SignKeys`, `SignConsole`, `SignServices`, `KmsStore`, `RouterControl`, `AgentLifecycle`, `Updater`, and `AssetFiles`, `AssetConsole`, `LogViews`, `ConsoleShell`, `Overview`, `LiveTail` | the servers behind the consoles, and six screens | in the module |
| `MCHunt` composes `HuntConsole` with `HuntFilters`, `HuntDraft`, `HuntRelations` | the hunt console's trees, for TLC | |
| `MCConsoles` extends `Consoles` and composes it with `FleetFigures`, `TrafficFigures`, `SocketGroups`, `StudioTests`, `StudioDesk`, `SnmpForm` | one at a time, for TLC | |

Abstract specifications: `SpoolContract` (a record is new, pending, then delivered or dead,
and only a dead one is discarded) and `IdentityContract` (the bundle in force changes as a
whole to the one offered). Both refinements are proved.

Not written yet: the dispatcher between the input side of `TcpIngest` and `OutputDelivery` with
`PipelineReloadService`, and `RouterInbox`.

## 4. What is modelled

One action per handler or file operation; the names are the code's where TLA+ allows it.
Every model is *sequential where a lock makes the code so*: a variable (`op`, `job`,
`holder`, `tx`, `at`) says which call holds the lock and where in it it is, so that crashes
and the other threads come between any two of its steps.

### Spool

| in the model | in the code |
|---|---|
| `queueDir`, `corrupt`, `queueTmp` | the files of `queue/`, those `readRecord` refuses, leftover `.tmp` files |
| `deadDir`, `deadTmp` | `deadletter/` with modification times |
| `legacy` | `queue.ndjson` |
| `idx` | the fields of `Queue`: `active`, `order`, `head`, `oldest`, dead letters |
| `op` | the call that holds `q.mu`, at which file operation, and where it goes on |
| `handed`, `batch`, `aborted` | what `FlushPending` and `CollectOnce` hold |
| `accepted`, `acked`, `discarded`, `diagOf` | history, read by properties only |

`StartOpen … Retire … Rebuild, QuarantineUnindexed` are `Open`; `StartPush/Peek/Stats/
AckHanded/Rollback/Reject` the calls; `Expire`, `PruneOne`, `Pruned`, `RoomMade` the
maintenance inside them; `CreateTemp`, `AlreadyWritten`, `RenameTemp`, `Unlink` the file
operations all of them share; `Crash`, `Damage`, `IOError`, `SyncError`, `Tick`, `SetBack`
the environment. Names are numbers because `newID` starts with the time and files are read
in name order; `Stamp` gives the time back. `SpoolContract` is the promise to the callers:
a record is new, pending, then delivered or dead, and only a dead one is discarded.

### ClickHouseOutput and OutputDelivery

`ClickHouseOutput` is the adapter: `legacy`, `order`, `got`, `old` are its buffers (the
legacy records, the groups in the order they were begun, the sequences each has, those past
their age), `dlq` and `pruned` its directory, `rows` and `tokens` ClickHouse (external: it
applies an insert unless it remembers the token), `job` the thread inside the monitor.
`Send` decides between legacy and chunk item, makes room, appends and writes when the chunk
is complete; `Insert(table)`/`InsertNext` is one request; `RequestFails(lost)` a failing
one, applied or not; `Persist`, `PersistFails` the DLQ; `Cleared`, `Resume` what follows.

`OutputDelivery` puts the worker around it: `pending` is the retry queue, `op` the holder of
the delivery lock, `worker` its flags. `Deliver(e)`, `Call`, `Sent`, `NotSent`, `RetryFires`,
`DrainNext`, `Drained`, `RetryFails`, `FlushTick`, `FlushEnters`, `Report`, `CloseStarts`,
`CloseLocks`, `Closed`, `Restart`, `Crash` are its methods and the moments between them.
The flusher takes the adapter's monitor without the delivery lock, as in the code. `Enqueue`
has the three refusals of `enqueue`: an event without a payload (`Unserializable`), a queue
of `MaxPending` events (`MAX_PENDING_EVENTS`), and one whose events are estimated at more than
`MaxQueueBytes` (`MAX_PENDING_BYTES`; `EventBytes` is the estimate of each). `PendingBytes`
is the sum over what is queued: every entry is added once, subtracted once and cleared with
the queue, under the delivery lock.

### TcpIngest

`client[a]` is the sender of agent *a* inside `FlushPending` (its spool is the number of the
next batch: `Spool` has the rest); `link[a][k]` a connection with its two directions and the
server thread that serves it; `queue`, `recent`, `holder`, `listener` the fields of the
adapter. `StartSend`, `Dial`, `Write`, `TimesOut`, `ReadReply`, `SeesClosed` are
`Send`/`sendEncoded`/`connection`; `ReadFrame`, `Enqueue`, `Add` the connection thread, one
item a step, under `enqueueLock`; `AddToOld` the same thread when its adapter has been
closed meanwhile; `Accept`, `Poll`, `ReloadTls`, `RestoreListener` the input thread;
`CloseAdapter`, `ReopenAdapter` the pipeline reload; `Crash` the death of the log parser.
A broken connection may take a message, or its answer, with it.

### Identity and IdentityContract

`live`, `stage`, `backup`, `missing`, `marker` are the files of the identity directory, `tx`
the call that holds the locks, `before`, `offered`, `answer` history. `Stage(t)`,
`Validate`, `Backup(t)`, `Mark`, `Commit(t)`, `Finish`, `Restore(t)`, `Unmark`, `CleanUp(t)`
are the durable file operations in the code's order, each with its failing form: the
operation fails, or it takes effect and its directory sync fails. `Current` is the bundle
that a restart would end up with. The contract knows only that bundle and the one offered.

### Collection

`memory` and `before` are the fields of `Agent` a cycle may change and their values at its
start; `cursor`/`pending` and `cursorFile` the log tailer; `stateFile`, `queue`, `unindexed`
the files; `todo`, `index` the cycle's chunks; `peeked` what the sender holds; `rows` what
arrived in ClickHouse. `Collect(failed)` asks the collectors; `Unchunkable`, `Push`,
`PushFails`, `Undo`, `Save`, `SaveFails`, `Commit`, `CommitFails` are the rest of
`CollectOnce`; `Peek`, `Deliver`, `DeliverUnacknowledged`, `Refuse`, `SendFails` the sender;
`Crash` a restart from the files; `Merge` the background merge of ClickHouse's replacing
table. `View` is the manager's query, `Complete` and `LatestFull` its two inner ones.

Steps that are merged, and why that loses nothing: the collectors of a cycle read into
memory nobody else sees, so `Collect` is one step; host and log change between cycles only,
since within one they are read once; queue operations are atomic here because `Spool` has
their steps and `SpoolContract` is what is relied on.

### The hunt console

`HuntQueries` begins with the table `hunt_query_jobs` and its pool of threads (`JobNext`): `Create`, `Scan`, `Take`,
`Complete`, `Fail`, `Cancel`, `Recover`, `Retire` are the API, the dispatcher, the recording
transaction, a restart and the retention. Over it is one workbench (`Next`): requests
and replies are messages in `net`, served one by one in any order, a few lost; `Run`, `Poll`,
`CancelPressed`, pages and single events are its handlers. `HuntCaseEditor` has the versioned
investigations (`case`, `review`, `approved`) and one analyst's editor with its collaboration
panel, while colleagues act; `HuntRules` a repeated rule, its tick, query and publishing
transaction, and the administrator's tab over it; `HuntExceptions` the guarded decisions on
exceptions and the review panel. The parts keep no variable in common: `HuntConsole` lets a
behaviour take one of them (`part`), so that their product says no more than their sum.
`HuntFilters` (the tree of conditions, its SQL meaning with NULL and empty text), `HuntDraft`
(the prepared search against the executed one) and `HuntRelations` (process trees) are
computation over trees with recursive operators; only TLC's `MCHunt` has them.

### The consoles (`MCConsoles`)

One behaviour takes one of 31 parts. Each module models the server behind its pages as far as
they reach it. Fourteen parts are those of `Consoles`, the specification the proofs are about: eight
whose server keeps something, and the screens files, assets, logs, shell, overview and tail.
`MCConsoles` extends it, so that TLC runs its `Init` and `Next`, checks its `ServersTrue` and
`ScreensTrue` and evaluates the assumptions of the proofs. The other parts share the variables
that are called the same, since only one of them runs, and take the slots `s1`, `s2`, … for the
rest. `RouterControl` and `AgentLifecycle` are taken with
other constants too (policy, restart, enrolment, updates), so that one part need
not have everything at once; their promises are among `ResultsTrue` there.

| module | of | parts |
|---|---|---|
| `ConsoleShell` | session, menu, workspace loads, alerts (`App.tsx`, `AlertsView.tsx`) | shell |
| `AssetConsole`, `AssetFiles` | fleet list, detail and forms; file manager over its command queue, with the agent's files | assets, files |
| `Overview`, `FleetFigures`, `TrafficFigures`, `SocketGroups` | command centre; ranks, totals and groups | overview, fleet, traffic, sockets |
| `LogViews` | the four views that read one page under filters | logs |
| `Vault` | secrets a statement at a time, reveal dialog | vault |
| `SignConsole`, `SignKeys`, `SignServices` | CastrelSign's session and dialogs; keys; services | desk, keys, services |
| `StudioTests`, `StudioDesk`, `SnmpForm`, `LiveTail` | Pipeline Studio's tests; pages with unsaved edits; SNMP rows and MIB import; web socket | studio, samples, mapping; list, pages, schema, templates, settings; entries, oids; tail |
| `RouterControl` | panel, command, task, claim, agent's journal, router (external) | router; restart, policy |
| `AgentLifecycle` | tokens, certificates, block, update policy, page | agents; enrolment, updates |
| `Updater` | staging, replacement, probation, roll-back | update |
| `KmsStore` | database, checkpoint, archives, copies put back | store |

A handler of a page is a record of what it will do after its next await; answers come in any
order unless the page numbers its requests.

## 5. The runs

| run | what it shows |
|---|---|
| `spool_retention` | At its limits, with expiry, rejection, roll-back, a clock set back, a crash between any two file operations and any of them failing: `NoSilentLoss`, `NothingStranded`, `OldestFirst`, and the contract. |
| `spool_restarts` | Opening over a `queue.ndjson`, killed twice at any step, with a damaged record, a refused one and just enough room for a diagnostic: the invariant of the proofs, `DiskBounded`, `Drains`. |
| `output_core` | One chunk delivered twice, one failure, replies lost, one close or death: `NothingVanishes`, `ChunkOnce`, `HalfWrittenRetained`, `RetryArmed`, `Settles`. |
| `output_limits` | Uneven sizes against every limit, the retry queue's bytes among them, two failures: `MemoryBounded`, `CanonicalWhole`. |
| `ingest_delivery` | Two agents, timeouts, broken connections, a reload: `AckedTaken`, `TakenOnce`, `Unbroken`. |
| `ingest_restarts` | A death of the log parser and two hopeless batches through a queue of one batch: `GivenUpOnlyHopeless`, `Delivered`. |
| `ingest_reload_drops` | *Finding.* A reload drops acknowledged batches (`ReloadDrains`). |
| `identity_commit` | Three kinds of installation, two failures and two deaths: the contract, `AnswerTrue`, the invariant of the proofs, `Recovers`. |
| `collection_cycles` | Three cycles with a concurrent sender, one failure, one crash, one merge: the invariant of the proofs, `NoLineSkipped`, `FileHonest`, `WatermarkWhole`, `DashboardTrue`. |
| `hunt_console` | Every part of the hunt console with its server: `JobTruth`, `EditorTrue`, `IndependentReview`, `ApprovalsEarned`, `WhatIsShownIsMeant`, and of its steps `EndsStay`, `ActsOnWhatWasShown`, `AlertsWhileActive`. |
| `hunt_ends` | With a restart and a lost request, every query ends, the view unlocks and no run holds a rule for ever (`Finish`). |
| `consoles` | The other consoles one view at a time: `ScreensTrue`, `ResultsTrue`, `ServersTrue`, each the conjunction of what its parts promise. |

Deadlock is checked where the system never stops (`spool_*`, `identity_commit`). The other
instances end by design: their events, cycles, batches or requests are used up and nothing is
left to do. Each property has a mutant in `PROJECT.json`, a plausible bug in one mapped
definition under which its run fails.

## 6. Bounds and why they are enough

- `spool_retention`: 3 names, 2 records, 4 bytes, ages of one tick, 1 crash, failing file
  operations. Two records are the least for an order, a third name for one that arrives
  when the queue is full; the byte limit is met by a record that grows by its reason.
- `spool_restarts`: 9 names (2 of `queue.ndjson`, 6 for diagnostics: a quarantine may start
  anew after every crash), 3 records, 2 crashes, no failing operations: those are in
  `spool_retention`; the liveness property needs them to stop.
- `output_core`: 1 chunk of 2 items with different tables, each delivered twice, 1 failure,
  1 stop. Half written needs two tables, incomplete two items, redelivery two copies.
- `output_limits`: 2 chunks and a legacy event, sizes 1 to 5, 2 failures, so that every limit
  is met and each may be met while another failure is being handled. The retry queue holds 2
  events or 5 bytes: small events fill it by their number, large ones by their bytes while
  there is room for another, and one alone is larger than the limit.
- `ingest_delivery`: 2 agents × 2 batches × 2 items, the last batch one its agent refuses to
  send, a queue of 3, which two batches do not fit in together, 2 connections an agent,
  1 trouble, 1 close. The memory (3) holds all the batches the server can see, as the
  code's (50000) holds those of its threads; that a key is forgotten after very many other
  batches, and its batch then taken twice, is how the code is meant.
- `ingest_restarts`: 2 × 2 × 1, a queue of 1, 1 trouble, 1 crash, for the liveness property.
- `identity_commit`: 3 files, 2 enrolments, 3 initial installations, 2 failures, 2 deaths: one
  may hit the commit, the other the recovery from it.
- `collection_cycles`: 2 keys with 1 payload or gone, 1 item a chunk, a full snapshot every
  second cycle, a log read every second cycle, 3 cycles, 2 changes, 1 line, 1 failure, 1
  crash, 1 merge; symmetric in the keys. Two keys are needed to split a snapshot over two
  chunks, three cycles for full, delta and the full one that must heal it.
- `hunt_console`: two query rows of one user who may have one active row, a pool of one thread,
  two pages, two runs or else one run with a loss; one case of a colleague for a review and
  two of the analyst's own, one unsaved, up to version 3, and one or two questions on their
  way; a rule that needs one complete run, two queries, one restart with a new definition, 4
  changes; two exceptions, one of them one's own; trees of at most 4 nodes and depth 2. Two of
  each is what it takes for an answer to be about the other one.
- `hunt_ends`: the parts with liveness, one restart, one loss.
- `consoles`: one or two assets, paths, secrets, keys, components, tokens or agents, and one or
  two handlers at a time, as `MCConsoles` names them part by part; `KmsStore` with logs of 3
  entries and a fault, `Updater` with 2 updates, a fault and a death. Two handlers are the
  least that overtake each other; a part with one handler has other actors beside it.
- Counters named `Max…` that the code does not have (`MaxCrashes`, `MaxFaults`,
  `MaxFailures`, `MaxTroubles`, `MaxStops`, `MaxCloses`, `MaxClock`, `MaxCycles`,
  `MaxChanges`, `MaxLines`, `MaxMerges`, `MaxRuns`, `MaxLost`, `MaxAsks`, `MaxReadings`,
  `MaxLoads`, `MaxTasks` and so on, and `Slots`, `Copies`, `Batches`) bound the instance;
  the theorems hold for every value of theirs.

## 7. Fairness and why the code justifies it

- `Spool!LivenessSpec`: weak for a call that holds the mutex and for the start of a stopped
  process (systemd `Restart=always`, agent/README.md:1095); strong for the clock and for the sender's calls,
  because its loop competes with the others for `q.mu` and comes back after every backoff.
- `OutputDelivery!LivenessSpec`: weak for the threads, the scheduled retry, the flusher and
  the age of a group; strong for `Call`, which waits for the monitor against a flusher that
  sleeps between its ticks (`scheduleWithFixedDelay`). Nothing has to fail, arrive or stop.
- `TcpIngest!LivenessSpec`: weak for each agent's flush loop, each connection thread, the
  input thread and the reopening after a reload. Nothing is assumed of the network, whose
  troubles are bounded in number.
- `Identity!LivenessSpec`: weak for the steps of a call and for `RecoverEnrollment`, which
  runs at every start and in the maintenance loop with backoff.
- `HuntConsole!Finish` (`MCLiveSpec`): weak for the dispatcher's scheduled scan, the pool's
  threads, the retention and the recovery at a start; for the view's poll, the serving and the
  receipt of a message; for the rule's tick every three seconds, its minutes and the end of
  its queries (which the statement timeout of the database enforces). Nothing is assumed of
  people, and lost messages are bounded in number.
- `Collection`, `KmsStore` and the consoles have no fairness: only safety is claimed there.

## 8. The proofs

All proofs are checked by tlapm with SMT, Zenon and, for temporal steps, LS4. They rest on
the named assumptions of the constants (`SpoolAssumption`, `ClickHouseAssumption`,
`DeliveryAssumption`, `IngestAssumption`, `IdentityAssumption`, `CollectionAssumption`,
`JobsAssumption`, `LimitsAssumption`, `ViewAssumption`, `CasesAssumption`, `RulesAssumption`,
`ServersAssumption`, `ScreensAssumption`), which TLC
evaluates in the passing runs, and on the hypotheses that a theorem states itself. The latter
are named in this table, with what they leave out.

| theorem | property | hypothesis |
|---|---|---|
| `SpoolProofs!NeverLost`, `NeverStranded` | `NoSilentLoss`, `NothingStranded` | |
| `SpoolProofs!PeekInOrder` | `OldestFirst` | |
| `SpoolProofs!PeekIsFresh` | `FreshOnly` | `NamesInOrder`: names in the order of their times |
| `SpoolProofs!DiskStaysBounded` | `DiskBounded` | no failing file operation; `LegacyFits`: `queue.ndjson` within the limits, since its migration makes no room |
| `SpoolProofs!QueueKeepsContract` | `ImplementsContract` | |
| `OutputProofs!OnceInEachTable`, `ChunksWhole` | `ChunkOnce`, `CanonicalWhole` | |
| `OutputProofs!WithinLimits`, `NoneVanishes`, `HalfWrittenHeld` | `MemoryBounded`, `NothingVanishes`, `HalfWrittenRetained` | |
| `OutputProofs!RetryScheduled` | `RetryArmed` | `HotAdd = FALSE`: the output is not added while events flow (see 9) |
| `TcpIngestProofs!NothingLetGoUntaken`, `NothingGivenUp`, `BatchesUnbroken` | `AckedTaken`, `GivenUpOnlyHopeless`, `Unbroken` | |
| `TcpIngestProofs!NoneTakenWhileRemembered` | `KnownStaysOut` | |
| `TcpIngestProofs!TakenAtMostOnce` | `TakenOnce` | the batches that can be delivered fit the memory of `RecentLimit` (50000 in the code) |
| `IdentityProofs!AnswersHold`, `AlwaysRecoverable`, `Implements` | `AnswerTrue`, `Recoverable`, `ImplementsContract` | `MarkerSyncFails = FALSE` (see 9) |
| `CollectionProofs!NoGap`, `SnapshotsWhole` | `NoLineSkipped`, `WatermarkWhole` | |
| `CollectionProofs!FileTells` | `FileHonest` | `StateSyncFails = FALSE` (see 9) |
| `CollectionProofs!DashboardShows` | `DashboardTrue` | the same, and `SplitInstant = FALSE` (see 9) |
| `HuntProofs!TableIsTrue`, `EndsAreFinal`, `EndsAreKept` | `JobTruth`, `FinalStays`, `EndsStay` | |
| `HuntProofs!EditorIsTrue`, `ReviewIsIndependent`, `ApprovalsAreEarned` | `EditorTrue`, `IndependentReview`, `ApprovalsEarned` | |
| `HuntProofs!ActionsAreInformed`, `AlertsAreOfActiveRules` | `ActsOnWhatWasShown`, `AlertsWhileActive` | |
| `Consoles!ServersSafe` | `ServersTrue` | `ServersAssumption`: lists are sequences, bounds numbers, a page has a row, the first binary is a binary, what is signed is no backup; and `SyncFails = FALSE` of `Updater` (see 9) |
| `Consoles!SecretsTrue`, `KeysSafe`, `SessionsTrue`, `CertificatesTrue`, `CommandsTrue`, `AgentsTrue`, `UpdatesTrue`, `NothingOlder` | what `ServersTrue` says of one part | its part of the same |
| `Consoles!ScreensSafe` | `ScreensTrue` | `ScreensAssumption`: what stands for no asset or no alert is none, and there is the empty search, under which every host is listed |
| `Consoles!FilesTrue`, `FleetTrue`, `LogsTrue`, `ShellHolds`, `OverviewTrue`, `TailStays` | what `ScreensTrue` says of one part | its part of the same; of files, logs and Live Tail none |

Type correctness and the inductive invariants are theorems of their own (`TypeCorrect`,
`Inductive`, `Consistent`, `CasesStayTrue`).

**Spool.** `NoSilentLoss` alone is not inductive: when a file is about to be removed, one must
know that it was written elsewhere before. `IInv` adds `StepsOK` (at `unlink` the dead letter,
or the diagnostic, is in place; at `retire` every legacy record is in the queue), `CallsOK`
(which steps belong to which call) and `Indexed` (without failing operations the index misses
no file). Three layers stand on it: `NInv` (`FreshOK`: a name
is written once, so that what is queued, delivered, dead or diagnosed was used before;
`MovesOK`: the record a call moves stays in `queue/` until the call removes it) carries the
refinement and, with `PInv` (`AcceptedIndexed`; `InOrder`: a scan takes the names in order and
leaves none out), `OldestFirst`; `BInv` (`QueueFits`, `RoomKept`, `SettledFits`: between making room and the
write nothing else takes the room) carries the bound on the disk. For the refinement each
file operation is a stutter of the contract except the rename into `queue/`, the removal, the
rename into `deadletter/` and the removal there; `Standing` says what a record's status is in
each step of a call.

**Output.** `Core` is the shape of everything: which thread is where (`TurnOK`, `WorkTypeOK`),
what a group holds (`Shape`), and `TokensOK` with `WrittenSoFar`: a canonical table has the
rows of a chunk, once each, exactly if ClickHouse remembers the token, and a write has put its
records into every table it has left behind. `ChunkOnce` and `CanonicalWhole` follow from it. `Limits`
says what each step of making room still has to do, and of the retry queue that its events and
their estimated bytes are within their limits: appending adds one estimate, taking the head
removes one (`QueuedAppend`, `QueuedTail`). `Scheduled` is the argument for recovery:
whoever leaves something in the retry queue has scheduled a retry or holds the lock and will.
`Accounted` (with `QuietOK`, `BestOK`, `SentOK`, `GoneOK`) says of each event in whose hands it
is: queue, buffer, call, table, DLQ or counted as rejected; no step lets go of the only copy.

**TcpIngest.** `IInv` follows one batch from the client's `Write` to the reply: what a link
carries is a batch of its agent; an acknowledgement on the way, in a thread or read stands for
a batch in `taken` (`TalksOK`, `EndOK`); the holder of `enqueueLock` is the thread that adds
and what it has added are the last items of the queue (`LockOK`), which gives `Unbroken`.
`TakenOnce` needs `MemoryOK`: the memory of recent batches holds all that were taken until it
is full, hence the hypothesis.

**Identity.** `MarkerKept` says which steps may run under the marker and that the marker
vouches for a backup of every file; `FilesKept` how far each file is when a loop has passed it;
`CallKept` that the bundle in force is the old one until the marker goes. Each step leaves
`Current` as it is, except the removal of the marker after the commit, the contract's `Commit`.

**Collection.** A pending cursor is the danger: it survives a failed cycle, and the next cycle
may not read the log. `PendingBehind` says that it is behind lines that are enqueued or being
enqueued, or else that the log is due again before the next commit; `Kept` leaves out the
records of a cycle that may still be undone. `WInv` adds
`FullCounts` (an item of a full snapshot carries the number of entries that were collected) and
`Ordered` (where a tombstone of a full snapshot is, each of its entries has arrived or is ahead
of it), so that a snapshot that counts as complete is. `SInv` adds `Sayings`: `Reporting` (the
running cycle reports its cache where it differs from the one before), `Honest` (the newest
that was told of an entry and stands is what the state file says, unless a newer row that does
not stand replaced it in a merge) and `FullThere` (without a merge the last full snapshot is
all there). The newest row is chosen through the well-foundedness of the natural numbers.

**Hunt console.** `Records` (what claims to run has a thread, exceptions are recorded for kept
results) and `Bounded` (the two limits
of the API and the pool, by cardinalities) hold of the table. `ViewInv` says of each message
and of the screen what is true of the table: an end that is told is the end of the row, which retention at most
deletes; no two answers tell different ends (`EndsAgree`), none another one than is shown
(`EndShown`), and one poll at most is under way (`OnePoll`), so that an end once shown is never
taken back. `CaseInv` has `RecordInv` (who may have written, what was
approved, the text of each version) and `EditorInv` (every answer on its way is sound for the
selection it was asked for, or will be discarded). `RuleInv` follows a run from its claim to
its publication (`RunTrue`, `TickTrue`): what is recorded was asked for under the rule's present
observation. `ApprovalInv` says that the panel's item is the exception as it was when read, so
that a decision with its version is on what was shown. A step of one part stutters the others,
which gives the theorems about `ConsoleSpec`.

**Servers.** Each component's module ends with the invariant its proof keeps; `Consoles` has one
lemma for each of its steps. *Vault* (`VaultInv`): the versions of a secret are numbered without
a gap and a transaction under way holds the number after the last; a version that was read as
current was so since the request was made. *SignKeys*: `KeysTrue` is inductive. *SignConsole*
(`DeskInv`): what a request under way was asked for, page, user and the row after which a page
of the audit begins. *SignServices* (`ServicesInv`): a transaction that began before others
committed reads what is so still or will not commit (`ReadIsSo`, `AllBehind`). *RouterControl*
(`RouterInv`): what the rows of the manager and of CastrelSign, the agent's journal and the
router say of a command is one of the points of its life (`BackendInv`); a change is carried out
once because it is in the journal before it begins (`RunsTrue`); the panel holds what it was
told (`PanelInv`). *AgentLifecycle* (`LifecycleInv`): of an agent's certificates the last is in
force, none while it is blocked; a certificate after a revoked one used up a token; CastrelSign
forgets no agent (`Grows`), so that what the page was told of one was so. *Updater*
(`UpdateInv`): between two operations the binaries and the state file are at one of the points
`DiskTrue` lists, and a write that dies half way leaves them at one, so that the next start's
reconciliation begins there. *KmsStore* (`IInv`): logs are ordered by prefix; what was told is
in the checkpoint; while the service runs its database is in the checkpoint too, since a
transaction moves the checkpoint first; and what passes the check has the checkpoint in it. A
behaviour of `Consoles` is one of one part, so that `ServersInv` is the parts' invariants and a
step is one of the part that runs.

**Screens.** What a screen promises is seldom inductive, since it follows from what answers may
do that have not arrived. *AssetFiles* (`FilesInv`): a list that has been read is that of the
folder it was asked for, and list, folder and selection change together; what the agent makes of
a command, late or in part, changes the files and no screen. *AssetConsole*
(`AssetInv`): the detail is asked for the asset that is selected, the router's panel is bound to
none or to it, and what is saved has the asset whose text was edited; the selection itself may be
moved by any load. *LogViews* (`LogInv`): a request that counts was asked for under the present
filters, so that whatever else arrives is dropped. *ConsoleShell* (`ShellInv`): the requests of
the alerts view are one at most, and it is of the alert whose buttons are locked. *Overview*
(`OverviewInv`): the live request for a detail is for the asset in the inspector. *LiveTail*
(`TailInv`): no two sockets are the page's, and one is exactly while the setting is read as
enabled and no timer runs; the cardinality in `TailTrue` is that of a set with one member or none.

**Only model-checked.** Liveness under fairness (`Drains`, `Settles`, `Delivered`, `Recovers`,
`Finish`) and anything with ENABLED are out of the prover's reach. `WhatIsShownIsMeant` is about
trees whose meaning is defined by recursion; `ResultsTrue` about ranks, totals and groups, the
Studio's tests and pages and the SNMP form, which are sorts, folds and filters over sequences
(the order of the steps, the rows of a page, the names that are still free): all of it needs
induction over data. The four parts in `ResultsTrue` that are `RouterControl` and
`AgentLifecycle` with other constants are covered by `CommandsTrue` and `AgentsTrue`. These are
bounded results.

## 9. Findings

`ingest_reload_drops` is expected to fail; `PROJECT.json` quotes the text it contradicts.
Closing the input adapter throws its queue away, and a thread that outlives it acknowledges
what it adds to the dead queue.

The following were seen while modelling. Those with a constant in parentheses are reproduced by
giving it that value; the named properties are stated in the modules.

*Agent.* A leftover `.tmp` of a dead letter blocks burying that record for ever. With
`MarkerSyncFails = TRUE` a marked transaction may lose its backups; with `StateSyncFails = TRUE`
the state file keeps what was never reported. Updater with `SyncFails = TRUE`: a replacement
that was made and reported as failed leaves the unproven binary in place without a probation,
and a later check copies it over the good previous one (agent/README.md:869); a roll-back
whose replacement fails once is given up, and what fails at a start is never reported.

*Log parser.* An output added while events flow never starts to send what it was given before
its worker started (`HotAdd`). A legacy event is stored twice when it is in the batch of a
failed flush that ClickHouse applied. `ConfigManagementService.java:60,138,205,335` set the
version that was read, so that the optimistic lock does not protect editors.

*Dashboard.* Two clock readings of one cycle may fall into two milliseconds, and the query then
drops the rows of a full snapshot (`SplitInstant`). A background merge that drops a replaced
row of the newest full snapshot makes it count as incomplete, the watermark falls back, and
entries whose tombstone was refused reappear.

*Hunt.* `HuntQueries.EventOfShownJob` and `HuntCaseEditor.LockMatches`
(`HuntCaseCollaboration.tsx` about line 260) do not hold; a late answer to a cancel of one query
aborts the poll of the next; a query cancelled when it is already complete is shown without its
page; a poll that fails leaves the view busy until it is cancelled; saving a lookup drops a
newer draft; the server trims the search text, so that "not run" stays for ever.

*Manager's consoles.* The file manager's double click is not held back while it is busy, so
that handlers overlap: a reload may jump back, a late paste clears a newer clipboard. Answers
for an older range may overwrite newer ones, and old data stay after an error. Edit forms save
stale text over others'. Acknowledging an alert that was resolved elsewhere takes it back.

*CastrelSign.* A compromised key can come back (`SignKeys.CompromisedForGood`), a revoked
release too (`SignServices.RevokedForGood`, against Operations.jsx:602), and permissions may be
lost in an update (`SignServices.PermissionsStay`). `ReactivatedEnrolsAnew` does not hold: an
agent may be PENDING with an active certificate. A load moves the selection and overwrites
unsaved edits of the policy. An answer 401 to an unsignalled request logs out whoever has
logged in since. The key store stays closed for ever after a death between checkpoint and
commit, by intention (KMS_OPERATIONS.md:168).

*CastrelVault.* Concurrent rotations may leave the older version current; a one-use token may
be shown under another principal.

*Router.* A task that was carried out may be told as "expired before execution"
(`RouterControl.ExpiredUntouched`); an UNKNOWN of the manager is final although the task may
complete; a report for an expired task ends the agent's round.

*Log parser's console.* An older inventory may overwrite a newer one; a late save closes
another component's editor; a failed refresh drops unsaved drafts; edits may go unnoticed when
the type changes (`StudioDesk.EditsKnown`); `StudioTests.DownstreamForgotten` and `OrderShown`
do not hold; Live Tail may show events twice or out of order.

## 10. What is not modelled, and why

Components: those with status `not_modelled` in `PROJECT.json`, with the reasons there: they
keep no state between calls, or their steps are I/O or pure functions. Server parts known but
left for later: the dispatcher's queue, cancellation and roll-back of `PipelineReloadService`,
`RouterInbox`, the merging of alerts by `HuntEpisodes`, CastrelVault's access cache (section 2).

Within the modelled ones:
- power loss, which undoes a rename whose directory was not synced: a crash here kills the
  process and leaves the files as they are;
- the bytes of a leftover temporary file, and one left in the identity directory;
- `Spool`: several processes over one directory (the code does not lock it);
- `ClickHouseOutput`: the synchronous router-event path, schema creation, a chunk whose
  items disagree on their count, the DLQ's byte limit, expiry of ClickHouse's memory of
  tokens, an event the sink refuses for good (failures are bounded in number);
- `OutputDelivery`: the fan-out over several outputs, an old adapter that still runs beside
  its replacement. The runs have no event whose payload cannot be made
  (`Unserializable = {}`): ProcessingDispatcher.java:190 makes it before it delivers, so that
  `enqueue` finds it made, and an event that is always refused only takes behaviours away;
  the theorems hold for any such set. That `send` fails for such an event is one of its
  failures;
- `TcpIngest`: the content of frames (acceptable or not), a handshake in which the server
  stays silent, the plain HTTPS client of `sender.go`;
- `Identity`: key generation, certificate checks (accepted or refused), the enrolment
  requests, Windows tombstones;
- `Collection`: what the collectors read, log rotation and the first tail of 50 lines, an
  unreadable state file, clock steps within a process;
- hunt console: the SQL of scenarios, episodes, exports, redaction, read models;
- `AssetFiles`: names tell folders from files, so that renaming keeps the kind; links, sizes
  and the temporary file of an upload; a folder copied in part, where the agent stops within
  a path (it stops between paths). An agent that may not delete refuses, as any command may;
- `AgentLifecycle`: tokens of more than one use (EnrollmentTokenService.java:28; the console
  makes them for one), so that nothing is said of a token two agents share;
- `HuntRules.List`: rules whose owner is disabled or a VIEWER are not skipped
  (HuntRules.java:166): the model runs more than the code;
- `HuntQueries.Fail`: a failed query's row is marked and its number leaves `running` in one
  step (HuntJobs.java:304-317 takes two), and marking the row does not fail itself;
- consoles: charts, layout, wording, forms of single adapters, the set-up wizard, the lists
  that are only shown (audit, history, attempts), roles other than the two that differ;
- `KmsStore`: the wrapping key, PKCS#11, the officers' second factor;
- `RouterControl`: bind, mode, backup, restore, audit; `Updater`: the Windows helper,
  signatures, the disabled updater, late reports that overwrite a final status.

## 11. Running it

    tlc -workers 2 -config spool_retention.cfg Spool        # and so on, see PROJECT.json
    tlc -workers 2 -config consoles.cfg MCConsoles
    tlc -workers 2 -config hunt_console.cfg MCHunt
    for m in SpoolProofs OutputProofs TcpIngestProofs IdentityProofs \
             CollectionProofs HuntCaseProofs HuntProofs Consoles; do tlapm $m.tla; done

Runs of single parts: give `Parts` in `consoles.cfg` or `hunt_console.cfg` fewer members.
