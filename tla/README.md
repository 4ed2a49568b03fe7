# A TLA+ development for Mossward

Mossward is a vulnerability-management server with endpoint agents, relays and
remote scanner workers. This directory holds TLA+ modules translated from its Go
code, TLC configurations that check them on small instances, and proofs that
TLAPS checks for every value of the constants. `PROJECT.json` lists the
components, the runs, the mutants that show each property can fail, the source
lines each definition stands for, the hazards and the theorems.

## 1. The system

One server process keeps everything in a SQL store (SQLite, or PostgreSQL with a
twin of each operation). Around it:

* **Remote scans.** A scan launched for another network becomes a signed *job*.
  `scanlaunch` saves the scan and asks the *dispatcher* (`workerjob`) for a
  worker. The dispatcher chooses a fresh worker with free capacity and inserts
  the job. A *scanner worker* (`workerapp`, `workerclient`) polls for it over
  mutual TLS and receives a *lease*: a fresh secret with an expiry. It claims the
  job in its replay ledger, inspects each target-and-port pair (a *check*), and
  queues one signed *evidence batch* per check and finally a *receipt* in an
  encrypted outbox that is forwarded in order. The handlers in `agentidentity`
  authenticate the worker and call the store, which accepts evidence by sequence
  number, completes the job and *projects* the evidence into the scan. A lease
  that runs out is released by the next poll; an abandoned job may be reassigned
  to another worker with a signed manifest of what the server already holds; a
  job leased three times is quarantined as a dead letter.
* **Local scans.** `scanner` runs a queue of scans on local goroutines;
  `scheduling` starts recurring scans and pauses and resumes them at the edges of
  maintenance windows.
* **Endpoint agents.** `agentapp` checks in, renews its certificate, collects
  inventory and hands updates to `agentupdate`, which stages, activates, confirms
  or rolls back a binary. Modules run in a sandboxed host.
* **Relays.** `relaytransport` keeps a persistent queue with leases and fails
  over between routes; `relaywindow` and `relayheartbeat` decide when an endpoint
  may upload and when a missing heartbeat raises no alert.
* **People.** `auth` and the identity tables hold sessions, lockout, multi-factor
  ceremonies and invitations; `api` exposes everything; `notification` sends
  reminders.
* **Operations.** `serverbackup` saves and restores the files of a server,
  `auth/secretbox.go` rotates the key of stored secrets, `datamigration` moves a
  SQLite store to PostgreSQL.

The table `components` of `PROJECT.json` lists every part with its files.

## 2. Modules

| module | what it is | code |
| --- | --- | --- |
| `WorkerJobs` | the server's side of remote scans: job table, handlers, dispatcher, launcher, cancel, projection, restart | `store/worker_*.go`, `agentidentity/worker_*.go`, `workerjob`, `scanlaunch`, `scanner.Cancel` |
| `WorkerProtocol` | the worker composed with `WorkerJobs`: cycle, outbox, ledger, executor, renewals, and an unreliable network | `workerclient`, `workerapp` |
| `ScanEngine` | local scans: queue, run, windows, cancel, shutdown, scheduler's resumption, restart | `scanner`, `scheduling/runner.go`, `api` (launches), `store/sqlite.go` (`Save`, `ReconcileInterrupted`) |
| `AgentUpdates` | one endpoint's updates: catalog, assignment, check-in, the updater on Unix and Windows, the Windows helper, crashes | `agentupdate`, `agentupdatecatalog`, `mossward-agent-updater`, `agentapp/update.go`, `store/agent_update*.go` |
| `InstalledAgent` | abstract: what updating an agent promises | |
| `EndpointIdentity` | enrollment, certificates, check-ins, integrity snapshots, maintenance and alerts | `agentidentity/service.go`, `agentapp`, `store/endpoint*.go` |
| `RelayQueue` | the store-and-forward queue and its counters | `relaytransport/queue.go`, `protocol.go`, `telemetry.go` |
| `RelayRoutes` | failover between approved routes | `relaytransport/failover.go` |
| `RelayPolicies` | upload windows, the gate and heartbeat grace, against a definition by intervals | `relaywindow`, `relayheartbeat` |
| `SqliteSchema`, `PostgresSchema` | every migration as the tables and columns it adds | `store/*_schema.go`, `store/sqlite.go`, `store/postgres.go` |
| `DataMigration` | schema start-up of both stores and the copy from one to the other | `store/sqlite.go`, `store/postgres.go`, `datamigration` |
| `StoreRows`, `SqlStatements`, `PostgresSession` | rows, statements, and PostgreSQL at READ COMMITTED (external) | |
| `AccountStore`, `FleetStore`, `AssetStore`, `JobStore` | the writing calls of the SQLite store as functions of the database | `store/*.go` |
| `PostgresAccounts`, `PostgresFleet`, `PostgresAssets`, `PostgresJobs` | the same calls as the statements PostgreSQL runs | `store/postgres_*.go` |
| `ServerRecovery` | database, log and key files; backup, restore, key rotation, crashes | `serverbackup`, `auth/secretbox.go`, `store/identity_rotation.go`, `cmd/mossward` |
| `WorkerJobsProofs` | theorems about `WorkerJobs` and their proofs | |
| `WorkerProtocolSteps`, `WorkerProtocolProofs` | theorems about `WorkerProtocol`, among them that it implements `WorkerJobs` | |
| `ScanEngineProofs` | theorems about `ScanEngine` | |
| `AgentUpdatesProofs` | theorems about `AgentUpdates`, among them the refinement of `InstalledAgent` | |
| `AgentSideProofs` | theorems about `EndpointIdentity`, `RelayQueue` and `RelayRoutes` | |
| `DataMigrationProofs` | theorems about `DataMigration` | |
| `ServerRecoveryProofs` | theorems about `ServerRecovery` | |
| `MCWorkerJobs`, `MCWorkerFleet` | instances of `WorkerJobs` | |
| `MCWorkerProtocol`, `MCWorkerFaults` | instances of `WorkerProtocol` | |
| `MCScanEngine` | instances of `ScanEngine` | |
| `MCAgentSide` | `AgentUpdates`, `EndpointIdentity`, `RelayQueue`, `RelayRoutes`, `RelayPolicies` in one run | |
| `MCPostgresStore`, `MCServerSide` | every two calls of the store; with `DataMigration` and `ServerRecovery` in one run | |

### WorkerJobs

State, one variable per table or thread:

| variable | code |
| --- | --- |
| `now` | the server's clock |
| `enabled`, `workers` | the global dispatch switch; `scanner_workers` (revocation and the per-worker switch) |
| `jobs` | `scanner_worker_jobs`, a record per row |
| `lastToken` | lease secrets are random and never repeat: they are numbered in the order they are drawn |
| `assignments` | `scanner_worker_job_assignments`, newest last |
| `batches`, `checkpoints` | the evidence tables |
| `deadLetters` | `scanner_worker_dead_letters` |
| `scans` | the columns of `scans` that remote work touches |
| `projections` | results committed and not yet projected by their handler |
| `launching`, `dispatcher`, `canceling` | the threads of the server between two of their transactions |

One action is one transaction, together with whatever its handler does that no
other thread can see. What happens in separate transactions is separate: the
dispatcher's reads and its write (its mutex keeps two dispatchers apart, not a
dispatcher and a poll), the commit of a result and its projection, the read of a
scan in `Cancel` and its save, the list of paused scans and their relaunch.

A handler reads the clock *before* its transaction. `Captured` is the set of
readings a transaction may still carry: at most `MaxDelay` old. The proofs assume
`MaxDelay < LeaseLifetime`, that is, no request waits longer inside the server
than a lease lives.

Batches and receipts come from the sets `Batches` and `Receipts`: in `WorkerJobs`
alone a worker may send *any* of them at any time, so repeated, reordered and late
messages need no network.

### WorkerProtocol

`WorkerProtocol` extends `WorkerJobs` and restricts who sends what: batches come
only out of an executor, receipts only out of `executeLease`, both through the
outbox. `client[w]` is the place the worker's process has reached:

`waiting` → `draining` (forward what is left) → `polling` → `claiming` (ledger) →
`running` ⇄ `emitting` (one batch queued and one forwarded) → `finishing` →
`closing` (receipt queued, forward all) → `waiting`.

`outbox` and `ledger` survive the process. A request meets one of four fates:
answered; handled and its answer lost; lost; or handled after the sender has
given up (`late`). `Stop` is SIGTERM, `Kill` a crash, `ServerRestart` a restart
with `ReconcileInterrupted`. `MaxFaults` bounds them. `emitted`, `projected`,
`inspected` and `interrupted` are history variables.

Abstractions to know about:

* the dispatcher's several reads are one step and its write a later one;
* a projection's read and save are one step;
* heartbeats are inputs: `Heartbeats` are the reports a dispatcher may find;
* certificate checks are folded into `workers[w].active`;
* where SQL orders by columns that may tie, the model leaves the choice open;
* worker and server share a clock;
* a storage error answers 503 and changes nothing: it is a lost request;
* the outbox is bounded by its number of messages, not by bytes, and the limit of
  100 messages per forward is never reached;
* a job with nothing left to do does not occur, since the dispatcher refuses to
  reassign a job whose checks are complete.

`Dispatcher.ReassignExpired` has no caller in the server binary at this revision;
only tests call it, and the project's README presents it as a capability of the
dispatcher. It is modelled as an operation the server may invoke.

### ScanEngine

`stored` is the store's rows, `queue`, `active` and `canceled` are the engine's
fields, `stopCtx` the context of the running scan. Threads that hold a *copy* of a
scan between two of their steps are explicit, because every writer saves the whole
scan: the engine's goroutine (`run`), a launch (`launch[s]`, a request or the tick
of the scheduler) and a cancel (`cancels[s]`). The engine's mutex is held by a
launch between its save and its enqueue; `Unlocked` is the guard of everyone else
who takes it. `run.phase` goes

`idle` → `taken` → `begun` → `probing` (checks dispatched, in flight, recorded or
discarded) → `settling` → `concluding` → `ending` → `idle`, or `taken` → `dropping` → `idle` for
a scan canceled in the queue; after Shutdown `returned` ⇄ `drained`.

Where Go's `select` may choose between a result and a canceled context, the model
chooses freely (`Dispatch`, `Result`, `Discard`, `Take`). `clock` counts openings
and closings of the maintenance window. `inspected` and `stopped` are history
variables. Abstractions: every scheduled scan has a policy of its own; rate limits
only delay; storage errors do not happen; observations and findings travel with
the checks they belong to; a handler may outlive the start of Shutdown, which
happens when the HTTP server does not stop in time.

When the results are closed, `run` looks at the engine's context and then at the
scan's, which a shutdown cancels as well: `Conclude` and `Settle` are two steps. A
shutdown between them saves a scheduled scan as canceled by its user instead of paused.
No property claims otherwise; it is a scan that `ScansSettle` counts as settled.

### AgentUpdates and InstalledAgent

`release` and `assignment` are the server's tables, `exe`, `pending`, `knownGood`,
`candidate` and `journal` the files of the host, `agent` and `helper` the processes
with what they hold in memory. A file is the version whose bytes it has: every
file is written under a temporary name, synced and renamed. Each rename is a step;
`Crash` may come between any two. A crash is one of the process: the code does not sync
directories, and what a power failure does to a rename that has been made is not
modelled. `platform` is chosen at the start: on Unix the
agent renames the executable itself, on Windows it leaves a `.pending` file and
launches a helper that stops the service, moves the file, watches the journal and
rolls back. The helper's decision, its later read of the journal (`RollbackCopy`) and
the save of what it read as rollback-required (`RollbackMark`) are separate steps, as in
the code.

`InstalledAgent` says what all this is for: the installed program changes only to
a newer approved release, or back to the one it replaced. The refinement mapping
(`Program`) takes `exe` for the installed program, the approved and later revoked
versions for the released ones, and the journal's previous version for the
fallback while the journal still knows it. On Windows the mapping is not claimed:
the helper may restore an older program after a commit (`finished_updates`).

### EndpointIdentity

A request is a record of `flights`: its handler runs on after the client has given
up, one store call per step. Certificate *n* is the one issued for the *n*-th key.
The agent's two identity files are renamed one after the other, so a stop in
between leaves a key without its certificate.

`Alerts` is what the list of endpoints shows. Whether heartbeat alerts are enabled and
whether an upload window holds one back are its parameters, since they come from other
tables; the two thresholds are constants. `Endpoints` reads its tables one after the
other; the model reads one state. `SilenceShows` compares what is shown with `heard`, the
time at which the server last received a check-in: a handler that comes to its
store call late must not make a silent agent look alive. The converse is not claimed: an
older handler that writes after a newer one takes the heartbeat back in time.

### The relay modules

`RelayQueue` keeps the age of a frame and what is left of a lease instead of a
clock. Its table is a function from `message_id`, the primary key, to rows; the
`rowid` SQLite gives a row (one more than the largest, up to `MaxRowid`) is a column,
because `Claim` orders by it. Nothing in the binaries runs the queue at this revision; senders, uploaders
and the purge are the callers its tests have, so nothing is assumed about when they
act and no liveness is claimed. `classifyRelayHealth` takes two of the counters of a
snapshot, integrity failures and dropped records, as parameters: nothing in the queue
counts them. `RelayRoutes` records the last `answer` with what
was true when it was given. `RelayPolicies` has no behaviour of its own: a state is
a question (windows, policies, a time), and `WindowsRight` compares the code's
arithmetic with the intervals the windows stand for, over every minute of two weeks.

### The stores

A call of the SQLite store is a function from databases to databases: the store
has one connection, so its calls run one after the other. The same call of the
PostgreSQL store is a sequence of statements, each written as a function of the
answers so far. `PostgresSession` runs two of them at READ COMMITTED: a snapshot per
statement, row locks of four strengths taken in scan order, foreign-key locks,
unique keys that wait for the other transaction, re-reads after a wait, advisory
locks, and the deadlock detector. `SerializableAsSqlite` asks, when both have
ended, that answers and database are those of the SQLite calls in one of the two
orders. `MCPostgresStore` enumerates the calls of four areas over rows that hold
one of everything that can be found, used up, expired or revoked.

Not serializable, left out by name (`Excluded`) and not promised by any document:
`RecordEndpointNetworkInventory` with `UpsertThreatIndicator`, and two of the latter
(a match is computed from indicators read before); `Save` with
`UpdateFindingWorkflow` or `MergeAssets`; `PurgeExpiredEvidence` with
`ReviewFindingException`; `MergeAssets` with `RemoveAssetGroupMember`;
`ReassignScannerWorkerJob` with `RecordScannerWorkerEvidenceBatch`, which is the
run `handover`. Lease calls that quarantine a job are left out too.

`DeadlocksKnown`: PostgreSQL aborts one of two calls only for these pairs:
`UpdateUserAccess` with `DeleteSession`, `RevokeUserSession` or
`RevokeOtherUserSessions`; `AgentUpdateOffer` with `AssignAgentUpdate`;
`LinkEndpointAsset` with `MergeAssets`; two `Save`s.

### DataMigration

The migrations are data (`SqliteSchema`, `PostgresSchema`), so that the columns the
copy compares are the ones the code creates. SQLite applies one migration per
transaction and two processes may start on one file; PostgreSQL applies all of them
under an advisory lock, which the copy holds as well. A database of either kind may
be of a later release, which its server refuses. The preflight refuses a source of
another version and one whose tables have no order to copy them in (`HasCopyOrder`); a
damaged file, which its integrity checks refuse, is not modelled.

`SchemasAssumption` states what is true of the two schemas as they are written: every
migration fits the tables of the ones before it, the two schemas have the same tables
and columns, and the foreign keys of the destination form no cycle (`CopyRank`). It has
no constant of the model in it; TLC evaluates it in the run `server_side`, and a
migration that breaks it stops the run there.

`CopyWhole` looks at the committed destination: its tables are those of its version,
only the table a running server writes may have changed since, and what has not is
either untouched in every table or the source as of one moment in every table. That no
copy of a current source is refused for the schemas follows from `SchemasAssumption`, and
fails with it when somebody adds a migration to one schema only.

### ServerRecovery

`live` is the files in place, `aside` the copies a restore has moved away, `archives`
the backups. A secret is a ciphertext under a key; a rotation adds a key, rewrites
the ciphertexts and drops the old key in three steps.

Any number of maintenance commands run at once, and every step may be the last one of its
process. What the manuals say is in the guards: a rotation, and a backup of PostgreSQL,
begin with the server stopped ("Stop Mossward first" in `docs/BACKUP_RESTORE.md`,
`docs/POSTGRESQL_RECOVERY.md:18-19`), and nothing runs beside a restore ("Restoring while
a server or maintenance command is running is unsupported"). Three things that neither
the manuals nor the code exclude cost something, so the model lets them happen and
remembers them:

* `torn`, `astray`: a restore was cut short after it had taken the database away
  (SQLite) or loaded it (PostgreSQL), and a server or a command was started on what was left. On PostgreSQL the
  server then finds the restored database without its key file, makes a key of its own, and no
  key opens the restored secrets together with the new ones. On SQLite it starts a new
  database; the old one is set aside. Nothing tells the server that the restore did not
  end.
* `aligned`: a rotation was finished while a backup was between its snapshot of the
  database and its copy of the key file; that archive has a key of another time
  (`ArchivesMatch`, below). Restoring it is `astray` as well.
* two rotations at once, which is `astray` too.

`astray` never becomes false again. `SecretsReadable` and `NothingLost` are about an
installation that is not astray, and about the archives that are aligned.

## 3. Runs

| run | instance | shows |
| --- | --- | --- |
| `worker_jobs` | 1 job, 2 workers, 2 checks, stale clocks | the safety of leases, attempts, evidence, manifests, results and the scan; terminal rows, live leases and reassignments as action properties |
| `worker_fleet` | 2 jobs, 2 workers, the switches | quarantine is final, capacity is respected |
| `worker_protocol` | 1 job, 2 workers, 1 fault | no evidence is lost, none accepted twice, none overtaken by its result |
| `worker_faults` | 1 job, 1 worker, 2 faults | a job is executed once; a result is never lost between commit and projection and reaches its scan |
| `scan_engine` | 1 scheduled scan of 2 checks, 1 manual scan, queue of 1, 1 stop or crash | no scan is forgotten, held twice or completed without its checks; only a cancel takes back progress; every scan settles |
| `agent_side` | 3 versions, 1 helper, 1 crash; 1 agent, 2 keys, 2 handlers; 2 frames, 2 uploaders; 2 routes; windows in days of 3 minutes | a rollback is always possible and the journal truthful; the updater implements `InstalledAgent`; a token enrolls once, integrity sequences grow, a revoked endpoint is frozen, a silent agent is shown as silent; frames are accounted for; failover and windows are right |
| `server_side` | every two calls of the PostgreSQL store; 66 SQLite and 24 PostgreSQL migrations with 2 + 1 servers and 1 copier; 2 secrets, 3 keys, 2 maintenance processes | the calls act as SQLite's in some order; recorded versions match schemas; a copy is whole and overwrites nothing; secrets stay readable and no data is lost |

The components of `agent_side` share no state, nor do those of `server_side`: a
behaviour takes up one of them and leaves the others in an initial state, so each
run is the union of its components' state spaces, not their product.

Five runs show the code departing from what its documents say:

| run | what TLC finds |
| --- | --- |
| `outbox_drains` | a receipt whose lease has expired is refused for ever and blocks the outbox |
| `canceled_scans` | a paused scan is begun after its cancel succeeded, from the list a tick had read before |
| `resumed_checks` | a check whose inspection a shutdown cut short counts as finished: the scan skips it when resumed and completes without it |
| `handover` | on PostgreSQL, a batch of evidence that commits between the reads and the update of a reassignment is missing from the next worker's manifest |
| `finished_updates` | the Windows helper rolls back an update that was committed after the helper had decided |

### Further disagreements, without a run of their own

Each is a definition of the module named; adding it to the configuration named
makes TLC print the behaviour.

* `ScanEvidenceRetained` (`MCWorkerJobs.cfg`, as a PROPERTY): a cancel that read its
  scan before a remote result was projected saves the old copy (`scanner.go:311`).
  `README.md:296-297`: scans can be canceled "while retaining completed checks and
  collected evidence".
* `StoppedWorkStaysOpen` (`MCWorkerFaults.cfg`): SIGTERM in the middle of a job leaves
  a `canceled` receipt that closes the job at the next start
  (`workerclient/runtime.go:99`), against `docs/WORKER_DEPLOYMENT.md:70-71`.
* `CheckpointsAreFinished` (`MCWorkerFaults.cfg`): a check that a canceled context cut
  short is checkpointed like a finished one (`workerclient/executor.go:147`), against
  `README.md:351-352`.
* `ArchivesMatch` (`MCServerSide.cfg`): a backup takes the database and the key file in
  two steps (`backup.go:51-73`). TLC's behaviour has eight states: a rotation has written
  its own archive and begun, a backup takes its snapshot, the rotation
  rewrites the ciphertexts and drops the old key, and the backup archives the key file,
  which no longer opens its snapshot. `docs/BACKUP_RESTORE.md:4-7`: every archive
  includes "The matching identity encryption key required to decrypt MFA and OIDC data";
  the manual asks to stop the server for a rotation and says nothing of a backup.
* `RefusalMeansNoRoute` (`RelayRoutes`): after `FailureThreshold` failures `Select`
  skips the active route even if it is the only available one
  (`failover.go:81-96`), and answers "no healthy approved relay route is available".

### Bounds

* Two checks make a partial and a complete manifest; two workers make a
  reassignment and a late predecessor; two jobs make a shared worker, a shared
  slot and two credentials.
  `LeasesSound` is checked with one job, where its last conjunct (a credential opens one
  job) cannot fail; the proof has it for any number of jobs.
* `MaxAttempts` is 3 in the code. The runs use 2: the first lease that may be
  repeated and the last one that may not, which is where the three readers of the
  count disagree if they do. The proof is for any value.
* `LeaseLifetime` is 1 or 2 ticks and `MaxTime` lets a lease expire and a second
  one be granted and expire. Jobs live longer than one lease and shorter than the
  clock, so both expiries occur.
* `worker_protocol` has one fault and `worker_faults` two. Two faults are what a
  lost answer followed by a restart, or a kill followed by a stop, needs.
* `MaxItems` is 2 in `worker_protocol`, with a pause at 75 %: a worker whose two batches
  are not delivered finds its outbox full when it queues the receipt and stops polling,
  while one that resumes at the second check has room for batch and receipt. It is 4 in
  `worker_faults`, where every execution must be able to end with a receipt, and 8 in
  `outbox_drains`, so that back-pressure plays no part in it. A batch that finds the
  outbox full (`EmitResult`) needs more checks than the outbox has room for and occurs
  in no run; the proofs are for any size.
* `scan_engine` has a queue of one so that the second scan finds it full, windows
  that close and open again (`MaxClock` 2) so that a pause is followed by a
  resumption, two checks so that a pause leaves work, and one restart. Only the
  scheduled scan is canceled (`Canceling`), since only it is resumed.
* `agent_side` has three versions, so that an upgrade follows an upgrade or a
  rollback; a clock of two ticks around a health timeout of one; one crash, which
  finds every place between two file operations. Two keys are an enrollment and a
  renewal; two handlers a request and its retry. The two frames fill the queue
  exactly, in number and in bytes. Days of three minutes and weeks of three days
  keep every boundary (midnight, end of week, windows that touch, overlap or wrap).
* `server_side` uses two sessions: the anomalies of READ COMMITTED the store could
  have are between two transactions. Setups are a new file, a file one migration
  behind, a current one and one of a later release, and a PostgreSQL database that is
  empty, some migrations behind or of a later release. Three keys make a second
  rotation, two archives an older and a newer one, two commands a backup beside a
  rotation. The constraint `OnCourse` cuts behaviours after the state in which the
  installation goes astray: the two properties say nothing of what follows, and `astray`
  is never taken back.
* Workers and checks are interchangeable in `worker_protocol` (symmetry); no
  liveness property is checked there.

Every run checks deadlock except those whose system really stops: scans have ended
and the bounds are used up (`ScanEngine`), an update is installed and the clock at its
bound (`agent_side`, `finished_updates`), both calls have ended (`server_side`,
`handover`).

Each state machine has a type invariant. Those that no run lists (`EngineTypeOK`,
`ProtocolTypeOK`, `UpdatesTypeOK`, `IdentityTypeOK`, `RelayTypeOK`, `RoutesTypeOK`,
`RecoveryTypeOK`) can be added to the configuration of the run that has the module.

### Fairness

`ProtocolFairness` is weak fairness of each worker's own steps and of the end of
a result handler: goroutines that can run are run, and an HTTP exchange that is
not lost ends. Nothing is assumed of the clock, renewals, dispatching, losses,
stops or late arrivals. A killed or stopped worker is started again by its
service manager. `ResultsReachScans` needs exactly this: a server stopped between
commit and projection is asked again because the receipt is still in the outbox.

`Fairness` of `ScanEngine` is weak fairness of the engine's goroutine and of
handlers that have begun, and strong fairness of the two steps that wait for the
engine's mutex while ticks may take it again and again: Go's mutex hands itself to
a waiter that starves. Without it `ScansSettle` fails by a scheduler that finds
the queue full for ever. A stopped process is started again.

No fairness is assumed anywhere else: the other modules claim safety only.

## 4. Proofs

`WorkerJobsProofs` proves for any sets of workers, jobs, checks, batches and
receipts and any bounds that satisfy the named assumptions of `WorkerJobs`: type
correctness, `LeasesSound`, `AttemptsBounded`, `AssignmentsTrail`,
`QuarantineFinal`, `EvidenceContiguous`, `SuccessIsProven`, `ManifestSound`,
`CompletedScanIsComplete`, and the action properties `TerminalStable`,
`LiveLeaseKept` and `ReassignmentExact`.

Its first half shows (`RowSteps`) that whatever action the server takes, each row
of the job table makes one of eight moves (created, leased, renewed, completed,
quarantined, expired, released, reassigned) or none, that a moved row is a good row
again (`MovedRow`), and how the other tables may change meanwhile (`StepFrame`).
The second half preserves the invariant move by move instead of action by action,
one lemma per conjunct, and draws the theorems.

The properties are not inductive by themselves. `IInv` adds:

* `RowsInv`: what a row satisfies on its own; above all a *pending* row has an
  attempt left, which is why a poll need not look at the count;
* `TokensInv`: a live token belongs to one row and is at most `lastToken`, so a
  new one is fresh;
* `DispatcherInv`: the reassignment in flight carries a manifest that is part of
  what the server holds, and as long as its old clock reading still finds the job
  abandoned the job has an attempt left. This is where `MaxDelay < LeaseLifetime`
  is used: a job leased since the reading is not abandoned at that reading;
* `EvidenceInv`: a job's batches are numbered 1..n, are determined by number or
  id, and carry exactly its checkpoints. The code compares only counts;
  `CountsDecide` shows that a count is enough for finite sets;
* `SuccessInv`, `ProjectionsInv`: a success had all its checks, and a result to be
  projected is the one its job was completed with, so a projection that runs late
  cannot show a scan as completed without its evidence;
* `TrailInv`: the length of the assignment history.

### Workers and control plane together

`WorkerProtocolProofs` proves, for any workers, jobs, checks, outbox sizes, losses,
kills, restarts and late requests:

* `ProtocolImplementsJobs`: `ProtocolSpec => Spec`. Every step of the composition is a
  step of `WorkerJobs` or leaves the server alone, so that all theorems above hold of
  servers that talk to real workers over an unreliable network;
* `EvidenceNotLost`, `EvidenceBeforeResult`, `ExecutedOnce`, `ChecksAcceptedOnce` and
  `ResultNotLost`.

The theorems have one hypothesis, `Open`: `Batches` and `Receipts` hold whatever a
worker may sign. They are the constants that say what `WorkerJobs` may be sent;
`ProtocolSpec` does not mention them, so they can be chosen like this for any
instance of the protocol (with `Null` no number). Without `Open` an instance could
forbid in `WorkerJobs` what a worker of `WorkerProtocol` sends.

The invariant is `IInv /\ PInv`. `PInv` follows a batch from the executor to the
server:

* `LeaseInv`: two processes never work under one token, and what was queued under it
  is that process's own, before its next sequence number and disjoint from what is
  left to do;
* `ProgressInv`: an execution starts at most one past what the server holds, and the
  evidence the server held before it covers nothing that is left to do;
* `ExecutionInv`: the batches of an execution are numbered without a gap and are
  disjoint from one another and from the evidence accepted before its first. With
  `EvidenceContiguous` this is why late evidence of a predecessor cannot overlap:
  its number is taken;
* `ManifestInv`: evidence numbered before the manifest's next number is in the
  manifest, which is why a replacement repeats nothing;
* `OutboxInv`, `LateInv`: what must reach the server before a message (`Needs`: earlier
  batches of the execution, for a receipt all of them) is ahead of it in the outbox
  or at the server, and for a request already under way it is at the server;
* `AwaitInv`: a worker that waits for an answer still has the message at the head of
  its outbox, and its result is being projected or has been;
* `ResultsInv`, `LedgerInv`: an accepted result belongs to a finished execution, and
  the ledger knows every job a process executes.

`WorkerProtocolSteps` has the worker's part. Nearly every step is of one kind
(`Proceeds`: processes go on as they may, the server takes at most the head of an
outbox), and `ProceedKeeps` preserves `PInv` once for all of them; the only other kind
is the executor queueing a batch (`EmitKeeps`). `WorkerProtocolProofs` shows of each
action that it is of one of the two kinds and a step of `WorkerJobs`.

### Local scans

`ScanEngineProofs` proves `CompletedIsComplete`, `NoOrphans`, `HeldOnce` and the action
property `ProgressKept` for any scans, checks, queue size, windows, crashes and
restarts, from `EngineAssumption`. Since every thread saves a whole copy of a scan, the
invariant (`EngineInv`) says of each copy that it `Fits`: it has all that is stored of
the scan, and nothing that is not one of its checks. `QueueInv` and `LaunchInv` say it
of queued and launching copies and that nobody else holds their scan; `RunInv` says it
of the running scan, with every check to do, in flight or recorded until the scan is
stopped; `StoredInv` says the opposite of a cancel's copy, which may be behind: this is
why `ProgressKept` excepts the save of a cancel. `NoOrphans` is part of the induction.

### Agent updates

`AgentUpdatesProofs` proves `Recoverable`, `JournalTruthful` and
`ImplementsInstalledAgent` for any number of versions, helpers, crashes and any
timing, from `UpdatesAssumption` and `TransactionAssumption`. The invariant
(`UpdatesInv`) adds to the types:

* `CopiesInv`: a known-good file holds the version it is named after;
* `JournalInv`, `AgentInv`, `HelperInv`: every transaction that is saved, or held by a
  process that may save it, is an upgrade to a version that was approved, from one
  whose copy is there (`Good`);
* `ImageInv`: a running agent *is* the installed program, except between its own
  rename on Unix and its end (`Swapped`), and then the journal keeps it from
  passing the confirmation. Without it the copy made by `PreserveKnownGood` could be
  one of the new program under the old name;
* `UnixInv`: on Unix only the agent writes journal and executable, so they agree
  with the step it is about to make.

There is one lemma per action or kind of step. For the refinement, `AgentRefines` shows that the rename of an activation is
an `Upgrade`, that of a recovery a `Restore` or nothing, a new transaction settles the
one before, and every other step leaves the installed program alone;
`CatalogRefines` does the same for the server.

### Endpoint identities

`AgentSideProofs` proves `EnrolledOnce`, `IntegrityChain`, `SilenceShows`
and the action property `RevokedFrozen` for any agents, keys and number of handlers at
once, from `IdentityAssumption` and `NoRowAssumption` (the absence of a row is not a
row). The invariant says of every handler in flight that the row it has found is
there (`FlightsInv`), that there is no endpoint before the token is used and never a
second one (`EnrolledInv`), and that an endpoint without a snapshot has an empty log
(`ChainInv`). For `SilenceShows`, `HeardInv` says that neither the heartbeat stored for an
endpoint nor the one a handler in flight carries is later than the last check-in received.

### Relay

`AgentSideProofs` proves `FramesAccounted` and `PurgeUnblocksClaim` for any frames, sizes,
limits and uploaders, from `RelayAssumption`: the rows are finite and typed (`RowsInv`),
no uploader holds a delivery unless the relay is up (`StateInv`), and the counters
agree with the number of rows (`CountInv`, through the cardinality of the table).
It also proves `RoutesServed` for any routes, threshold and observations;
`FirstPosition` (from well-foundedness) gives the loop of `Select` its first candidate.

### Schemas and the copy into PostgreSQL

`DataMigrationProofs` proves `SchemaMatchesRecord`, `CopyWhole` and the action property
`NothingOverwritten` for any number of servers on both databases, any number of
migration utilities, stops and writes, and any versions the databases start with, from
`MigrationAssumption` and `SchemasAssumption`.

* `SourceInv` says that the versions recorded are 1..r without a gap, that the tables
  are those of r, and that a process that migrates the file is at most one version
  ahead of the record, so a process that was overtaken finds its row taken. The step
  is `NextCatalog`: applying migration v to the tables of v - 1 gives the tables of v
  (`MigratedInTurn`: statements may be applied in two parts).
* `DestinationInv` says that the committed database is sound (`SoundDatabase`), that
  whoever is in a transaction holds the lock, that a server about to commit has every
  row of the committed database (`Carries`; a running server writes without the lock,
  and the model applies its write to both), that a running server finds the last
  schema, and that a utility that copies found the destination empty under the lock
  and has copied what it has done from one snapshot. Hence no server runs while a copy
  is under way, which is why the copy cannot overwrite what a server writes.
* `NothingLeft` shows that the copy ends with every table: a table that waits for a
  parent not yet copied would have a parent of lower `CopyRank` that waits as well
  (well-foundedness of the naturals).

### Server files

`ServerRecoveryProofs` proves `SecretsReadable` and `NothingLost` for any secrets, keys
and number of databases, backups, crashes and failures, with any number of commands at
once and no hypothesis on the behaviour. The invariant is `CourseInv`: `RecoveryInv` as
long as the installation is not astray, which is a state, not an assumption about the
operator; that `astray` stays is `AstrayStays`.

`RecoveryInv` says: when no restore is under way the installation is whole, vacant (a
PostgreSQL installation given new places and not yet restored) or known to be torn
(`Intact`); the same is true *during* a restore of what was in place when it began
(`Before`, put together from what is still there and what the command has moved), which
is what a rollback brings back and a crash leaves to be found aside; where a file was taken there is nothing or
the part of a copy; a rotation's key file opens both old and new ciphertexts until every
ciphertext is new; a backup under way has a snapshot that the key file opens unless a
rotation was finished meanwhile, and an archive that is aligned has a key that opens it.
`ApartInv` says which commands can be under way together: a restore is alone, and there
is one rotation. There is one lemma per
action; the lemmas about `Intact` say which changes of the places and of the files set
aside keep it.

### Only model-checked

* `CapacityRespected`: a sum over a set of jobs, computed by a fold, of which the
  prover knows nothing without induction over data.
* `WindowsRight` (calendar arithmetic against a definition by intervals),
  `SerializableAsSqlite` and `DeadlocksKnown`: statements about fixed tables of calls and
  days, which the runs enumerate.
* `SchemasAssumption`: computed from the two schemas, which are fixed.
* Liveness (`ResultsReachScans`, `ScansSettle`), which is outside the prover's reach.

## 5. Not modelled

* Signatures, encryption and certificates are taken to work; so are SQLite and
  PostgreSQL, of which the modules have what the code relies on.
* Login, multi-factor and OIDC flows (`auth`) beyond their store calls: what they add
  is cryptography and calls to other services.
* The check catalog and its publishers, CVE feeds, version matching, network probes,
  SMTP, the NVD client, platform inventory, the sandboxed module host: parsing and
  input and output around tables that one writer writes.
* The scheduler's next-run times and missed runs: calendar arithmetic with time
  zones. For the same reason `RelayPolicies` has no change of a zone's offset.
* Clocks that go backwards; storage errors inside the scan engine.
* Relay envelopes (sealing and compressing), configuration, HTTP decoding and
  authorization, rendering and the web interface.

Hazards without a property are listed in `PROJECT.json` with the reason: the
scan of a job that expires without a result (`worker_job_lease.go:22`), the order of times formatted
with RFC3339Nano (`sqlite.go:1038`), stopped work (above), the store pairs that are
left out by name, a cancel that saves an old copy, and a backup that a rotation crosses
(both above).
