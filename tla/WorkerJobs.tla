----------------------------- MODULE WorkerJobs -----------------------------
(***************************************************************************)
(* The control plane's scanner-worker job table: the SQL statements of     *)
(* internal/store/worker_*.go as the HTTP handlers of                      *)
(* internal/agentidentity/worker_*.go, the dispatcher of                   *)
(* internal/workerjob and the launcher of internal/scanlaunch run them.    *)
(*                                                                         *)
(* The SQLite store has one connection, so a transaction is one step.      *)
(* What is NOT one step is kept apart: a handler reads the clock before    *)
(* its transaction begins (Captured), the dispatcher selects a worker and  *)
(* later writes (dispatcher), the launcher saves the scan before and after *)
(* it dispatches (launching), a result is committed before it is projected *)
(* into its scan (projections), a cancel reads the scan before it saves it *)
(* (canceling).  The process may stop between any two steps (Restart).     *)
(*                                                                         *)
(* Nothing is assumed about the workers: any batch of Batches and any      *)
(* receipt of Receipts may arrive at any time, any number of times and in  *)
(* any order, with any lease token issued so far.  Lost, repeated, delayed *)
(* and reordered requests are therefore all behaviours of this module.     *)
(***************************************************************************)
EXTENDS Integers, Sequences, FiniteSets, FiniteSetsExt

CONSTANTS
  Worker,         \* enrolled scanner workers
  Job,            \* job identifiers; a job's scan has the same name ("scan-"+ID)
  Check,          \* the target-and-port pairs of every job
  Null,           \* the SQL NULL of a worker or result column
  Batches,        \* the signed evidence batches that may be submitted
  Receipts,       \* the completion receipts that may be submitted
  MaxAttempts,    \* maximumWorkerLeaseAttempts
  LeaseLifetime,  \* workerJobLeaseLifetime
  JobLifetimes,   \* how long a job may be valid: 12 h, or what is left of a window
  MaxDelay,       \* how old a handler's clock reading can be when it commits
  MaxTime,        \* the clock stops here (a bound of the model)
  Slots,          \* Slots[w]: the concurrency worker w is enrolled with
  Demand          \* Demand[j]: the concurrency job j needs

JobStatus == {"none", "pending", "leased", "completed", "canceled", "expired"}
Terminal == {"completed", "canceled", "expired"}
Outcome == {"succeeded", "failed", "canceled"}
ScanStatus == {"none", "queued", "paused", "completed", "failed", "canceled"}
\* What SQL means by status IN ('queued','running','paused'); the server never
\* sets a remote scan running.
ActiveScan == {"queued", "paused"}

ASSUME SetsAssumption ==
  Null \notin Worker /\ Null \notin Outcome /\ IsFiniteSet(Check) /\ Check # {}

ASSUME BatchesAssumption ==
  \A b \in Batches :
     b.job \in Job /\ b.worker \in Worker /\ b.sequence \in Nat
     /\ b.final \in BOOLEAN /\ b.checks \subseteq Check

ASSUME ReceiptsAssumption ==
  \A r \in Receipts :
     r.job \in Job /\ r.worker \in Worker /\ r.outcome \in Outcome /\ r.id # Null

ASSUME NumbersAssumption ==
  /\ MaxAttempts \in Nat \ {0}
  /\ LeaseLifetime \in Nat /\ MaxDelay \in Nat /\ MaxDelay < LeaseLifetime
  /\ JobLifetimes \subseteq Nat \ {0}

ASSUME SlotsAssumption == Slots \in [Worker -> Nat] /\ Demand \in [Job -> Nat \ {0}]

VARIABLES
  now,          \* the server's clock
  enabled,      \* scanner_worker_dispatch_settings.enabled
  workers,      \* scanner_workers: status = 'active', dispatch_enabled
  jobs,         \* scanner_worker_jobs
  lastToken,    \* lease tokens issued so far are 1..lastToken
  assignments,  \* scanner_worker_job_assignments: the workers, by attempt
  batches,      \* scanner_worker_evidence_batches
  checkpoints,  \* scanner_worker_job_checkpoints
  deadLetters,  \* scanner_worker_job_dead_letters
  scans,        \* scans: status and checkpoints
  projections,  \* results committed, their projection still to run
  launching,    \* launchRemote and the scheduler's tick, per scan
  dispatcher,   \* what the holder of Dispatcher.mu has read
  canceling     \* Engine.Cancel calls that have read their scan

storeVars ==
  <<enabled, workers, jobs, lastToken, assignments, batches, checkpoints, deadLetters, scans>>
threadVars == <<projections, launching, dispatcher, canceling>>
vars == <<now, storeVars, threadVars>>

(***************************************************************************)
(* Rows                                                                    *)
(***************************************************************************)

\* One row of scanner_worker_jobs; "none" stands for a row not yet inserted.
\* next and completed are the resume manifest of its signed envelope.
JobRow ==
  [status : JobStatus, worker : Worker \cup {Null}, created : Nat, expires : Nat,
   token : Nat, leaseExpires : Nat, attempt : Nat,
   next : Nat, completed : SUBSET Check, result : {r.id : r \in Receipts} \cup {Null},
   outcome : Outcome \cup {Null}]

NoRow ==
  [status |-> "none", worker |-> Null, created |-> 0, expires |-> 0, token |-> 0,
   leaseExpires |-> 0, attempt |-> 0, next |-> 1, completed |-> {},
   result |-> Null, outcome |-> Null]

\* The row with its lease columns set to NULL.
Unleased(row, status) == [row EXCEPT !.status = status, !.token = 0, !.leaseExpires = 0]

\* The dispatcher mutex is free.
Idle == [phase |-> "idle"]

Phases ==
  {Idle}
  \cup [phase : {"create"}, job : Job, worker : Worker, at : Nat]
  \cup [phase : {"reassign"}, job : Job, worker : Worker, previous : Worker, at : Nat,
        next : Nat, completed : SUBSET Check]

Init ==
  /\ now = 0
  /\ enabled = TRUE
  /\ workers = [w \in Worker |-> [active |-> TRUE, dispatch |-> TRUE]]
  /\ jobs = [j \in Job |-> NoRow]
  /\ lastToken = 0
  /\ assignments = [j \in Job |-> <<>>]
  /\ batches = {}
  /\ checkpoints = [j \in Job |-> {}]
  /\ deadLetters = {}
  /\ scans = [j \in Job |-> [status |-> "none", checks |-> {}]]
  /\ projections = {}
  /\ launching = [j \in Job |-> [step |-> "idle", expires |-> 0]]
  /\ dispatcher = Idle
  /\ canceling = {}

\* The values s.now() may have returned to a request that commits now.
Captured == {t \in (now - MaxDelay)..now : t >= 0}

\* COALESCE(MAX(sequence),0) over the job's evidence batches.
LastSequence(j) == Max({0} \cup {b.sequence : b \in {c \in batches : c.job = j}})

(***************************************************************************)
(* Leasing                                                                 *)
(***************************************************************************)

\* The jobs quarantineRepeatedWorkerJobs inserts into the dead letters.
Repeated(w, at) ==
  {j \in Job : /\ jobs[j].worker = w
               /\ jobs[j].status = "leased"
               /\ jobs[j].leaseExpires <= at
               /\ jobs[j].expires > at
               /\ jobs[j].attempt >= MaxAttempts}

\* INSERT ... ON CONFLICT(job_id) DO NOTHING.
DeadLettersAfter(w, at) ==
  deadLetters \cup
    {[job |-> j, worker |-> w, at |-> at] :
       j \in {k \in Repeated(w, at) : \A d \in deadLetters : d.job # k}}

\* The scans of the worker's dead letters of this instant fail.
ScansAfterQuarantine(w, at) ==
  [j \in Job |->
     IF /\ [job |-> j, worker |-> w, at |-> at] \in DeadLettersAfter(w, at)
        /\ scans[j].status \in ActiveScan
     THEN [scans[j] EXCEPT !.status = "failed"]
     ELSE scans[j]]

\* Mutant: a quarantined job goes back to the queue.
JobsAfterQuarantineRequeues(w, at) ==
  [j \in Job |->
     IF /\ jobs[j].status = "leased"
        /\ \E d \in DeadLettersAfter(w, at) : d.job = j
     THEN Unleased(jobs[j], "pending")
     ELSE jobs[j]]

\* Every leased job that has a dead letter is canceled, whoever its worker is.
JobsAfterQuarantine(w, at) ==
  [j \in Job |->
     IF /\ jobs[j].status = "leased"
        /\ \E d \in DeadLettersAfter(w, at) : d.job = j
     THEN Unleased(jobs[j], "canceled")
     ELSE jobs[j]]

\* Mutant: the expiry UPDATE forgets the status.
MaintainedAnyStatus(row, w, at) ==
  IF row.worker = w /\ row.expires <= at
  THEN Unleased(row, "expired")
  ELSE IF row.worker = w /\ row.status = "leased" /\ row.leaseExpires <= at
  THEN Unleased(row, "pending")
  ELSE row

\* The two UPDATEs of LeaseScannerWorkerJob that follow the quarantine: the
\* worker's jobs past their expiry expire, its abandoned leases are released.
Maintained(row, w, at) ==
  IF row.worker = w /\ row.status \in {"pending", "leased"} /\ row.expires <= at
  THEN Unleased(row, "expired")
  ELSE IF row.worker = w /\ row.status = "leased" /\ row.leaseExpires <= at
  THEN Unleased(row, "pending")
  ELSE row

\* The job table after the maintenance a poll of worker w always does.
Swept(w, at) == [j \in Job |-> Maintained(JobsAfterQuarantine(w, at)[j], w, at)]

\* The jobs the SELECT of LeaseScannerWorkerJob may return: ORDER BY
\* created_at; equal times are ordered by id, which is left open here.
Leasable(w, at) ==
  LET table == Swept(w, at)
      pending == {j \in Job : /\ table[j].worker = w
                              /\ table[j].status = "pending"
                              /\ table[j].expires > at}
  IN IF enabled /\ workers[w].dispatch
     THEN {j \in pending : \A k \in pending : table[j].created <= table[k].created}
     ELSE {}

\* Mutant: the lease is not capped by the job's expiry.
LeaseExpiryUncapped(row, at) == at + LeaseLifetime

LeaseExpiry(row, at) ==
  IF row.expires < at + LeaseLifetime THEN row.expires ELSE at + LeaseLifetime

\* The row the poll hands out.
Leased(row, at) ==
  [row EXCEPT !.status = "leased", !.token = lastToken + 1,
              !.leaseExpires = LeaseExpiry(row, at), !.attempt = @ + 1]

Sweep(w, at) ==
  /\ workers[w].active
  /\ deadLetters' = DeadLettersAfter(w, at)
  /\ scans' = ScansAfterQuarantine(w, at)

\* POST .../jobs/poll with a job to hand out.
LeaseScannerWorkerJob(w, j, at) ==
  /\ Sweep(w, at)
  /\ j \in Leasable(w, at)
  /\ jobs' = [Swept(w, at) EXCEPT ![j] = Leased(@, at)]
  /\ lastToken' = lastToken + 1
  /\ UNCHANGED <<now, enabled, workers, assignments, batches, checkpoints, threadVars>>

\* POST .../jobs/poll with none: the maintenance is committed all the same.
LeaseMaintenance(w, at) ==
  /\ Sweep(w, at)
  /\ Leasable(w, at) = {}
  /\ jobs' = Swept(w, at)
  /\ UNCHANGED <<now, enabled, workers, lastToken, assignments, batches, checkpoints,
                 threadVars>>

\* The guard that renewal and completion share.
HoldsLease(w, j, token, at) ==
  /\ jobs[j].status = "leased"
  /\ jobs[j].worker = w
  /\ jobs[j].token = token
  /\ jobs[j].leaseExpires > at
  /\ jobs[j].expires > at

\* Mutant: a renewal always takes the requested time.
RenewedExpiryShortens(row, requested) ==
  IF row.expires < requested THEN row.expires ELSE requested

RenewedExpiry(row, requested) ==
  IF row.expires < requested THEN row.expires
  ELSE IF row.leaseExpires > requested THEN row.leaseExpires
  ELSE requested

RenewScannerWorkerJobLease(w, j, token, at) ==
  /\ workers[w].active
  /\ HoldsLease(w, j, token, at)
  /\ jobs' = [jobs EXCEPT ![j].leaseExpires = RenewedExpiry(jobs[j], at + LeaseLifetime)]
  /\ UNCHANGED <<now, enabled, workers, lastToken, assignments, batches, checkpoints,
                 deadLetters, scans, threadVars>>

(***************************************************************************)
(* Evidence and results                                                    *)
(***************************************************************************)

\* workerevidence.Validate against the job's envelope.
ValidBatch(b) ==
  /\ b.sequence > 0
  /\ b.checks \subseteq Check
  /\ b.final \/ b.checks # {}

\* Mutant: a gap in the numbering is let through.
SequenceAcceptedWithGaps(b, at) ==
  /\ jobs[b.job].worker = b.worker
  /\ jobs[b.job].status = "leased"
  /\ jobs[b.job].expires > at
  /\ jobs[b.job].leaseExpires > at
  /\ b.sequence > LastSequence(b.job)

\* validateEvidenceSequence.  The lease token plays no part in it.
SequenceAccepted(b, at) ==
  /\ jobs[b.job].worker = b.worker
  /\ jobs[b.job].status = "leased"
  /\ jobs[b.job].expires > at
  /\ jobs[b.job].leaseExpires > at
  /\ ~ \E c \in batches : /\ c.job = b.job
                          /\ c.sequence = LastSequence(b.job)
                          /\ c.final
                          /\ c.worker = b.worker
  /\ b.sequence = LastSequence(b.job) + 1

RecordScannerWorkerEvidenceBatch(b, at) ==
  /\ workers[b.worker].active
  /\ ValidBatch(b)
  /\ \A c \in batches : c.id # b.id
  /\ SequenceAccepted(b, at)
  /\ batches' = batches \cup {b}
  /\ checkpoints' = [checkpoints EXCEPT ![b.job] = @ \cup b.checks]
  /\ UNCHANGED <<now, enabled, workers, jobs, lastToken, assignments, deadLetters, scans,
                 threadVars>>

\* Mutant: one check may be missing.
CheckpointsAlmostComplete(j) == Cardinality(checkpoints[j]) + 1 >= Cardinality(Check)

\* workerJobCheckpointsComplete compares two counts.
CheckpointsComplete(j) == Cardinality(checkpoints[j]) = Cardinality(Check)

\* The UPDATE's WHERE clause beyond the lease.
ResultAdmissible(r) ==
  r.outcome = "succeeded" =>
    /\ CheckpointsComplete(r.job)
    /\ \E b \in batches : b.job = r.job /\ b.final

\* The UPDATE's SET clause.
CompletedRow(row, r) ==
  [Unleased(row, "completed") EXCEPT !.result = r.id, !.outcome = r.outcome]

CompleteScannerWorkerJob(r, token, at) ==
  /\ workers[r.worker].active
  /\ ResultAdmissible(r)
  /\ \A j \in Job : jobs[j].result # r.id
  /\ HoldsLease(r.worker, r.job, token, at)
  /\ jobs' = [jobs EXCEPT ![r.job] = CompletedRow(@, r)]
  /\ projections' = projections \cup {r}
  /\ UNCHANGED <<now, enabled, workers, lastToken, assignments, batches, checkpoints,
                 deadLetters, scans, launching, dispatcher, canceling>>

\* An exact retry of an accepted result runs the projection again.
RetryResult(r) ==
  /\ workers[r.worker].active
  /\ r.outcome = "succeeded" => CheckpointsComplete(r.job)
  /\ jobs[r.job].result = r.id
  /\ jobs[r.job].worker = r.worker
  /\ jobs[r.job].outcome = r.outcome
  /\ projections' = projections \cup {r}
  /\ UNCHANGED <<now, storeVars, launching, dispatcher, canceling>>

\* projectedScanOutcome
ProjectedStatus(outcome) ==
  CASE outcome = "succeeded" -> "completed"
    [] outcome = "canceled" -> "canceled"
    [] OTHER -> "failed"

\* Mutant: the checkpoints are not loaded into the scan.
ProjectStatusOnly(r) ==
  /\ r \in projections
  /\ scans' = [scans EXCEPT ![r.job].status = ProjectedStatus(r.outcome)]
  /\ projections' = projections \ {r}
  /\ UNCHANGED <<now, enabled, workers, jobs, lastToken, assignments, batches, checkpoints,
                 deadLetters, launching, dispatcher, canceling>>

\* projectScannerWorkerResult: whatever the scan holds is overwritten.
ProjectScannerWorkerResult(r) ==
  /\ r \in projections
  /\ scans' = [scans EXCEPT ![r.job] =
                 [status |-> ProjectedStatus(r.outcome), checks |-> checkpoints[r.job]]]
  /\ projections' = projections \ {r}
  /\ UNCHANGED <<now, enabled, workers, jobs, lastToken, assignments, batches, checkpoints,
                 deadLetters, launching, dispatcher, canceling>>

(***************************************************************************)
(* Launching, dispatching and reassigning                                  *)
(***************************************************************************)

\* Mutant: only leased jobs reserve capacity.
ActiveJobsLeasedOnly(w, at) ==
  {j \in Job : /\ jobs[j].worker = w
               /\ jobs[j].status = "leased"
               /\ jobs[j].expires > at}

\* The rows ScannerWorkerJobLoads counts for worker w.
ActiveJobs(w, at) ==
  {j \in Job : /\ jobs[j].worker = w
               /\ jobs[j].status \in {"pending", "leased"}
               /\ jobs[j].expires > at}

Reserved(w, at) == MapThenSumSet(LAMBDA j : Demand[j], ActiveJobs(w, at))

\* heard[w] is the free concurrency of w's last heartbeat, 0 for a worker whose
\* heartbeat is stale or unhealthy or whose scope does not fit the job: the
\* fleet's heartbeats are inputs of the selection.
Heartbeats == {h \in [Worker -> 0..Max({Slots[w] : w \in Worker})] :
                 \A w \in Worker : h[w] <= Slots[w]}

\* workerAvailableForAssignment
Available(j, heard, at, excluded) ==
  {w \in Worker \ excluded : /\ workers[w].active
                             /\ workers[w].dispatch
                             /\ heard[w] - Reserved(w, at) >= Demand[j]}

\* selectWorkerExcluding: fewest active jobs, then most remaining slots; the
\* last-seen time and the identifier that break further ties are left open.
Selectable(j, heard, at, excluded) ==
  LET load(w) == Cardinality(ActiveJobs(w, at))
      remaining(w) == heard[w] - Reserved(w, at)
      before(v, w) == \/ load(v) < load(w)
                      \/ load(v) = load(w) /\ remaining(v) > remaining(w)
      candidates == Available(j, heard, at, excluded)
  IN {w \in candidates : \A v \in candidates : ~ before(v, w)}

\* Runner.tick has listed a paused scan it means to resume.
ListPaused(j) ==
  /\ launching[j].step = "idle"
  /\ scans[j].status = "paused"
  /\ launching' = [launching EXCEPT ![j].step = "listed"]
  /\ UNCHANGED <<now, storeVars, projections, dispatcher, canceling>>

\* launchRemote up to Save(queued), for a new scan or from the listed copy,
\* which holds no checks: only a queued remote scan is ever paused.
Launch(j, lifetime) ==
  /\ \/ launching[j].step = "idle" /\ scans[j].status = "none"
     \/ launching[j].step = "listed"
  /\ scans' = [scans EXCEPT ![j] = [status |-> "queued", checks |-> {}]]
  /\ launching' = [launching EXCEPT ![j] = [step |-> "saved", expires |-> now + lifetime]]
  /\ UNCHANGED <<now, enabled, workers, jobs, lastToken, assignments, batches, checkpoints,
                 deadLetters, projections, dispatcher, canceling>>

\* Dispatch takes the mutex, reads the switch, the fleet and the loads.
SelectWorker(j, heard) ==
  /\ launching[j].step = "saved"
  /\ launching[j].expires > now
  /\ dispatcher = Idle
  /\ enabled
  /\ \E w \in Selectable(j, heard, now, {}) :
       dispatcher' = [phase |-> "create", job |-> j, worker |-> w, at |-> now]
  /\ launching' = [launching EXCEPT ![j].step = "dispatching"]
  /\ UNCHANGED <<now, storeVars, projections, canceling>>

\* Dispatch is disabled or finds no eligible worker.
DispatchFails(j, heard) ==
  /\ launching[j].step = "saved"
  /\ dispatcher = Idle
  /\ \/ ~ enabled
     \/ launching[j].expires <= now
     \/ Selectable(j, heard, now, {}) = {}
  /\ launching' = [launching EXCEPT ![j].step = "failing"]
  /\ UNCHANGED <<now, storeVars, projections, dispatcher, canceling>>

NewRow(d, expires) ==
  [NoRow EXCEPT !.status = "pending", !.worker = d.worker, !.created = d.at, !.expires = expires]

\* The job row and its first assignment; a known identifier is a replay.
CreateScannerWorkerJob ==
  /\ dispatcher.phase = "create"
  /\ LET j == dispatcher.job
         exists == jobs[j].status # "none"
     IN /\ jobs' = IF exists THEN jobs
                   ELSE [jobs EXCEPT ![j] = NewRow(dispatcher, launching[j].expires)]
        /\ assignments' = IF exists THEN assignments
                          ELSE [assignments EXCEPT ![j] = Append(@, dispatcher.worker)]
        /\ launching' = [launching EXCEPT ![j].step = IF exists THEN "failing" ELSE "idle"]
  /\ dispatcher' = Idle
  /\ UNCHANGED <<now, enabled, workers, lastToken, batches, checkpoints, deadLetters, scans,
                 projections, canceling>>

\* launchRemote saves its copy of the scan as failed.
LaunchFailed(j) ==
  /\ launching[j].step = "failing"
  /\ scans' = [scans EXCEPT ![j] = [status |-> "failed", checks |-> {}]]
  /\ launching' = [launching EXCEPT ![j].step = "idle"]
  /\ UNCHANGED <<now, enabled, workers, jobs, lastToken, assignments, batches, checkpoints,
                 deadLetters, projections, dispatcher, canceling>>

\* The row ScannerWorkerJobResumeCandidate looks for.
Abandoned(j, at) ==
  /\ jobs[j].status = "leased"
  /\ jobs[j].leaseExpires <= at
  /\ jobs[j].expires > at

\* ReassignExpired up to the choice of the new worker.  The clock reading it
\* takes here is the one its write uses.
ResumeCandidate(j, heard) ==
  /\ dispatcher = Idle
  /\ enabled
  /\ Abandoned(j, now)
  /\ jobs[j].attempt < MaxAttempts
  /\ Cardinality(checkpoints[j]) < Cardinality(Check)
  /\ \E w \in Selectable(j, heard, now, {jobs[j].worker}) :
       dispatcher' = [phase |-> "reassign", job |-> j, worker |-> w,
                      previous |-> jobs[j].worker, at |-> now,
                      next |-> LastSequence(j) + 1, completed |-> checkpoints[j]]
  /\ UNCHANGED <<now, storeVars, projections, launching, canceling>>

\* ... and on a job that has had all its attempts.
ResumeQuarantine(j) ==
  /\ dispatcher = Idle
  /\ enabled
  /\ Abandoned(j, now)
  /\ jobs[j].attempt >= MaxAttempts
  /\ deadLetters' = DeadLettersAfter(jobs[j].worker, now)
  /\ scans' = ScansAfterQuarantine(jobs[j].worker, now)
  /\ jobs' = JobsAfterQuarantine(jobs[j].worker, now)
  /\ UNCHANGED <<now, enabled, workers, lastToken, assignments, batches, checkpoints,
                 threadVars>>

\* Mutant: the write reads the clock again.
ReassignableLater(d) ==
  /\ d.next = LastSequence(d.job) + 1
  /\ Cardinality(d.completed) = Cardinality(checkpoints[d.job])
  /\ jobs[d.job].worker = d.previous
  /\ Abandoned(d.job, now)

\* Mutant: the manifest is not compared with the tables.
ReassignableUnchecked(d) ==
  /\ jobs[d.job].worker = d.previous
  /\ Abandoned(d.job, d.at)

\* The WHERE clause and the manifest check of ReassignScannerWorkerJob.
Reassignable(d) ==
  /\ d.next = LastSequence(d.job) + 1
  /\ Cardinality(d.completed) = Cardinality(checkpoints[d.job])
  /\ jobs[d.job].worker = d.previous
  /\ Abandoned(d.job, d.at)

\* Mutant: the manifest skips a sequence number.
ReassignedRowSkips(row, d) ==
  [Unleased(row, "pending") EXCEPT !.worker = d.worker, !.next = d.next + 1,
                                   !.completed = d.completed]

\* lease_attempt is kept.
ReassignedRow(row, d) ==
  [Unleased(row, "pending") EXCEPT !.worker = d.worker, !.next = d.next,
                                   !.completed = d.completed]

ReassignScannerWorkerJob ==
  /\ dispatcher.phase = "reassign"
  /\ jobs' = IF Reassignable(dispatcher)
             THEN [jobs EXCEPT ![dispatcher.job] = ReassignedRow(@, dispatcher)]
             ELSE jobs
  /\ assignments' = IF Reassignable(dispatcher)
                    THEN [assignments EXCEPT ![dispatcher.job] = Append(@, dispatcher.worker)]
                    ELSE assignments
  /\ dispatcher' = Idle
  /\ UNCHANGED <<now, enabled, workers, lastToken, batches, checkpoints, deadLetters, scans,
                 projections, launching, canceling>>

(***************************************************************************)
(* Administrators, the clock and the process                               *)
(***************************************************************************)

\* Engine.Cancel reads the scan ...
CancelRead(j) ==
  /\ j \notin canceling
  /\ scans[j].status \in ActiveScan
  /\ canceling' = canceling \cup {j}
  /\ UNCHANGED <<now, storeVars, projections, launching, dispatcher>>

\* ... and finishCanceled saves that copy; an active remote scan has no checks.
CancelSave(j) ==
  /\ j \in canceling
  /\ scans' = [scans EXCEPT ![j] = [status |-> "canceled", checks |-> {}]]
  /\ canceling' = canceling \ {j}
  /\ UNCHANGED <<now, enabled, workers, jobs, lastToken, assignments, batches, checkpoints,
                 deadLetters, projections, launching, dispatcher>>

SetScannerWorkerDispatch ==
  /\ enabled' = ~ enabled
  /\ UNCHANGED <<now, workers, jobs, lastToken, assignments, batches, checkpoints,
                 deadLetters, scans, threadVars>>

SetScannerWorkerDispatchForWorker(w) ==
  /\ workers[w].active
  /\ workers' = [workers EXCEPT ![w].dispatch = ~ @]
  /\ UNCHANGED <<now, enabled, jobs, lastToken, assignments, batches, checkpoints,
                 deadLetters, scans, threadVars>>

RevokeScannerWorker(w) ==
  /\ workers[w].active
  /\ workers' = [workers EXCEPT ![w].active = FALSE]
  /\ UNCHANGED <<now, enabled, jobs, lastToken, assignments, batches, checkpoints,
                 deadLetters, scans, threadVars>>

Tick ==
  /\ now < MaxTime
  /\ now' = now + 1
  /\ UNCHANGED <<storeVars, threadVars>>

\* ReconcileInterrupted: a remote scan always belongs to a policy.
Reconciled(scan) == IF scan.status = "queued" THEN [scan EXCEPT !.status = "paused"] ELSE scan

\* The process stops and starts again: the tables survive, the threads do not.
Restart ==
  /\ scans' = [j \in Job |-> Reconciled(scans[j])]
  /\ projections' = {}
  /\ launching' = [j \in Job |-> [step |-> "idle", expires |-> 0]]
  /\ dispatcher' = Idle
  /\ canceling' = {}
  /\ UNCHANGED <<now, enabled, workers, jobs, lastToken, assignments, batches, checkpoints,
                 deadLetters>>

WorkerRequest ==
  \E at \in Captured :
    \/ \E w \in Worker, j \in Job : LeaseScannerWorkerJob(w, j, at)
    \/ \E w \in Worker : LeaseMaintenance(w, at)
    \/ \E w \in Worker, j \in Job, token \in 1..lastToken :
         RenewScannerWorkerJobLease(w, j, token, at)
    \/ \E b \in Batches : RecordScannerWorkerEvidenceBatch(b, at)
    \/ \E r \in Receipts, token \in 1..lastToken : CompleteScannerWorkerJob(r, token, at)

ServerThread ==
  \/ \E r \in Receipts : RetryResult(r) \/ ProjectScannerWorkerResult(r)
  \/ \E j \in Job :
       \/ ListPaused(j) \/ LaunchFailed(j)
       \/ CancelRead(j) \/ CancelSave(j) \/ ResumeQuarantine(j)
       \/ \E lifetime \in JobLifetimes : Launch(j, lifetime)
       \/ \E heard \in Heartbeats :
            SelectWorker(j, heard) \/ DispatchFails(j, heard) \/ ResumeCandidate(j, heard)
  \/ CreateScannerWorkerJob
  \/ ReassignScannerWorkerJob

Administrator ==
  \/ SetScannerWorkerDispatch
  \/ \E w \in Worker : SetScannerWorkerDispatchForWorker(w) \/ RevokeScannerWorker(w)

Next == WorkerRequest \/ ServerThread \/ Administrator \/ Tick \/ Restart

Spec == Init /\ [][Next]_vars

(***************************************************************************)
(* Properties                                                              *)
(***************************************************************************)

\* Every table holds rows of its type (the columns of the schema files).
TypeOK ==
  /\ now \in Nat
  /\ enabled \in BOOLEAN
  /\ workers \in [Worker -> [active : BOOLEAN, dispatch : BOOLEAN]]
  /\ jobs \in [Job -> JobRow]
  /\ lastToken \in Nat
  /\ assignments \in [Job -> Seq(Worker)]
  /\ batches \subseteq Batches
  /\ checkpoints \in [Job -> SUBSET Check]
  /\ deadLetters \subseteq [job : Job, worker : Worker, at : Nat]
  /\ scans \in [Job -> [status : ScanStatus, checks : SUBSET Check]]
  /\ projections \subseteq Receipts
  /\ launching \in [Job -> [step : {"idle", "listed", "saved", "dispatching", "failing"},
                            expires : Nat]]
  /\ dispatcher \in Phases
  /\ canceling \subseteq Job

\* A lease never outlives its job, and the credential of a lease opens one job
\* only: the CASE expressions of the lease and renewal UPDATEs and the token
\* drawn by newWorkerJobLeaseToken, whatever was renewed, released or moved.
LeasesSound ==
  \A j \in Job : jobs[j].status = "leased" =>
     /\ jobs[j].leaseExpires <= jobs[j].expires
     /\ jobs[j].token \in 1..lastToken
     /\ \A k \in Job : jobs[k].token = jobs[j].token => k = j

\* A job is leased at most MaxAttempts times, and one that waits for a lease
\* has an attempt left: maximumWorkerLeaseAttempts holds although the poll, the
\* resume lookup and the reassignment that read lease_attempt are three
\* transactions, and reassignment keeps the count.
AttemptsBounded ==
  \A j \in Job : /\ jobs[j].attempt <= MaxAttempts
                 /\ jobs[j].status = "pending" => jobs[j].attempt < MaxAttempts

\* The assignment history of a job ends with its worker and is no longer than
\* MaxAttempts: a job only moves after a lease was lost, and the move (which
\* keeps lease_attempt) and the history row are written together.
AssignmentsTrail ==
  \A j \in Job : jobs[j].status # "none" =>
     /\ Len(assignments[j]) \in 1..MaxAttempts
     /\ assignments[j][Len(assignments[j])] = jobs[j].worker

\* A job with a dead letter is canceled for good after exactly MaxAttempts
\* leases, and has one dead letter: quarantineRepeatedWorkerJobs is run by
\* polls and by resume lookups, which race.
QuarantineFinal ==
  \A d \in deadLetters :
     /\ jobs[d.job].status = "canceled"
     /\ jobs[d.job].attempt = MaxAttempts
     /\ \A e \in deadLetters : e.job = d.job => e = d

\* The evidence of a job is numbered 1, 2, 3, ... without gap or repetition,
\* across retries, lease changes and reassignments (validateEvidenceSequence).
EvidenceContiguous ==
  \A j \in Job :
    LET mine == {b \in batches : b.job = j}
    IN /\ \A b \in mine : \A n \in 1..b.sequence : \E c \in mine : c.sequence = n
       /\ \A b, c \in mine : (b.sequence = c.sequence \/ b.id = c.id) => b = c

\* A job that succeeded has a checkpoint for every check, each carried by an
\* accepted batch, and a final batch (CompleteScannerWorkerJob compares counts).
SuccessIsProven ==
  \A j \in Job : jobs[j].outcome = "succeeded" =>
     /\ Check \subseteq UNION {b.checks : b \in {c \in batches : c.job = j}}
     /\ \E b \in batches : b.job = j /\ b.final

\* The resume manifest in a job's envelope names only checks the server holds
\* and a sequence number it has reached, whatever arrived since it was signed.
ManifestSound ==
  \A j \in Job : /\ jobs[j].completed \subseteq checkpoints[j]
                 /\ jobs[j].next <= LastSequence(j) + 1

\* A scan shown as completed carries every check, and its job succeeded: the
\* projection, the launcher and Cancel all write the scan.
CompletedScanIsComplete ==
  \A j \in Job : scans[j].status = "completed" =>
     scans[j].checks = Check /\ jobs[j].outcome = "succeeded"

\* The jobs assigned to a worker never need more than it was enrolled with,
\* although selection and insertion are separate steps (Dispatcher.mu) and
\* heartbeats report any free capacity.
CapacityRespected == \A w \in Worker : Reserved(w, now) <= Slots[w]

\* A job that is over stays as it is: a repeated or late request, a sweep or a
\* reassignment never changes its row.
TerminalStable ==
  [][\A j \in Job : jobs[j].status \in Terminal => jobs'[j] = jobs[j]]_vars

\* While a lease is live, the job keeps its worker and its lease is only
\* extended or consumed by a completion: no sweep, quarantine or reassignment,
\* however old the clock reading it uses, takes the job away.
LiveLeaseKept ==
  [][\A j \in Job :
       (jobs[j].status = "leased" /\ jobs[j].leaseExpires > now) =>
          /\ jobs'[j].worker = jobs[j].worker
          /\ \/ jobs'[j].status = "completed"
             \/ /\ jobs'[j].status = "leased"
                /\ jobs'[j].token = jobs[j].token
                /\ jobs'[j].leaseExpires >= jobs[j].leaseExpires]_vars

\* When a job moves to another worker its manifest is exactly what the server
\* holds, although it was read one transaction earlier and only counts are
\* compared (ReassignScannerWorkerJob).
ReassignmentExact ==
  [][\A j \in Job :
       (jobs[j].worker # Null /\ jobs'[j].worker # jobs[j].worker) =>
          /\ jobs'[j].completed = checkpoints[j]
          /\ jobs'[j].next = LastSequence(j) + 1
          /\ jobs'[j].status = "pending"]_vars

\* The README's promise for cancellation, "retaining completed checks and
\* collected evidence": no step removes checks from a stored scan.
ScanEvidenceRetained ==
  [][\A j \in Job : scans[j].checks \subseteq scans'[j].checks]_vars

=============================================================================
