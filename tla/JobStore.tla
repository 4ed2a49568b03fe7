------------------------------ MODULE JobStore ------------------------------
(***************************************************************************)
(* The scanner-worker job functions of the SQLite store, each as what it   *)
(* does to the database.  WorkerJobs has the life of the jobs; this module *)
(* restates the transactions over the rows of the store, as the reference  *)
(* the PostgreSQL functions are compared with.  Times are numbers, and a   *)
(* lease of 0 is NULL.                                                     *)
(***************************************************************************)
EXTENDS AssetStore

Horizon == 9
After(t) == t + 1 .. Horizon
MaximumWorkerLeaseAttempts == 3

JobRow(c) ==
  [id |-> c.job, worker |-> c.worker, scan |-> c.scan, status |-> "pending", envelope |-> c.by,
   token |-> "", lease |-> 0, expires |-> c.expires, attempt |-> 0, checks |-> c.checks,
   result |-> "", outcome |-> "", created |-> c.now, resume |-> 0]
AssignmentRow(c, n) == [id |-> Pair(c.job, ToString(n)), job |-> c.job, n |-> n, worker |-> c.worker]

CreateScannerWorkerJob(c, d) ==
  Result(Fits(d, "jobs", JobRow(c), {<<"workers", c.worker>>}), d,
         Put(Put(d, "jobs", JobRow(c)), "jobassignments", AssignmentRow(c, 1)))
----------------------------------------------------------------------------
\* A leased job of a worker whose lease has lapsed before the job did.
LapsedLease(now) == [status |-> {"leased"}, lease |-> 1 .. now, expires |-> After(now)]
Lapsed(worker, now) == [worker |-> {worker}] @@ LapsedLease(now)
Exhausted(worker, now) ==
  [attempt |-> MaximumWorkerLeaseAttempts .. Horizon] @@ Lapsed(worker, now)
DeadLetter(row, now) == [id |-> row.id, scan |-> row.scan, worker |-> row.worker, at |-> now]
Unleased(status) == [status |-> status, token |-> "", lease |-> 0]
OpenScan == {"queued", "running", "paused"}
FailedScan(now) == [status |-> "failed", completed |-> now]
Quarantined(worker, now) == [worker |-> {worker}, at |-> {now}]

\* quarantineRepeatedWorkerJobs: a letter for each job, its scan failed, and
\* every leased job that has a letter canceled.
QuarantineRepeatedWorkerJobs(d, worker, now) ==
  LET letters == {DeadLetter(row, now) : row \in Rows(d, "jobs", Exhausted(worker, now))}
      kept == PutRows(d, "letters", {l \in letters : l.id \notin DOMAIN d.letters})
      scans == {l.scan : l \in Rows(kept, "letters", Quarantined(worker, now))}
      failed == Updated(kept, "scans", [id |-> scans, status |-> OpenScan], FailedScan(now))
  IN  Updated(failed, "jobs", [id |-> DOMAIN kept.letters, status |-> {"leased"}],
              Unleased("canceled"))

Overdue(c) ==
  [worker |-> {c.worker}, status |-> {"pending", "leased"}, expires |-> 0 .. c.now]
Waiting(c) == [worker |-> {c.worker}, status |-> {"pending"}, expires |-> After(c.now)]
Leased(c, row) ==
  [status |-> "leased", token |-> c.token, attempt |-> row.attempt + 1, lease |-> c.until]
Least(a, b) == IF a < b THEN a ELSE b

\* A worker that asks for work first puts its overdue and lapsed jobs in order,
\* which stays done when there is nothing to lease.
LeaseScannerWorkerJob(c, d) ==
  LET quarantined == QuarantineRepeatedWorkerJobs(d, c.worker, c.now)
      expired == Updated(quarantined, "jobs", Overdue(c), Unleased("expired"))
      clean == Updated(expired, "jobs", Lapsed(c.worker, c.now), Unleased("pending"))
      free == Found(clean, "jobs", Waiting(c))
      enabled == d.workers[c.worker].dispatch = "on" /\ d.settings["dispatch"].value = "on"
      first == CHOOSE k \in free : \A j \in free : clean.jobs[k].created <= clean.jobs[j].created
      job == clean.jobs[first]
  IN  Done(IF free = {} \/ ~enabled
             THEN clean
             ELSE Put(clean, "jobs", [Leased(c, job) EXCEPT !.lease = Least(job.expires, @)] @@ job))

HeldLease(c) ==
  [id |-> {c.job}, worker |-> {c.worker}, status |-> {"leased"}, token |-> {c.token},
   lease |-> After(c.now), expires |-> After(c.now)]

\* A renewal never shortens the lease and never passes the end of the job.
RenewScannerWorkerJobLease(c, d) ==
  LET held == Found(d, "jobs", HeldLease(c))
      job == d.jobs[c.job]
      longer == IF job.lease > c.until THEN job.lease ELSE c.until
  IN  Result(held # {}, d, Put(d, "jobs", [job EXCEPT !.lease = Least(job.expires, longer)]))
----------------------------------------------------------------------------
LastSequence(batches) == Max({0} \cup {b.sequence : b \in batches})

\* The last batch ends the evidence of the worker that sent it.
Closed(c, batches) ==
  \E b \in batches : b.sequence = LastSequence(batches) /\ b.final /\ b.worker = c.worker

BatchRow(c) ==
  [id |-> c.batch, job |-> c.job, worker |-> c.worker, sequence |-> c.sequence, final |-> c.final]
CheckpointRow(c) == [id |-> Pair(c.job, c.check), job |-> c.job, batch |-> c.batch]
BatchParents(c) == {<<"jobs", c.job>>, <<"workers", c.worker>>}
CurrentLease(c) ==
  [id |-> {c.job}, worker |-> {c.worker}, scan |-> {c.scan}, status |-> {"leased"},
   lease |-> After(c.now), expires |-> After(c.now)]

RecordScannerWorkerEvidenceBatch(c, d) ==
  LET batches == Rows(d, "batches", [job |-> {c.job}]) IN
    Result(/\ c.batch \notin DOMAIN d.batches
           /\ Found(d, "jobs", CurrentLease(c)) # {}
           /\ ~Closed(c, batches)
           /\ c.sequence = LastSequence(batches) + 1,
           d, PutIfAbsent(Put(d, "batches", BatchRow(c)), "checkpoints", CheckpointRow(c)))

\* The transaction of CompleteScannerWorkerJob.  The scan is then saved from
\* the evidence in a transaction of its own (Save).
Completed(c) == [result |-> c.result, outcome |-> c.outcome] @@ Unleased("completed")
FinalBatch(c) == [job |-> {c.job}, final |-> {TRUE}]
CompleteScannerWorkerJob(c, d) ==
  Result(/\ c.outcome = "succeeded" =>
              /\ c.job \in DOMAIN d.jobs
              /\ d.jobs[c.job].checks # 0
              /\ Cardinality(Found(d, "checkpoints", [job |-> {c.job}])) = d.jobs[c.job].checks
              /\ Found(d, "batches", FinalBatch(c)) # {}
         /\ Found(d, "jobs", [result |-> {c.result}]) = {}
         /\ Found(d, "jobs", HeldLease(c)) # {},
         d, Updated(d, "jobs", HeldLease(c), Completed(c)))
----------------------------------------------------------------------------
ResumeJob(c) == [id |-> {c.job}] @@ LapsedLease(c.now)

\* A job at its last attempt is quarantined by the request to resume it.
ScannerWorkerJobResumeCandidate(c, d) ==
  LET hit == Rows(d, "jobs", ResumeJob(c))
      job == CHOOSE row \in hit : TRUE
      completed == Found(d, "checkpoints", [job |-> {c.job}])
  IN  IF hit = {} THEN Refused(d)
      ELSE IF job.attempt >= MaximumWorkerLeaseAttempts
        THEN Done(QuarantineRepeatedWorkerJobs(d, job.worker, c.now))
        ELSE Result(Cardinality(completed) < job.checks, d, d)

Resumable(c) == [id |-> {c.job}] @@ Lapsed(c.previous, c.now)
Reassigned(c) == [worker |-> c.worker, envelope |-> c.by, resume |-> c.sequence] @@ Unleased("pending")
NextAttempt(assignments) == Max({0} \cup {a.n : a \in assignments}) + 1

\* The new assignment resumes exactly after the evidence the store has.
ReassignScannerWorkerJob(c, d) ==
  LET batches == Rows(d, "batches", [job |-> {c.job}])
      attempt == NextAttempt(Rows(d, "jobassignments", [job |-> {c.job}]))
  IN  Result(/\ c.sequence = LastSequence(batches) + 1
             /\ c.completed = Cardinality(Found(d, "checkpoints", [job |-> {c.job}]))
             /\ Found(d, "jobs", Resumable(c)) # {},
             d, Put(Updated(d, "jobs", Resumable(c), Reassigned(c)),
                    "jobassignments", AssignmentRow(c, attempt)))
----------------------------------------------------------------------------
JobCall(c, d) ==
  CASE c.op = "CreateScannerWorkerJob" -> CreateScannerWorkerJob(c, d)
    [] c.op = "LeaseScannerWorkerJob" -> LeaseScannerWorkerJob(c, d)
    [] c.op = "RenewScannerWorkerJobLease" -> RenewScannerWorkerJobLease(c, d)
    [] c.op = "RecordScannerWorkerEvidenceBatch" -> RecordScannerWorkerEvidenceBatch(c, d)
    [] c.op = "CompleteScannerWorkerJob" -> CompleteScannerWorkerJob(c, d)
    [] c.op = "ScannerWorkerJobResumeCandidate" -> ScannerWorkerJobResumeCandidate(c, d)
    [] c.op = "ReassignScannerWorkerJob" -> ReassignScannerWorkerJob(c, d)
============================================================================
