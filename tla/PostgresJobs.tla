---------------------------- MODULE PostgresJobs ----------------------------
(***************************************************************************)
(* The scanner-worker job functions of the PostgreSQL store, each as the   *)
(* statements of its transaction.                                          *)
(***************************************************************************)
EXTENDS JobStore, PostgresAssets

PgCreateScannerWorkerJob(c, got) ==
  <<Must(InsertIfAbsent("jobs", JobRow(c), {<<"workers", c.worker>>})),
    Insert("jobassignments", AssignmentRow(c, 1), {<<"jobs", c.job>>, <<"workers", c.worker>>})>>

\* INSERT INTO dead_letters SELECT ... FROM jobs reads the jobs without a lock.
PgQuarantineRepeatedWorkerJobs(worker, now, jobs) ==
  <<Select("jobs", Exhausted(worker, now)),
    InsertEachIfAbsent("letters", {DeadLetter(row, now) : row \in jobs},
                       {<<"jobs", row.id>> : row \in jobs} \cup {<<"workers", row.worker>> : row \in jobs}),
    Among(Update("scans", [status |-> OpenScan], FailedScan(now)),
          "letters", "scan", Quarantined(worker, now)),
    Among(Update("jobs", [status |-> {"leased"}], Unleased("canceled")), "letters", "id", <<>>)>>

\* The job to lease: enabled workers, while dispatch is enabled, in order, and
\* not one another request has locked.
NextScannerWorkerJob(c) ==
  LET waiting == SelectSkipLocked("jobs", Waiting(c), "worker", "workers", [dispatch |-> {"on"}]) IN
    [waiting EXCEPT !.join = Append(@, [via |-> "", table |-> "settings",
                                        where |-> [id |-> {"dispatch"}, value |-> {"on"}]])]

PgLeaseScannerWorkerJob(c, got) ==
  LET job == TheRow(got, 7)
      lease(row) == Bounded(Update("jobs", [id |-> {row.id}, worker |-> {c.worker}, status |-> {"pending"}],
                                   Leased(c, row)), [lease |-> "expires"])
  IN  PgQuarantineRepeatedWorkerJobs(c.worker, c.now, Answer(got, 1))
      \o <<Update("jobs", Overdue(c), Unleased("expired")),
           Update("jobs", Lapsed(c.worker, c.now), Unleased("pending")),
           NextScannerWorkerJob(c)>>
      \o (IF Answer(got, 7) = {} THEN <<>> ELSE <<Must(lease(job))>>)

PgRenewScannerWorkerJobLease(c, got) ==
  <<Must(Bounded(Update("jobs", HeldLease(c), [lease |-> c.until]), [lease |-> "expires"])),
    Must(Select("jobs", [id |-> {c.job}]))>>
----------------------------------------------------------------------------
\* postgreSQLWorkerEvidenceReplay, before and after the job is locked.
PgWorkerEvidenceReplay(c) == Select("batches", [id |-> {c.batch}])

PgRecordScannerWorkerEvidenceBatch(c, got) ==
  LET job == TheRow(got, 3)
      batches == Answer(got, 5)
      current == job \in {row \in Answer(got, 3) :
                            \A f \in DOMAIN CurrentLease(c) : row[f] \in CurrentLease(c)[f]}
  IN  <<PgWorkerEvidenceReplay(c),
        RefuseIf(Answer(got, 1) # {}),
        Must(SelectForUpdate("jobs", [id |-> {c.job}])),
        RefuseIf(Len(got) >= 3 /\ ~current),
        Select("batches", [job |-> {c.job}]),
        RefuseIf(Closed(c, batches) \/ c.sequence # LastSequence(batches) + 1),
        PgWorkerEvidenceReplay(c),
        RefuseIf(Answer(got, 7) # {}),
        Insert("batches", BatchRow(c), BatchParents(c)),
        InsertIfAbsent("checkpoints", CheckpointRow(c), BatchParents(c) \cup {<<"batches", c.batch>>})>>

\* The job is locked before its checkpoints are counted, and the result before
\* the job.
PgCompleteScannerWorkerJob(c, got) ==
  LET succeeded == c.outcome = "succeeded"
      job == TheRow(got, 3)
  IN  <<AdvisoryLock(c.result),
        Must(SelectForUpdate("jobs", [id |-> {c.job}])),
        When(succeeded, Select("jobs", [id |-> {c.job}])),
        When(succeeded, Select("checkpoints", [job |-> {c.job}])),
        RefuseIf(/\ succeeded /\ Len(got) >= 4
                 /\ job.checks = 0 \/ Cardinality(Answer(got, 4)) # job.checks),
        Select("jobs", [result |-> {c.result}]),
        RefuseIf(Answer(got, 6) # {}),
        When(succeeded, Must(Select("batches", FinalBatch(c)))),
        Must(Update("jobs", HeldLease(c), Completed(c)))>>
----------------------------------------------------------------------------
PgScannerWorkerJobResumeCandidate(c, got) ==
  LET job == TheRow(got, 1)
      exhausted == Answer(got, 1) # {} /\ job.attempt >= MaximumWorkerLeaseAttempts
  IN  <<Must(SelectForUpdate("jobs", ResumeJob(c)))>>
      \o (IF exhausted
            THEN PgQuarantineRepeatedWorkerJobs(job.worker, c.now, Answer(got, 2))
            ELSE <<Select("checkpoints", [job |-> {c.job}]),
                   RefuseIf(Answer(got, 1) # {} /\ Cardinality(Answer(got, 2)) >= job.checks),
                   Select("batches", [job |-> {c.job}])>>)

\* The evidence is counted before the job is locked.
PgReassignScannerWorkerJob(c, got) ==
  <<Select("batches", [job |-> {c.job}]),
    Select("checkpoints", [job |-> {c.job}]),
    RefuseIf(\/ c.sequence # LastSequence(Answer(got, 1)) + 1
             \/ c.completed # Cardinality(Answer(got, 2))),
    Must(Update("jobs", Resumable(c), Reassigned(c))),
    Select("jobassignments", [job |-> {c.job}]),
    Insert("jobassignments", AssignmentRow(c, NextAttempt(Answer(got, 5))),
           {<<"jobs", c.job>>, <<"workers", c.worker>>})>>
----------------------------------------------------------------------------
JobProgram(c, got) ==
  CASE c.op = "CreateScannerWorkerJob" -> PgCreateScannerWorkerJob(c, got)
    [] c.op = "LeaseScannerWorkerJob" -> PgLeaseScannerWorkerJob(c, got)
    [] c.op = "RenewScannerWorkerJobLease" -> PgRenewScannerWorkerJobLease(c, got)
    [] c.op = "RecordScannerWorkerEvidenceBatch" -> PgRecordScannerWorkerEvidenceBatch(c, got)
    [] c.op = "CompleteScannerWorkerJob" -> PgCompleteScannerWorkerJob(c, got)
    [] c.op = "ScannerWorkerJobResumeCandidate" -> PgScannerWorkerJobResumeCandidate(c, got)
    [] c.op = "ReassignScannerWorkerJob" -> PgReassignScannerWorkerJob(c, got)
============================================================================
