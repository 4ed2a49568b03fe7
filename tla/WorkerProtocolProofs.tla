----------------------- MODULE WorkerProtocolProofs -------------------------
(***************************************************************************)
(* Workers and control plane together, for any workers, jobs, checks,      *)
(* losses, kills, restarts and late requests: what a worker sends is among *)
(* what WorkerJobs allows, so ProtocolSpec implements Spec and inherits    *)
(* its theorems; and evidence and results are neither lost nor duplicated  *)
(* on their way.                                                           *)
(***************************************************************************)
EXTENDS WorkerProtocolSteps, WorkerJobsProofs

-----------------------------------------------------------------------------
(***************************************************************************)
(* The server's part of a step                                             *)
(***************************************************************************)

\* What the server never takes back.
LEMMA ServerMonotone ==
  ASSUME IInv, [Next]_vars
  PROVE  /\ lastToken \in Nat /\ lastToken' \in Nat /\ lastToken' \in {lastToken, lastToken + 1}
         /\ batches \subseteq batches'
         /\ \A j \in Job : /\ LastSequence(j) \in Nat /\ LastSequence(j)' \in Nat
                           /\ LastSequence(j) <= LastSequence(j)'
                           /\ jobs[j].status = "completed" => jobs'[j] = jobs[j]
<1>1. lastToken \in Nat /\ lastToken' \in Nat /\ lastToken' \in {lastToken, lastToken + 1}
  BY RowsStep DEF IInv, TypeOK
<1>2. \A j \in Job : jobs[j].status = "completed" => jobs'[j] = jobs[j]
  BY RowSteps, MoveFacts DEF Terminal
<1> QED BY <1>1, <1>2, EvidenceKept

\* A sweep touches no result.
LEMMA SweptResult ==
  ASSUME IInv, NEW w \in Worker, NEW at \in Captured, NEW j \in Job
  PROVE  Swept(w, at)[j] \in JobRow /\ Swept(w, at)[j].result = jobs[j].result
<1>1. jobs[j] \in JobRow /\ at \in Nat /\ at <= now
  BY Zenon, CapturedPast DEF IInv, TypeOK
<1>2. {"canceled", "expired", "pending"} \subseteq JobStatus
  BY Zenon DEF JobStatus
<1>3. \A s \in JobStatus : Unleased(jobs[j], s).result = jobs[j].result
  BY <1>1, UnleasedRow
<1> QED BY <1>1, <1>2, <1>3, SweptRow

\* Polls.
LEMMA QuietPolls ==
  ASSUME IInv, NEW w \in Worker, NEW at \in Captured,
         (\E j \in Job : LeaseScannerWorkerJob(w, j, at)) \/ LeaseMaintenance(w, at)
  PROVE  Next /\ Quiet
<1>1. Next
  BY Zenon DEF Next, WorkerRequest
<1>2. ASSUME NEW j \in Job, LeaseScannerWorkerJob(w, j, at) PROVE Quiet
  <2>1. batches' = batches /\ jobs' = [Swept(w, at) EXCEPT ![j] = Leased(@, at)]
    BY Zenon, <1>2 DEF LeaseScannerWorkerJob
  <2>2. \A k \in Job : Swept(w, at)[k] \in JobRow /\ Swept(w, at)[k].result = jobs[k].result
    BY Zenon, SweptResult
  <2>3. Leased(Swept(w, at)[j], at).result = Swept(w, at)[j].result
    BY <2>2 DEF Leased, JobRow
  <2>4. DOMAIN Swept(w, at) = Job
    BY Zenon DEF Swept
  <2>5. \A k \in Job : jobs'[k] = IF k = j THEN Leased(Swept(w, at)[j], at) ELSE Swept(w, at)[k]
    BY <2>1, <2>4
  <2> QED BY <2>1, <2>2, <2>3, <2>5 DEF Quiet
<1>3. CASE LeaseMaintenance(w, at)
  BY <1>1, <1>3, SweptResult DEF LeaseMaintenance, Quiet
<1> QED BY <1>1, <1>2, <1>3

\* Renewals.
LEMMA QuietRenewals ==
  ASSUME IInv, NEW w \in Worker, NEW at \in Captured, NEW j \in Job, NEW token \in 1..lastToken,
         RenewScannerWorkerJobLease(w, j, token, at)
  PROVE  Next /\ Quiet
<1>1. jobs \in [Job -> JobRow]
  BY Zenon DEF IInv, TypeOK
<1>2. Next
  BY Zenon DEF Next, WorkerRequest
<1> QED BY <1>1, <1>2 DEF RenewScannerWorkerJobLease, Quiet, JobRow

\* The other threads, administrators, the clock and a restart.
LEMMA QuietThreads ==
  ASSUME IInv, ResultsInv, ServerStep \/ Restart
  PROVE  Next /\ Quiet
<1>0. jobs \in [Job -> JobRow] /\ dispatcher \in Phases
  BY Zenon DEF IInv, TypeOK
<1>1. Next
  BY Zenon DEF Next, ServerThread, ServerStep
<1>2. CASE batches' = batches /\ jobs' = jobs
  BY <1>1, <1>2 DEF Quiet
<1>3. CASE CreateScannerWorkerJob
  <2>1. CASE jobs' = jobs
    BY <1>2, <1>3, <2>1 DEF CreateScannerWorkerJob
  <2>2. CASE jobs' # jobs
    <3>1. /\ dispatcher.job \in Job /\ jobs[dispatcher.job].status = "none"
          /\ jobs' = [jobs EXCEPT ![dispatcher.job] = NewRow(dispatcher, launching[dispatcher.job].expires)]
          /\ batches' = batches
      BY <1>0, <1>3, <2>2 DEF CreateScannerWorkerJob, Phases, Idle
    <3>2. jobs[dispatcher.job].result = Null
      BY Zenon, <3>1 DEF ResultsInv
    <3>3. \A d, t : NewRow(d, t).result = Null
      BY Zenon DEF NewRow, NoRow
    <3> QED BY <1>0, <1>1, <3>1, <3>2, <3>3 DEF Quiet
  <2> QED BY <2>1, <2>2
<1>4. CASE ReassignScannerWorkerJob
  <2>1. \A row \in JobRow : \A d : ReassignedRow(row, d).result = row.result
    BY Zenon DEF ReassignedRow, Unleased, JobRow
  <2> QED BY <1>0, <1>1, <1>4, <2>1 DEF ReassignScannerWorkerJob, Quiet
<1>5. ASSUME NEW j \in Job, ResumeQuarantine(j) PROVE Quiet
  <2>1. jobs[j].status = "leased" /\ jobs[j].worker \in Worker /\ now \in Nat
    BY <1>5, <1>0 DEF ResumeQuarantine, Abandoned, IInv, RowsInv, RowOK, TypeOK
  <2>2. \A k \in Job : \/ JobsAfterQuarantine(jobs[j].worker, now)[k] = jobs[k]
                       \/ JobsAfterQuarantine(jobs[j].worker, now)[k] = Unleased(jobs[k], "canceled")
    BY <2>1, QuarantineRow
  <2>3. \A k \in Job : Unleased(jobs[k], "canceled").result = jobs[k].result
    BY Zenon, <1>0, UnleasedRow DEF JobStatus
  <2> QED BY <1>5, <2>2, <2>3 DEF ResumeQuarantine, Quiet
<1>6. CASE Tick \/ Administrator
  BY Zenon, <1>2, <1>6 DEF Tick, Administrator, SetScannerWorkerDispatch, SetScannerWorkerDispatchForWorker,
                    RevokeScannerWorker, storeVars
<1>7. CASE Restart
  BY Zenon, <1>2, <1>7 DEF Restart
<1>8. ASSUME NEW j \in Job,
             \/ ListPaused(j) \/ LaunchFailed(j) \/ CancelRead(j) \/ CancelSave(j)
             \/ \E lifetime \in JobLifetimes : Launch(j, lifetime)
      PROVE  Quiet
  BY Zenon, <1>2, <1>8 DEF ListPaused, LaunchFailed, CancelRead, CancelSave, Launch, storeVars
<1>9. ASSUME NEW j \in Job, NEW heard \in Heartbeats,
             SelectWorker(j, heard) \/ DispatchFails(j, heard) \/ ResumeCandidate(j, heard)
      PROVE  Quiet
  BY <1>2, <1>9 DEF SelectWorker, DispatchFails, ResumeCandidate, storeVars
<1> QED BY <1>1, <1>3, <1>4, <1>5, <1>6, <1>7, <1>8, <1>9 DEF ServerStep

\* A manifest keeps naming all checks of the batches before it.
LEMMA ManifestStep ==
  ASSUME IInv, ManifestInv, [Next]_vars,
         \/ batches' = batches
         \/ \E b \in Batches, at \in Captured : RecordScannerWorkerEvidenceBatch(b, at)
  PROVE  ManifestInv'
<1>0. batches \subseteq Batches
  BY Zenon DEF IInv, TypeOK
<1>1. ASSUME NEW b \in Batches, NEW at \in Captured, RecordScannerWorkerEvidenceBatch(b, at)
      PROVE  ManifestInv'
  <2>1. b.sequence = LastSequence(b.job) + 1 /\ b.job \in Job /\ jobs' = jobs
        /\ batches' = batches \cup {b}
    BY <1>1, BatchesAssumption DEF RecordScannerWorkerEvidenceBatch, SequenceAccepted
  <2>2. ~ (b.sequence < jobs[b.job].next)
    BY <2>1, EvidenceFacts DEF IInv, ManifestSound, TypeOK, JobRow
  <2> QED BY <2>1, <2>2 DEF ManifestInv
<1>2. CASE batches' = batches
  <2> SUFFICES ASSUME NEW c \in batches, c.sequence < jobs'[c.job].next
               PROVE  c.checks \subseteq jobs'[c.job].completed
    BY Zenon, <1>2 DEF ManifestInv
  <2>1. c.job \in Job /\ c.sequence \in Nat
    BY Zenon, <1>0, BatchesAssumption
  <2>2. c.sequence >= 1 /\ c.checks \subseteq checkpoints[c.job]
    <3>1. c \in Mine(c.job) /\ c.sequence \in Sequences(c.job)
      BY Zenon DEF Mine, Sequences
    <3> QED BY <2>1, <3>1, EvidenceFacts DEF IInv, EvidenceInv
  <2>3. \/ jobs'[c.job].next = jobs[c.job].next /\ jobs'[c.job].completed = jobs[c.job].completed
        \/ jobs'[c.job].next = 1 /\ jobs'[c.job].completed = {}
        \/ Reassigned(c.job)
    BY Zenon, <2>1, RowSteps, MoveFacts
  <2>4. CASE Reassigned(c.job)
    <3>1. dispatcher \in Phases /\ jobs[c.job] \in JobRow /\ checkpoints[c.job] \in SUBSET Check
      BY Zenon, <2>1 DEF IInv, TypeOK
    <3>2. jobs'[c.job].completed = dispatcher.completed
      BY <2>4, <3>1, ReassignedFields DEF Reassigned
    <3>3. /\ dispatcher.completed \subseteq checkpoints[c.job]
          /\ Cardinality(dispatcher.completed) = Cardinality(checkpoints[c.job])
      BY Zenon, <2>4 DEF Reassigned, Reassignable, IInv, DispatcherInv
    <3> QED BY <2>2, <3>1, <3>2, <3>3, CountsDecide
  <2> QED BY <2>1, <2>2, <2>3, <2>4 DEF ManifestInv
<1> QED BY <1>1, <1>2

\* The server accepts a batch that is due.
LEMMA AcceptStep ==
  ASSUME Open, ClientTypeOK, OutboxInv, LateInv, NEW m, Due(m), m.kind = "evidence",
         NEW at \in Captured, RecordScannerWorkerEvidenceBatch(m.batch, at)
  PROVE  /\ Next /\ m.batch \in AnyBatch /\ m = Evidence(m.batch) /\ m.batch \in batches'
         /\ Accepted(m.batch) /\ jobs' = jobs /\ projections' = projections
<1>1. m.batch \in Batches /\ m.batch \in AnyBatch /\ m = Evidence(m.batch)
  BY Zenon, DueItems
<1>2. Next
  BY Zenon, <1>1 DEF Next, WorkerRequest
<1>3. m.batch \in batches' /\ Accepted(m.batch) /\ jobs' = jobs /\ projections' = projections
  BY Zenon DEF RecordScannerWorkerEvidenceBatch, SequenceAccepted, Accepted, threadVars
<1> QED BY Zenon, <1>1, <1>2, <1>3

\* The server commits a completion that is due.
LEMMA CommitStep ==
  ASSUME Open, IInv, ClientTypeOK, OutboxInv, LateInv, NEW m, Due(m), m.kind = "completion",
         NEW at \in Captured, CompleteScannerWorkerJob(m.receipt, m.token, at), outbox' = outbox
  PROVE  /\ Next /\ batches' = batches /\ projections' = projections \cup {m.receipt}
         /\ m \in AnyMessage /\ m.receipt.job \in Job /\ Commits(m, m.receipt.job)
         /\ \A j \in Job : j # m.receipt.job => jobs'[j].result = jobs[j].result
<1>1. m \in AnyMessage /\ m.receipt \in Receipts /\ m.token \in 1..lastToken /\ m.receipt.job \in Job
  BY Zenon, DueItems DEF AnyReceipt
<1>2. jobs \in [Job -> JobRow] /\ jobs[m.receipt.job] \in JobRow
  BY Zenon, <1>1 DEF IInv, TypeOK
<1>3. Next
  BY Zenon, <1>1 DEF Next, WorkerRequest
<1>4. /\ jobs' = [jobs EXCEPT ![m.receipt.job] = CompletedRow(@, m.receipt)]
      /\ jobs[m.receipt.job].worker = m.receipt.worker
      /\ \A k \in Job : jobs[k].result # m.receipt.id
      /\ batches' = batches /\ projections' = projections \cup {m.receipt}
  BY Zenon DEF CompleteScannerWorkerJob, HoldsLease
<1>5. CompletedRow(jobs[m.receipt.job], m.receipt).result = m.receipt.id
  BY Zenon, <1>2 DEF CompletedRow, Unleased, JobRow
<1>6. /\ jobs'[m.receipt.job] = CompletedRow(jobs[m.receipt.job], m.receipt)
      /\ \A j \in Job \ {m.receipt.job} : jobs'[j] = jobs[j]
  BY <1>1, <1>2, <1>4
<1>7. /\ CompletedRow(jobs[m.receipt.job], m.receipt).status = "completed"
      /\ CompletedRow(jobs[m.receipt.job], m.receipt).worker = m.receipt.worker
  BY <1>1, <1>2, <1>4, CompletedFields
<1>8. Commits(m, m.receipt.job)
  BY <1>4, <1>5, <1>6, <1>7 DEF Commits
<1> QED BY <1>1, <1>3, <1>4, <1>6, <1>8

\* The server recognises a completion that is due.
LEMMA RetryStep ==
  ASSUME Open, ClientTypeOK, OutboxInv, LateInv, NEW m, Due(m), m.kind = "completion",
         RetryResult(m.receipt)
  PROVE  /\ Next /\ batches' = batches /\ jobs' = jobs
         /\ projections' = projections \cup {m.receipt} /\ jobs[m.receipt.job].result = m.receipt.id
         /\ m \in AnyMessage
<1>1. m \in AnyMessage /\ m.receipt \in Receipts
  BY Zenon, DueItems
<1> QED BY Zenon, <1>1 DEF Next, ServerThread, RetryResult, storeVars

\* Evidence is sent, accepted or refused, and answered or not.
LEMMA DeliverEvidenceStep ==
  ASSUME Open, IInv, PInv, NEW w \in Worker, NEW at \in Captured, DeliverEvidence(w, at)
  PROVE  [Next]_vars /\ Proceeds
<1> DEFINE m == Head(outbox[w])
<1> USE DEF PInv
<1>1. /\ Forwarding(w) /\ outbox[w] # <<>> /\ m.kind = "evidence" /\ Due(m) /\ AtHead(w, m)
      /\ UNCHANGED <<ledger, late, emitted, projected>> /\ ~ client[w].awaiting
  BY Zenon DEF DeliverEvidence, Due, AtHead, history
<1>2. late' \subseteq AnyRequest /\ LateMoves /\ projected' \subseteq Receipts
  BY Zenon, <1>1 DEF ClientTypeOK, LateMoves
<1> HIDE DEF m
<1>3. ASSUME Acknowledge(w), UNCHANGED <<jobs, projections>>, m.batch \in batches', [Next]_vars,
             \/ batches' = batches
             \/ Due(Evidence(m.batch)) /\ m.batch \in AnyBatch /\ Accepted(m.batch)
      PROVE  [Next]_vars /\ Proceeds
  <2>1. /\ ClientsGo /\ ~ client'[w].awaiting /\ outbox' \in [Worker -> Seq(AnyMessage)]
        /\ outbox'[w] = Tail(outbox[w]) /\ \A v \in Worker \ {w} : outbox'[v] = outbox[v]
    BY Zenon, <1>1, <1>3, AcknowledgeGoes
  <2>2. Drops(w)
    BY <1>1, <1>3, <2>1 DEF Drops, m
  <2>3. ClientTypeOK'
    BY <1>1, <1>2, <2>1 DEF ClientTypeOK, ClientsGo
  <2>4. \A v \in Worker : Waits(v)
    BY Zenon, <1>3, <2>1 DEF Waits, ClientsGo, AwaitInv, Forwarding
  <2> QED BY Zenon, <1>1, <1>2, <1>3, <2>1, <2>2, <2>3, <2>4, GoingStep DEF ClientsGo
<1>4. ASSUME GiveUp(w) PROVE outbox' = outbox /\ ClientsGo
  BY <1>1, <1>4, AfterForwardGoes DEF GiveUp, ClientTypeOK
<1>5. CASE RecordScannerWorkerEvidenceBatch(m.batch, at) /\ (Acknowledge(w) \/ GiveUp(w))
  <2>1. /\ Next /\ m.batch \in AnyBatch /\ m = Evidence(m.batch) /\ m.batch \in batches'
        /\ Accepted(m.batch) /\ jobs' = jobs /\ projections' = projections
    BY Zenon, <1>1, <1>5, AcceptStep
  <2>2. CASE Acknowledge(w)
    BY Zenon, <1>1, <1>3, <1>5, <2>1, <2>2
  <2>3. CASE GiveUp(w)
    <3>1. ClientTypeOK'
      BY <1>1, <1>2, <1>4, <2>3 DEF ClientTypeOK, ClientsGo
    <3>2. \A v \in Worker : Waits(v)
      BY Zenon, <1>4, <2>1, <2>3 DEF Waits, ClientsGo, AwaitInv, Forwarding
    <3> QED BY Zenon, <1>1, <1>2, <1>4, <1>5, <2>1, <2>3, <3>1, <3>2, GoingStep DEF ClientsGo
  <2> QED BY <2>2, <2>3, <1>5
<1>6. CASE UNCHANGED vars /\ EvidenceKnown(m.batch) /\ Acknowledge(w)
  BY Zenon, <1>3, <1>6 DEF vars, storeVars, threadVars, EvidenceKnown
<1>7. CASE UNCHANGED vars /\ GiveUp(w)
  <2>1. Quiet /\ projections' = projections
    BY Zenon, <1>7 DEF Quiet, vars, storeVars, threadVars
  <2> QED BY Zenon, <1>1, <1>2, <1>4, <1>7, <2>1, QuietStep
<1> QED BY <1>5, <1>6, <1>7 DEF DeliverEvidence, m

\* A completion is sent, committed, recognised or refused.
LEMMA DeliverCompletionStep ==
  ASSUME Open, IInv, PInv, NEW w \in Worker, NEW at \in Captured, DeliverCompletion(w, at)
  PROVE  [Next]_vars /\ Proceeds
<1> DEFINE m == Head(outbox[w])
<1> USE DEF PInv
<1>1. /\ Forwarding(w) /\ outbox[w] # <<>> /\ m.kind = "completion" /\ Due(m) /\ AtHead(w, m)
      /\ UNCHANGED <<ledger, late, emitted, projected>>
  BY Zenon DEF DeliverCompletion, Due, AtHead, history
<1>2. late' \subseteq AnyRequest /\ LateMoves /\ projected' \subseteq Receipts
  BY Zenon, <1>1 DEF ClientTypeOK, LateMoves
<1> HIDE DEF m
<1>3. ASSUME client' = [client EXCEPT ![w].awaiting = TRUE], outbox' = outbox,
             CompleteScannerWorkerJob(m.receipt, m.token, at) \/ RetryResult(m.receipt)
      PROVE  [Next]_vars /\ Proceeds
  <2>1. client' \in [Worker -> Client]
    <3>0. client \in [Worker -> Client] /\ client[w] \in Client
      BY Zenon DEF ClientTypeOK
    <3>1. [client[w] EXCEPT !.awaiting = TRUE] \in Client
      BY Zenon, <3>0, ClientSet
    <3>2. client' = [client EXCEPT ![w] = [client[w] EXCEPT !.awaiting = TRUE]]
      BY Zenon, <1>3
    <3> QED BY <3>0, <3>1, <3>2
  <2>2. \A v \in Worker : Goes(v) /\ (v # w => client'[v] = client[v])
    BY <1>3 DEF Goes, Busy, SameLease, ClientTypeOK, Client
  <2>3. /\ Next /\ batches' = batches /\ projections' = projections \cup {m.receipt}
        /\ m \in AnyMessage /\ jobs'[m.receipt.job].result = m.receipt.id
        /\ \A j \in Job : jobs'[j].result = jobs[j].result \/ Commits(m, j)
    BY <1>1, <1>3, CommitStep, RetryStep DEF Commits
  <2>6. client'[w].phase = client[w].phase
    BY Zenon, <1>3 DEF ClientTypeOK, Client
  <2>4. \A v \in Worker : Waits(v)
    BY <1>1, <1>3, <2>2, <2>3, <2>6 DEF Waits, AwaitInv, Forwarding
  <2>5. ClientTypeOK'
    BY <1>1, <1>2, <1>3, <2>1 DEF ClientTypeOK
  <2> QED BY <1>1, <1>2, <1>3, <2>2, <2>3, <2>4, <2>5, GoingStep
<1>4. CASE UNCHANGED vars /\ GiveUp(w)
  <2>1. Quiet /\ projections' = projections
    BY Zenon, <1>4 DEF Quiet, vars, storeVars, threadVars
  <2>2. outbox' = outbox /\ ClientsGo
    BY <1>1, <1>4, AfterForwardGoes DEF GiveUp, ClientTypeOK
  <2> QED BY Zenon, <1>1, <1>2, <1>4, <2>1, <2>2, QuietStep
<1> QED BY <1>3, <1>4 DEF DeliverCompletion, m

\* A request that was given up arrives.
LEMMA LateArrivalStep ==
  ASSUME Open, IInv, PInv, NEW m \in late, NEW at \in Captured, LateArrival(m, at)
  PROVE  [Next]_vars /\ Proceeds
<1> USE DEF PInv
<1>1. /\ UNCHANGED <<outbox, ledger, client, emitted, projected>> /\ late' \subseteq late /\ Due(m)
      /\ m \in AnyRequest
  BY Zenon DEF LateArrival, Due, history, ClientTypeOK
<1>2. /\ late' \subseteq AnyRequest /\ LateMoves /\ projected' \subseteq Receipts
      /\ ClientTypeOK' /\ ClientsGo
  BY Zenon, <1>1 DEF ClientTypeOK, LateMoves, ClientsGo, Goes, Busy, SameLease
<1>3. CASE m.kind = "evidence" /\ RecordScannerWorkerEvidenceBatch(m.batch, at)
  <2>1. /\ Next /\ m.batch \in AnyBatch /\ m = Evidence(m.batch) /\ jobs' = jobs
        /\ projections' = projections /\ Accepted(m.batch)
    BY <1>1, <1>3, AcceptStep
  <2>2. \A v \in Worker : Waits(v)
    BY <1>1, <2>1 DEF Waits, AwaitInv, Forwarding
  <2> QED BY <1>1, <1>2, <1>3, <2>1, <2>2, GoingStep DEF ClientsGo
<1>4. CASE m.kind = "completion"
           /\ (CompleteScannerWorkerJob(m.receipt, m.token, at) \/ RetryResult(m.receipt))
  <2>1. /\ Next /\ batches' = batches /\ projections' = projections \cup {m.receipt} /\ m \in AnyMessage
        /\ \A j \in Job : jobs'[j].result = jobs[j].result \/ Commits(m, j)
    BY Zenon, <1>1, <1>4, CommitStep, RetryStep
  <2>2. \A v \in Worker : Waits(v)
    BY <1>1, <2>1 DEF Waits, AwaitInv, Forwarding
  <2> QED BY Zenon, <1>1, <1>2, <2>1, <2>2, GoingStep DEF ClientsGo
<1>5. CASE m.kind = "poll" /\ (\/ \E j \in Job : LeaseScannerWorkerJob(m.worker, j, at)
                              \/ LeaseMaintenance(m.worker, at))
  <2>1. m.worker \in Worker
    BY <1>1, <1>5, MessageFields
  <2>2. Next /\ Quiet /\ projections' = projections
    BY <1>5, <2>1, QuietPolls DEF LeaseScannerWorkerJob, LeaseMaintenance, threadVars
  <2> QED BY <1>1, <1>2, <2>2, QuietStep
<1>6. CASE m.kind = "renewal" /\ RenewScannerWorkerJobLease(m.worker, m.job, m.token, at)
  <2>1. m.worker \in Worker /\ m.job \in Job /\ m.token \in 1..lastToken
    BY Zenon, <1>1, <1>6, MessageFields DEF LateInv
  <2>2. Next /\ Quiet /\ projections' = projections
    BY Zenon, <1>6, <2>1, QuietRenewals DEF RenewScannerWorkerJobLease, threadVars
  <2> QED BY Zenon, <1>1, <1>2, <2>2, QuietStep
<1> QED BY <1>3, <1>4, <1>5, <1>6 DEF LateArrival

\* Polls that bring no lease, and renewals.
LEMMA RequestSteps ==
  ASSUME IInv, PInv, NEW w \in Worker, NEW at \in Captured,
         \/ Poll(w, at) /\ ~ \E j \in Job : Received(w, j)
         \/ Renew(w, at) \/ RenewalCut(w, at)
  PROVE  [Next]_vars /\ Proceeds
<1> USE DEF PInv
<1>0. client \in [Worker -> Client] /\ client[w] \in Client
  BY Zenon DEF ClientTypeOK
<1>1. UNCHANGED <<outbox, ledger, emitted, projected, late>>
  BY Zenon DEF Poll, Renew, RenewalCut, history
<1>2. late' \subseteq AnyRequest /\ LateMoves /\ projected' \subseteq Receipts
  BY <1>1 DEF ClientTypeOK, LateMoves
<1>3. CASE Poll(w, at) /\ ~ \E j \in Job : Received(w, j)
  <2>1. /\ (\E j \in Job : LeaseScannerWorkerJob(w, j, at)) \/ LeaseMaintenance(w, at)
        /\ Goto(w, "waiting")
    BY Zenon, <1>3 DEF Poll
  <2>2. ClientsGo
    BY <1>0, <2>1, GotoGoes DEF Phase
  <2>3. Next /\ Quiet /\ projections' = projections
    BY <2>1, QuietPolls DEF LeaseScannerWorkerJob, LeaseMaintenance, threadVars
  <2> QED BY <1>1, <1>2, <2>2, <2>3, QuietStep
<1>4. CASE Renew(w, at) \/ RenewalCut(w, at)
  <2>1. Busy(w) /\ client[w].job \in Job /\ client[w].token \in 1..lastToken
    BY Zenon, <1>4 DEF Renew, Renewing, RenewalCut, Busy, LeaseInv
  <2>2. RenewScannerWorkerJobLease(w, client[w].job, client[w].token, at) \/ UNCHANGED vars
    BY Zenon, <1>4 DEF Renew, RenewalCut
  <2>3. [Next]_vars /\ Quiet /\ projections' = projections
    <3>1. CASE UNCHANGED vars
      BY Zenon, <3>1 DEF Quiet, vars, storeVars, threadVars
    <3>2. CASE RenewScannerWorkerJobLease(w, client[w].job, client[w].token, at)
      BY Zenon, <2>1, <3>2, QuietRenewals DEF RenewScannerWorkerJobLease, threadVars
    <3> QED BY <2>2, <3>1, <3>2
  <2>4. client' = client \/ \E e \in Error : RenewalFails(w, e)
    BY Zenon, <1>4 DEF Renew, RenewalCut, Error
  <2>5. ClientsGo
    BY <1>0, <2>4, RenewalFields, SameGoes DEF SameLease
  <2> QED BY <1>1, <1>2, <2>3, <2>5, QuietStep
<1> QED BY <1>3, <1>4

\* The server's own steps and its restart.
LEMMA ServerSteps ==
  ASSUME Open, IInv, PInv, ServerStep \/ ServerRestart \/ Projection
  PROVE  [Next]_vars /\ Proceeds
<1> USE DEF PInv
<1>0. client \in [Worker -> Client]
  BY Zenon DEF ClientTypeOK
<1>1. UNCHANGED <<outbox, ledger, emitted, late>>
  BY Zenon DEF ServerStep, ServerRestart, Projection, clientVars, history
<1>2. late' \subseteq AnyRequest /\ LateMoves
  BY <1>1 DEF ClientTypeOK, LateMoves
<1>3. CASE ServerStep
  <2>1. projections' = projections /\ client' = client /\ projected' = projected
    BY Zenon, <1>3 DEF ServerStep, clientVars, history, Tick, Administrator, SetScannerWorkerDispatch,
                SetScannerWorkerDispatchForWorker, RevokeScannerWorker, CreateScannerWorkerJob,
                ReassignScannerWorkerJob, ListPaused, LaunchFailed, CancelRead, CancelSave,
                ResumeQuarantine, Launch, SelectWorker, DispatchFails, ResumeCandidate, threadVars
  <2>2. ClientsGo
    BY <1>0, <2>1 DEF ClientsGo, Goes, Busy, SameLease
  <2>3. Next /\ Quiet
    BY <1>3, QuietThreads
  <2> QED BY <1>1, <1>2, <2>1, <2>2, <2>3, QuietStep DEF ClientTypeOK
<1>4. CASE ServerRestart
  <2>1. Restart /\ projected' = projected
        /\ client' = [w \in Worker |-> IF client[w].awaiting
                                       THEN [client[w] EXCEPT !.phase = AfterForward(w), !.awaiting = FALSE]
                                       ELSE client[w]]
    BY Zenon, <1>4 DEF ServerRestart, history
  <2>2. Next /\ Quiet
    BY Zenon, <2>1, QuietThreads
  <2>3. ASSUME NEW w \in Worker, client[w].awaiting
        PROVE  client'[w] \in Client /\ Goes(w) /\ ~ client'[w].awaiting
    <3>1. AfterForward(w) \in Phase
          /\ \/ AfterForward(w) \in {"waiting", "polling"}
             \/ AfterForward(w) = "running" /\ client[w].phase = "emitting"
      BY <2>3 DEF AwaitInv, AfterForward, Forwarding, Phase
    <3>2. client'[w] = [client[w] EXCEPT !.phase = AfterForward(w), !.awaiting = FALSE]
      BY Zenon, <2>1, <2>3
    <3>3. client'[w] \in Client
      <4>1. PICK p \in Phase : p = AfterForward(w)
        BY <3>1
      <4>2. PICK r \in Client : r = client[w]
        BY Zenon, <1>0
      <4>3. [r EXCEPT !.phase = p, !.awaiting = FALSE] \in Client
        BY Zenon, ClientSets
      <4> QED BY Zenon, <3>2, <4>1, <4>2, <4>3
    <3>4. client'[w].phase = AfterForward(w) /\ ~ client'[w].awaiting /\ SameLease(client'[w], client[w])
      BY <1>0, <3>2 DEF Client, SameLease
    <3>5. Goes(w)
      BY <3>1, <3>4 DEF Goes, Busy
    <3> QED BY <3>3, <3>4, <3>5
  <2>4. ASSUME NEW w \in Worker, ~ client[w].awaiting
        PROVE  client'[w] \in Client /\ Goes(w) /\ ~ client'[w].awaiting
    BY Zenon, <1>0, <2>1, <2>4 DEF Goes, Busy, SameLease
  <2>5. client' = [w \in Worker |-> client'[w]]
    BY Zenon, <2>1
  <2>6. ClientsGo /\ \A w \in Worker : ~ client'[w].awaiting
    BY <2>3, <2>4, <2>5 DEF ClientsGo
  <2> QED BY Zenon, <1>1, <1>2, <2>1, <2>2, <2>6, QuietStep DEF ClientTypeOK
<1>5. CASE Projection
  <2>1. PICK r \in projections : ProjectScannerWorkerResult(r) /\ projected' = projected \cup {r}
    BY Zenon, <1>5 DEF Projection
  <2>2. Next /\ Quiet /\ projections' = projections \ {r}
    <3>1. r \in Receipts
      BY Zenon DEF IInv, TypeOK
    <3>2. Next
      BY <2>1, <3>1 DEF Next, ServerThread
    <3> QED BY Zenon, <2>1, <3>2 DEF ProjectScannerWorkerResult, Quiet
  <2>3. client' = client
    BY Zenon, <1>5 DEF Projection
  <2>4. ClientsGo
    BY <1>0, <2>3 DEF ClientsGo, Goes, Busy, SameLease
  <2>5. r \in Receipts
    BY Zenon DEF IInv, TypeOK
  <2> QED BY <1>1, <1>2, <2>1, <2>2, <2>4, <2>5, QuietStep DEF ClientTypeOK
<1> QED BY <1>3, <1>4, <1>5

\* A poll brings a lease under the next token, with the manifest of the job.
LEMMA ReceiveStep ==
  ASSUME IInv, PInv, NEW w \in Worker, NEW at \in Captured, NEW j \in Job,
         LeaseScannerWorkerJob(w, j, at), Received(w, j), client[w].phase = "polling",
         UNCHANGED <<outbox, ledger, late, emitted, projected>>
  PROVE  Next /\ Proceeds
<1> USE DEF PInv
<1>0. client \in [Worker -> Client] /\ jobs[j] \in JobRow /\ at \in Nat /\ lastToken \in Nat
  BY CapturedPast DEF ClientTypeOK, IInv, TypeOK
<1>1. Next /\ Quiet
  BY Zenon, QuietPolls
<1>2. /\ lastToken' = lastToken + 1 /\ batches' = batches /\ projections' = projections
      /\ jobs' = [Swept(w, at) EXCEPT ![j] = Leased(@, at)]
  BY Zenon DEF LeaseScannerWorkerJob, threadVars
<1>3. jobs'[j] \in JobRow /\ jobs'[j].token = lastToken + 1
  <2>1. jobs'[j] = Leased(Swept(w, at)[j], at)
    BY Zenon, <1>2 DEF Swept
  <2>2. PICK row \in JobRow : row = Swept(w, at)[j]
    BY Zenon, SweptResult
  <2>3. Leased(row, at) \in JobRow /\ Leased(row, at).token = lastToken + 1
    BY <1>0, LeasedFields
  <2> QED BY Zenon, <2>1, <2>2, <2>3
<1>4. /\ client' \in [Worker -> Client] /\ \A v \in Worker \ {w} : client'[v] = client[v]
      /\ client'[w].phase = "claiming" /\ ~ client'[w].awaiting /\ client'[w].job = j
      /\ client'[w].token = lastToken + 1
      /\ client'[w].next = jobs[j].next /\ client'[w].todo = Check \ jobs[j].completed
  BY Zenon, <1>0, <1>3, ReceivedFields
<1>5. jobs[j].next <= LastSequence(j) + 1
  BY Zenon DEF IInv, ManifestSound
<1>6. ASSUME NEW c \in batches, c.job = j, c.sequence < jobs[j].next
      PROVE  c.checks \cap (Check \ jobs[j].completed) = {}
  <2>1. c.checks \subseteq jobs[j].completed
    BY Zenon, <1>6 DEF ManifestInv
  <2> QED BY Zenon, <2>1
<1>7. Starts(w)
  <2>1. client'[w].next <= LastSequence(j) + 1
    BY Zenon, <1>4, <1>5
  <2>2. ASSUME NEW c \in batches', c.job = j, c.sequence < client'[w].next
        PROVE  c.checks \cap client'[w].todo = {}
    BY Zenon, <1>2, <1>4, <1>6, <2>2
  <2> QED BY Zenon, <1>2, <1>4, <2>1, <2>2 DEF Starts
<1>8. ASSUME NEW v \in Worker, v # w PROVE Goes(v) /\ ~ Starts(v)
  <2>1. client'[v] = client[v]
    BY Zenon, <1>4, <1>8
  <2>2. Goes(v)
    BY Zenon, <2>1 DEF Goes, Busy, SameLease
  <2> QED BY Zenon, <2>2, GoesOn
<1>9. ClientTypeOK'
  BY Zenon, <1>4 DEF ClientTypeOK
<1>10. ASSUME NEW v \in Worker PROVE Waits(v)
  <2> SUFFICES ASSUME client'[v].awaiting
      PROVE  /\ Forwarding(v)' /\ outbox'[v] = outbox[v]
             /\ client[v].awaiting /\ projections \subseteq projections' \cup projected'
    BY Zenon DEF Waits
  <2>1. client'[v] = client[v]
    BY Zenon, <1>4
  <2>2. Forwarding(v)
    BY Zenon, <2>1 DEF AwaitInv
  <2>3. Forwarding(v)'
    BY Zenon, <2>1, <2>2 DEF Forwarding
  <2> QED BY Zenon, <1>2, <2>1, <2>3
<1>11. LateMoves
  BY Zenon DEF LateMoves
<1>12. \A j1 \in Job : jobs'[j1].result = jobs[j1].result
  BY Zenon, <1>1 DEF Quiet
<1>13. Proceeds
  BY Zenon, <1>2, <1>7, <1>8, <1>9, <1>10, <1>11, <1>12 DEF Proceeds
<1> QED BY <1>1, <1>13

\* Every step is one of the server's, and one of the workers'.
LEMMA ProtocolStep ==
  ASSUME Open, IInv, PInv, [ProtocolNext]_allVars
  PROVE  [Next]_vars /\ (Proceeds \/ \E w \in Worker : \E b : Emits(w, b))
<1>1. CASE UNCHANGED allVars
  <2>1. UNCHANGED vars /\ UNCHANGED <<outbox, ledger, client, late, emitted, projected>>
    BY Zenon, <1>1 DEF allVars, clientVars, history
  <2>2. Quiet /\ projections' = projections
    BY Zenon, <2>1 DEF Quiet, vars, storeVars, threadVars
  <2>3. ClientsGo
    BY <2>1 DEF ClientsGo, Goes, Busy, SameLease, PInv, ClientTypeOK
  <2>4. late' \subseteq AnyRequest /\ LateMoves /\ projected' \subseteq Receipts
    BY Zenon, <2>1 DEF LateMoves, PInv, ClientTypeOK
  <2> QED BY <2>1, <2>2, <2>3, <2>4, QuietStep DEF PInv
<1>2. ASSUME NEW w \in Worker,
             \/ StartCycle(w) \/ ForwardEnds(w) \/ PollSkipped(w) \/ Finish(w) \/ Start(w) \/ Answered(w)
             \/ Unanswered(w) \/ DeliveryLost(w) \/ PollLost(w) \/ RenewalLost(w) \/ Stop(w) \/ Kill(w)
      PROVE  [Next]_vars /\ Proceeds
  <2>1. UNCHANGED vars
    BY Zenon, <1>2 DEF StartCycle, ForwardEnds, PollSkipped, Finish, Start, Answered, Unanswered, DeliveryLost,
                PollLost, RenewalLost, Stop, Kill
  <2> QED BY <1>2, <2>1, LocalSteps, AnsweredStep
<1>3. ASSUME NEW w \in Worker, VerifyAndClaim(w) \/ QueueCompletion(w)
      PROVE  [Next]_vars /\ Proceeds
  <2>1. UNCHANGED vars
    BY Zenon, <1>3 DEF VerifyAndClaim, QueueCompletion
  <2> QED BY Zenon, <1>3, <2>1, ClaimStep, QueueStep, RefusedSteps
<1>4. ASSUME NEW w \in Worker, NEW c \in Check, EmitResult(w, c)
      PROVE  [Next]_vars /\ (Proceeds \/ \E b : Emits(w, b))
  <2>1. UNCHANGED vars
    BY Zenon, <1>4 DEF EmitResult
  <2> QED BY <1>4, <2>1, EmitStep, RefusedSteps
<1>5. ASSUME NEW w \in Worker, NEW at \in Captured, Poll(w, at)
      PROVE  [Next]_vars /\ Proceeds
  <2>1. CASE \E j \in Job : LeaseScannerWorkerJob(w, j, at) /\ Received(w, j)
    BY Zenon, <1>5, <2>1, ReceiveStep DEF Poll, history
  <2>2. CASE Goto(w, "waiting")
    <3>1. client'[w].phase = "waiting"
      BY Zenon, <2>2 DEF Goto, PInv, ClientTypeOK, Client
    <3>2. ~ \E j \in Job : Received(w, j)
      <4> SUFFICES ASSUME NEW j \in Job, Received(w, j) PROVE FALSE
        BY Zenon
      <4>1. client'[w] = [Resting EXCEPT !.phase = "claiming", !.job = j, !.token = jobs'[j].token,
                                         !.expires = jobs[j].expires, !.next = jobs[j].next,
                                         !.todo = Check \ jobs[j].completed]
        BY Zenon DEF Received, PInv, ClientTypeOK
      <4>2. client'[w].phase = "claiming"
        BY Zenon, <4>1 DEF Resting
      <4> QED BY <3>1, <4>2
    <3> QED BY Zenon, <1>5, <3>2, RequestSteps
  <2> QED BY Zenon, <1>5, <2>1, <2>2 DEF Poll
<1>6. ASSUME NEW w \in Worker, Renewal(w) PROVE [Next]_vars /\ Proceeds
  BY <1>6, RequestSteps DEF Renewal
<1>7. ASSUME NEW w \in Worker, ClientStep(w)
      PROVE  [Next]_vars /\ (Proceeds \/ \E b : Emits(w, b))
  BY <1>2, <1>3, <1>4, <1>5, <1>7, DeliverEvidenceStep, DeliverCompletionStep DEF ClientStep
<1>8. ASSUME Disturbance PROVE [Next]_vars /\ Proceeds
  BY <1>2, <1>8, ServerSteps, LateArrivalStep DEF Disturbance
<1> QED BY <1>1, <1>6, <1>7, <1>8, ServerSteps DEF ProtocolNext

\* What the worker's side takes from the server's invariant.
LEMMA ServerFacts ==
  ASSUME IInv, ResultsInv, [Next]_vars
  PROVE  /\ Ordered /\ Grows
         /\ \A j \in Job : jobs[j].result # Null => jobs[j].worker \in Worker
         /\ ManifestInv => ManifestInv'
<1>1. Ordered
  <2>1. \A j \in Job : LastSequence(j) \in Nat
    BY Zenon, EvidenceFacts
  <2>2. ASSUME NEW c \in batches PROVE c.job \in Job /\ c.sequence \in 1..LastSequence(c.job)
    <3>1. c.job \in Job
      BY Zenon, BatchesAssumption DEF IInv, TypeOK
    <3>2. c.sequence \in Sequences(c.job)
      BY Zenon DEF Sequences, Mine
    <3> QED BY <3>1, <3>2, EvidenceFacts
  <2>3. ASSUME NEW c \in batches, NEW d \in batches, c.job = d.job, c.sequence = d.sequence PROVE c = d
    <3>1. c \in Mine(c.job) /\ d \in Mine(c.job)
      BY Zenon, <2>3 DEF Mine
    <3> QED BY Zenon, <2>2, <2>3, <3>1 DEF IInv, EvidenceInv
  <2> QED BY Zenon, <2>1, <2>2, <2>3 DEF Ordered
<1>2. Grows
  <2>1. lastToken \in Nat /\ lastToken' \in Nat /\ lastToken <= lastToken'
    BY ServerMonotone
  <2> QED BY Zenon, <2>1, ServerMonotone DEF Grows
<1>3. ASSUME NEW j \in Job, jobs[j].result # Null PROVE jobs[j].worker \in Worker
  BY Zenon, <1>3 DEF ResultsInv, IInv, RowsInv, RowOK
<1>4. ManifestInv => ManifestInv'
  <2>1. \/ batches' = batches
        \/ \E b \in Batches, at \in Captured : RecordScannerWorkerEvidenceBatch(b, at)
    BY Zenon, StepFrame DEF Frame, EvidenceStep
  <2> QED BY Zenon, <2>1, ManifestStep
<1> QED BY <1>1, <1>2, <1>3, <1>4

\* The first state.
LEMMA ProtocolBegins == ProtocolInit => IInv /\ PInv
<1> SUFFICES ASSUME ProtocolInit PROVE IInv /\ PInv
  BY Zenon
<1>1. IInv
  BY Zenon, InitInvariant DEF ProtocolInit
<1>2. /\ outbox = [w \in Worker |-> <<>>] /\ ledger = [w \in Worker |-> {}]
      /\ client = [w \in Worker |-> Resting] /\ late = {} /\ emitted = {} /\ projected = {}
      /\ batches = {} /\ jobs = [j \in Job |-> NoRow]
  BY Zenon DEF ProtocolInit, Init
<1>3. ClientTypeOK
  <2>1. <<>> \in Seq(AnyMessage)
    OBVIOUS
  <2> QED BY <1>2, <2>1, RestingFields DEF ClientTypeOK
<1>4. \A w \in Worker : ~ Busy(w) /\ ~ client[w].awaiting /\ client[w].phase \notin {"running", "emitting"}
  BY Zenon, <1>2, RestingFields DEF Busy
<1>5. LeaseInv /\ ProgressInv /\ LedgerInv /\ AwaitInv
  BY Zenon, <1>4 DEF LeaseInv, ProgressInv, LedgerInv, AwaitInv
<1>6. /\ ExecutionInv /\ ManifestInv /\ LateInv /\ EvidenceNotLost /\ ExecutedOnce /\ ChecksAcceptedOnce
  BY Zenon, <1>2 DEF ExecutionInv, ManifestInv, LateInv, EvidenceNotLost, ExecutedOnce, ChecksAcceptedOnce
<1>7. OutboxInv
  <2>1. \A w \in Worker : 1..Len(outbox[w]) = {}
    BY <1>2
  <2> QED BY Zenon, <2>1 DEF OutboxInv
<1>8. ResultsInv /\ EvidenceBeforeResult /\ ResultNotLost
  <2>1. \A j \in Job : jobs[j].result = Null
    BY Zenon, <1>2 DEF NoRow
  <2> QED BY Zenon, <2>1 DEF ResultsInv, EvidenceBeforeResult, ResultNotLost
<1> QED BY <1>1, <1>3, <1>5, <1>6, <1>7, <1>8 DEF PInv

\* Every step keeps both invariants.
LEMMA ProtocolStepInvariant ==
  ASSUME Open PROVE IInv /\ PInv /\ [ProtocolNext]_allVars => (IInv /\ PInv)' /\ [Next]_vars
<1> SUFFICES ASSUME IInv, PInv, [ProtocolNext]_allVars PROVE (IInv /\ PInv)' /\ [Next]_vars
  BY Zenon
<1>1. [Next]_vars /\ (Proceeds \/ \E w \in Worker : \E b : Emits(w, b))
  BY Zenon, ProtocolStep
<1>2. IInv'
  BY Zenon, <1>1, StepInvariant
<1>3. /\ Ordered /\ Grows /\ ManifestInv'
      /\ \A j \in Job : jobs[j].result # Null => jobs[j].worker \in Worker
  BY <1>1, ServerFacts DEF PInv
<1>4. PInv'
  BY <1>1, <1>3, ProceedKeeps, EmitKeeps
<1> QED BY <1>1, <1>2, <1>4

(* The invariants of the control plane and of the workers hold together,   *)
(* whatever is lost, late, killed or restarted (internal/workerclient,     *)
(* internal/workerapp, internal/store/worker_*.go).                        *)
THEOREM ProtocolInvariance == ASSUME Open PROVE ProtocolSpec => [](IInv /\ PInv)
BY ProtocolBegins, ProtocolStepInvariant, PTL DEF ProtocolSpec

(* Workers that run internal/workerclient do to the job table only what    *)
(* WorkerJobs allows anybody to do, so every theorem of WorkerJobs holds   *)
(* of them.                                                                *)
THEOREM ProtocolImplementsJobs == ASSUME Open PROVE ProtocolSpec => Spec
<1>1. ProtocolInit => Init
  BY Zenon DEF ProtocolInit
<1> QED BY <1>1, ProtocolInvariance, ProtocolStepInvariant, PTL DEF ProtocolSpec, Spec

(* A batch leaves its outbox only when the server has it (ForwardPending,  *)
(* Acknowledge, RecordScannerWorkerEvidenceBatch).                         *)
THEOREM EvidenceIsNotLost == ASSUME Open PROVE ProtocolSpec => []EvidenceNotLost
<1>1. PInv => EvidenceNotLost
  BY DEF PInv
<1> QED BY <1>1, ProtocolInvariance, PTL

(* A result is accepted after all the evidence of its execution: the       *)
(* outbox is forwarded in order and stops at the first failure.            *)
THEOREM EvidencePrecedesResults == ASSUME Open PROVE ProtocolSpec => []EvidenceBeforeResult
<1>1. PInv => EvidenceBeforeResult
  BY DEF PInv
<1> QED BY <1>1, ProtocolInvariance, PTL

(* A worker executes a job under one lease only (VerifyAndClaim).          *)
THEOREM JobsAreExecutedOnce == ASSUME Open PROVE ProtocolSpec => []ExecutedOnce
<1>1. PInv => ExecutedOnce
  BY DEF PInv
<1> QED BY <1>1, ProtocolInvariance, PTL

(* No check of a job is accepted twice, however often the job moved        *)
(* between workers (the resume manifest of a reassigned job).              *)
THEOREM ChecksAreAcceptedOnce == ASSUME Open PROVE ProtocolSpec => []ChecksAcceptedOnce
<1>1. PInv => ChecksAcceptedOnce
  BY DEF PInv
<1> QED BY <1>1, ProtocolInvariance, PTL

(* A receipt leaves its outbox only when the result is in the scan.        *)
THEOREM ResultsAreNotLost == ASSUME Open PROVE ProtocolSpec => []ResultNotLost
<1>1. PInv => ResultNotLost
  BY Zenon DEF PInv
<1> QED BY <1>1, ProtocolInvariance, PTL
=============================================================================
