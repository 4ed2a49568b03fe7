--------------------------- MODULE WorkerProtocol ---------------------------
(***************************************************************************)
(* The scanner worker of internal/workerclient and internal/workerapp      *)
(* composed with the control plane of WorkerJobs: what really arrives at   *)
(* the job table, and what a worker does with the answers.                 *)
(*                                                                         *)
(* A request meets one of four fates: it is answered; the server handles   *)
(* it and the answer is lost; it never arrives; or it arrives after the    *)
(* worker has given it up (late).  A worker may be killed or told to stop  *)
(* at any step, and the server may restart.  MaxFaults bounds all of this. *)
(* Worker and server read the same clock.                                  *)
(***************************************************************************)
EXTENDS WorkerJobs

CONSTANTS
  MaxItems,       \* OutboxLimits.MaxItems; every message counts as one unit
  PausePercent,   \* BackpressurePolicy.PausePollingAtPercent
  MaxFaults       \* a bound on losses, stops, kills and restarts

ASSUME OutboxAssumption ==
  MaxItems \in Nat \ {0} /\ PausePercent \in 1..99 /\ MaxFaults \in Nat

VARIABLES
  outbox,       \* outbox[w]: outbox_messages in rowid order; survives a restart
  ledger,       \* ledger[w]: claimed_jobs; survives a restart
  client,       \* client[w]: where the worker's process is
  late,         \* requests given up by their sender that may still arrive
  inspected,    \* inspected[j]: the checks some worker carried out to the end
  emitted,      \* the batches ever queued by some worker
  projected,    \* the results whose projection has run
  interrupted,  \* leases whose execution a stop cut short
  faults        \* how much has gone wrong

history == <<inspected, emitted, projected, interrupted>>
clientVars == <<outbox, ledger, client, late, history, faults>>
allVars == <<vars, clientVars>>

(***************************************************************************)
(* The process                                                             *)
(***************************************************************************)

\* A worker between two cycles, holding no lease.
Resting ==
  [phase |-> "waiting", stopping |-> FALSE, awaiting |-> FALSE, job |-> Null, token |-> 0,
   expires |-> 0, next |-> 1, todo |-> {}, canceled |-> FALSE, renewal |-> "none",
   error |-> "none"]

ProtocolInit ==
  /\ Init
  /\ outbox = [w \in Worker |-> <<>>]
  /\ ledger = [w \in Worker |-> {}]
  /\ client = [w \in Worker |-> Resting]
  /\ late = {}
  /\ inspected = [j \in Job |-> {}]
  /\ emitted = {}
  /\ projected = {}
  /\ interrupted = {}
  /\ faults = 0

Fault == faults < MaxFaults /\ faults' = faults + 1

Goto(w, phase) ==
  client' = [client EXCEPT ![w] = [@ EXCEPT !.phase = phase, !.awaiting = FALSE]]

\* The execution context: canceled by a failed renewal or a stop, and bounded
\* by the job's expiry.
ExecutionDone(w) == client[w].canceled \/ client[w].stopping \/ now >= client[w].expires

\* runCycle: the heartbeat is accepted and RunOnce begins.
StartCycle(w) ==
  /\ client[w].phase = "waiting"
  /\ ~ client[w].stopping
  /\ workers[w].active
  /\ Goto(w, "draining")
  /\ UNCHANGED <<vars, outbox, ledger, late, history, faults>>

(***************************************************************************)
(* Forwarding the outbox                                                   *)
(***************************************************************************)

\* ForwardOutbox is called before a poll, after each batch and at the end.
Forwarding(w) == client[w].phase \in {"draining", "emitting", "closing"}

\* ctx.Err() of the context ForwardPending was given.
ForwardLive(w) ==
  IF client[w].phase = "emitting" THEN ~ ExecutionDone(w) ELSE ~ client[w].stopping

\* What follows ForwardOutbox, with or without an error.
AfterForward(w) ==
  CASE client[w].phase = "draining" -> "polling"
    [] client[w].phase = "emitting" -> "running"
    [] client[w].phase = "closing" -> "waiting"

\* Mutant: the message is removed whether or not it was delivered.
GiveUpDrops(w) ==
  /\ outbox' = [outbox EXCEPT ![w] = IF @ = <<>> THEN @ ELSE Tail(@)]
  /\ Goto(w, AfterForward(w))

\* Mutant: the message goes to the back of the queue.
GiveUpRotates(w) ==
  /\ outbox' = [outbox EXCEPT ![w] = IF @ = <<>> THEN @ ELSE Append(Tail(@), Head(@))]
  /\ Goto(w, AfterForward(w))

\* send failed: the message stays at the head.
GiveUp(w) ==
  /\ outbox' = outbox
  /\ Goto(w, AfterForward(w))

\* send succeeded: Acknowledge; only queueEvidence stops after one message.
Acknowledge(w) ==
  /\ outbox' = [outbox EXCEPT ![w] = Tail(@)]
  /\ Goto(w, IF client[w].phase = "emitting" THEN "running" ELSE client[w].phase)

\* The handler refuses the batch of another worker's job before it looks for
\* the batch, so an exact retry is recognised only while the job stays put.
EvidenceKnown(b) ==
  /\ workers[b.worker].active
  /\ jobs[b.job].worker = b.worker
  /\ b \in batches

EvidenceAcceptable(b, at) ==
  /\ workers[b.worker].active
  /\ ValidBatch(b)
  /\ \A c \in batches : c.id # b.id
  /\ SequenceAccepted(b, at)

DeliverEvidence(w, at) ==
  /\ Forwarding(w) /\ ForwardLive(w) /\ ~ client[w].awaiting
  /\ outbox[w] # <<>>
  /\ Head(outbox[w]).kind = "evidence"
  /\ LET b == Head(outbox[w]).batch
     IN \/ /\ RecordScannerWorkerEvidenceBatch(b, at)
           /\ \/ Acknowledge(w) /\ faults' = faults
              \/ GiveUp(w) /\ Fault
        \/ /\ EvidenceKnown(b)
           /\ UNCHANGED vars
           /\ Acknowledge(w) /\ faults' = faults
        \/ /\ ~ EvidenceKnown(b) /\ ~ EvidenceAcceptable(b, at)
           /\ UNCHANGED vars
           /\ GiveUp(w) /\ faults' = faults
  /\ UNCHANGED <<ledger, late, history>>

ResultKnown(r) ==
  /\ workers[r.worker].active
  /\ r.outcome = "succeeded" => CheckpointsComplete(r.job)
  /\ jobs[r.job].result = r.id
  /\ jobs[r.job].worker = r.worker
  /\ jobs[r.job].outcome = r.outcome

ResultAcceptable(r, token, at) ==
  /\ workers[r.worker].active
  /\ ResultAdmissible(r)
  /\ \A j \in Job : jobs[j].result # r.id
  /\ HoldsLease(r.worker, r.job, token, at)

\* The handler answers once the result is projected (Answered).
DeliverCompletion(w, at) ==
  /\ Forwarding(w) /\ ForwardLive(w) /\ ~ client[w].awaiting
  /\ outbox[w] # <<>>
  /\ Head(outbox[w]).kind = "completion"
  /\ LET r == Head(outbox[w]).receipt
         token == Head(outbox[w]).token
     IN \/ /\ CompleteScannerWorkerJob(r, token, at) \/ RetryResult(r)
           /\ client' = [client EXCEPT ![w].awaiting = TRUE]
           /\ outbox' = outbox
        \/ /\ ~ ResultKnown(r) /\ ~ ResultAcceptable(r, token, at)
           /\ UNCHANGED vars
           /\ GiveUp(w)
  /\ UNCHANGED <<ledger, late, history, faults>>

\* Mutant: the handler answers before the projection.
AnsweredEarly(w) ==
  /\ client[w].awaiting
  /\ Acknowledge(w)
  /\ UNCHANGED <<vars, ledger, late, history, faults>>

Answered(w) ==
  /\ client[w].awaiting
  /\ Head(outbox[w]).receipt \notin projections
  /\ Acknowledge(w)
  /\ UNCHANGED <<vars, ledger, late, history, faults>>

\* The answer to a completion does not arrive, or the context ends the wait.
Unanswered(w) ==
  /\ client[w].awaiting
  /\ GiveUp(w)
  /\ IF ForwardLive(w) THEN Fault ELSE faults' = faults
  /\ UNCHANGED <<vars, ledger, late, history>>

\* The request does not reach the server before the worker gives it up.
DeliveryLost(w) ==
  /\ Forwarding(w) /\ ForwardLive(w) /\ ~ client[w].awaiting
  /\ outbox[w] # <<>>
  /\ GiveUp(w)
  /\ Fault
  /\ late' \in {late, late \cup {Head(outbox[w])}}
  /\ UNCHANGED <<vars, ledger, history>>

\* The outbox is empty, or the context is done.
ForwardEnds(w) ==
  /\ Forwarding(w) /\ ~ client[w].awaiting
  /\ outbox[w] = <<>> \/ ~ ForwardLive(w)
  /\ GiveUp(w)
  /\ UNCHANGED <<vars, ledger, late, history, faults>>

(***************************************************************************)
(* Polling and renewing                                                    *)
(***************************************************************************)

\* roundedUpPercent
RoundedUpPercent(value, maximum) == (value * 100 + maximum - 1) \div maximum

\* pollingPaused
PollingPaused(w) == RoundedUpPercent(Len(outbox[w]), MaxItems) >= PausePercent

\* Mutant: the resume manifest is not consulted.
ReceivedAfresh(w, j) ==
  client' = [client EXCEPT ![w] =
               [Resting EXCEPT !.phase = "claiming", !.job = j, !.token = jobs'[j].token,
                               !.expires = jobs[j].expires, !.next = jobs[j].next,
                               !.todo = Check]]

\* The worker has decoded the lease of job j.
Received(w, j) ==
  client' = [client EXCEPT ![w] =
               [Resting EXCEPT !.phase = "claiming", !.job = j, !.token = jobs'[j].token,
                               !.expires = jobs[j].expires, !.next = jobs[j].next,
                               !.todo = Check \ jobs[j].completed]]

Poll(w, at) ==
  /\ client[w].phase = "polling"
  /\ ~ client[w].stopping
  /\ ~ PollingPaused(w)
  /\ \/ /\ \E j \in Job : /\ LeaseScannerWorkerJob(w, j, at)
                          /\ \/ Received(w, j) /\ faults' = faults
                             \/ Goto(w, "waiting") /\ Fault
     \/ LeaseMaintenance(w, at) /\ Goto(w, "waiting") /\ faults' = faults
  /\ UNCHANGED <<outbox, ledger, late, history>>

PollLost(w) ==
  /\ client[w].phase = "polling"
  /\ ~ client[w].stopping
  /\ ~ PollingPaused(w)
  /\ Goto(w, "waiting")
  /\ Fault
  /\ late' \in {late, late \cup {[kind |-> "poll", worker |-> w]}}
  /\ UNCHANGED <<vars, outbox, ledger, history>>

\* Outbox pressure, a stop or a revoked certificate ends the cycle.
PollSkipped(w) ==
  /\ client[w].phase = "polling"
  /\ client[w].stopping \/ PollingPaused(w) \/ ~ workers[w].active
  /\ Goto(w, "waiting")
  /\ UNCHANGED <<vars, outbox, ledger, late, history, faults>>

\* The renewal goroutine ends with an error and cancels the execution.
RenewalFails(w, error) ==
  client' = [client EXCEPT ![w] = [@ EXCEPT !.canceled = TRUE, !.renewal = error]]

Renewing(w) ==
  /\ client[w].phase \in {"claiming", "running", "emitting"}
  /\ ~ client[w].canceled
  /\ ~ client[w].stopping

Renew(w, at) ==
  /\ Renewing(w)
  /\ LET c == client[w]
     IN \/ /\ RenewScannerWorkerJobLease(w, c.job, c.token, at)
           /\ \/ client' = client /\ faults' = faults
              \/ \E error \in {"failed", "canceled"} : RenewalFails(w, error) /\ Fault
        \/ /\ ~ (workers[w].active /\ HoldsLease(w, c.job, c.token, at))
           /\ UNCHANGED vars
           /\ RenewalFails(w, "failed") /\ faults' = faults
  /\ UNCHANGED <<outbox, ledger, late, history>>

\* A refused connection is a failure, an exceeded timeout a cancellation.
RenewalLost(w) ==
  /\ Renewing(w)
  /\ \E error \in {"failed", "canceled"} : RenewalFails(w, error)
  /\ Fault
  /\ late' \in {late, late \cup {[kind |-> "renewal", worker |-> w, job |-> client[w].job,
                                  token |-> client[w].token]}}
  /\ UNCHANGED <<vars, outbox, ledger, history>>

\* executeLease cancels the context while a renewal is under way.
RenewalCut(w, at) ==
  /\ client[w].phase = "finishing"
  /\ client[w].renewal = "none"
  /\ \/ UNCHANGED vars
     \/ RenewScannerWorkerJobLease(w, client[w].job, client[w].token, at)
  /\ RenewalFails(w, "canceled")
  /\ UNCHANGED <<outbox, ledger, late, history, faults>>

(***************************************************************************)
(* Executing                                                               *)
(***************************************************************************)

\* Mutant: the ledger is consulted and not written.
VerifyOnly(w) ==
  /\ client[w].phase = "claiming"
  /\ client' = [client EXCEPT ![w].phase = "running"]
  /\ UNCHANGED <<vars, outbox, ledger, late, history, faults>>

VerifyAndClaim(w) ==
  /\ client[w].phase = "claiming"
  /\ LET j == client[w].job
         fresh == now < client[w].expires /\ j \notin ledger[w]
     IN /\ client' = [client EXCEPT ![w] =
                        [@ EXCEPT !.phase = IF fresh THEN "running" ELSE "finishing",
                                  !.error = IF fresh THEN "none" ELSE "failed"]]
        /\ ledger' = [ledger EXCEPT ![w] = IF fresh THEN @ \cup {j} ELSE @]
  /\ UNCHANGED <<vars, outbox, late, history, faults>>

\* The batch of one check; its random identifier is new to this execution.
Batch(w, c) ==
  [id |-> <<client[w].token, client[w].next>>, job |-> client[w].job, worker |-> w,
   sequence |-> client[w].next, final |-> client[w].todo = {c}, checks |-> {c}]

\* A result reaches executeClaimed and is queued.  The results of inspections
\* that a canceled context cut short still pass through the channel, with a
\* checkpoint and no observation.
EmitResult(w, c) ==
  /\ client[w].phase = "running"
  /\ c \in client[w].todo
  /\ LET j == client[w].job
     IN \/ inspected' = [inspected EXCEPT ![j] = @ \cup {c}]
        \/ ExecutionDone(w) /\ inspected' = inspected
  /\ IF Len(outbox[w]) >= MaxItems
     THEN /\ client' = [client EXCEPT ![w] =
                          [@ EXCEPT !.phase = "finishing", !.error = "failed"]]
          /\ UNCHANGED <<outbox, emitted>>
     ELSE /\ client' = [client EXCEPT ![w] =
                          [@ EXCEPT !.phase = "emitting", !.next = client[w].next + 1,
                                    !.todo = client[w].todo \ {c}]]
          /\ outbox' = [outbox EXCEPT ![w] = Append(@, [kind |-> "evidence",
                                                        batch |-> Batch(w, c)])]
          /\ emitted' = emitted \cup {Batch(w, c)}
  /\ UNCHANGED <<vars, ledger, late, projected, interrupted, faults>>

\* The result channel is closed.
Finish(w) ==
  /\ client[w].phase = "running"
  /\ client[w].todo = {} \/ ExecutionDone(w)
  /\ client' = [client EXCEPT ![w] =
                  [@ EXCEPT !.phase = "finishing",
                            !.error = IF ExecutionDone(w) THEN "canceled" ELSE "none"]]
  /\ UNCHANGED <<vars, outbox, ledger, late, history, faults>>

\* The outcome executeLease reports: a renewal error replaces the execution's.
ReportedOutcome(w) ==
  LET error == IF client[w].renewal # "none" THEN client[w].renewal ELSE client[w].error
  IN IF error = "none" THEN "succeeded" ELSE error

\* queueCompletion; a full outbox ends the cycle without a receipt.
QueueCompletion(w) ==
  /\ client[w].phase = "finishing"
  /\ LET receipt == [id |-> client[w].token, job |-> client[w].job, worker |-> w,
                     outcome |-> ReportedOutcome(w)]
         message == [kind |-> "completion", receipt |-> receipt, token |-> client[w].token]
     IN IF Len(outbox[w]) >= MaxItems
        THEN outbox' = outbox /\ Goto(w, "waiting")
        ELSE outbox' = [outbox EXCEPT ![w] = Append(@, message)] /\ Goto(w, "closing")
  /\ interrupted' = IF client[w].stopping /\ client[w].todo # {}
                    THEN interrupted \cup {client[w].token} ELSE interrupted
  /\ UNCHANGED <<vars, ledger, late, inspected, emitted, projected, faults>>

(***************************************************************************)
(* Stops, kills, restarts and late requests                                *)
(***************************************************************************)

\* SIGTERM cancels the process context.
Stop(w) ==
  /\ ~ client[w].stopping
  /\ client' = [client EXCEPT ![w].stopping = TRUE]
  /\ Fault
  /\ UNCHANGED <<vars, outbox, ledger, late, history>>

\* Run has returned, and the service is started again.
Start(w) ==
  /\ client[w].phase = "waiting"
  /\ client[w].stopping
  /\ client' = [client EXCEPT ![w] = Resting]
  /\ UNCHANGED <<vars, outbox, ledger, late, history, faults>>

Kill(w) ==
  /\ client[w].phase # "waiting"
  /\ client' = [client EXCEPT ![w] = Resting]
  /\ Fault
  /\ UNCHANGED <<vars, outbox, ledger, late, history>>

\* The connections of a stopped server break.
ServerRestart ==
  /\ Restart
  /\ client' = [w \in Worker |->
                  IF client[w].awaiting
                  THEN [client[w] EXCEPT !.phase = AfterForward(w), !.awaiting = FALSE]
                  ELSE client[w]]
  /\ Fault
  /\ UNCHANGED <<outbox, ledger, late, history>>

\* A request given up by its sender arrives; nobody reads the answer.
LateArrival(m, at) ==
  /\ m \in late
  /\ late' = late \ {m}
  /\ \/ m.kind = "evidence" /\ RecordScannerWorkerEvidenceBatch(m.batch, at)
     \/ /\ m.kind = "completion"
        /\ CompleteScannerWorkerJob(m.receipt, m.token, at) \/ RetryResult(m.receipt)
     \/ /\ m.kind = "poll"
        /\ \/ \E j \in Job : LeaseScannerWorkerJob(m.worker, j, at)
           \/ LeaseMaintenance(m.worker, at)
     \/ m.kind = "renewal" /\ RenewScannerWorkerJobLease(m.worker, m.job, m.token, at)
  /\ UNCHANGED <<outbox, ledger, client, history, faults>>

\* What the process does of its own accord.
ClientStep(w) ==
  \/ StartCycle(w) \/ Answered(w) \/ ForwardEnds(w) \/ PollSkipped(w)
  \/ VerifyAndClaim(w) \/ Finish(w) \/ QueueCompletion(w) \/ Start(w)
  \/ \E c \in Check : EmitResult(w, c)
  \/ \E at \in Captured : DeliverEvidence(w, at) \/ DeliverCompletion(w, at) \/ Poll(w, at)

Renewal(w) == \E at \in Captured : Renew(w, at) \/ RenewalCut(w, at)

Disturbance ==
  \/ \E w \in Worker : DeliveryLost(w) \/ Unanswered(w) \/ PollLost(w) \/ RenewalLost(w)
                       \/ Stop(w) \/ Kill(w)
  \/ ServerRestart
  \/ \E m \in late, at \in Captured : LateArrival(m, at)

\* The end of a result handler.
Projection ==
  /\ \E r \in projections : ProjectScannerWorkerResult(r) /\ projected' = projected \cup {r}
  /\ UNCHANGED <<outbox, ledger, client, late, inspected, emitted, interrupted, faults>>

\* The control plane's other threads, administrators and clock; a retried
\* result only ever comes from a worker.
ServerStep ==
  /\ \/ Tick \/ Administrator \/ CreateScannerWorkerJob \/ ReassignScannerWorkerJob
     \/ \E j \in Job :
          \/ ListPaused(j) \/ LaunchFailed(j) \/ CancelRead(j) \/ CancelSave(j)
          \/ ResumeQuarantine(j)
          \/ \E lifetime \in JobLifetimes : Launch(j, lifetime)
          \/ \E heard \in Heartbeats :
               SelectWorker(j, heard) \/ DispatchFails(j, heard) \/ ResumeCandidate(j, heard)
  /\ UNCHANGED clientVars

ProtocolNext ==
  \/ \E w \in Worker : ClientStep(w) \/ Renewal(w)
  \/ Disturbance
  \/ Projection
  \/ ServerStep

ProtocolSpec == ProtocolInit /\ [][ProtocolNext]_allVars

\* The scheduler runs every goroutine and the server answers once nothing more
\* goes wrong; losses, stops and late arrivals are never owed.
ProtocolFairness ==
  /\ \A w \in Worker : WF_allVars(ClientStep(w))
  /\ WF_allVars(Projection)

(***************************************************************************)
(* Properties                                                              *)
(***************************************************************************)

Message ==
  [kind : {"evidence"}, batch : Batches]
  \cup [kind : {"completion"}, receipt : Receipts, token : Nat]

\* Outboxes hold messages, and a worker's process is in one of its phases.
ProtocolTypeOK ==
  /\ \A w \in Worker : \A i \in DOMAIN outbox[w] : outbox[w][i] \in Message
  /\ ledger \in [Worker -> SUBSET Job]
  /\ \A w \in Worker :
       /\ client[w].phase \in {"waiting", "draining", "polling", "claiming", "running",
                              "emitting", "finishing", "closing"}
       /\ client[w].todo \subseteq Check
       /\ client[w].awaiting => outbox[w] # <<>> /\ Head(outbox[w]).kind = "completion"
  /\ emitted \subseteq Batches

\* A batch the executor queued is in the outbox until the server holds it:
\* Acknowledge follows only an answer that says so, through losses, kills and
\* requests that arrive late.
EvidenceNotLost ==
  \A b \in emitted :
     b \in batches \/ \E i \in DOMAIN outbox[b.worker] :
                        outbox[b.worker][i] = [kind |-> "evidence", batch |-> b]

\* When a result is accepted, the server holds all the evidence its execution
\* queued: the outbox is forwarded in order and stops at the first failure.
EvidenceBeforeResult ==
  \A j \in Job : jobs[j].result # Null =>
     \A b \in emitted : (b.job = j /\ b.id[1] = jobs[j].result) => b \in batches

\* A worker never executes one job under two leases: the ledger is written
\* before the first inspection and outlives the process.
ExecutedOnce ==
  \A b, c \in emitted : (b.worker = c.worker /\ b.job = c.job) => b.id[1] = c.id[1]

\* No check is accepted twice: a replacement worker skips exactly the checks
\* the server held when the job moved, and late evidence of its predecessor is
\* refused.
ChecksAcceptedOnce ==
  \A b, c \in batches : (b.job = c.job /\ b # c) => b.checks \cap c.checks = {}

\* A worker forgets its receipt only after the result is in the scan: a server
\* that stops between the commit and the projection is asked again.
ResultNotLost ==
  \A j \in Job : jobs[j].result # Null =>
     \/ \E r \in projected : r.job = j
     \/ \E i \in DOMAIN outbox[jobs[j].worker] :
          /\ outbox[jobs[j].worker][i].kind = "completion"
          /\ outbox[jobs[j].worker][i].receipt.id = jobs[j].result

\* A committed result is projected into its scan in the end, although the
\* server may stop in between and every answer may be lost.
ResultsReachScans ==
  \A j \in Job : jobs[j].status = "completed" ~> \E r \in projected : r.job = j

\* The README's "completion checkpoints for every finished target-and-port
\* pair": a checkpoint stands for a check some worker carried out.
CheckpointsAreFinished == \A j \in Job : checkpoints[j] \subseteq inspected[j]

\* The deployment guide's "SIGTERM cancels work ...; lease expiry controls later
\* resume/reassignment": work cut short by a stop is not closed by a receipt.
StoppedWorkStaysOpen == \A j \in Job : jobs[j].result \notin interrupted

\* The README's "continue forwarding already collected evidence": what waits in
\* an outbox is forwarded in the end.
OutboxDrains == \A w \in Worker : outbox[w] # <<>> ~> outbox[w] = <<>>

=============================================================================
