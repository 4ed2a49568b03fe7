--------------------------- MODULE MCWorkerFaults ---------------------------
(***************************************************************************)
(* One worker and one job, and more that goes wrong: the fate of the       *)
(* outbox over several leases, kills, stops and restarts of the server.    *)
(***************************************************************************)
EXTENDS WorkerProtocol, TLC

CONSTANTS w1, j1, c1, c2

MCWorker == {w1}
MCJob == {j1}
MCCheck == {c1, c2}

MCBatches ==
  [id : (1..MaxAttempts) \X (1..2), job : MCJob, worker : MCWorker, sequence : 1..2,
   final : BOOLEAN, checks : {{c1}, {c2}}]
MCReceipts == [id : 1..MaxAttempts, job : MCJob, worker : MCWorker, outcome : Outcome]

MCSlots == [w \in MCWorker |-> 1]
MCDemand == [j \in MCJob |-> 1]
MCJobLifetimes == {3}

\* There is no second worker to reassign the job to, and nobody cancels; how
\* a launch fails and resumes is the business of MCWorkerJobs.
ServerWork ==
  /\ \/ Tick \/ CreateScannerWorkerJob
     \/ \E j \in Job :
          \/ ResumeQuarantine(j)
          \/ \E lifetime \in JobLifetimes : Launch(j, lifetime)
          \/ \E heard \in Heartbeats : SelectWorker(j, heard)
  /\ UNCHANGED clientVars

Work ==
  \/ \E w \in Worker : ClientStep(w) \/ Renewal(w)
  \/ Disturbance
  \/ Projection
  \/ ServerWork

WorkSpec == ProtocolInit /\ [][Work]_allVars /\ ProtocolFairness
=============================================================================
