---------------------------- MODULE MCWorkerFleet ---------------------------
(***************************************************************************)
(* Two jobs on two workers, with the administrators' switches: selection,  *)
(* capacity, the order of leases and quarantine across jobs.  No evidence  *)
(* arrives and a result can only fail, so every job is abandoned or over.  *)
(***************************************************************************)
EXTENDS WorkerJobs, TLC

CONSTANTS w1, w2, j1, j2, c1

MCWorker == {w1, w2}
MCJob == {j1, j2}
MCCheck == {c1}
MCBatches == {}
MCReceipts == {[id |-> 1, job |-> j1, worker |-> w1, outcome |-> "failed"]}

\* Both jobs fit on w1; w2 has room for one.
MCSlots == [w \in MCWorker |-> IF w = w1 THEN 2 ELSE 1]
MCDemand == [j \in MCJob |-> 1]
MCJobLifetimes == {4}

\* Cancellation and restarts are the business of MCWorkerJobs.
Dispatching ==
  \/ WorkerRequest
  \/ Administrator
  \/ Tick
  \/ CreateScannerWorkerJob
  \/ ReassignScannerWorkerJob
  \/ \E r \in Receipts : ProjectScannerWorkerResult(r)
  \/ \E j \in Job :
       \/ LaunchFailed(j) \/ ResumeQuarantine(j)
       \/ \E lifetime \in JobLifetimes : Launch(j, lifetime)
       \/ \E heard \in Heartbeats :
            SelectWorker(j, heard) \/ DispatchFails(j, heard) \/ ResumeCandidate(j, heard)

TwoJobsSpec == Init /\ [][Dispatching]_vars
=============================================================================
