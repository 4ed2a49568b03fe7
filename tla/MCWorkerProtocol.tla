-------------------------- MODULE MCWorkerProtocol --------------------------
(***************************************************************************)
(* One job of two checks on two workers whose requests may be lost,        *)
(* answered too late or repeated.                                          *)
(***************************************************************************)
EXTENDS WorkerProtocol, TLC

CONSTANTS w1, w2, j1, c1, c2

MCWorker == {w1, w2}
MCJob == {j1}
MCCheck == {c1, c2}

\* Everything a worker may sign: one check per batch, numbered by its lease.
MCBatches ==
  [id : (1..MaxAttempts) \X (1..3), job : MCJob, worker : MCWorker, sequence : 1..3,
   final : BOOLEAN, checks : {{c1}, {c2}}]
MCReceipts == [id : 1..MaxAttempts, job : MCJob, worker : MCWorker, outcome : Outcome]

\* Workers and checks are interchangeable.
ProtocolSymmetry == Permutations(MCWorker) \cup Permutations(MCCheck)

MCSlots == [w \in MCWorker |-> 1]
MCDemand == [j \in MCJob |-> 1]
MCJobLifetimes == {4}

\* The switches, cancellation and relaunching are the business of the runs of
\* WorkerJobs alone.
ServerWork ==
  /\ \/ Tick \/ CreateScannerWorkerJob \/ ReassignScannerWorkerJob
     \/ \E j \in Job :
          \/ ResumeQuarantine(j)
          \/ \E lifetime \in JobLifetimes : Launch(j, lifetime)
          \/ \E heard \in Heartbeats : SelectWorker(j, heard) \/ ResumeCandidate(j, heard)
  /\ UNCHANGED clientVars

Work ==
  \/ \E w \in Worker : ClientStep(w) \/ Renewal(w)
  \/ Disturbance
  \/ Projection
  \/ ServerWork

WorkSpec == ProtocolInit /\ [][Work]_allVars
=============================================================================
