---------------------------- MODULE MCWorkerJobs ----------------------------
(***************************************************************************)
(* One job and two workers: evidence, results, leases, reassignment and    *)
(* quarantine of a single job in every interleaving.                       *)
(***************************************************************************)
EXTENDS WorkerJobs, TLC

CONSTANTS w1, w2, j1, c1, c2

MCWorker == {w1, w2}
MCJob == {j1}
MCCheck == {c1, c2}

Batch(id, w, n, final, checks) ==
  [id |-> id, job |-> j1, worker |-> w, sequence |-> n, final |-> final, checks |-> checks]

\* Each worker may send the first half, the second half and a whole run; one
\* identifier is reused with other content.
MCBatches ==
  {Batch(1, w1, 1, FALSE, {c1}), Batch(2, w1, 2, TRUE, {c2}), Batch(1, w1, 2, FALSE, {c2}),
   Batch(3, w2, 1, TRUE, {}), Batch(4, w2, 2, TRUE, {c2})}

Receipt(id, w, outcome) == [id |-> id, job |-> j1, worker |-> w, outcome |-> outcome]

MCReceipts == {Receipt(1, w1, "succeeded"), Receipt(2, w2, "succeeded"), Receipt(2, w1, "failed")}

MCSlots == [w \in MCWorker |-> 1]
MCDemand == [j \in MCJob |-> 1]
MCJobLifetimes == {3, 6}

\* The administrators' switches are the business of MCWorkerFleet.
Unadministered == WorkerRequest \/ ServerThread \/ Tick \/ Restart
OneJobSpec == Init /\ [][Unadministered]_vars
=============================================================================
