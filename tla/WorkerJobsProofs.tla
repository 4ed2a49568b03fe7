-------------------------- MODULE WorkerJobsProofs --------------------------
(***************************************************************************)
(* The safety of the scanner-worker job table, for any workers, jobs,      *)
(* batches, receipts and bounds that satisfy the assumptions of            *)
(* WorkerJobs: the inductive invariant holds initially, is kept by every   *)
(* step and implies the properties.                                        *)
(*                                                                         *)
(* RowSteps shows that whatever action the server takes, each row makes    *)
(* one of eight moves (or none): created, leased, renewed, completed,      *)
(* quarantined, expired, released, reassigned.  The invariants are then    *)
(* preserved move by move instead of action by action.                     *)
(***************************************************************************)
EXTENDS WorkerJobs, TLAPS

(***************************************************************************)
(* The inductive invariant                                                 *)
(***************************************************************************)

\* The batches of job j, and their sequence numbers.
Mine(j) == {b \in batches : b.job = j}
Sequences(j) == {b.sequence : b \in Mine(j)}

\* What a row of the job table satisfies by itself, top being the last token.
RowOK(row, top) ==
  /\ row.status = "none" => row.worker = Null /\ row.attempt = 0
  /\ row.status # "none" => row.worker \in Worker
  /\ row.status # "leased" => row.token = 0
  /\ row.status = "leased" => row.token \in 1..top /\ row.leaseExpires <= row.expires
  /\ row.attempt <= MaxAttempts
  /\ row.status = "pending" => row.attempt < MaxAttempts
  /\ row.outcome # Null => row.status = "completed"

RowsInv == \A j \in Job : RowOK(jobs[j], lastToken)

TokensInv ==
  \A j, k \in Job : (jobs[j].status = "leased" /\ jobs[k].token = jobs[j].token) => k = j

\* The reassignment in flight: its clock reading is past, its manifest is a
\* part of what the server holds, and the job, as long as that reading still
\* finds it abandoned, has an attempt left.
DispatcherInv ==
  dispatcher.phase = "reassign" =>
    /\ dispatcher.at <= now
    /\ dispatcher.completed \subseteq checkpoints[dispatcher.job]
    /\ dispatcher.next <= LastSequence(dispatcher.job) + 1
    /\ Abandoned(dispatcher.job, dispatcher.at) => jobs[dispatcher.job].attempt < MaxAttempts

\* A job's batches are numbered 1..n and carry its checkpoints.
EvidenceInv ==
  \A j \in Job :
    /\ \E n \in Nat : Sequences(j) = 1..n
    /\ checkpoints[j] = UNION {b.checks : b \in Mine(j)}
    /\ \A b, c \in Mine(j) : (b.sequence = c.sequence \/ b.id = c.id) => b = c

\* What a successful completion found is never taken back.
SuccessInv ==
  \A j \in Job : jobs[j].outcome = "succeeded" =>
     checkpoints[j] = Check /\ \E b \in Mine(j) : b.final

\* A result still to be projected is the one its job was completed with.
ProjectionsInv == \A r \in projections : jobs[r.job].outcome = r.outcome

\* A job's history ends with its worker and has at most one entry more than it
\* had leases, a leased job's no more.
TrailOK(row, trail) ==
  /\ row.status = "none" => trail = <<>>
  /\ row.status # "none" => trail # <<>> /\ trail[Len(trail)] = row.worker
  /\ row.status = "pending" => Len(trail) <= row.attempt + 1
  /\ row.status = "leased" => Len(trail) <= row.attempt
  /\ Len(trail) <= MaxAttempts

TrailInv == \A j \in Job : TrailOK(jobs[j], assignments[j])

IInv ==
  /\ TypeOK /\ RowsInv /\ TokensInv /\ DispatcherInv /\ QuarantineFinal /\ EvidenceInv
  /\ SuccessInv /\ ManifestSound /\ ProjectionsInv /\ CompletedScanIsComplete
  /\ TrailInv

-----------------------------------------------------------------------------

\* The largest element of an initial segment of the naturals is its length.
LEMMA MaxOfSegment ==
  ASSUME NEW n \in Nat
  PROVE  Max({0} \cup (1..n)) = n
<1>1. n \in {0} \cup (1..n) /\ \A y \in {0} \cup (1..n) : n >= y
  OBVIOUS
<1>2. \A x \in {0} \cup (1..n) : (\A y \in {0} \cup (1..n) : x >= y) => x = n
  OBVIOUS
<1> QED BY Zenon, <1>1, <1>2 DEF Max

\* LastSequence reads the number of batches off a contiguous numbering.
LEMMA LastSequenceValue ==
  ASSUME NEW j \in Job, NEW n \in Nat, Sequences(j) = 1..n
  PROVE  LastSequence(j) = n
<1>1. LastSequence(j) = Max({0} \cup Sequences(j))
  BY Zenon DEF LastSequence, Sequences, Mine
<1> QED BY Zenon, <1>1, MaxOfSegment

\* Clearing the lease columns of a row keeps it a row and changes only them.
LEMMA UnleasedRow ==
  ASSUME NEW row \in JobRow, NEW status \in JobStatus
  PROVE  /\ Unleased(row, status) \in JobRow
         /\ Unleased(row, status).status = status
         /\ Unleased(row, status).token = 0
         /\ Unleased(row, status).leaseExpires = 0
         /\ Unleased(row, status).worker = row.worker
         /\ Unleased(row, status).expires = row.expires
         /\ Unleased(row, status).created = row.created
         /\ Unleased(row, status).attempt = row.attempt
         /\ Unleased(row, status).next = row.next
         /\ Unleased(row, status).completed = row.completed
         /\ Unleased(row, status).result = row.result
         /\ Unleased(row, status).outcome = row.outcome
  BY Zenon DEF Unleased, JobRow

(***************************************************************************)
(* The moves of a row                                                      *)
(***************************************************************************)

Created(j) ==
  /\ jobs[j].status = "none"
  /\ \E d \in Phases, t \in Nat :
       d.phase = "create" /\ jobs'[j] = NewRow(d, t)

\* A poll takes a pending row, or one it has just released; it is the only row
\* that gets the new token.
LeasedOut(j) ==
  /\ lastToken' = lastToken + 1
  /\ \A k \in Job \ {j} : jobs'[k].token \in {0, jobs[k].token}
  /\ \E at \in Captured, row \in {jobs[j], Unleased(jobs[j], "pending")} :
       /\ row.status = "pending"
       /\ row.attempt < MaxAttempts
       /\ row.expires > at
       /\ \/ jobs[j].status = "pending"
          \/ jobs[j].status = "leased" /\ jobs[j].leaseExpires <= at
       /\ jobs'[j] = Leased(row, at)

Renewed(j) ==
  \E at \in Captured :
    /\ jobs[j].status = "leased"
    /\ jobs[j].leaseExpires > at
    /\ jobs'[j] = [jobs[j] EXCEPT !.leaseExpires = RenewedExpiry(jobs[j], at + LeaseLifetime)]

Completed(j) ==
  \E r \in Receipts :
    /\ r.job = j
    /\ jobs[j].status = "leased"
    /\ ResultAdmissible(r)
    /\ jobs'[j] = CompletedRow(jobs[j], r)

Quarantined(j) ==
  /\ jobs[j].status = "leased"
  /\ jobs[j].leaseExpires <= now
  /\ jobs[j].attempt >= MaxAttempts
  /\ jobs'[j] = Unleased(jobs[j], "canceled")

Expired(j) ==
  /\ jobs[j].status \in {"pending", "leased"}
  /\ jobs[j].expires <= now
  /\ jobs'[j] = Unleased(jobs[j], "expired")

Released(j) ==
  /\ jobs[j].status = "leased"
  /\ jobs[j].leaseExpires <= now
  /\ jobs[j].attempt < MaxAttempts
  /\ jobs'[j] = Unleased(jobs[j], "pending")

Reassigned(j) ==
  /\ dispatcher.phase = "reassign"
  /\ dispatcher.job = j
  /\ Reassignable(dispatcher)
  /\ jobs'[j] = ReassignedRow(jobs[j], dispatcher)

\* The assignment history grows with the two moves that set the worker.
RowStep(j) ==
  \/ /\ assignments'[j] = assignments[j]
     /\ \/ jobs'[j] = jobs[j]
        \/ LeasedOut(j) \/ Renewed(j) \/ Completed(j)
        \/ Quarantined(j) \/ Expired(j) \/ Released(j)
  \/ /\ assignments'[j] = Append(assignments[j], jobs'[j].worker)
     /\ Created(j) \/ Reassigned(j)

\* Every clock reading a request may use is a natural number not in the future.
LEMMA CapturedPast ==
  ASSUME now \in Nat, NEW at \in Captured
  PROVE  at \in Nat /\ at <= now /\ at + MaxDelay >= now
  BY NumbersAssumption DEF Captured

\* quarantineRepeatedWorkerJobs leaves a row alone or cancels a job that has
\* had all its attempts; a leased row it leaves alone and that is abandoned has
\* an attempt left.
LEMMA QuarantineRow ==
  ASSUME IInv, NEW w \in Worker, NEW at \in Nat, at <= now, NEW j \in Job
  PROVE  /\ \/ JobsAfterQuarantine(w, at)[j] = jobs[j]
            \/ /\ JobsAfterQuarantine(w, at)[j] = Unleased(jobs[j], "canceled")
               /\ jobs[j].status = "leased"
               /\ jobs[j].leaseExpires <= now
               /\ jobs[j].attempt >= MaxAttempts
         /\ (/\ JobsAfterQuarantine(w, at)[j] = jobs[j]
             /\ jobs[j].worker = w
             /\ Abandoned(j, at)) => jobs[j].attempt < MaxAttempts
<1> DEFINE row == JobsAfterQuarantine(w, at)[j]
<1>0. jobs[j] \in JobRow /\ now \in Nat /\ MaxAttempts \in Nat
  BY Zenon, NumbersAssumption DEF IInv, TypeOK
<1>1. row = IF /\ jobs[j].status = "leased"
               /\ \E d \in DeadLettersAfter(w, at) : d.job = j
            THEN Unleased(jobs[j], "canceled")
            ELSE jobs[j]
  BY Zenon DEF JobsAfterQuarantine
<1>2. ASSUME NEW d \in DeadLettersAfter(w, at), d.job = j, jobs[j].status = "leased"
      PROVE  j \in Repeated(w, at)
  BY <1>2 DEF DeadLettersAfter, IInv, QuarantineFinal
<1>3. ASSUME j \in Repeated(w, at)
      PROVE  \E d \in DeadLettersAfter(w, at) : d.job = j
  <2>1. CASE \E d \in deadLetters : d.job = j
    BY Zenon, <2>1 DEF DeadLettersAfter
  <2>2. CASE \A d \in deadLetters : d.job # j
    <3> DEFINE d == [job |-> j, worker |-> w, at |-> at]
    <3>1. d \in DeadLettersAfter(w, at)
      BY Zenon, <2>2, <1>3 DEF DeadLettersAfter
    <3>2. d.job = j
      BY Zenon
    <3> QED BY Zenon, <3>1, <3>2
  <2> QED BY Zenon, <2>1, <2>2
<1>4. ASSUME jobs[j].status = "leased", \E d \in DeadLettersAfter(w, at) : d.job = j
      PROVE  jobs[j].leaseExpires <= now /\ jobs[j].attempt >= MaxAttempts
  <2>1. j \in Repeated(w, at)
    BY Zenon, <1>2, <1>4
  <2> QED BY <2>1, <1>0 DEF Repeated, JobRow
<1>5. ASSUME row = jobs[j], jobs[j].worker = w, Abandoned(j, at)
      PROVE  jobs[j].attempt < MaxAttempts
  <2>1. jobs[j].status = "leased"
    BY Zenon, <1>5 DEF Abandoned
  <2>2. row # Unleased(jobs[j], "canceled")
    BY <2>1, <1>5, <1>0, UnleasedRow DEF JobStatus
  <2>3. j \notin Repeated(w, at)
    BY Zenon, <2>1, <2>2, <1>1, <1>3
  <2> QED BY <2>3, <1>5, <1>0 DEF Repeated, Abandoned, JobRow
<1> QED BY Zenon, <1>1, <1>4, <1>5

\* The sweep of a poll makes each row move at most once.
LEMMA SweptRow ==
  ASSUME IInv, NEW w \in Worker, NEW at \in Nat, at <= now, NEW j \in Job
  PROVE  /\ \/ Swept(w, at)[j] = jobs[j]
            \/ /\ Swept(w, at)[j] = Unleased(jobs[j], "canceled")
               /\ jobs[j].status = "leased"
               /\ jobs[j].leaseExpires <= now
               /\ jobs[j].attempt >= MaxAttempts
            \/ /\ Swept(w, at)[j] = Unleased(jobs[j], "expired")
               /\ jobs[j].status \in {"pending", "leased"}
               /\ jobs[j].expires <= now
            \/ /\ Swept(w, at)[j] = Unleased(jobs[j], "pending")
               /\ jobs[j].status = "leased"
               /\ jobs[j].leaseExpires <= at
               /\ jobs[j].attempt < MaxAttempts
         /\ Swept(w, at)[j] \in JobRow
         /\ Swept(w, at)[j].token \in {0, jobs[j].token}
<1> DEFINE row == JobsAfterQuarantine(w, at)[j]
<1>0. jobs[j] \in JobRow /\ now \in Nat /\ MaxAttempts \in Nat
  BY Zenon, NumbersAssumption DEF IInv, TypeOK
<1>1. Swept(w, at)[j] = Maintained(row, w, at)
  BY Zenon DEF Swept
<1>2. CASE row = jobs[j]
  <2>1. Maintained(row, w, at) =
          IF jobs[j].worker = w /\ jobs[j].status \in {"pending", "leased"} /\ jobs[j].expires <= at
          THEN Unleased(jobs[j], "expired")
          ELSE IF jobs[j].worker = w /\ jobs[j].status = "leased" /\ jobs[j].leaseExpires <= at
          THEN Unleased(jobs[j], "pending")
          ELSE jobs[j]
    BY Zenon, <1>2 DEF Maintained
  <2>2. ASSUME jobs[j].worker = w, jobs[j].status = "leased", jobs[j].leaseExpires <= at,
               ~ (jobs[j].expires <= at)
        PROVE  jobs[j].attempt < MaxAttempts
    <3>1. Abandoned(j, at)
      BY <2>2, <1>0 DEF Abandoned, JobRow
    <3> QED BY Zenon, <3>1, <2>2, <1>2, QuarantineRow
  <2>3. jobs[j].expires <= at => jobs[j].expires <= now
    BY <1>0 DEF JobRow
  <2> QED BY <2>1, <2>2, <2>3, <1>0, <1>1, UnleasedRow DEF JobStatus
<1>3. CASE row # jobs[j]
  <2>1. /\ row = Unleased(jobs[j], "canceled")
        /\ jobs[j].status = "leased"
        /\ jobs[j].leaseExpires <= now
        /\ jobs[j].attempt >= MaxAttempts
    BY Zenon, <1>3, QuarantineRow
  <2>2. row \in JobRow /\ row.status = "canceled"
    BY <2>1, <1>0, UnleasedRow DEF JobStatus
  <2>3. Maintained(row, w, at) = row
    BY Zenon, <2>2 DEF Maintained
  <2>4. row.token = 0
    BY <2>1, <1>0, UnleasedRow DEF JobStatus
  <2> QED BY Zenon, <2>1, <2>2, <2>3, <2>4, <1>1
<1> QED BY Zenon, <1>2, <1>3

\* A swept row has made a move, or none.
LEMMA SweptStep ==
  ASSUME IInv, NEW w \in Worker, NEW at \in Captured, NEW j \in Job,
         jobs'[j] = Swept(w, at)[j], UNCHANGED assignments
  PROVE  RowStep(j)
<1>1. at \in Nat /\ at <= now /\ now \in Nat /\ jobs[j] \in JobRow
  BY Zenon, CapturedPast DEF IInv, TypeOK
<1>2. jobs[j].leaseExpires <= at => jobs[j].leaseExpires <= now
  BY <1>1 DEF JobRow
<1> QED BY <1>1, <1>2, SweptRow DEF RowStep, Quarantined, Expired, Released

\* The job a poll hands out was pending, or has just been released.
LEMMA LeaseStep ==
  ASSUME IInv, NEW w \in Worker, NEW at \in Captured, NEW j \in Job,
         LeaseScannerWorkerJob(w, j, at)
  PROVE  LeasedOut(j)
<1> DEFINE row == Swept(w, at)[j]
<1>1. at \in Nat /\ at <= now /\ now \in Nat
  BY Zenon, CapturedPast DEF IInv, TypeOK
<1>2. row.status = "pending" /\ row.expires > at
  BY Zenon DEF LeaseScannerWorkerJob, Leasable
<1>3. jobs[j] \in JobRow /\ RowOK(jobs[j], lastToken)
  BY Zenon, <1>2 DEF IInv, TypeOK, RowsInv
<1>4. DOMAIN Swept(w, at) = Job
  BY Zenon DEF Swept
<1>5. jobs'[j] = Leased(row, at) /\ lastToken' = lastToken + 1
  BY Zenon, <1>4 DEF LeaseScannerWorkerJob
<1>6. ASSUME NEW k \in Job \ {j}
      PROVE  jobs'[k].token \in {0, jobs[k].token}
  <2>1. jobs'[k] = Swept(w, at)[k]
    BY Zenon, <1>4 DEF LeaseScannerWorkerJob
  <2> QED BY Zenon, <1>1, <2>1, SweptRow
<1>7. CASE row = jobs[j]
  <2>1. jobs[j].attempt < MaxAttempts
    BY Zenon, <1>2, <1>3, <1>7 DEF RowOK
  <2>2. jobs[j].status = "pending"
    BY Zenon, <1>2, <1>7
  <2> QED BY Zenon, <1>2, <1>5, <1>6, <1>7, <2>1, <2>2 DEF LeasedOut
<1>8. CASE row # jobs[j]
  <2>1. row = Unleased(jobs[j], "pending") /\ jobs[j].status = "leased"
        /\ jobs[j].leaseExpires <= at /\ jobs[j].attempt < MaxAttempts
    BY <1>1, <1>2, <1>3, <1>8, SweptRow, UnleasedRow DEF JobStatus
  <2>2. row.attempt < MaxAttempts
    BY <2>1, <1>3, UnleasedRow DEF JobStatus
  <2> QED BY Zenon, <1>2, <1>5, <1>6, <2>1, <2>2 DEF LeasedOut
<1> QED BY Zenon, <1>7, <1>8

(***************************************************************************)
(* Every move keeps a row a row                                            *)
(***************************************************************************)

\* The lease and renewal times never pass the expiry of the job.
LEMMA ExpiryBounds ==
  ASSUME NEW row \in JobRow, NEW at \in Nat
  PROVE  /\ LeaseExpiry(row, at) \in Nat /\ LeaseExpiry(row, at) <= row.expires
         /\ LeaseExpiry(row, at) \in {row.expires, at + LeaseLifetime}
         /\ row.leaseExpires <= row.expires =>
              /\ RenewedExpiry(row, at + LeaseLifetime) \in Nat
              /\ RenewedExpiry(row, at + LeaseLifetime) <= row.expires
              /\ RenewedExpiry(row, at + LeaseLifetime) >= row.leaseExpires
  BY NumbersAssumption DEF LeaseExpiry, RenewedExpiry, JobRow

\* The row of a new job.
LEMMA NewRowFields ==
  ASSUME NEW d \in Phases, d.phase = "create", NEW t \in Nat
  PROVE  /\ NewRow(d, t) \in JobRow
         /\ NewRow(d, t).status = "pending"
         /\ NewRow(d, t).worker \in Worker /\ NewRow(d, t).worker = d.worker
         /\ NewRow(d, t).token = 0
         /\ NewRow(d, t).attempt = 0
         /\ NewRow(d, t).next = 1
         /\ NewRow(d, t).completed = {}
         /\ NewRow(d, t).outcome = Null
<1>1. d.worker \in Worker /\ d.at \in Nat
  BY DEF Phases, Idle
<1>2. /\ NoRow \in JobRow
      /\ NoRow.token = 0 /\ NoRow.attempt = 0 /\ NoRow.next = 1 /\ NoRow.completed = {}
      /\ NoRow.outcome = Null
  BY Zenon DEF NoRow, JobRow, JobStatus
<1> QED BY Zenon, <1>1, <1>2 DEF NewRow, JobRow, JobStatus

\* The row a poll hands out.
LEMMA LeasedFields ==
  ASSUME NEW row \in JobRow, NEW at \in Nat, lastToken \in Nat
  PROVE  /\ Leased(row, at) \in JobRow
         /\ Leased(row, at).status = "leased"
         /\ Leased(row, at).token = lastToken + 1
         /\ Leased(row, at).leaseExpires = LeaseExpiry(row, at)
         /\ Leased(row, at).attempt = row.attempt + 1
         /\ Leased(row, at).worker = row.worker
         /\ Leased(row, at).expires = row.expires
         /\ Leased(row, at).next = row.next
         /\ Leased(row, at).completed = row.completed
         /\ Leased(row, at).outcome = row.outcome
<1>1. LeaseExpiry(row, at) \in Nat
  BY Zenon, ExpiryBounds
<1>2. row.attempt \in Nat
  BY Zenon DEF JobRow
<1> DEFINE last == lastToken + 1
           until == LeaseExpiry(row, at)
           count == row.attempt + 1
<1>3. last \in Nat /\ until \in Nat /\ count \in Nat
  BY <1>1, <1>2
<1>4. Leased(row, at) = [row EXCEPT !.status = "leased", !.token = last,
                                    !.leaseExpires = until, !.attempt = count]
  BY Zenon DEF Leased, JobRow
<1> HIDE DEF last, until, count
<1>5. /\ Leased(row, at) \in JobRow
      /\ Leased(row, at).status = "leased"
      /\ Leased(row, at).token = last
      /\ Leased(row, at).leaseExpires = until
      /\ Leased(row, at).attempt = count
      /\ Leased(row, at).worker = row.worker
      /\ Leased(row, at).expires = row.expires
      /\ Leased(row, at).next = row.next
      /\ Leased(row, at).completed = row.completed
      /\ Leased(row, at).outcome = row.outcome
  BY ZenonT(60), <1>3, <1>4 DEF JobRow, JobStatus
<1> QED BY Zenon, <1>5 DEF last, until, count

\* The row of a finished job.
LEMMA CompletedFields ==
  ASSUME NEW row \in JobRow, NEW r \in Receipts
  PROVE  /\ CompletedRow(row, r) \in JobRow
         /\ CompletedRow(row, r).status = "completed"
         /\ CompletedRow(row, r).token = 0
         /\ CompletedRow(row, r).worker = row.worker
         /\ CompletedRow(row, r).attempt = row.attempt
         /\ CompletedRow(row, r).next = row.next
         /\ CompletedRow(row, r).completed = row.completed
         /\ CompletedRow(row, r).outcome = r.outcome
<1>1. Unleased(row, "completed") \in JobRow
  BY Zenon, UnleasedRow DEF JobStatus
<1>2. r.outcome \in Outcome
  BY Zenon, ReceiptsAssumption
<1>3. /\ Unleased(row, "completed").status = "completed"
      /\ Unleased(row, "completed").token = 0
      /\ Unleased(row, "completed").worker = row.worker
      /\ Unleased(row, "completed").attempt = row.attempt
      /\ Unleased(row, "completed").next = row.next
      /\ Unleased(row, "completed").completed = row.completed
  BY Zenon, UnleasedRow DEF JobStatus
<1> QED BY Zenon, <1>1, <1>2, <1>3 DEF CompletedRow, JobRow

\* The row of a reassigned job.
LEMMA ReassignedFields ==
  ASSUME NEW row \in JobRow, NEW d \in Phases, d.phase = "reassign"
  PROVE  /\ ReassignedRow(row, d) \in JobRow
         /\ ReassignedRow(row, d).status = "pending"
         /\ ReassignedRow(row, d).token = 0
         /\ ReassignedRow(row, d).worker = d.worker
         /\ ReassignedRow(row, d).attempt = row.attempt
         /\ ReassignedRow(row, d).next = d.next
         /\ ReassignedRow(row, d).completed = d.completed
         /\ ReassignedRow(row, d).outcome = row.outcome
<1>1. Unleased(row, "pending") \in JobRow
  BY Zenon, UnleasedRow DEF JobStatus
<1>2. d.worker \in Worker /\ d.next \in Nat /\ d.completed \in SUBSET Check
  BY DEF Phases, Idle
<1>3. /\ Unleased(row, "pending").status = "pending"
      /\ Unleased(row, "pending").token = 0
      /\ Unleased(row, "pending").attempt = row.attempt
      /\ Unleased(row, "pending").outcome = row.outcome
  BY Zenon, UnleasedRow DEF JobStatus
<1> QED BY Zenon, <1>1, <1>2, <1>3 DEF ReassignedRow, JobRow

\* Whatever the server does, each row makes one move or none.
LEMMA RowSteps ==
  ASSUME IInv, [Next]_vars, NEW j \in Job
  PROVE  RowStep(j)
<1>0. jobs \in [Job -> JobRow] /\ dispatcher \in Phases /\ jobs[j] \in JobRow
      /\ assignments \in [Job -> Seq(Worker)]
      /\ launching \in [Job -> [step : {"idle", "listed", "saved", "dispatching", "failing"},
                                expires : Nat]]
  BY Zenon DEF IInv, TypeOK
<1>a. ASSUME UNCHANGED <<jobs, assignments>>
      PROVE  RowStep(j)
  BY Zenon, <1>a DEF RowStep
<1>1. ASSUME NEW w \in Worker, NEW k \in Job, NEW at \in Captured, LeaseScannerWorkerJob(w, k, at)
      PROVE  RowStep(j)
  <2>1. jobs' = [Swept(w, at) EXCEPT ![k] = Leased(@, at)] /\ UNCHANGED assignments
    BY Zenon, <1>1 DEF LeaseScannerWorkerJob
  <2>2. j \in DOMAIN Swept(w, at)
    BY Zenon DEF Swept
  <2>3. CASE j = k
    BY Zenon, <1>1, <2>1, <2>3, LeaseStep DEF RowStep
  <2>4. CASE j # k
    BY Zenon, <2>1, <2>2, <2>4, SweptStep
  <2> QED BY Zenon, <2>3, <2>4
<1>2. ASSUME NEW w \in Worker, NEW at \in Captured, LeaseMaintenance(w, at)
      PROVE  RowStep(j)
  BY Zenon, <1>2, SweptStep DEF LeaseMaintenance
<1>3. ASSUME NEW w \in Worker, NEW k \in Job, NEW token \in 1..lastToken, NEW at \in Captured,
             RenewScannerWorkerJobLease(w, k, token, at)
      PROVE  RowStep(j)
  BY Zenon, <1>0, <1>3 DEF RenewScannerWorkerJobLease, HoldsLease, RowStep, Renewed
<1>4. ASSUME NEW r \in Receipts, NEW token \in 1..lastToken, NEW at \in Captured,
             CompleteScannerWorkerJob(r, token, at)
      PROVE  RowStep(j)
  BY Zenon, <1>0, <1>4 DEF CompleteScannerWorkerJob, HoldsLease, RowStep, Completed
<1>5. ASSUME CreateScannerWorkerJob
      PROVE  RowStep(j)
  <2> DEFINE k == dispatcher.job
  <2>1. dispatcher.phase = "create" /\ k \in Job /\ launching[k].expires \in Nat
    BY <1>0, <1>5 DEF CreateScannerWorkerJob, Phases, Idle
  <2>2. CASE jobs[k].status # "none"
    BY Zenon, <1>5, <1>a, <2>2 DEF CreateScannerWorkerJob
  <2>3. CASE jobs[k].status = "none" /\ j = k
    <3>1. jobs'[j] = NewRow(dispatcher, launching[k].expires)
          /\ assignments'[j] = Append(assignments[j], dispatcher.worker)
      BY Zenon, <1>0, <1>5, <2>3 DEF CreateScannerWorkerJob
    <3>2. NewRow(dispatcher, launching[k].expires).worker = dispatcher.worker
      BY Zenon, <1>0, <2>1, NewRowFields
    <3> QED BY Zenon, <1>0, <2>1, <2>3, <3>1, <3>2 DEF RowStep, Created
  <2>4. CASE jobs[k].status = "none" /\ j # k
    BY Zenon, <1>0, <1>5, <2>4 DEF CreateScannerWorkerJob, RowStep
  <2> QED BY Zenon, <2>2, <2>3, <2>4
<1>6. ASSUME ReassignScannerWorkerJob
      PROVE  RowStep(j)
  <2>1. dispatcher.phase = "reassign" /\ dispatcher.job \in Job
    BY <1>0, <1>6 DEF ReassignScannerWorkerJob, Phases, Idle
  <2>2. CASE ~ (Reassignable(dispatcher) /\ dispatcher.job = j)
    BY Zenon, <1>0, <1>6, <2>1, <2>2 DEF ReassignScannerWorkerJob, RowStep
  <2>3. CASE Reassignable(dispatcher) /\ dispatcher.job = j
    <3>1. /\ jobs'[j] = ReassignedRow(jobs[j], dispatcher)
          /\ assignments'[j] = Append(assignments[j], dispatcher.worker)
      BY Zenon, <1>0, <1>6, <2>3 DEF ReassignScannerWorkerJob
    <3>2. ReassignedRow(jobs[j], dispatcher).worker = dispatcher.worker
      BY Zenon, <1>0, <2>1, ReassignedFields
    <3> QED BY Zenon, <2>1, <2>3, <3>1, <3>2 DEF RowStep, Reassigned
  <2> QED BY Zenon, <2>2, <2>3
<1>7. ASSUME NEW k \in Job, ResumeQuarantine(k)
      PROVE  RowStep(j)
  <2>1. jobs[k].worker \in Worker /\ now \in Nat
    BY Zenon, <1>7 DEF IInv, TypeOK, RowsInv, RowOK, ResumeQuarantine, Abandoned
  <2>2. jobs' = JobsAfterQuarantine(jobs[k].worker, now) /\ UNCHANGED assignments
    BY Zenon, <1>7 DEF ResumeQuarantine
  <2> QED BY <2>1, <2>2, QuarantineRow DEF RowStep, Quarantined
<1>8. CASE UNCHANGED vars
  BY Zenon, <1>8, <1>a DEF vars, storeVars
<1>9. CASE WorkerRequest
  <2>1. ASSUME NEW b \in Batches, NEW at \in Captured, RecordScannerWorkerEvidenceBatch(b, at)
        PROVE  RowStep(j)
    BY Zenon, <2>1, <1>a DEF RecordScannerWorkerEvidenceBatch
  <2> QED BY Zenon, <1>1, <1>2, <1>3, <1>4, <1>9, <2>1 DEF WorkerRequest
<1>10. CASE ServerThread
  <2>1. ASSUME NEW r \in Receipts, RetryResult(r) \/ ProjectScannerWorkerResult(r)
        PROVE  RowStep(j)
    BY Zenon, <2>1, <1>a DEF RetryResult, ProjectScannerWorkerResult, storeVars
  <2>2. ASSUME NEW k \in Job,
               \/ ListPaused(k) \/ LaunchFailed(k) \/ CancelRead(k) \/ CancelSave(k)
               \/ \E lifetime \in JobLifetimes : Launch(k, lifetime)
               \/ \E heard \in Heartbeats :
                    SelectWorker(k, heard) \/ DispatchFails(k, heard) \/ ResumeCandidate(k, heard)
        PROVE  RowStep(j)
    BY Zenon, <2>2, <1>a DEF ListPaused, LaunchFailed, CancelRead, CancelSave, Launch, SelectWorker,
                      DispatchFails, ResumeCandidate, storeVars
  <2> QED BY Zenon, <1>5, <1>6, <1>7, <1>10, <2>1, <2>2 DEF ServerThread
<1>11. CASE Administrator
  BY Zenon, <1>11, <1>a DEF Administrator, SetScannerWorkerDispatch, SetScannerWorkerDispatchForWorker,
                     RevokeScannerWorker
<1>12. CASE Tick \/ Restart
  BY Zenon, <1>12, <1>a DEF Tick, Restart, storeVars
<1> QED BY Zenon, <1>8, <1>9, <1>10, <1>11, <1>12 DEF Next

-----------------------------------------------------------------------------
(***************************************************************************)
(* A row that made one of these moves is again a good row (MovedRow), what *)
(* a step may do meanwhile to the tables around the job table (StepFrame), *)
(* and that the state keeps its type (TypeStep).                           *)
(***************************************************************************)

\* A move yields a row of the table that satisfies RowOK again.
LEMMA MovedRow ==
  ASSUME IInv, NEW j \in Job, RowStep(j), lastToken' \in {lastToken, lastToken + 1}
  PROVE  jobs'[j] \in JobRow /\ RowOK(jobs'[j], lastToken')
<1>0. /\ jobs[j] \in JobRow /\ RowOK(jobs[j], lastToken) /\ lastToken \in Nat /\ now \in Nat
      /\ MaxAttempts \in Nat /\ 0 < MaxAttempts /\ dispatcher \in Phases
      /\ Null \notin Worker /\ lastToken' \in Nat /\ lastToken <= lastToken'
  BY NumbersAssumption, SetsAssumption DEF IInv, TypeOK, RowsInv
<1>1. CASE jobs'[j] = jobs[j]
  BY SMTT(40), <1>0, <1>1 DEF RowOK, JobRow
<1>2. CASE Created(j)
  <2>1. PICK d \in Phases, t \in Nat : d.phase = "create" /\ jobs'[j] = NewRow(d, t)
    BY Zenon, <1>2 DEF Created
  <2> QED BY SMTT(40), <1>0, <2>1, NewRowFields DEF RowOK
<1>3. CASE LeasedOut(j)
  <2>1. PICK at \in Captured, row \in {jobs[j], Unleased(jobs[j], "pending")} :
          /\ row.status = "pending"
          /\ row.attempt < MaxAttempts
          /\ row.expires > at
          /\ jobs'[j] = Leased(row, at)
    BY Zenon, <1>3 DEF LeasedOut
  <2>2. row \in JobRow /\ row.worker = jobs[j].worker /\ row.outcome = jobs[j].outcome
        /\ row.attempt = jobs[j].attempt
    BY <1>0, UnleasedRow DEF JobStatus
  <2>3. at \in Nat
    BY Zenon, <1>0, CapturedPast
  <2>4. LeaseExpiry(row, at) <= row.expires
    BY Zenon, <2>2, <2>3, ExpiryBounds
  <2>5. jobs[j].status \in {"pending", "leased"}
    BY Zenon, <1>3, <2>1 DEF LeasedOut
  <2>6. jobs[j].worker \in Worker /\ jobs[j].outcome = Null
    BY Zenon, <1>0, <2>5 DEF RowOK
  <2>7. row.attempt \in Nat
    BY Zenon, <2>2 DEF JobRow
  <2>8. lastToken' = lastToken + 1
    BY Zenon, <1>3 DEF LeasedOut
  <2>9. /\ jobs'[j] \in JobRow
        /\ jobs'[j].status = "leased"
        /\ jobs'[j].token = lastToken + 1
        /\ jobs'[j].leaseExpires = LeaseExpiry(row, at)
        /\ jobs'[j].attempt = row.attempt + 1
        /\ jobs'[j].worker = row.worker
        /\ jobs'[j].expires = row.expires
        /\ jobs'[j].outcome = row.outcome
    <3>1. /\ Leased(row, at) \in JobRow
          /\ Leased(row, at).status = "leased"
          /\ Leased(row, at).token = lastToken + 1
          /\ Leased(row, at).leaseExpires = LeaseExpiry(row, at)
          /\ Leased(row, at).attempt = row.attempt + 1
          /\ Leased(row, at).worker = row.worker
          /\ Leased(row, at).expires = row.expires
          /\ Leased(row, at).outcome = row.outcome
      BY Zenon, <1>0, <2>2, <2>3, LeasedFields
    <3> QED BY Zenon, <2>1, <3>1
  <2> QED BY SMTT(40), <1>0, <2>1, <2>2, <2>4, <2>6, <2>7, <2>8, <2>9 DEF RowOK
<1>4. CASE Renewed(j)
  <2>1. PICK at \in Captured :
          /\ jobs[j].status = "leased"
          /\ jobs'[j] = [jobs[j] EXCEPT !.leaseExpires = RenewedExpiry(jobs[j], at + LeaseLifetime)]
    BY Zenon, <1>4 DEF Renewed
  <2>2. RenewedExpiry(jobs[j], at + LeaseLifetime) \in Nat
        /\ RenewedExpiry(jobs[j], at + LeaseLifetime) <= jobs[j].expires
    BY Zenon, <1>0, <2>1, ExpiryBounds, CapturedPast DEF RowOK
  <2> QED BY <1>0, <2>1, <2>2 DEF JobRow, RowOK
<1>5. CASE Completed(j)
  <2>1. PICK r \in Receipts :
          jobs'[j] = CompletedRow(jobs[j], r)
    BY Zenon, <1>5 DEF Completed
  <2>2. jobs[j].status = "leased"
    BY Zenon, <1>5 DEF Completed
  <2>3. /\ jobs'[j] \in JobRow
        /\ jobs'[j].status = "completed"
        /\ jobs'[j].token = 0
        /\ jobs'[j].worker = jobs[j].worker
        /\ jobs'[j].attempt = jobs[j].attempt
    BY <1>0, <2>1, CompletedFields
  <2> QED BY Zenon, <1>0, <2>2, <2>3 DEF RowOK
<1>6. CASE Quarantined(j) \/ Expired(j) \/ Released(j)
  <2>1. PICK status \in {"canceled", "expired", "pending"} :
          /\ jobs'[j] = Unleased(jobs[j], status)
          /\ jobs[j].status \in {"pending", "leased"}
          /\ status = "pending" => jobs[j].attempt < MaxAttempts
    BY Zenon, <1>6 DEF Quarantined, Expired, Released
  <2> QED BY SMTT(40), <1>0, <2>1, UnleasedRow DEF JobRow, JobStatus, RowOK
<1>7. CASE Reassigned(j)
  <2>1. /\ jobs'[j] = ReassignedRow(jobs[j], dispatcher)
        /\ dispatcher.phase = "reassign" /\ dispatcher.job = j
        /\ Abandoned(j, dispatcher.at)
    BY Zenon, <1>7 DEF Reassigned, Reassignable
  <2>2. dispatcher.worker \in Worker
    BY <1>0, <2>1 DEF Phases, Idle
  <2>3. jobs[j].attempt < MaxAttempts /\ jobs[j].status = "leased"
    BY Zenon, <2>1 DEF IInv, DispatcherInv, Abandoned
  <2> QED BY SMTT(40), <1>0, <2>1, <2>2, <2>3, ReassignedFields DEF RowOK
<1> QED BY Zenon, <1>1, <1>2, <1>3, <1>4, <1>5, <1>6, <1>7 DEF RowStep

(***************************************************************************)
(* What a step does to the rest of the state                               *)
(***************************************************************************)

EvidenceStep ==
  \/ UNCHANGED <<batches, checkpoints>>
  \/ \E b \in Batches, at \in Captured : RecordScannerWorkerEvidenceBatch(b, at)

\* New dead letters are those of the jobs the same step cancels.
LettersStep ==
  \/ UNCHANGED deadLetters
  \/ \E w \in Worker, at \in Nat :
       /\ deadLetters' = DeadLettersAfter(w, at)
       /\ \A j \in Repeated(w, at) : jobs'[j] = Unleased(jobs[j], "canceled")

DispatcherStep ==
  \/ UNCHANGED dispatcher
  \/ dispatcher'.phase # "reassign"
  \/ \E j \in Job, heard \in Heartbeats : ResumeCandidate(j, heard)

TokenStep == lastToken' = lastToken \/ \E j \in Job : LeasedOut(j)

Frame ==
  /\ jobs' = [j \in Job |-> jobs'[j]]
  /\ EvidenceStep /\ LettersStep /\ DispatcherStep /\ TokenStep
  /\ now' \in Nat /\ now <= now'

\* A job counted out by the quarantine is canceled, also by a poll that goes on
\* to hand out a job.
LEMMA RepeatedCanceled ==
  ASSUME IInv, NEW w \in Worker, NEW at \in Nat, at <= now, NEW j \in Repeated(w, at)
  PROVE  /\ JobsAfterQuarantine(w, at)[j] = Unleased(jobs[j], "canceled")
         /\ Swept(w, at)[j] = Unleased(jobs[j], "canceled")
         /\ j \notin Leasable(w, at)
<1>0. j \in Job /\ jobs[j] \in JobRow /\ jobs[j].status = "leased"
  BY Zenon DEF IInv, TypeOK, Repeated
<1>1. \E d \in DeadLettersAfter(w, at) : d.job = j
  <2>1. CASE \E d \in deadLetters : d.job = j
    BY Zenon, <2>1 DEF DeadLettersAfter
  <2>2. CASE \A d \in deadLetters : d.job # j
    <3> DEFINE d == [job |-> j, worker |-> w, at |-> at]
    <3>1. d \in DeadLettersAfter(w, at)
      BY Zenon, <2>2 DEF DeadLettersAfter
    <3>2. d.job = j
      BY Zenon
    <3> QED BY Zenon, <3>1, <3>2
  <2> QED BY Zenon, <2>1, <2>2
<1>2. JobsAfterQuarantine(w, at)[j] = Unleased(jobs[j], "canceled")
  BY Zenon, <1>0, <1>1 DEF JobsAfterQuarantine
<1>3. Unleased(jobs[j], "canceled").status = "canceled"
  BY Zenon, <1>0, UnleasedRow DEF JobStatus
<1>4. Swept(w, at)[j] = Unleased(jobs[j], "canceled")
  BY Zenon, <1>0, <1>2, <1>3 DEF Swept, Maintained
<1>5. j \notin Leasable(w, at)
  BY Zenon, <1>3, <1>4 DEF Leasable
<1> QED BY Zenon, <1>2, <1>4, <1>5

\* Every step of the server fits the frame.
LEMMA StepFrame ==
  ASSUME IInv, [Next]_vars
  PROVE  Frame
<1>0. jobs \in [Job -> JobRow] /\ now \in Nat /\ dispatcher \in Phases
  BY Zenon DEF IInv, TypeOK
<1>a. ASSUME UNCHANGED <<now, jobs, lastToken, batches, checkpoints, deadLetters>>, DispatcherStep
      PROVE  Frame
  BY <1>0, <1>a DEF Frame, EvidenceStep, LettersStep, TokenStep
<1>1. ASSUME NEW w \in Worker, NEW k \in Job, NEW at \in Captured, LeaseScannerWorkerJob(w, k, at)
      PROVE  Frame
  <2>1. at \in Nat /\ at <= now
    BY Zenon, <1>0, CapturedPast
  <2>2. jobs' = [Swept(w, at) EXCEPT ![k] = Leased(@, at)] /\ k \in Leasable(w, at)
    BY Zenon, <1>1 DEF LeaseScannerWorkerJob
  <2>3. \A j \in Repeated(w, at) : jobs'[j] = Unleased(jobs[j], "canceled")
    BY Zenon, <2>1, <2>2, RepeatedCanceled DEF Swept, Repeated
  <2>4. jobs' = [j \in Job |-> jobs'[j]]
    BY Zenon, <2>2 DEF Swept
  <2>5. LeasedOut(k)
    BY Zenon, <1>1, LeaseStep
  <2>6. UNCHANGED <<now, batches, checkpoints, dispatcher>> /\ deadLetters' = DeadLettersAfter(w, at)
    BY Zenon, <1>1 DEF LeaseScannerWorkerJob, Sweep, threadVars
  <2> QED BY <1>0, <2>1, <2>3, <2>4, <2>5, <2>6
          DEF Frame, EvidenceStep, LettersStep, DispatcherStep, TokenStep
<1>2. ASSUME NEW w \in Worker, NEW at \in Captured, LeaseMaintenance(w, at)
      PROVE  Frame
  <2>1. at \in Nat /\ at <= now
    BY Zenon, <1>0, CapturedPast
  <2>2. jobs' = Swept(w, at)
    BY Zenon, <1>2 DEF LeaseMaintenance
  <2>3. \A j \in Repeated(w, at) : jobs'[j] = Unleased(jobs[j], "canceled")
    BY Zenon, <2>1, <2>2, RepeatedCanceled
  <2>4. jobs' = [j \in Job |-> jobs'[j]]
    BY Zenon, <2>2 DEF Swept
  <2>5. UNCHANGED <<now, lastToken, batches, checkpoints, dispatcher>>
        /\ deadLetters' = DeadLettersAfter(w, at)
    BY Zenon, <1>2 DEF LeaseMaintenance, Sweep, threadVars
  <2> QED BY <1>0, <2>1, <2>3, <2>4, <2>5
          DEF Frame, EvidenceStep, LettersStep, DispatcherStep, TokenStep
<1>3. ASSUME NEW w \in Worker, NEW k \in Job, NEW token \in 1..lastToken, NEW at \in Captured,
             RenewScannerWorkerJobLease(w, k, token, at)
      PROVE  Frame
  <2>1. jobs' = [j \in Job |-> jobs'[j]]
    BY Zenon, <1>0, <1>3 DEF RenewScannerWorkerJobLease
  <2>2. UNCHANGED <<now, lastToken, batches, checkpoints, deadLetters, dispatcher>>
    BY Zenon, <1>3 DEF RenewScannerWorkerJobLease, threadVars
  <2> QED BY <1>0, <2>1, <2>2 DEF Frame, EvidenceStep, LettersStep, DispatcherStep, TokenStep
<1>4. ASSUME NEW b \in Batches, NEW at \in Captured, RecordScannerWorkerEvidenceBatch(b, at)
      PROVE  Frame
  <2>1. UNCHANGED <<now, jobs, lastToken, deadLetters, dispatcher>>
    BY Zenon, <1>4 DEF RecordScannerWorkerEvidenceBatch, threadVars
  <2> QED BY <1>0, <1>4, <2>1 DEF Frame, EvidenceStep, LettersStep, DispatcherStep, TokenStep
<1>5. ASSUME NEW r \in Receipts, NEW token \in 1..lastToken, NEW at \in Captured,
             CompleteScannerWorkerJob(r, token, at)
      PROVE  Frame
  <2>1. jobs' = [j \in Job |-> jobs'[j]]
    BY Zenon, <1>0, <1>5 DEF CompleteScannerWorkerJob
  <2>2. UNCHANGED <<now, lastToken, batches, checkpoints, deadLetters, dispatcher>>
    BY Zenon, <1>5 DEF CompleteScannerWorkerJob, threadVars
  <2> QED BY <1>0, <2>1, <2>2 DEF Frame, EvidenceStep, LettersStep, DispatcherStep, TokenStep
<1>6. ASSUME CreateScannerWorkerJob \/ ReassignScannerWorkerJob
      PROVE  Frame
  <2>1. jobs' = [j \in Job |-> jobs'[j]]
    BY Zenon, <1>0, <1>6 DEF CreateScannerWorkerJob, ReassignScannerWorkerJob
  <2>2. dispatcher'.phase # "reassign"
    BY <1>6 DEF CreateScannerWorkerJob, ReassignScannerWorkerJob, Idle
  <2>3. UNCHANGED <<now, lastToken, batches, checkpoints, deadLetters>>
    BY Zenon, <1>6 DEF CreateScannerWorkerJob, ReassignScannerWorkerJob
  <2> QED BY <1>0, <2>1, <2>2, <2>3 DEF Frame, EvidenceStep, LettersStep, DispatcherStep, TokenStep
<1>7. ASSUME NEW k \in Job, ResumeQuarantine(k)
      PROVE  Frame
  <2>1. jobs[k].worker \in Worker
    BY Zenon, <1>7 DEF IInv, TypeOK, RowsInv, RowOK, ResumeQuarantine, Abandoned
  <2>2. jobs' = JobsAfterQuarantine(jobs[k].worker, now)
        /\ deadLetters' = DeadLettersAfter(jobs[k].worker, now)
    BY Zenon, <1>7 DEF ResumeQuarantine
  <2>3. \A j \in Repeated(jobs[k].worker, now) : jobs'[j] = Unleased(jobs[j], "canceled")
    BY SMTT(40), <1>0, <2>1, <2>2, RepeatedCanceled
  <2>4. jobs' = [j \in Job |-> jobs'[j]]
    BY Zenon, <2>2 DEF JobsAfterQuarantine
  <2>5. UNCHANGED <<now, lastToken, batches, checkpoints, dispatcher>>
    BY Zenon, <1>7 DEF ResumeQuarantine, threadVars
  <2> QED BY <1>0, <2>1, <2>2, <2>3, <2>4, <2>5
          DEF Frame, EvidenceStep, LettersStep, DispatcherStep, TokenStep
<1>8. CASE UNCHANGED vars
  BY Zenon, <1>8, <1>a DEF vars, storeVars, threadVars, DispatcherStep
<1>9. CASE WorkerRequest
  BY Zenon, <1>1, <1>2, <1>3, <1>4, <1>5, <1>9 DEF WorkerRequest
<1>10. CASE ServerThread
  <2>1. ASSUME NEW r \in Receipts, RetryResult(r) \/ ProjectScannerWorkerResult(r)
        PROVE  Frame
    BY Zenon, <2>1, <1>a DEF RetryResult, ProjectScannerWorkerResult, storeVars, DispatcherStep
  <2>2. ASSUME NEW k \in Job, \/ ListPaused(k) \/ LaunchFailed(k) \/ CancelRead(k) \/ CancelSave(k)
                              \/ \E lifetime \in JobLifetimes : Launch(k, lifetime)
        PROVE  Frame
    BY Zenon, <2>2, <1>a DEF ListPaused, LaunchFailed, CancelRead, CancelSave, Launch, storeVars,
                      DispatcherStep
  <2>3. ASSUME NEW k \in Job, NEW heard \in Heartbeats,
               SelectWorker(k, heard) \/ DispatchFails(k, heard) \/ ResumeCandidate(k, heard)
        PROVE  Frame
    <3>1. DispatcherStep
      BY <2>3 DEF SelectWorker, DispatchFails, DispatcherStep
    <3>2. UNCHANGED <<now, jobs, lastToken, batches, checkpoints, deadLetters>>
      BY Zenon, <2>3 DEF SelectWorker, DispatchFails, ResumeCandidate, storeVars
    <3> QED BY Zenon, <3>1, <3>2, <1>a
  <2> QED BY Zenon, <1>6, <1>7, <1>10, <2>1, <2>2, <2>3 DEF ServerThread
<1>11. CASE Administrator
  BY Zenon, <1>11, <1>a DEF Administrator, SetScannerWorkerDispatch, SetScannerWorkerDispatchForWorker,
                     RevokeScannerWorker, threadVars, DispatcherStep
<1>12. CASE Tick
  BY <1>0, <1>12 DEF Tick, storeVars, threadVars, Frame, EvidenceStep, LettersStep, DispatcherStep,
                     TokenStep
<1>13. CASE Restart
  <2>1. dispatcher'.phase # "reassign"
    BY Zenon, <1>13 DEF Restart, Idle
  <2>2. UNCHANGED <<now, jobs, lastToken, batches, checkpoints, deadLetters>>
    BY Zenon, <1>13 DEF Restart
  <2> QED BY Zenon, <2>1, <2>2, <1>a DEF DispatcherStep
<1> QED BY Zenon, <1>8, <1>9, <1>10, <1>11, <1>12, <1>13 DEF Next

(***************************************************************************)
(* The invariant is preserved, conjunct by conjunct                        *)
(***************************************************************************)

\* The last token changes by at most one, and every row stays a good row.
LEMMA RowsStep ==
  ASSUME IInv, [Next]_vars
  PROVE  /\ lastToken' \in Nat /\ lastToken' \in {lastToken, lastToken + 1}
         /\ jobs' \in [Job -> JobRow]
         /\ RowsInv'
<1>1. lastToken \in Nat
  BY Zenon DEF IInv, TypeOK
<1>2. lastToken' \in {lastToken, lastToken + 1}
  BY Zenon, StepFrame DEF Frame, TokenStep, LeasedOut
<1>3. \A j \in Job : jobs'[j] \in JobRow /\ RowOK(jobs'[j], lastToken')
  BY Zenon, <1>2, RowSteps, MovedRow
<1>4. jobs' = [j \in Job |-> jobs'[j]]
  BY Zenon, StepFrame DEF Frame
<1>5. jobs' \in [Job -> JobRow]
  BY Zenon, <1>3, <1>4
<1> QED BY <1>1, <1>2, <1>3, <1>5 DEF RowsInv

\* LastSequence is a number, and the batches only grow.
LEMMA EvidenceFacts ==
  ASSUME IInv, NEW j \in Job
  PROVE  /\ LastSequence(j) \in Nat
         /\ Sequences(j) = 1..LastSequence(j)
<1>1. PICK n \in Nat : Sequences(j) = 1..n
  BY Zenon DEF IInv, EvidenceInv
<1> QED BY Zenon, <1>1, LastSequenceValue

\* Scans, launches, projections and the other tables keep their types.
LEMMA TypeStep ==
  ASSUME IInv, [Next]_vars
  PROVE  TypeOK'
<1> USE DEF TypeOK
<1>0. TypeOK
  BY Zenon DEF IInv
<1>1. now' \in Nat
  BY Zenon, StepFrame DEF Frame
<1>2. jobs' \in [Job -> JobRow] /\ lastToken' \in Nat
  BY Zenon, RowsStep
<1>3. batches' \subseteq Batches /\ checkpoints' \in [Job -> SUBSET Check]
  <2>1. ASSUME NEW b \in Batches, NEW at \in Captured, RecordScannerWorkerEvidenceBatch(b, at)
        PROVE  batches' \subseteq Batches /\ checkpoints' \in [Job -> SUBSET Check]
    BY Zenon, <1>0, <2>1, BatchesAssumption DEF RecordScannerWorkerEvidenceBatch
  <2> QED BY Zenon, <1>0, <2>1, StepFrame DEF Frame, EvidenceStep
<1>3a. assignments' \in [Job -> Seq(Worker)]
  <2>0. assignments \in [Job -> Seq(Worker)]
    BY Zenon, <1>0
  <2>a. ASSUME NEW j \in Job, NEW w \in Worker
        PROVE  [assignments EXCEPT ![j] = Append(@, w)] \in [Job -> Seq(Worker)]
    BY <1>0
  <2>1. CASE CreateScannerWorkerJob \/ ReassignScannerWorkerJob
    <3>1. dispatcher.job \in Job /\ dispatcher.worker \in Worker
      BY <1>0, <2>1 DEF CreateScannerWorkerJob, ReassignScannerWorkerJob, Phases, Idle
    <3>2. \/ UNCHANGED assignments
          \/ assignments' = [assignments EXCEPT ![dispatcher.job] = Append(@, dispatcher.worker)]
      BY Zenon, <2>1 DEF CreateScannerWorkerJob, ReassignScannerWorkerJob
    <3> HIDE DEF TypeOK
    <3>3. PICK k \in Job, w \in Worker : k = dispatcher.job /\ w = dispatcher.worker
      BY Zenon, <3>1
    <3>4. [assignments EXCEPT ![k] = Append(@, w)] \in [Job -> Seq(Worker)]
      BY Zenon, <2>a
    <3>5. UNCHANGED assignments \/ assignments' = [assignments EXCEPT ![k] = Append(@, w)]
      BY Zenon, <3>2, <3>3
    <3> QED BY Zenon, <2>0, <3>4, <3>5
  <2>2. CASE UNCHANGED assignments
    BY Zenon, <1>0, <2>2
  <2>3. UNCHANGED assignments \/ CreateScannerWorkerJob \/ ReassignScannerWorkerJob
    <3> HIDE DEF TypeOK
    <3>1. CASE UNCHANGED vars \/ Administrator \/ Tick \/ Restart
      BY Zenon, <3>1 DEF vars, storeVars, Administrator, SetScannerWorkerDispatch,
           SetScannerWorkerDispatchForWorker, RevokeScannerWorker, Tick, Restart
    <3>2. CASE WorkerRequest
      BY Zenon, <3>2 DEF WorkerRequest, LeaseScannerWorkerJob, LeaseMaintenance,
           RenewScannerWorkerJobLease, RecordScannerWorkerEvidenceBatch, CompleteScannerWorkerJob
    <3>3. CASE ServerThread
      BY Zenon, <3>3 DEF ServerThread, RetryResult, ProjectScannerWorkerResult, ListPaused, LaunchFailed,
           CancelRead, CancelSave, ResumeQuarantine, Launch, SelectWorker, DispatchFails,
           ResumeCandidate, storeVars
    <3> QED BY Zenon, <3>1, <3>2, <3>3 DEF Next
  <2> QED BY Zenon, <2>1, <2>2, <2>3
<1>4. deadLetters' \subseteq [job : Job, worker : Worker, at : Nat]
  <2>1. ASSUME NEW w \in Worker, NEW at \in Nat
        PROVE  DeadLettersAfter(w, at) \subseteq [job : Job, worker : Worker, at : Nat]
    BY SMTT(40), <1>0, <2>1 DEF DeadLettersAfter, Repeated
  <2> QED BY <1>0, <2>1, StepFrame DEF Frame, LettersStep
<1>5. enabled' \in BOOLEAN /\ workers' \in [Worker -> [active : BOOLEAN, dispatch : BOOLEAN]]
  <2>a. ASSUME UNCHANGED <<enabled, workers>>
        PROVE  enabled' \in BOOLEAN /\ workers' \in [Worker -> [active : BOOLEAN, dispatch : BOOLEAN]]
    BY Zenon, <1>0, <2>a
  <2>1. CASE UNCHANGED vars \/ WorkerRequest \/ ServerThread \/ Tick \/ Restart
    <3>1. CASE UNCHANGED vars \/ Tick \/ Restart
      BY Zenon, <3>1, <2>a DEF vars, storeVars, Tick, Restart
    <3>2. CASE WorkerRequest
      BY Zenon, <3>2, <2>a DEF WorkerRequest, LeaseScannerWorkerJob, LeaseMaintenance,
           RenewScannerWorkerJobLease, RecordScannerWorkerEvidenceBatch, CompleteScannerWorkerJob
    <3>3. CASE ServerThread
      BY Zenon, <3>3, <2>a DEF ServerThread, RetryResult, ProjectScannerWorkerResult, ListPaused,
           LaunchFailed, CancelRead, CancelSave, ResumeQuarantine, Launch, SelectWorker,
           DispatchFails, ResumeCandidate, CreateScannerWorkerJob, ReassignScannerWorkerJob, storeVars
    <3> QED BY Zenon, <2>1, <3>1, <3>2, <3>3
  <2>2. CASE SetScannerWorkerDispatch
    BY Zenon, <1>0, <2>2 DEF SetScannerWorkerDispatch
  <2>3. ASSUME NEW w \in Worker,
               SetScannerWorkerDispatchForWorker(w) \/ RevokeScannerWorker(w)
        PROVE  enabled' \in BOOLEAN /\ workers' \in [Worker -> [active : BOOLEAN, dispatch : BOOLEAN]]
    <3>1. PICK flag \in BOOLEAN : \/ workers' = [workers EXCEPT ![w].dispatch = flag]
                                  \/ workers' = [workers EXCEPT ![w].active = flag]
      <4>1. FALSE \in BOOLEAN /\ (~ workers[w].dispatch) \in BOOLEAN
        BY Zenon
      <4>2. \/ workers' = [workers EXCEPT ![w].dispatch = ~ workers[w].dispatch]
            \/ workers' = [workers EXCEPT ![w].active = FALSE]
        BY Zenon, <2>3 DEF SetScannerWorkerDispatchForWorker, RevokeScannerWorker
      <4> QED BY <4>1, <4>2, Zenon
    <3>2. UNCHANGED enabled
      BY Zenon, <2>3 DEF SetScannerWorkerDispatchForWorker, RevokeScannerWorker
    <3>a. workers \in [Worker -> [active : BOOLEAN, dispatch : BOOLEAN]]
      BY Zenon, <1>0
    <3> HIDE DEF TypeOK
    <3>3. workers' \in [Worker -> [active : BOOLEAN, dispatch : BOOLEAN]]
      <4>1. CASE workers' = [workers EXCEPT ![w].dispatch = flag]
        BY Zenon, <3>a, <4>1
      <4>2. CASE workers' = [workers EXCEPT ![w].active = flag]
        BY Zenon, <3>a, <4>2
      <4> QED BY Zenon, <3>1, <4>1, <4>2
    <3> USE DEF TypeOK
    <3> QED BY Zenon, <1>0, <3>2, <3>3
  <2> QED BY Zenon, <2>1, <2>2, <2>3 DEF Next, Administrator
<1>6. scans' \in [Job -> [status : ScanStatus, checks : SUBSET Check]]
  <2> DEFINE ScansOK == scans' \in [Job -> [status : ScanStatus, checks : SUBSET Check]]
  <2>a. ASSUME UNCHANGED scans
        PROVE  ScansOK
    BY Zenon, <1>0, <2>a
  <2>b. ASSUME NEW w \in Worker, NEW at, scans' = ScansAfterQuarantine(w, at)
        PROVE  ScansOK
    BY ZenonT(60), <1>0, <2>b DEF ScansAfterQuarantine, ScanStatus
  <2>c. ASSUME NEW j \in Job, NEW status \in ScanStatus, NEW checks \in SUBSET Check,
               scans' = [scans EXCEPT ![j] = [status |-> status, checks |-> checks]]
        PROVE  ScansOK
    BY Zenon, <1>0, <2>c
  <2> SUFFICES ScansOK
    BY Zenon
  <2> HIDE DEF ScansOK
  <2>1. CASE UNCHANGED vars \/ Administrator \/ Tick
    <3>1. UNCHANGED scans
      BY Zenon, <2>1 DEF vars, storeVars, Administrator, SetScannerWorkerDispatch,
           SetScannerWorkerDispatchForWorker, RevokeScannerWorker, Tick
    <3> QED BY Zenon, <2>a, <3>1
  <2>2. CASE Restart
    BY ZenonT(60), <1>0, <2>2 DEF Restart, Reconciled, ScanStatus, ScansOK
  <2>3. CASE WorkerRequest
    <3>1. \/ UNCHANGED scans
          \/ \E w \in Worker, at \in Captured : scans' = ScansAfterQuarantine(w, at)
      BY <2>3 DEF WorkerRequest, LeaseScannerWorkerJob, LeaseMaintenance, Sweep,
           RenewScannerWorkerJobLease, RecordScannerWorkerEvidenceBatch, CompleteScannerWorkerJob
    <3> QED BY Zenon, <2>a, <2>b, <3>1
  <2>4. CASE ServerThread
    <3>1. ASSUME NEW r \in Receipts, ProjectScannerWorkerResult(r)
          PROVE  ScansOK
      <4>1. r.job \in Job /\ ProjectedStatus(r.outcome) \in ScanStatus /\ checkpoints[r.job] \in SUBSET Check
        BY Zenon, <1>0, ReceiptsAssumption DEF ProjectedStatus, Outcome, ScanStatus
      <4> QED BY Zenon, <4>1, <2>c, <3>1 DEF ProjectScannerWorkerResult
    <3>2. ASSUME NEW j \in Job, \/ LaunchFailed(j) \/ CancelSave(j)
                                \/ \E lifetime \in JobLifetimes : Launch(j, lifetime)
          PROVE  ScansOK
      <4>1. "failed" \in ScanStatus /\ "canceled" \in ScanStatus /\ "queued" \in ScanStatus
            /\ {} \in SUBSET Check
        BY Zenon DEF ScanStatus
      <4> QED BY Zenon, <4>1, <2>c, <3>2 DEF LaunchFailed, CancelSave, Launch
    <3>3. ASSUME NEW j \in Job, ResumeQuarantine(j)
          PROVE  ScansOK
      <4>1. jobs[j].worker \in Worker
        BY Zenon, <3>3 DEF IInv, TypeOK, RowsInv, RowOK, ResumeQuarantine, Abandoned
      <4> QED BY Zenon, <4>1, <2>b, <3>3 DEF ResumeQuarantine
    <3>4. ASSUME \/ \E r \in Receipts : RetryResult(r)
                 \/ \E j \in Job : ListPaused(j) \/ CancelRead(j)
                 \/ \E j \in Job, heard \in Heartbeats :
                      SelectWorker(j, heard) \/ DispatchFails(j, heard) \/ ResumeCandidate(j, heard)
                 \/ CreateScannerWorkerJob \/ ReassignScannerWorkerJob
          PROVE  ScansOK
      <4>1. UNCHANGED scans
        BY Zenon, <3>4 DEF RetryResult, ListPaused, CancelRead, SelectWorker, DispatchFails,
             ResumeCandidate, CreateScannerWorkerJob, ReassignScannerWorkerJob, storeVars
      <4> QED BY Zenon, <2>a, <4>1
    <3> QED BY Zenon, <2>4, <3>1, <3>2, <3>3, <3>4 DEF ServerThread
  <2> QED BY Zenon, <2>1, <2>2, <2>3, <2>4 DEF Next
<1>7. projections' \subseteq Receipts /\ canceling' \subseteq Job
  <2>0. projections \subseteq Receipts /\ canceling \subseteq Job
    BY Zenon, <1>0
  <2> HIDE DEF TypeOK
  <2>1. CASE UNCHANGED vars \/ Administrator \/ Tick \/ Restart
    BY Zenon, <2>0, <2>1 DEF vars, threadVars, Administrator, SetScannerWorkerDispatch,
         SetScannerWorkerDispatchForWorker, RevokeScannerWorker, Tick, Restart
  <2>2. CASE WorkerRequest
    BY Zenon, <2>0, <2>2 DEF WorkerRequest, LeaseScannerWorkerJob, LeaseMaintenance, threadVars,
         RenewScannerWorkerJobLease, RecordScannerWorkerEvidenceBatch, CompleteScannerWorkerJob
  <2>3. CASE ServerThread
    BY Zenon, <2>0, <2>3 DEF ServerThread, RetryResult, ProjectScannerWorkerResult, ListPaused,
         LaunchFailed, CancelRead, CancelSave, ResumeQuarantine, Launch, SelectWorker,
         DispatchFails, ResumeCandidate, CreateScannerWorkerJob, ReassignScannerWorkerJob, threadVars
  <2> QED BY Zenon, <2>1, <2>2, <2>3 DEF Next
<1>8. launching' \in [Job -> [step : {"idle", "listed", "saved", "dispatching", "failing"},
                              expires : Nat]]
  <2> DEFINE LaunchingOK == launching' \in [Job -> [step : {"idle", "listed", "saved",
                                                         "dispatching", "failing"}, expires : Nat]]
  <2>a. ASSUME UNCHANGED launching
        PROVE  LaunchingOK
    BY Zenon, <1>0, <2>a
  <2>b. ASSUME NEW j \in Job, NEW step \in {"idle", "listed", "saved", "dispatching", "failing"},
               launching' = [launching EXCEPT ![j].step = step]
        PROVE  LaunchingOK
    BY Zenon, <1>0, <2>b
  <2> SUFFICES LaunchingOK
    BY Zenon
  <2> HIDE DEF LaunchingOK
  <2>1. CASE UNCHANGED vars \/ Administrator \/ Tick \/ WorkerRequest
    <3>1. UNCHANGED launching
      BY Zenon, <2>1 DEF vars, threadVars, Administrator, SetScannerWorkerDispatch, Tick,
           SetScannerWorkerDispatchForWorker, RevokeScannerWorker, WorkerRequest,
           LeaseScannerWorkerJob, LeaseMaintenance, RenewScannerWorkerJobLease,
           RecordScannerWorkerEvidenceBatch, CompleteScannerWorkerJob
    <3> QED BY Zenon, <2>a, <3>1
  <2>2. CASE Restart
    BY Zenon, <2>2 DEF Restart, LaunchingOK
  <2>3. ASSUME NEW j \in Job, NEW lifetime \in JobLifetimes, Launch(j, lifetime)
        PROVE  LaunchingOK
    BY SMTT(40), <1>0, <2>3, NumbersAssumption DEF Launch, LaunchingOK
  <2>4. ASSUME CreateScannerWorkerJob
        PROVE  LaunchingOK
    <3>1. dispatcher.job \in Job
      BY <1>0, <2>4 DEF CreateScannerWorkerJob, Phases, Idle
    <3> QED BY Zenon, <2>4, <2>b, <3>1 DEF CreateScannerWorkerJob
  <2>5. ASSUME NEW j \in Job, \/ ListPaused(j) \/ LaunchFailed(j)
                              \/ \E heard \in Heartbeats : SelectWorker(j, heard) \/ DispatchFails(j, heard)
        PROVE  LaunchingOK
    BY Zenon, <2>5, <2>b DEF ListPaused, LaunchFailed, SelectWorker, DispatchFails
  <2>6. ASSUME \/ \E r \in Receipts : RetryResult(r) \/ ProjectScannerWorkerResult(r)
               \/ \E j \in Job : CancelRead(j) \/ CancelSave(j) \/ ResumeQuarantine(j)
               \/ \E j \in Job, heard \in Heartbeats : ResumeCandidate(j, heard)
               \/ ReassignScannerWorkerJob
        PROVE  LaunchingOK
    BY Zenon, <2>6, <2>a DEF RetryResult, ProjectScannerWorkerResult, CancelRead, CancelSave,
         ResumeQuarantine, ResumeCandidate, ReassignScannerWorkerJob, threadVars
  <2> QED BY Zenon, <2>1, <2>2, <2>3, <2>4, <2>5, <2>6 DEF Next, ServerThread
<1>9. dispatcher' \in Phases
  <2>1. ASSUME NEW j \in Job, NEW heard \in Heartbeats, SelectWorker(j, heard)
        PROVE  dispatcher' \in Phases
    <3>1. PICK w \in Worker : dispatcher' = [phase |-> "create", job |-> j, worker |-> w, at |-> now]
      BY Zenon, <2>1 DEF SelectWorker, Selectable, Available
    <3> QED BY Zenon, <1>0, <3>1 DEF Phases
  <2>2. ASSUME NEW j \in Job, NEW heard \in Heartbeats, ResumeCandidate(j, heard)
        PROVE  dispatcher' \in Phases
    <3>1. PICK w \in Worker :
            dispatcher' = [phase |-> "reassign", job |-> j, worker |-> w,
                           previous |-> jobs[j].worker, at |-> now,
                           next |-> LastSequence(j) + 1, completed |-> checkpoints[j]]
      BY Zenon, <2>2 DEF ResumeCandidate, Selectable, Available
    <3>2. jobs[j].worker \in Worker
      BY Zenon, <2>2 DEF IInv, RowsInv, RowOK, ResumeCandidate, Abandoned
    <3>3. LastSequence(j) + 1 \in Nat
      BY EvidenceFacts
    <3> QED BY Zenon, <1>0, <3>1, <3>2, <3>3 DEF Phases
  <2>3. Idle \in Phases /\ dispatcher \in Phases
    BY Zenon, <1>0 DEF Phases
  <2> HIDE DEF TypeOK
  <2>4. CASE UNCHANGED vars \/ Administrator \/ Tick \/ Restart
    BY Zenon, <2>3, <2>4 DEF vars, threadVars, Administrator, SetScannerWorkerDispatch,
         SetScannerWorkerDispatchForWorker, RevokeScannerWorker, Tick, Restart
  <2>5. CASE WorkerRequest
    BY Zenon, <2>3, <2>5 DEF WorkerRequest, LeaseScannerWorkerJob, LeaseMaintenance, threadVars,
         RenewScannerWorkerJobLease, RecordScannerWorkerEvidenceBatch, CompleteScannerWorkerJob
  <2>6. CASE ServerThread
    <3>1. \/ dispatcher' \in {dispatcher, Idle}
          \/ \E j \in Job, heard \in Heartbeats : SelectWorker(j, heard) \/ ResumeCandidate(j, heard)
      BY Zenon, <2>6 DEF ServerThread, RetryResult, ProjectScannerWorkerResult, ListPaused, LaunchFailed,
           CancelRead, CancelSave, ResumeQuarantine, Launch, DispatchFails, CreateScannerWorkerJob,
           ReassignScannerWorkerJob, threadVars
    <3> QED BY Zenon, <2>1, <2>2, <2>3, <3>1
  <2> QED BY Zenon, <2>4, <2>5, <2>6 DEF Next
<1> QED BY Zenon, <1>1, <1>2, <1>3, <1>3a, <1>4, <1>5, <1>6, <1>7, <1>8, <1>9

-----------------------------------------------------------------------------
(***************************************************************************)
(* The conjuncts of the inductive invariant are preserved, one lemma for   *)
(* each, by the moves of RowSteps within their frame.                      *)
(***************************************************************************)

\* What each column of a row may do in one move.
LEMMA MoveFacts ==
  ASSUME IInv, NEW j \in Job, RowStep(j)
  PROVE  /\ jobs[j].status \in Terminal => jobs'[j] = jobs[j]
         /\ LeasedOut(j) \/ jobs'[j].token \in {0, jobs[j].token}
         /\ jobs'[j].outcome = jobs[j].outcome \/ Completed(j)
         /\ \/ jobs'[j].next = jobs[j].next /\ jobs'[j].completed = jobs[j].completed
            \/ jobs'[j].next = 1 /\ jobs'[j].completed = {}
            \/ Reassigned(j)
<1>0. jobs[j] \in JobRow /\ RowOK(jobs[j], lastToken) /\ lastToken \in Nat /\ now \in Nat
      /\ dispatcher \in Phases
  BY Zenon DEF IInv, TypeOK, RowsInv
<1> USE DEF Terminal
<1>1. CASE jobs'[j] = jobs[j]
  BY Zenon, <1>1
<1>2. CASE Created(j)
  <2>1. PICK d \in Phases, t \in Nat : d.phase = "create" /\ jobs'[j] = NewRow(d, t)
    BY Zenon, <1>2 DEF Created
  <2>2. jobs[j].status = "none"
    BY Zenon, <1>2 DEF Created
  <2>3. jobs[j].outcome = Null
    BY Zenon, <1>0, <2>2 DEF RowOK
  <2> QED BY SMTT(40), <2>1, <2>2, <2>3, NewRowFields
<1>3. CASE LeasedOut(j)
  <2>1. PICK at \in Captured, row \in {jobs[j], Unleased(jobs[j], "pending")} :
          /\ jobs[j].status \in {"pending", "leased"}
          /\ jobs'[j] = Leased(row, at)
    BY Zenon, <1>3 DEF LeasedOut
  <2>2. row \in JobRow /\ row.outcome = jobs[j].outcome /\ row.next = jobs[j].next
        /\ row.completed = jobs[j].completed
    BY SMTT(40), <1>0, UnleasedRow DEF JobStatus
  <2>3. at \in Nat
    BY Zenon, <1>0, CapturedPast
  <2>4. Leased(row, at).outcome = row.outcome /\ Leased(row, at).next = row.next
        /\ Leased(row, at).completed = row.completed
    BY Zenon, <1>0, <2>2, <2>3, LeasedFields
  <2> QED BY Zenon, <1>3, <2>1, <2>2, <2>4
<1>4. CASE Renewed(j)
  <2>1. PICK until : jobs'[j] = [jobs[j] EXCEPT !.leaseExpires = until]
    BY Zenon, <1>4 DEF Renewed
  <2>2. jobs[j].status = "leased"
    BY Zenon, <1>4 DEF Renewed
  <2> QED BY Zenon, <1>0, <2>1, <2>2 DEF JobRow
<1>5. CASE Completed(j)
  <2>1. PICK r \in Receipts : jobs'[j] = CompletedRow(jobs[j], r)
    BY Zenon, <1>5 DEF Completed
  <2>2. jobs[j].status = "leased"
    BY Zenon, <1>5 DEF Completed
  <2> QED BY SMTT(40), <1>0, <1>5, <2>1, <2>2, CompletedFields
<1>6. CASE Quarantined(j) \/ Expired(j) \/ Released(j)
  <2>1. PICK status \in {"canceled", "expired", "pending"} :
          /\ jobs'[j] = Unleased(jobs[j], status)
          /\ jobs[j].status \in {"pending", "leased"}
    BY Zenon, <1>6 DEF Quarantined, Expired, Released
  <2> QED BY SMTT(40), <1>0, <2>1, UnleasedRow DEF JobStatus
<1>7. CASE Reassigned(j)
  <2>1. /\ jobs'[j] = ReassignedRow(jobs[j], dispatcher)
        /\ dispatcher.phase = "reassign"
        /\ jobs[j].status = "leased"
    BY Zenon, <1>7 DEF Reassigned, Reassignable, Abandoned
  <2> QED BY SMTT(40), <1>0, <1>7, <2>1, ReassignedFields
<1> QED BY Zenon, <1>1, <1>2, <1>3, <1>4, <1>5, <1>6, <1>7 DEF RowStep

\* The row that got the new token is the only one with it.
LEMMA TokensStep ==
  ASSUME IInv, [Next]_vars
  PROVE  TokensInv'
<1>0. /\ \A k \in Job : jobs[k] \in JobRow /\ RowOK(jobs[k], lastToken)
      /\ \A k \in Job : jobs'[k] \in JobRow /\ RowOK(jobs'[k], lastToken')
      /\ lastToken \in Nat /\ TokensInv
  BY Zenon, RowsStep DEF IInv, TypeOK, RowsInv
<1> SUFFICES ASSUME NEW j \in Job, NEW k \in Job,
                    jobs'[j].status = "leased", jobs'[k].token = jobs'[j].token
             PROVE  k = j
  BY Zenon DEF TokensInv
<1>1. jobs'[j].token # 0
  BY SMTT(40), <1>0 DEF RowOK
<1>2. ASSUME jobs'[j].token = jobs[j].token, jobs'[k].token = jobs[k].token
      PROVE  k = j
  <2>1. jobs[j].status = "leased"
    BY Zenon, <1>0, <1>1, <1>2 DEF RowOK
  <2> QED BY Zenon, <1>0, <1>2, <2>1 DEF TokensInv
<1>3. \A i \in Job : jobs[i].token <= lastToken
  BY SMTT(40), <1>0 DEF RowOK, JobRow
<1>4. ASSUME NEW m \in Job, LeasedOut(m)
      PROVE  k = j
  <2>1. jobs'[m].token = lastToken + 1
    <3>1. PICK at \in Captured, row \in {jobs[m], Unleased(jobs[m], "pending")} :
            jobs'[m] = Leased(row, at)
      BY Zenon, <1>4 DEF LeasedOut
    <3>2. row \in JobRow /\ at \in Nat
      BY SMTT(40), <1>0, CapturedPast, UnleasedRow DEF JobStatus, IInv, TypeOK
    <3>3. Leased(row, at).token = lastToken + 1
      BY Zenon, <1>0, <3>2, LeasedFields
    <3> QED BY Zenon, <3>1, <3>3
  <2>2. \A i \in Job \ {m} : jobs'[i].token \in {0, jobs[i].token}
    BY Zenon, <1>4 DEF LeasedOut
  <2>3. CASE j # m /\ k # m
    BY Zenon, <1>1, <1>2, <2>2, <2>3
  <2>4. ASSUME NEW i \in Job \ {m}
        PROVE  jobs'[i].token # lastToken + 1
    <3>1. jobs[i].token \in Nat
      BY Zenon, <1>0 DEF JobRow
    <3> QED BY SMTT(40), <1>0, <1>3, <2>2, <2>4, <3>1
  <2> QED BY Zenon, <2>1, <2>3, <2>4
<1>5. CASE \A m \in Job : ~ LeasedOut(m)
  <2>1. jobs'[j].token \in {0, jobs[j].token} /\ jobs'[k].token \in {0, jobs[k].token}
    BY Zenon, <1>5, RowSteps, MoveFacts
  <2> QED BY Zenon, <1>1, <1>2, <2>1
<1> QED BY Zenon, <1>4, <1>5

\* A quarantined job stays quarantined, and no job gets a second dead letter.
LEMMA QuarantineStep ==
  ASSUME IInv, [Next]_vars
  PROVE  QuarantineFinal'
<1>0. \A k \in Job : jobs[k] \in JobRow /\ RowOK(jobs[k], lastToken)
  BY Zenon DEF IInv, TypeOK, RowsInv
<1>1. /\ deadLetters \subseteq [job : Job, worker : Worker, at : Nat]
      /\ QuarantineFinal
      /\ MaxAttempts \in Nat
  BY Zenon, NumbersAssumption DEF IInv, TypeOK
<1>2. ASSUME NEW d \in deadLetters
      PROVE  jobs'[d.job].status = "canceled" /\ jobs'[d.job].attempt = MaxAttempts
  <2>1. d.job \in Job /\ jobs[d.job].status = "canceled" /\ jobs[d.job].attempt = MaxAttempts
    BY Zenon, <1>1 DEF QuarantineFinal
  <2>2. jobs'[d.job] = jobs[d.job]
    BY Zenon, <2>1, RowSteps, MoveFacts DEF Terminal
  <2> QED BY Zenon, <2>1, <2>2
<1>3. CASE UNCHANGED deadLetters
  BY Zenon, <1>1, <1>2, <1>3 DEF QuarantineFinal
<1>4. ASSUME NEW w \in Worker, NEW at \in Nat,
             deadLetters' = DeadLettersAfter(w, at),
             \A j \in Repeated(w, at) : jobs'[j] = Unleased(jobs[j], "canceled")
      PROVE  QuarantineFinal'
  <2>1. ASSUME NEW d \in deadLetters', d \notin deadLetters
        PROVE  /\ d = [job |-> d.job, worker |-> w, at |-> at]
               /\ d.job \in Repeated(w, at)
               /\ \A e \in deadLetters : e.job # d.job
    <3>1. PICK j \in Repeated(w, at) : /\ \A e \in deadLetters : e.job # j
                                       /\ d = [job |-> j, worker |-> w, at |-> at]
      BY Zenon, <1>4, <2>1 DEF DeadLettersAfter
    <3> QED BY Zenon, <3>1
  <2>2. ASSUME NEW d \in deadLetters', d \notin deadLetters
        PROVE  jobs'[d.job].status = "canceled" /\ jobs'[d.job].attempt = MaxAttempts
    <3>1. d.job \in Repeated(w, at) /\ d.job \in Job /\ jobs[d.job].attempt >= MaxAttempts
      BY Zenon, <2>1, <2>2 DEF Repeated
    <3>2. jobs[d.job].attempt = MaxAttempts
      BY SMTT(40), <1>0, <1>1, <3>1 DEF RowOK, JobRow
    <3>3. jobs'[d.job] = Unleased(jobs[d.job], "canceled")
      BY Zenon, <1>4, <3>1
    <3> QED BY SMTT(40), <1>0, <3>1, <3>2, <3>3, UnleasedRow DEF JobStatus
  <2>3. ASSUME NEW d \in deadLetters', NEW e \in deadLetters', e.job = d.job
        PROVE  e = d
    <3>1. CASE d \in deadLetters /\ e \in deadLetters
      BY Zenon, <1>1, <2>3, <3>1 DEF QuarantineFinal
    <3>2. CASE d \notin deadLetters /\ e \notin deadLetters
      BY Zenon, <2>1, <2>3, <3>2
    <3>3. CASE d \in deadLetters <=> e \notin deadLetters
      BY Zenon, <2>1, <2>3, <3>3
    <3> QED BY Zenon, <3>1, <3>2, <3>3
  <2> QED BY Zenon, <1>2, <2>2, <2>3 DEF QuarantineFinal
<1> QED BY Zenon, <1>3, <1>4, StepFrame DEF Frame, LettersStep

\* An accepted batch carries the next number of its job.
LEMMA EvidenceKept ==
  ASSUME IInv, [Next]_vars
  PROVE  /\ EvidenceInv'
         /\ batches \subseteq batches'
         /\ \A j \in Job : /\ checkpoints[j] \subseteq checkpoints'[j]
                           /\ LastSequence(j) \in Nat /\ LastSequence(j)' \in Nat
                           /\ LastSequence(j) <= LastSequence(j)'
<1>0. EvidenceInv /\ batches \subseteq Batches /\ checkpoints \in [Job -> SUBSET Check]
  BY Zenon DEF IInv, TypeOK
<1>1. CASE UNCHANGED <<batches, checkpoints>>
  <2>1. EvidenceInv'
    BY Zenon, <1>0, <1>1 DEF EvidenceInv, Sequences, Mine
  <2>2. \A j \in Job : LastSequence(j)' = LastSequence(j)
    BY Zenon, <1>1 DEF LastSequence
  <2> QED BY <1>1, <2>1, <2>2, EvidenceFacts
<1>2. ASSUME NEW b \in Batches, NEW at \in Captured, RecordScannerWorkerEvidenceBatch(b, at)
      PROVE  /\ EvidenceInv'
             /\ batches \subseteq batches'
             /\ \A j \in Job : /\ checkpoints[j] \subseteq checkpoints'[j]
                               /\ LastSequence(j) \in Nat /\ LastSequence(j)' \in Nat
                               /\ LastSequence(j) <= LastSequence(j)'
  <2>1. /\ batches' = batches \cup {b}
        /\ checkpoints' = [checkpoints EXCEPT ![b.job] = @ \cup b.checks]
        /\ \A c \in batches : c.id # b.id
        /\ b.sequence = LastSequence(b.job) + 1
        /\ b.job \in Job
    BY Zenon, <1>2, BatchesAssumption DEF RecordScannerWorkerEvidenceBatch, SequenceAccepted
  <2>2. ASSUME NEW j \in Job
        PROVE  /\ \E n \in Nat : Sequences(j)' = 1..n /\ LastSequence(j) <= n
               /\ checkpoints'[j] = UNION {c.checks : c \in Mine(j)'}
               /\ \A c, d \in Mine(j)' : (c.sequence = d.sequence \/ c.id = d.id) => c = d
               /\ checkpoints[j] \subseteq checkpoints'[j]
    <3> DEFINE n == LastSequence(j)
    <3>1. n \in Nat /\ Sequences(j) = 1..n
      BY Zenon, EvidenceFacts
    <3>2. /\ checkpoints[j] = UNION {c.checks : c \in Mine(j)}
          /\ \A c, d \in Mine(j) : (c.sequence = d.sequence \/ c.id = d.id) => c = d
      BY Zenon, <1>0 DEF EvidenceInv
    <3> HIDE DEF n
    <3>3. CASE b.job # j
      <4>1. Mine(j)' = Mine(j) /\ checkpoints'[j] = checkpoints[j]
        BY Zenon, <1>0, <2>1, <3>3 DEF Mine
      <4>2. Sequences(j)' = Sequences(j)
        BY Zenon, <4>1 DEF Sequences
      <4> QED BY SMTT(40), <3>1, <3>2, <4>1, <4>2 DEF n
    <3>4. CASE b.job = j
      <4>1. Mine(j)' = Mine(j) \cup {b}
        BY Zenon, <2>1, <3>4 DEF Mine
      <4>2. b.sequence = n + 1
        BY Zenon, <2>1, <3>4 DEF n
      <4>3. Sequences(j)' = Sequences(j) \cup {b.sequence}
        BY Zenon, <4>1 DEF Sequences
      <4>4. Sequences(j)' = 1..(n + 1)
        BY <3>1, <4>2, <4>3
      <4>5. checkpoints'[j] = checkpoints[j] \cup b.checks
        BY Zenon, <1>0, <2>1, <3>4
      <4>6. UNION {c.checks : c \in Mine(j)'} = (UNION {c.checks : c \in Mine(j)}) \cup b.checks
        BY Zenon, <4>1
      <4>7. \A c \in Mine(j) : c.sequence # b.sequence /\ c.id # b.id
        <5>1. \A c \in Mine(j) : c.sequence \in 1..n
          BY Zenon, <3>1 DEF Sequences
        <5> QED BY SMTT(40), <2>1, <3>1, <4>2, <5>1 DEF Mine
      <4>8. \A c, d \in Mine(j)' : (c.sequence = d.sequence \/ c.id = d.id) => c = d
        BY Zenon, <3>2, <4>1, <4>7
      <4>9. n + 1 \in Nat /\ LastSequence(j) <= n + 1
        BY <3>1 DEF n
      <4> QED BY Zenon, <3>2, <4>4, <4>5, <4>6, <4>8, <4>9
    <3> QED BY Zenon, <3>3, <3>4
  <2>3. EvidenceInv'
    BY Zenon, <2>2 DEF EvidenceInv
  <2>4. ASSUME NEW j \in Job
        PROVE  LastSequence(j) \in Nat /\ LastSequence(j)' \in Nat /\ LastSequence(j) <= LastSequence(j)'
    <3>1. PICK n \in Nat : Sequences(j)' = 1..n /\ LastSequence(j) <= n
      BY Zenon, <2>2
    <3>2. LastSequence(j)' = Max({0} \cup Sequences(j)')
      BY Zenon DEF LastSequence, Sequences, Mine
    <3>3. LastSequence(j)' = n
      BY Zenon, <3>1, <3>2, MaxOfSegment
    <3> QED BY Zenon, <3>1, <3>3, EvidenceFacts
  <2> QED BY Zenon, <2>1, <2>2, <2>3, <2>4
<1> QED BY Zenon, <1>1, <1>2, StepFrame DEF Frame, EvidenceStep

\* A lease taken after the dispatcher read the clock outlives that reading, so
\* the dispatcher never takes a job from a worker that has just leased it: the
\* fact that needs MaxDelay < LeaseLifetime.
LEMMA AbandonedBefore ==
  ASSUME IInv, NEW j \in Job, RowStep(j), NEW at \in Nat, at <= now,
         Abandoned(j, at)'
  PROVE  Abandoned(j, at) /\ jobs'[j].attempt = jobs[j].attempt
<1>0. jobs[j] \in JobRow /\ RowOK(jobs[j], lastToken) /\ lastToken \in Nat /\ now \in Nat
      /\ dispatcher \in Phases
  BY Zenon DEF IInv, TypeOK, RowsInv
<1>1. jobs'[j].status = "leased" /\ jobs'[j].leaseExpires <= at /\ jobs'[j].expires > at
  BY Zenon DEF Abandoned
<1>2. CASE jobs'[j] = jobs[j]
  BY Zenon, <1>1, <1>2 DEF Abandoned
<1>3. CASE Created(j)
  <2>1. PICK d \in Phases, t \in Nat : d.phase = "create" /\ jobs'[j] = NewRow(d, t)
    BY Zenon, <1>3 DEF Created
  <2> QED BY Zenon, <1>1, <2>1, NewRowFields
<1>4. CASE LeasedOut(j)
  <2>1. PICK t \in Captured, row \in {jobs[j], Unleased(jobs[j], "pending")} :
          jobs'[j] = Leased(row, t)
    BY Zenon, <1>4 DEF LeasedOut
  <2>2. row \in JobRow
    BY SMTT(40), <1>0, UnleasedRow DEF JobStatus
  <2>3. t \in Nat /\ t + MaxDelay >= now
    BY Zenon, <1>0, CapturedPast
  <2>4. Leased(row, t).leaseExpires = LeaseExpiry(row, t) /\ Leased(row, t).expires = row.expires
    BY Zenon, <1>0, <2>2, <2>3, LeasedFields
  <2>5. LeaseExpiry(row, t) \in {row.expires, t + LeaseLifetime} /\ row.expires \in Nat
    BY Zenon, <2>2, <2>3, ExpiryBounds DEF JobRow
  <2>6. t + LeaseLifetime > at
    BY <1>0, <2>3, NumbersAssumption
  <2>7. jobs'[j].leaseExpires \in {jobs'[j].expires, t + LeaseLifetime}
    BY Zenon, <2>1, <2>4, <2>5
  <2>8. jobs'[j].expires \in Nat /\ t + LeaseLifetime \in Nat
    BY <2>1, <2>3, <2>4, <2>5, NumbersAssumption
  <2> QED BY SMTT(40), <1>1, <2>6, <2>7, <2>8
<1>5. CASE Renewed(j)
  <2>1. PICK t \in Captured :
          /\ jobs[j].status = "leased"
          /\ jobs'[j] = [jobs[j] EXCEPT !.leaseExpires = RenewedExpiry(jobs[j], t + LeaseLifetime)]
    BY Zenon, <1>5 DEF Renewed
  <2>2. RenewedExpiry(jobs[j], t + LeaseLifetime) \in Nat
        /\ RenewedExpiry(jobs[j], t + LeaseLifetime) >= jobs[j].leaseExpires
    BY Zenon, <1>0, <2>1, ExpiryBounds, CapturedPast DEF RowOK
  <2>3. /\ jobs'[j].leaseExpires = RenewedExpiry(jobs[j], t + LeaseLifetime)
        /\ jobs'[j].expires = jobs[j].expires
        /\ jobs'[j].attempt = jobs[j].attempt
    BY Zenon, <1>0, <2>1 DEF JobRow
  <2>4. jobs[j].leaseExpires \in Nat
    BY Zenon, <1>0 DEF JobRow
  <2> QED BY <1>1, <2>1, <2>2, <2>3, <2>4 DEF Abandoned
<1>6. CASE Completed(j)
  <2>1. PICK r \in Receipts : jobs'[j] = CompletedRow(jobs[j], r)
    BY Zenon, <1>6 DEF Completed
  <2> QED BY Zenon, <1>0, <1>1, <2>1, CompletedFields
<1>7. CASE Quarantined(j) \/ Expired(j) \/ Released(j)
  <2>1. PICK status \in {"canceled", "expired", "pending"} : jobs'[j] = Unleased(jobs[j], status)
    BY Zenon, <1>7 DEF Quarantined, Expired, Released
  <2> QED BY SMTT(40), <1>0, <1>1, <2>1, UnleasedRow DEF JobStatus
<1>8. CASE Reassigned(j)
  <2>1. jobs'[j] = ReassignedRow(jobs[j], dispatcher) /\ dispatcher.phase = "reassign"
    BY Zenon, <1>8 DEF Reassigned
  <2> QED BY Zenon, <1>0, <1>1, <2>1, ReassignedFields
<1> QED BY Zenon, <1>2, <1>3, <1>4, <1>5, <1>6, <1>7, <1>8 DEF RowStep

\* The reassignment in flight stays justified until it is written.
LEMMA DispatcherKept ==
  ASSUME IInv, [Next]_vars
  PROVE  DispatcherInv'
<1>0. now \in Nat /\ dispatcher \in Phases /\ DispatcherInv /\ jobs \in [Job -> JobRow]
  BY Zenon DEF IInv, TypeOK
<1>1. CASE UNCHANGED dispatcher
  <2> SUFFICES ASSUME dispatcher.phase = "reassign"
               PROVE  DispatcherInv'
    BY Zenon, <1>1 DEF DispatcherInv
  <2>0. dispatcher.job \in Job /\ dispatcher.at \in Nat /\ dispatcher.next \in Nat
    BY <1>0 DEF Phases, Idle
  <2>1. PICK k \in Job, at \in Nat, next \in Nat :
          k = dispatcher.job /\ at = dispatcher.at /\ next = dispatcher.next
    BY Zenon, <2>0
  <2>2. at <= now /\ dispatcher.completed \subseteq checkpoints[k]
        /\ next <= LastSequence(k) + 1
        /\ (Abandoned(k, at) => jobs[k].attempt < MaxAttempts)
    BY Zenon, <1>0, <2>1 DEF DispatcherInv
  <2>3. at <= now'
    BY <1>0, <2>2, StepFrame DEF Frame
  <2>4. dispatcher.completed \subseteq checkpoints'[k]
    BY Zenon, <2>2, EvidenceKept
  <2>5. next <= LastSequence(k)' + 1
    <3>1. LastSequence(k) \in Nat /\ LastSequence(k)' \in Nat /\ LastSequence(k) <= LastSequence(k)'
      BY Zenon, EvidenceKept
    <3> QED BY <2>2, <3>1
  <2>6. ASSUME Abandoned(k, at)'
        PROVE  jobs'[k].attempt < MaxAttempts
    <3>1. Abandoned(k, at) /\ jobs'[k].attempt = jobs[k].attempt
      BY Zenon, <2>2, <2>6, RowSteps, AbandonedBefore
    <3> QED BY Zenon, <2>2, <3>1
  <2>7. dispatcher'.job = k /\ dispatcher'.at = at /\ dispatcher'.next = next
        /\ dispatcher'.completed = dispatcher.completed
    BY Zenon, <1>1, <2>1
  <2> QED BY Zenon, <2>3, <2>4, <2>5, <2>6, <2>7 DEF DispatcherInv
<1>2. CASE dispatcher'.phase # "reassign"
  BY Zenon, <1>2 DEF DispatcherInv
<1>3. ASSUME NEW j \in Job, NEW heard \in Heartbeats, ResumeCandidate(j, heard)
      PROVE  DispatcherInv'
  <2>1. PICK w : dispatcher' = [phase |-> "reassign", job |-> j, worker |-> w,
                                previous |-> jobs[j].worker, at |-> now,
                                next |-> LastSequence(j) + 1, completed |-> checkpoints[j]]
    BY Zenon, <1>3 DEF ResumeCandidate
  <2>2. UNCHANGED <<now, jobs, batches, checkpoints>> /\ jobs[j].attempt < MaxAttempts
    BY Zenon, <1>3 DEF ResumeCandidate, storeVars
  <2>3. /\ dispatcher'.job = j /\ dispatcher'.at = now
        /\ dispatcher'.next = LastSequence(j) + 1 /\ dispatcher'.completed = checkpoints[j]
    BY Zenon, <2>1
  <2>4. LastSequence(j)' = LastSequence(j) /\ LastSequence(j) \in Nat
    BY Zenon, <2>2, EvidenceFacts DEF LastSequence
  <2> QED BY SMTT(40), <1>0, <2>2, <2>3, <2>4 DEF DispatcherInv
<1> QED BY Zenon, <1>1, <1>2, <1>3, StepFrame DEF Frame, DispatcherStep

INSTANCE FiniteSetTheorems

\* The counts that CompleteScannerWorkerJob and ReassignScannerWorkerJob compare
\* decide equality, because one set is always a part of the other.
LEMMA CountsDecide ==
  ASSUME NEW T \in SUBSET Check, NEW S \in SUBSET T, Cardinality(S) = Cardinality(T)
  PROVE  S = T
<1>1. IsFiniteSet(T)
  BY Zenon, SetsAssumption, FS_Subset
<1> QED BY Zenon, <1>1, FS_Subset

\* A job only succeeds with every check and a final batch, which then stay.
LEMMA SuccessKept ==
  ASSUME IInv, [Next]_vars
  PROVE  SuccessInv'
<1>0. SuccessInv /\ TypeOK /\ TypeOK'
  BY Zenon, TypeStep DEF IInv
<1> SUFFICES ASSUME NEW j \in Job, jobs'[j].outcome = "succeeded"
             PROVE  checkpoints'[j] = Check /\ \E b \in Mine(j)' : b.final
  BY Zenon DEF SuccessInv
<1>1. checkpoints[j] = Check /\ \E b \in Mine(j) : b.final
  <2>1. CASE jobs'[j].outcome = jobs[j].outcome
    BY Zenon, <1>0, <2>1 DEF SuccessInv
  <2>2. CASE Completed(j)
    <3>1. PICK r \in Receipts : /\ r.job = j
                                /\ ResultAdmissible(r)
                                /\ jobs'[j] = CompletedRow(jobs[j], r)
      BY Zenon, <2>2 DEF Completed
    <3>2. r.outcome = "succeeded"
      BY SMTT(40), <1>0, <3>1, CompletedFields DEF TypeOK
    <3>3. Cardinality(checkpoints[j]) = Cardinality(Check) /\ \E b \in batches : b.job = j /\ b.final
      BY Zenon, <3>1, <3>2 DEF ResultAdmissible, CheckpointsComplete
    <3>4. checkpoints[j] \in SUBSET Check
      BY Zenon, <1>0 DEF TypeOK
    <3>5. checkpoints[j] = Check
      BY <3>3, <3>4, CountsDecide
    <3> QED BY Zenon, <3>3, <3>5 DEF Mine
  <2> QED BY Zenon, <2>1, <2>2, RowSteps, MoveFacts
<1>2. checkpoints[j] \subseteq checkpoints'[j] /\ batches \subseteq batches'
  BY Zenon, EvidenceKept
<1>3. checkpoints'[j] \subseteq Check
  BY Zenon, <1>0 DEF TypeOK
<1> QED BY Zenon, <1>1, <1>2, <1>3 DEF Mine

\* A manifest is read off the tables, which only grow after it is signed.
LEMMA ManifestKept ==
  ASSUME IInv, [Next]_vars
  PROVE  ManifestSound'
<1>0. ManifestSound /\ TypeOK /\ DispatcherInv
  BY Zenon DEF IInv
<1> SUFFICES ASSUME NEW j \in Job
             PROVE  jobs'[j].completed \subseteq checkpoints'[j]
                    /\ jobs'[j].next <= LastSequence(j)' + 1
  BY Zenon DEF ManifestSound
<1>1. /\ checkpoints[j] \subseteq checkpoints'[j]
      /\ LastSequence(j) \in Nat /\ LastSequence(j)' \in Nat /\ LastSequence(j) <= LastSequence(j)'
  BY Zenon, EvidenceKept
<1>2. jobs[j] \in JobRow /\ dispatcher \in Phases
  BY Zenon, <1>0 DEF TypeOK
<1>3. CASE jobs'[j].next = jobs[j].next /\ jobs'[j].completed = jobs[j].completed
  <2>1. jobs[j].next \in Nat
    BY Zenon, <1>2 DEF JobRow
  <2>2. jobs[j].next <= LastSequence(j) + 1 /\ jobs[j].completed \subseteq checkpoints[j]
    BY Zenon, <1>0 DEF ManifestSound
  <2> QED BY SMTT(40), <1>1, <1>3, <2>1, <2>2
<1>4. CASE jobs'[j].next = 1 /\ jobs'[j].completed = {}
  BY <1>1, <1>4
<1>5. CASE Reassigned(j)
  <2>1. /\ dispatcher.phase = "reassign" /\ dispatcher.job = j
        /\ jobs'[j] = ReassignedRow(jobs[j], dispatcher)
    BY Zenon, <1>5 DEF Reassigned
  <2>2. jobs'[j].next = dispatcher.next /\ jobs'[j].completed = dispatcher.completed
    BY SMTT(40), <1>2, <2>1, ReassignedFields
  <2>3. dispatcher.next \in Nat
    BY <1>2, <2>1 DEF Phases, Idle
  <2>4. dispatcher.completed \subseteq checkpoints[j] /\ dispatcher.next <= LastSequence(j) + 1
    BY Zenon, <1>0, <2>1 DEF DispatcherInv
  <2> QED BY SMTT(40), <1>1, <2>2, <2>3, <2>4
<1> QED BY Zenon, <1>3, <1>4, <1>5, RowSteps, MoveFacts

\* A row with an outcome is over, so its outcome stands.
LEMMA OutcomeStable ==
  ASSUME IInv, [Next]_vars, NEW j \in Job, jobs[j].outcome \in Outcome
  PROVE  jobs'[j] = jobs[j]
<1>1. RowOK(jobs[j], lastToken) /\ Null \notin Outcome
  BY Zenon, SetsAssumption DEF IInv, RowsInv
<1>2. jobs[j].status = "completed"
  BY Zenon, <1>1 DEF RowOK
<1> QED BY Zenon, <1>2, RowSteps, MoveFacts DEF Terminal

\* A projection that waits to run belongs to a finished job with its outcome.
LEMMA ProjectionsKept ==
  ASSUME IInv, [Next]_vars
  PROVE  ProjectionsInv'
<1>0. TypeOK /\ ProjectionsInv
  BY Zenon DEF IInv
<1>1. ASSUME NEW r \in projections'
      PROVE  \/ r \in projections
             \/ r \in Receipts /\ jobs'[r.job] = CompletedRow(jobs[r.job], r)
             \/ r \in Receipts /\ jobs' = jobs /\ jobs[r.job].outcome = r.outcome
  <2>a. ASSUME UNCHANGED projections
        PROVE  r \in projections
    BY Zenon, <2>a
  <2>1. CASE UNCHANGED vars \/ Administrator \/ Tick \/ Restart
    BY Zenon, <2>1 DEF vars, threadVars, Administrator, SetScannerWorkerDispatch,
         SetScannerWorkerDispatchForWorker, RevokeScannerWorker, Tick, Restart
  <2>2. ASSUME NEW q \in Receipts, NEW token \in 1..lastToken, NEW at \in Captured,
               CompleteScannerWorkerJob(q, token, at)
        PROVE  \/ r \in projections
               \/ r \in Receipts /\ jobs'[r.job] = CompletedRow(jobs[r.job], r)
    BY Zenon, <1>0, <2>2, ReceiptsAssumption DEF CompleteScannerWorkerJob, TypeOK
  <2>3. CASE WorkerRequest
    <3>1. UNCHANGED projections \/ \E q \in Receipts, token \in 1..lastToken, at \in Captured :
                                     CompleteScannerWorkerJob(q, token, at)
      BY <2>3 DEF WorkerRequest, LeaseScannerWorkerJob, LeaseMaintenance, threadVars,
           RenewScannerWorkerJobLease, RecordScannerWorkerEvidenceBatch
    <3> QED BY Zenon, <2>a, <2>2, <3>1
  <2>4. CASE ServerThread
    <3>1. \/ UNCHANGED projections
          \/ \E q \in Receipts : RetryResult(q) \/ projections' = projections \ {q}
      BY Zenon, <2>4 DEF ServerThread, ProjectScannerWorkerResult, ListPaused, LaunchFailed, CancelRead,
           CancelSave, ResumeQuarantine, Launch, SelectWorker, DispatchFails, ResumeCandidate,
           CreateScannerWorkerJob, ReassignScannerWorkerJob, threadVars
    <3>2. ASSUME NEW q \in Receipts, RetryResult(q)
          PROVE  \/ r \in projections
                 \/ r \in Receipts /\ jobs' = jobs /\ jobs[r.job].outcome = r.outcome
      BY Zenon, <3>2 DEF RetryResult, storeVars
    <3> QED BY Zenon, <2>a, <3>1, <3>2
  <2> QED BY Zenon, <2>1, <2>3, <2>4 DEF Next
<1>2. ASSUME NEW r \in projections'
      PROVE  jobs'[r.job].outcome = r.outcome
  <2>1. CASE r \in projections
    <3>1. r.job \in Job /\ r.outcome \in Outcome /\ jobs[r.job].outcome = r.outcome
      BY Zenon, <1>0, <2>1, ReceiptsAssumption DEF TypeOK, ProjectionsInv
    <3> QED BY Zenon, <3>1, OutcomeStable
  <2>2. CASE r \in Receipts /\ jobs'[r.job] = CompletedRow(jobs[r.job], r)
    <3>1. r.job \in Job /\ jobs[r.job] \in JobRow
      BY Zenon, <1>0, <2>2, ReceiptsAssumption DEF TypeOK
    <3> QED BY SMTT(40), <2>2, <3>1, CompletedFields
  <2>3. CASE r \in Receipts /\ jobs' = jobs /\ jobs[r.job].outcome = r.outcome
    BY Zenon, <2>3
  <2> QED BY Zenon, <1>1, <2>1, <2>2, <2>3
<1> QED BY Zenon, <1>2 DEF ProjectionsInv

\* Of all that write a scan, only the projection of a success completes it.
LEMMA CompletedScansKept ==
  ASSUME IInv, [Next]_vars
  PROVE  CompletedScanIsComplete'
<1>0. TypeOK /\ ProjectionsInv /\ SuccessInv /\ CompletedScanIsComplete
  BY Zenon DEF IInv
<1> SUFFICES ASSUME NEW j \in Job, scans'[j].status = "completed"
             PROVE  scans'[j].checks = Check /\ jobs'[j].outcome = "succeeded"
  BY Zenon DEF CompletedScanIsComplete
<1>a. scans[j] \in [status : ScanStatus, checks : SUBSET Check]
      /\ scans \in [Job -> [status : ScanStatus, checks : SUBSET Check]]
  BY Zenon, <1>0 DEF TypeOK
<1>1. scans'[j] = scans[j] \/ \E r \in Receipts : r.job = j /\ ProjectScannerWorkerResult(r)
  <2>1. CASE UNCHANGED vars \/ Administrator \/ Tick
    BY Zenon, <2>1 DEF vars, storeVars, Administrator, SetScannerWorkerDispatch,
         SetScannerWorkerDispatchForWorker, RevokeScannerWorker, Tick
  <2>2. CASE Restart
    BY Zenon, <1>a, <2>2 DEF Restart, Reconciled
  <2>3. ASSUME NEW w, NEW at, scans' = ScansAfterQuarantine(w, at)
        PROVE  scans'[j] = scans[j]
    BY Zenon, <1>a, <2>3 DEF ScansAfterQuarantine
  <2>4. CASE WorkerRequest
    <3>1. UNCHANGED scans \/ \E w \in Worker, at \in Captured : scans' = ScansAfterQuarantine(w, at)
      BY <2>4 DEF WorkerRequest, LeaseScannerWorkerJob, LeaseMaintenance, Sweep,
           RenewScannerWorkerJobLease, RecordScannerWorkerEvidenceBatch, CompleteScannerWorkerJob
    <3> QED BY Zenon, <2>3, <3>1
  <2>5. CASE ServerThread
    <3>1. ASSUME NEW r \in Receipts, ProjectScannerWorkerResult(r), r.job # j
          PROVE  scans'[j] = scans[j]
      BY Zenon, <1>a, <3>1 DEF ProjectScannerWorkerResult
    <3>2. ASSUME NEW k \in Job, NEW status \in {"failed", "canceled", "queued"},
                 scans' = [scans EXCEPT ![k] = [status |-> status, checks |-> {}]]
          PROVE  scans'[j] = scans[j]
      <4>1. k # j
        <5>1. SUFFICES ASSUME k = j PROVE FALSE
          BY Zenon
        <5>2. scans'[j] = [status |-> status, checks |-> {}]
          BY Zenon, <1>a, <3>2, <5>1
        <5> QED BY SMTT(40), <5>2
      <4> QED BY Zenon, <1>a, <3>2, <4>1
    <3>3. \/ UNCHANGED scans
          \/ \E r \in Receipts : ProjectScannerWorkerResult(r)
          \/ \E k \in Job, status \in {"failed", "canceled", "queued"} :
               scans' = [scans EXCEPT ![k] = [status |-> status, checks |-> {}]]
          \/ \E k \in Job : scans' = ScansAfterQuarantine(jobs[k].worker, now)
      BY Zenon, <2>5 DEF ServerThread, RetryResult, ListPaused, LaunchFailed, CancelRead,
           CancelSave, ResumeQuarantine, Launch, SelectWorker, DispatchFails, ResumeCandidate,
           CreateScannerWorkerJob, ReassignScannerWorkerJob, storeVars
    <3> QED BY Zenon, <2>3, <3>1, <3>2, <3>3
  <2> QED BY Zenon, <2>1, <2>2, <2>4, <2>5 DEF Next
<1>2. CASE scans'[j] = scans[j]
  <2>1. scans[j].checks = Check /\ jobs[j].outcome = "succeeded"
    BY Zenon, <1>0, <1>2 DEF CompletedScanIsComplete
  <2>2. jobs'[j] = jobs[j]
    BY Zenon, <2>1, OutcomeStable DEF Outcome
  <2> QED BY Zenon, <1>2, <2>1, <2>2
<1>3. ASSUME NEW r \in Receipts, r.job = j, ProjectScannerWorkerResult(r)
      PROVE  scans'[j].checks = Check /\ jobs'[j].outcome = "succeeded"
  <2>1. /\ r \in projections /\ jobs' = jobs
        /\ scans'[j] = [status |-> ProjectedStatus(r.outcome), checks |-> checkpoints[j]]
    BY Zenon, <1>a, <1>3 DEF ProjectScannerWorkerResult
  <2>2. ProjectedStatus(r.outcome) = "completed"
    BY SMTT(40), <2>1
  <2>3. r.outcome = "succeeded"
    BY Zenon, <2>2, ReceiptsAssumption DEF ProjectedStatus, Outcome
  <2>4. jobs[j].outcome = "succeeded"
    BY Zenon, <1>0, <1>3, <2>1, <2>3 DEF ProjectionsInv
  <2>5. checkpoints[j] = Check
    BY Zenon, <1>0, <2>4 DEF SuccessInv
  <2> QED BY SMTT(40), <2>1, <2>4, <2>5
<1> QED BY Zenon, <1>1, <1>2, <1>3

-----------------------------------------------------------------------------
(***************************************************************************)
(* Assignments, and the theorems                                           *)
(***************************************************************************)

\* A reassignment follows a lost lease, so the history stays within the leases.
LEMMA TrailKept ==
  ASSUME IInv, [Next]_vars
  PROVE  TrailInv'
<1> SUFFICES ASSUME NEW j \in Job
             PROVE  TrailOK(jobs'[j], assignments'[j])
  BY Zenon DEF TrailInv
<1> DEFINE row == jobs[j]
           trail == assignments[j]
<1>0. /\ row \in JobRow /\ trail \in Seq(Worker) /\ Len(trail) \in Nat /\ row.attempt \in Nat
      /\ RowOK(row, lastToken) /\ TrailOK(row, trail) /\ lastToken \in Nat /\ now \in Nat
      /\ MaxAttempts \in Nat /\ MaxAttempts > 0 /\ dispatcher \in Phases /\ DispatcherInv
  BY SMTT(40), NumbersAssumption DEF IInv, TypeOK, RowsInv, TrailInv, JobRow
<1>1. CASE assignments'[j] = trail /\ jobs'[j] = row
  BY Zenon, <1>0, <1>1
<1>2. CASE assignments'[j] = trail /\ LeasedOut(j)
  <2>1. PICK at \in Captured, r \in {row, Unleased(row, "pending")} :
          row.status \in {"pending", "leased"} /\ r.attempt < MaxAttempts /\ jobs'[j] = Leased(r, at)
    BY Zenon, <1>2 DEF LeasedOut
  <2>2. r \in JobRow /\ r.worker = row.worker /\ r.attempt = row.attempt /\ at \in Nat
    BY SMTT(40), <1>0, CapturedPast, UnleasedRow DEF JobStatus
  <2>3. Leased(r, at).status = "leased" /\ Leased(r, at).attempt = r.attempt + 1
        /\ Leased(r, at).worker = r.worker
    BY Zenon, <1>0, <2>2, LeasedFields
  <2>4. jobs'[j].status = "leased" /\ jobs'[j].attempt = row.attempt + 1
        /\ jobs'[j].worker = row.worker
    BY Zenon, <2>1, <2>2, <2>3
  <2> QED BY SMTT(40), <1>0, <1>2, <2>1, <2>4 DEF TrailOK
<1>3. CASE assignments'[j] = trail /\ Renewed(j)
  <2>1. PICK until : jobs'[j] = [row EXCEPT !.leaseExpires = until]
    BY Zenon, <1>3 DEF Renewed
  <2>2. jobs'[j].status = row.status /\ jobs'[j].attempt = row.attempt
        /\ jobs'[j].worker = row.worker
    BY Zenon, <1>0, <2>1 DEF JobRow
  <2> QED BY Zenon, <1>0, <1>3, <2>2 DEF TrailOK
<1>4. CASE assignments'[j] = trail /\ Completed(j)
  <2>1. PICK r \in Receipts : jobs'[j] = CompletedRow(row, r)
    BY Zenon, <1>4 DEF Completed
  <2>2. row.status = "leased"
    BY Zenon, <1>4 DEF Completed
  <2>3. jobs'[j].status = "completed" /\ jobs'[j].worker = row.worker
    BY SMTT(40), <1>0, <2>1, CompletedFields
  <2> QED BY Zenon, <1>0, <1>4, <2>2, <2>3 DEF TrailOK
<1>5. CASE assignments'[j] = trail /\ (Quarantined(j) \/ Expired(j) \/ Released(j))
  <2>1. PICK status \in {"canceled", "expired", "pending"} :
          /\ jobs'[j] = Unleased(row, status)
          /\ row.status \in {"pending", "leased"}
          /\ status = "pending" => row.status = "leased"
    BY Zenon, <1>5 DEF Quarantined, Expired, Released
  <2>2. jobs'[j].status = status /\ jobs'[j].worker = row.worker /\ jobs'[j].attempt = row.attempt
    BY SMTT(40), <1>0, <2>1, UnleasedRow DEF JobStatus
  <2> QED BY SMTT(40), <1>0, <1>5, <2>1, <2>2 DEF TrailOK
<1>6. ASSUME NEW w \in Worker, assignments'[j] = Append(trail, w), jobs'[j].worker = w,
             jobs'[j].status = "pending", Len(trail) <= jobs'[j].attempt,
             jobs'[j].attempt \in Nat, jobs'[j].attempt < MaxAttempts
      PROVE  TrailOK(jobs'[j], assignments'[j])
  <2>1. Len(assignments'[j]) = Len(trail) + 1 /\ assignments'[j][Len(trail) + 1] = w
        /\ assignments'[j] # <<>>
    BY SMTT(40), <1>0, <1>6
  <2> QED BY SMTT(40), <1>0, <1>6, <2>1 DEF TrailOK
<1>7. CASE assignments'[j] = Append(trail, jobs'[j].worker) /\ Created(j)
  <2>1. PICK d \in Phases, t \in Nat : d.phase = "create" /\ jobs'[j] = NewRow(d, t)
    BY Zenon, <1>7 DEF Created
  <2>2. row.status = "none"
    BY Zenon, <1>7 DEF Created
  <2>3. Len(trail) = 0
    BY SMTT(40), <1>0, <2>2 DEF TrailOK
  <2>4. jobs'[j].worker \in Worker /\ jobs'[j].status = "pending" /\ jobs'[j].attempt = 0
    BY SMTT(40), <2>1, NewRowFields
  <2> QED BY SMTT(40), <1>0, <1>6, <1>7, <2>3, <2>4
<1>8. CASE assignments'[j] = Append(trail, jobs'[j].worker) /\ Reassigned(j)
  <2>1. /\ jobs'[j] = ReassignedRow(row, dispatcher)
        /\ dispatcher.phase = "reassign" /\ dispatcher.job = j
        /\ Abandoned(j, dispatcher.at)
    BY Zenon, <1>8 DEF Reassigned, Reassignable
  <2>2. row.attempt < MaxAttempts /\ row.status = "leased"
    BY Zenon, <1>0, <2>1 DEF DispatcherInv, Abandoned
  <2>3. dispatcher.worker \in Worker
    BY SMTT(40), <1>0, <2>1 DEF Phases, Idle
  <2>4. jobs'[j].worker = dispatcher.worker /\ jobs'[j].status = "pending"
        /\ jobs'[j].attempt = row.attempt
    BY SMTT(40), <1>0, <2>1, ReassignedFields
  <2> QED BY <1>0, <1>6, <1>8, <2>2, <2>3, <2>4 DEF TrailOK
<1> HIDE DEF row, trail
<1>9. RowStep(j)
  BY Zenon, RowSteps
<1> QED BY <1>1, <1>2, <1>3, <1>4, <1>5, <1>7, <1>8, <1>9 DEF RowStep, trail, row

(***************************************************************************)
(* The theorems                                                            *)
(***************************************************************************)

\* The empty tables satisfy the inductive invariant.
LEMMA InitInvariant == Init => IInv
<1> SUFFICES ASSUME Init
             PROVE  IInv
  BY Zenon
<1> USE DEF Init
<1>0. NoRow \in JobRow /\ NoRow.status = "none" /\ NoRow.worker = Null /\ NoRow.attempt = 0
      /\ NoRow.token = 0 /\ NoRow.outcome = Null /\ NoRow.next = 1 /\ NoRow.completed = {}
  BY Zenon DEF NoRow, JobRow, JobStatus
<1> HIDE DEF NoRow
<1>1. TypeOK
  <2>1. workers \in [Worker -> [active : BOOLEAN, dispatch : BOOLEAN]]
    BY Zenon
  <2>2. now \in Nat /\ lastToken \in Nat /\ jobs \in [Job -> JobRow]
    BY Zenon, <1>0
  <2>3. assignments \in [Job -> Seq(Worker)] /\ checkpoints \in [Job -> SUBSET Check]
    OBVIOUS
  <2>4. scans \in [Job -> [status : ScanStatus, checks : SUBSET Check]]
    BY Zenon DEF ScanStatus
  <2>5. launching \in [Job -> [step : {"idle", "listed", "saved", "dispatching", "failing"},
                               expires : Nat]]
    BY Zenon
  <2>6. dispatcher \in Phases
    BY Zenon DEF Phases
  <2>7. enabled \in BOOLEAN
    BY Zenon
  <2> QED BY <2>1, <2>2, <2>3, <2>4, <2>5, <2>6, <2>7 DEF TypeOK
<1>2. RowsInv
  BY SMTT(40), <1>0, NumbersAssumption DEF RowsInv, RowOK
<1>3. TokensInv /\ QuarantineFinal /\ ProjectionsInv
  BY Zenon, <1>0 DEF TokensInv, QuarantineFinal, ProjectionsInv
<1>4. DispatcherInv
  BY Zenon DEF DispatcherInv, Idle
<1>5. \A j \in Job : Mine(j) = {} /\ Sequences(j) = {}
  BY Zenon DEF Mine, Sequences
<1>6. EvidenceInv
  <2>1. 0 \in Nat /\ 1..0 = {}
    OBVIOUS
  <2> QED BY Zenon, <1>5, <2>1 DEF EvidenceInv
<1>7. \A j \in Job : LastSequence(j) = 0
  <2>1. 0 \in Nat /\ 1..0 = {}
    OBVIOUS
  <2> QED BY Zenon, <1>5, <2>1, LastSequenceValue
<1>8. ManifestSound
  BY SMTT(40), <1>0, <1>7 DEF ManifestSound
<1>9. SuccessInv
  BY Zenon, <1>0, SetsAssumption DEF SuccessInv, Outcome
<1>10. CompletedScanIsComplete
  BY Zenon DEF CompletedScanIsComplete
<1>11. TrailInv
  BY SMTT(40), <1>0, NumbersAssumption DEF TrailInv, TrailOK
<1> QED BY <1>1, <1>2, <1>3, <1>4, <1>6, <1>8, <1>9, <1>10, <1>11 DEF IInv

\* Every step of the server preserves the inductive invariant.
LEMMA StepInvariant == IInv /\ [Next]_vars => IInv'
  BY TypeStep, RowsStep, TokensStep, DispatcherKept, QuarantineStep, EvidenceKept, SuccessKept,
     ManifestKept, ProjectionsKept, CompletedScansKept, TrailKept DEF IInv

\* IInv holds in every state the server can reach.
THEOREM Invariance == Spec => []IInv
  BY InitInvariant, StepInvariant, PTL DEF Spec

\* The tables keep their types whatever the workers send.
THEOREM TypeCorrect == Spec => []TypeOK
<1>1. IInv => TypeOK
  BY Zenon DEF IInv
<1> QED BY <1>1, Invariance, PTL

\* No lease outlives its job, and no two jobs share a credential.
THEOREM LeasesAreSound == Spec => []LeasesSound
<1>1. IInv => LeasesSound
  BY Zenon DEF IInv, LeasesSound, TokensInv, RowsInv, RowOK
<1> QED BY <1>1, Invariance, PTL

\* No job is leased more than MaxAttempts times.
THEOREM AttemptsAreBounded == Spec => []AttemptsBounded
<1>1. IInv => AttemptsBounded
  BY Zenon DEF IInv, AttemptsBounded, RowsInv, RowOK
<1> QED BY <1>1, Invariance, PTL

\* The assignment history ends with the job's worker and stays within the limit.
THEOREM AssignmentsAreRecorded == Spec => []AssignmentsTrail
<1>1. IInv => AssignmentsTrail
  <2> SUFFICES ASSUME IInv, NEW j \in Job, jobs[j].status # "none"
               PROVE  /\ Len(assignments[j]) \in 1..MaxAttempts
                      /\ assignments[j][Len(assignments[j])] = jobs[j].worker
    BY Zenon DEF AssignmentsTrail
  <2>1. TrailOK(jobs[j], assignments[j]) /\ assignments[j] \in Seq(Worker)
    BY Zenon DEF IInv, TypeOK, TrailInv
  <2>2. assignments[j] # <<>> /\ Len(assignments[j]) <= MaxAttempts
    BY Zenon, <2>1 DEF TrailOK
  <2>3. Len(assignments[j]) \in Nat /\ Len(assignments[j]) > 0
    BY <2>1, <2>2
  <2> QED BY <2>1, <2>2, <2>3, NumbersAssumption DEF TrailOK
<1> QED BY <1>1, Invariance, PTL

\* A quarantined job stays canceled and has one dead letter.
THEOREM QuarantineIsFinal == Spec => []QuarantineFinal
<1>1. IInv => QuarantineFinal
  BY Zenon DEF IInv
<1> QED BY <1>1, Invariance, PTL

\* A job's evidence is numbered without gap or repetition.
THEOREM EvidenceIsContiguous == Spec => []EvidenceContiguous
<1>1. IInv => EvidenceContiguous
  <2> SUFFICES ASSUME IInv, NEW j \in Job
               PROVE  /\ \A b \in Mine(j) : \A n \in 1..b.sequence : \E c \in Mine(j) : c.sequence = n
                      /\ \A b, c \in Mine(j) : (b.sequence = c.sequence \/ b.id = c.id) => b = c
    BY Zenon DEF EvidenceContiguous, Mine
  <2>1. PICK top \in Nat : Sequences(j) = 1..top
    BY Zenon DEF IInv, EvidenceInv
  <2>2. \A b \in Mine(j) : b.sequence \in 1..top
    BY Zenon, <2>1 DEF Sequences
  <2>3. \A n \in 1..top : \E c \in Mine(j) : c.sequence = n
    BY Zenon, <2>1 DEF Sequences
  <2>4. \A b \in Mine(j) : \A n \in 1..b.sequence : n \in 1..top
    BY <2>2
  <2> QED BY Zenon, <2>3, <2>4 DEF IInv, EvidenceInv
<1> QED BY <1>1, Invariance, PTL

\* A job that succeeded has evidence for every check, and a final batch.
THEOREM SuccessesAreProven == Spec => []SuccessIsProven
<1>1. IInv => SuccessIsProven
  <2> SUFFICES ASSUME IInv, NEW j \in Job, jobs[j].outcome = "succeeded"
               PROVE  /\ Check \subseteq UNION {b.checks : b \in Mine(j)}
                      /\ \E b \in batches : b.job = j /\ b.final
    BY Zenon DEF SuccessIsProven, Mine
  <2>1. checkpoints[j] = Check /\ \E b \in Mine(j) : b.final
    BY Zenon DEF IInv, SuccessInv
  <2>2. checkpoints[j] = UNION {b.checks : b \in Mine(j)}
    BY Zenon DEF IInv, EvidenceInv
  <2> QED BY Zenon, <2>1, <2>2 DEF Mine
<1> QED BY <1>1, Invariance, PTL

\* The manifest a resumed worker is given names only what the server holds.
THEOREM ManifestsAreSound == Spec => []ManifestSound
<1>1. IInv => ManifestSound
  BY Zenon DEF IInv
<1> QED BY <1>1, Invariance, PTL

\* A scan shown as completed carries every check of a job that succeeded.
THEOREM CompletedScansAreComplete == Spec => []CompletedScanIsComplete
<1>1. IInv => CompletedScanIsComplete
  BY Zenon DEF IInv
<1> QED BY <1>1, Invariance, PTL

\* The row of a job that is over never changes again.
THEOREM TerminalRowsAreStable == Spec => TerminalStable
<1>1. IInv /\ [Next]_vars => \A j \in Job : jobs[j].status \in Terminal => jobs'[j] = jobs[j]
  BY Zenon, RowSteps, MoveFacts
<1> QED BY <1>1, Invariance, PTL DEF Spec, TerminalStable

\* A live lease is only extended or consumed by a completion.
THEOREM LiveLeasesAreKept == Spec => LiveLeaseKept
<1> DEFINE Kept(j) == /\ jobs'[j].worker = jobs[j].worker
                      /\ \/ jobs'[j].status = "completed"
                         \/ /\ jobs'[j].status = "leased"
                            /\ jobs'[j].token = jobs[j].token
                            /\ jobs'[j].leaseExpires >= jobs[j].leaseExpires
<1>1. ASSUME IInv, [Next]_vars, NEW j \in Job,
             jobs[j].status = "leased", jobs[j].leaseExpires > now
      PROVE  Kept(j)
  <2>0. jobs[j] \in JobRow /\ RowOK(jobs[j], lastToken) /\ lastToken \in Nat /\ now \in Nat
        /\ dispatcher \in Phases /\ DispatcherInv
    BY Zenon, <1>1 DEF IInv, TypeOK, RowsInv
  <2>a. jobs[j].leaseExpires \in Nat /\ jobs[j].expires \in Nat
        /\ jobs[j].leaseExpires <= jobs[j].expires
    BY Zenon, <1>1, <2>0 DEF JobRow, RowOK
  <2>1. CASE jobs'[j] = jobs[j]
    BY SMTT(40), <1>1, <2>1, <2>a
  <2>2. CASE Created(j) \/ Quarantined(j) \/ Expired(j) \/ Released(j)
    BY SMTT(40), <1>1, <2>0, <2>2, <2>a DEF Created, Quarantined, Expired, Released
  <2>3. CASE LeasedOut(j)
    <3>1. PICK at \in Captured : jobs[j].leaseExpires <= at
      BY Zenon, <1>1, <2>3 DEF LeasedOut
    <3>2. at \in Nat /\ at <= now
      BY Zenon, <2>0, CapturedPast
    <3> QED BY SMTT(40), <1>1, <2>0, <2>a, <3>1, <3>2
  <2>4. CASE Renewed(j)
    <3>1. PICK at \in Captured :
            jobs'[j] = [jobs[j] EXCEPT !.leaseExpires = RenewedExpiry(jobs[j], at + LeaseLifetime)]
      BY Zenon, <2>4 DEF Renewed
    <3>2. RenewedExpiry(jobs[j], at + LeaseLifetime) >= jobs[j].leaseExpires
      BY <2>0, <2>a, ExpiryBounds, CapturedPast
    <3> QED BY Zenon, <1>1, <2>0, <3>1, <3>2 DEF JobRow
  <2>5. CASE Completed(j)
    <3>1. PICK r \in Receipts : jobs'[j] = CompletedRow(jobs[j], r)
      BY Zenon, <2>5 DEF Completed
    <3> QED BY SMTT(40), <2>0, <3>1, CompletedFields
  <2>6. CASE Reassigned(j)
    <3>1. dispatcher.phase = "reassign" /\ jobs[j].leaseExpires <= dispatcher.at
      BY Zenon, <2>6 DEF Reassigned, Reassignable, Abandoned
    <3>2. dispatcher.at \in Nat /\ dispatcher.at <= now
      BY SMTT(40), <2>0, <3>1 DEF Phases, Idle, DispatcherInv
    <3> QED BY SMTT(40), <1>1, <2>0, <2>a, <3>1, <3>2
  <2> QED BY Zenon, <1>1, <2>1, <2>2, <2>3, <2>4, <2>5, <2>6, RowSteps DEF RowStep
<1>2. IInv /\ [Next]_vars =>
        \A j \in Job : (jobs[j].status = "leased" /\ jobs[j].leaseExpires > now) => Kept(j)
  BY Zenon, <1>1
<1> QED BY <1>2, Invariance, PTL DEF Spec, LiveLeaseKept

\* The worker of a job changes only through a reassignment, whose manifest is
\* then exactly what the server holds.
THEOREM ReassignmentsAreExact == Spec => ReassignmentExact
<1> DEFINE Exact(j) == /\ jobs'[j].completed = checkpoints[j]
                       /\ jobs'[j].next = LastSequence(j) + 1
                       /\ jobs'[j].status = "pending"
<1>1. ASSUME IInv, [Next]_vars, NEW j \in Job,
             jobs[j].worker # Null, jobs'[j].worker # jobs[j].worker
      PROVE  Exact(j)
  <2>0. jobs[j] \in JobRow /\ RowOK(jobs[j], lastToken) /\ lastToken \in Nat /\ now \in Nat
        /\ dispatcher \in Phases /\ DispatcherInv /\ checkpoints \in [Job -> SUBSET Check]
    BY Zenon, <1>1 DEF IInv, TypeOK, RowsInv
  <2>1. ~ (jobs'[j] = jobs[j])
    BY Zenon, <1>1
  <2>2. ~ Created(j)
    BY Zenon, <1>1, <2>0 DEF Created, RowOK
  <2>3. ~ LeasedOut(j)
    <3> SUFFICES ASSUME LeasedOut(j)
                 PROVE  jobs'[j].worker = jobs[j].worker
      BY Zenon, <1>1
    <3>1. PICK at \in Captured, row \in {jobs[j], Unleased(jobs[j], "pending")} :
            jobs'[j] = Leased(row, at)
      BY Zenon DEF LeasedOut
    <3>2. row \in JobRow /\ row.worker = jobs[j].worker /\ at \in Nat
      BY SMTT(40), <2>0, CapturedPast, UnleasedRow DEF JobStatus
    <3>3. Leased(row, at).worker = row.worker
      BY Zenon, <2>0, <3>2, LeasedFields
    <3> QED BY Zenon, <3>1, <3>2, <3>3
  <2>4. ~ Renewed(j)
    BY Zenon, <1>1, <2>0 DEF Renewed, JobRow
  <2>5. ~ Completed(j)
    <3> SUFFICES ASSUME NEW r \in Receipts, jobs'[j] = CompletedRow(jobs[j], r)
                 PROVE  FALSE
      BY Zenon DEF Completed
    <3>1. CompletedRow(jobs[j], r).worker = jobs[j].worker
      BY Zenon, <2>0, CompletedFields
    <3> QED BY Zenon, <1>1, <3>1
  <2>6. ~ (Quarantined(j) \/ Expired(j) \/ Released(j))
    <3>1. {"canceled", "expired", "pending"} \subseteq JobStatus
      BY Zenon DEF JobStatus
    <3>2. \A s \in {"canceled", "expired", "pending"} : Unleased(jobs[j], s).worker = jobs[j].worker
      BY Zenon, <2>0, <3>1, UnleasedRow
    <3> QED BY Zenon, <1>1, <3>2 DEF Quarantined, Expired, Released
  <2>7. Reassigned(j)
    BY Zenon, <1>1, <2>1, <2>2, <2>3, <2>4, <2>5, <2>6, RowSteps DEF RowStep
  <2>8. /\ dispatcher.phase = "reassign" /\ dispatcher.job = j
        /\ dispatcher.next = LastSequence(j) + 1
        /\ Cardinality(dispatcher.completed) = Cardinality(checkpoints[j])
        /\ jobs'[j] = ReassignedRow(jobs[j], dispatcher)
    BY Zenon, <2>7 DEF Reassigned, Reassignable
  <2>9. dispatcher.completed \in SUBSET checkpoints[j] /\ checkpoints[j] \in SUBSET Check
    BY Zenon, <2>0, <2>8 DEF DispatcherInv
  <2>10. dispatcher.completed = checkpoints[j]
    BY SMTT(40), <2>8, <2>9, CountsDecide
  <2>11. /\ jobs'[j].next = dispatcher.next /\ jobs'[j].completed = dispatcher.completed
         /\ jobs'[j].status = "pending"
    BY SMTT(40), <2>0, <2>8, ReassignedFields
  <2> QED BY Zenon, <2>8, <2>10, <2>11
<1>2. IInv /\ [Next]_vars =>
        \A j \in Job : (jobs[j].worker # Null /\ jobs'[j].worker # jobs[j].worker) => Exact(j)
  BY Zenon, <1>1
<1> QED BY <1>2, Invariance, PTL DEF Spec, ReassignmentExact
=============================================================================
