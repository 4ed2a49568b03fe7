------------------------ MODULE WorkerProtocolSteps -------------------------
(***************************************************************************)
(* The worker's side of WorkerProtocol, for any workers, jobs and checks:  *)
(* the inductive invariant PInv, the steps of a process, that a step which *)
(* only delivers what is queued keeps PInv, and that the executor's step   *)
(* keeps it, which queues a batch.  What the server does in a delivery is  *)
(* named here (Ordered, Grows, Accepted, Commits) and shown of WorkerJobs  *)
(* in WorkerProtocolProofs.                                                *)
(***************************************************************************)
EXTENDS WorkerProtocol, TLAPS

\* Whatever a worker may sign.
AnyBatch ==
  [id : Nat \X Nat, job : Job, worker : Worker, sequence : Nat, final : BOOLEAN,
   checks : SUBSET Check]
AnyReceipt == [id : Nat, job : Job, worker : Worker, outcome : Outcome]
AnyMessage ==
  [kind : {"evidence"}, batch : AnyBatch]
  \cup [kind : {"completion"}, receipt : AnyReceipt, token : Nat]
AnyRequest ==
  AnyMessage \cup [kind : {"poll"}, worker : Worker]
  \cup [kind : {"renewal"}, worker : Worker, job : Job, token : Nat]

Error == {"none", "failed", "canceled"}
Phase ==
  {"waiting", "draining", "polling", "claiming", "running", "emitting", "finishing", "closing"}
Client ==
  [phase : Phase,
   stopping : BOOLEAN, awaiting : BOOLEAN, job : Job \cup {Null}, token : Nat, expires : Nat,
   next : Nat, todo : SUBSET Check, canceled : BOOLEAN, renewal : Error, error : Error]

ClientTypeOK ==
  /\ outbox \in [Worker -> Seq(AnyMessage)]
  /\ ledger \in [Worker -> SUBSET Job]
  /\ client \in [Worker -> Client]
  /\ late \subseteq AnyRequest
  /\ emitted \subseteq AnyBatch
  /\ projected \subseteq Receipts

Evidence(b) == [kind |-> "evidence", batch |-> b]

\* The worker holds a lease it has not finished with.
Busy(w) == client[w].phase \in {"claiming", "running", "emitting", "finishing"}
Executing(t) == \E w \in Worker : Busy(w) /\ client[w].token = t

\* The batches an execution has queued: its lease token is in their identifiers.
Of(t) == {b \in emitted : b.id[1] = t}

\* A sequence number before all of those of an execution.
Before(n, t) == \A p \in Of(t) : n < p.sequence

\* The worker's own lease: nobody else's, and what was queued under it.
LeaseInv ==
  \A w \in Worker : Busy(w) =>
    /\ client[w].job \in Job /\ client[w].token \in 1..lastToken
    /\ \A v \in Worker : (Busy(v) /\ client[v].token = client[w].token) => v = w
    /\ client[w].phase = "claiming" => Of(client[w].token) = {}
    /\ \A b \in Of(client[w].token) :
         /\ b.worker = w /\ b.job = client[w].job /\ b.sequence < client[w].next
         /\ b.checks \cap client[w].todo = {}

\* Where an execution starts and how far it is.
ProgressInv ==
  \A w \in Worker : Busy(w) =>
    /\ \/ Of(client[w].token) = {} /\ client[w].next <= LastSequence(client[w].job) + 1
       \/ \E b \in Of(client[w].token) : b.sequence + 1 = client[w].next
    /\ \A c \in batches :
         (c.job = client[w].job /\ c.sequence < client[w].next /\ Before(c.sequence, client[w].token))
           => c.checks \cap client[w].todo = {}

\* The batches of an execution have no gap between their numbers and no check in
\* common, neither with one another nor with what the server held before them.
ExecutionInv ==
  \A b \in emitted :
    /\ b.id = <<b.id[1], b.sequence>> /\ b.id[1] \in 1..lastToken
    /\ b.job \in ledger[b.worker]
    /\ \A c \in Of(b.id[1]) :
         /\ c.job = b.job
         /\ c # b => c.sequence # b.sequence /\ c.checks \cap b.checks = {}
         /\ \A n \in (b.sequence)..(c.sequence) : \E p \in Of(b.id[1]) : p.sequence = n
    /\ \E p \in Of(b.id[1]) : p.sequence <= LastSequence(b.job) + 1
    /\ \A c \in batches : (c.job = b.job /\ Before(c.sequence, b.id[1])) => c.checks \cap b.checks = {}

\* Evidence numbered below the next number of a job is in its manifest.
ManifestInv ==
  \A c \in batches : c.sequence < jobs[c.job].next => c.checks \subseteq jobs[c.job].completed

\* What must have reached the server before a message does.
Needs(m) ==
  IF m.kind = "evidence" THEN {p \in Of(m.batch.id[1]) : p.sequence < m.batch.sequence}
  ELSE Of(m.receipt.id)

\* Only what an executor queued, and the receipt of an execution that has ended.
MessageOK(m) ==
  /\ m.kind = "evidence" => m.batch \in emitted
  /\ m.kind = "completion" =>
       /\ m.receipt.id = m.token /\ m.token \in 1..lastToken /\ ~ Executing(m.token)

\* An outbox has every message behind those it needs.
OutboxInv ==
  \A w \in Worker : \A i \in 1..Len(outbox[w]) :
    /\ MessageOK(outbox[w][i])
    /\ outbox[w][i].kind = "completion" => outbox[w][i].receipt.worker = w
    /\ \A p \in Needs(outbox[w][i]) : p \in batches \/ \E k \in 1..(i-1) : outbox[w][k] = Evidence(p)

\* A request under way has all it needs at the server, and its receipt is kept.
LateInv ==
  \A m \in late :
    /\ m.kind \in {"evidence", "completion"} => MessageOK(m) /\ Needs(m) \subseteq batches
    /\ m.kind = "completion" =>
         \/ jobs[m.receipt.job].result = m.receipt.id
         \/ \E i \in 1..Len(outbox[m.receipt.worker]) : outbox[m.receipt.worker][i] = m
    /\ m.kind = "renewal" => m.token \in 1..lastToken

\* A worker that awaits the answer to a receipt keeps the receipt.
AwaitInv ==
  \A w \in Worker : client[w].awaiting =>
    /\ Forwarding(w) /\ outbox[w] # <<>> /\ Head(outbox[w]).kind = "completion"
    /\ Head(outbox[w]).receipt \in projections \cup projected
    /\ jobs[Head(outbox[w]).receipt.job].result = Head(outbox[w]).receipt.id

\* An accepted result is of one execution, which has ended.
ResultsInv ==
  \A j \in Job : jobs[j].result # Null =>
    /\ jobs[j].status = "completed" /\ jobs[j].result \in 1..lastToken /\ ~ Executing(jobs[j].result)
    /\ \A k \in Job : jobs[k].result = jobs[j].result => k = j

\* The ledger knows the job of an executor, which has no other execution.
LedgerInv ==
  \A w \in Worker : client[w].phase \in {"running", "emitting"} =>
     /\ client[w].job \in ledger[w]
     /\ \A b \in emitted : (b.worker = w /\ b.job = client[w].job) => b.id[1] = client[w].token

\* The inductive invariant, to be used with that of WorkerJobs.
PInv ==
  /\ ClientTypeOK /\ LeaseInv /\ ProgressInv /\ ExecutionInv /\ ManifestInv /\ OutboxInv /\ LateInv
  /\ AwaitInv /\ ResultsInv /\ LedgerInv
  /\ EvidenceNotLost /\ EvidenceBeforeResult /\ ExecutedOnce /\ ChecksAcceptedOnce /\ ResultNotLost

\* ProtocolSpec does not mention Batches and Receipts: they are no restriction
\* if they hold whatever a worker may sign.
Open == AnyBatch \subseteq Batches /\ AnyReceipt \subseteq Receipts

-----------------------------------------------------------------------------
(***************************************************************************)
(* The process of a worker                                                 *)
(***************************************************************************)

SameLease(r, s) == r.job = s.job /\ r.token = s.token /\ r.next = s.next /\ r.todo = s.todo

\* One column of a worker's process is set.
LEMMA ClientSet ==
  ASSUME NEW r \in Client
  PROVE  /\ \A p \in Phase : [r EXCEPT !.phase = p] \in Client
         /\ \A x \in BOOLEAN : /\ [r EXCEPT !.awaiting = x] \in Client
                               /\ [r EXCEPT !.stopping = x] \in Client
                               /\ [r EXCEPT !.canceled = x] \in Client
         /\ \A e \in Error : [r EXCEPT !.renewal = e] \in Client /\ [r EXCEPT !.error = e] \in Client
         /\ \A n \in Nat : [r EXCEPT !.next = n] \in Client
         /\ \A S \in SUBSET Check : [r EXCEPT !.todo = S] \in Client
BY DEF Client, Phase

\* Two columns, or three, are set.
LEMMA ClientSets ==
  ASSUME NEW r \in Client
  PROVE  /\ \A p \in Phase : [r EXCEPT !.phase = p, !.awaiting = FALSE] \in Client
         /\ \A p \in Phase, e \in Error : [r EXCEPT !.phase = p, !.error = e] \in Client
         /\ \A e \in Error : [r EXCEPT !.canceled = TRUE, !.renewal = e] \in Client
         /\ \A p \in Phase, n \in Nat, S \in SUBSET Check :
              [r EXCEPT !.phase = p, !.next = n, !.todo = S] \in Client
<1>1. ASSUME NEW p \in Phase, NEW e \in Error, NEW n \in Nat, NEW S \in SUBSET Check
      PROVE  /\ [r EXCEPT !.phase = p, !.awaiting = FALSE] \in Client
             /\ [r EXCEPT !.phase = p, !.error = e] \in Client
             /\ [r EXCEPT !.canceled = TRUE, !.renewal = e] \in Client
             /\ [r EXCEPT !.phase = p, !.next = n, !.todo = S] \in Client
  <2>1. /\ [r EXCEPT !.phase = p, !.awaiting = FALSE] = [[r EXCEPT !.phase = p] EXCEPT !.awaiting = FALSE]
        /\ [r EXCEPT !.phase = p, !.error = e] = [[r EXCEPT !.phase = p] EXCEPT !.error = e]
        /\ [r EXCEPT !.canceled = TRUE, !.renewal = e] = [[r EXCEPT !.canceled = TRUE] EXCEPT !.renewal = e]
        /\ [r EXCEPT !.phase = p, !.next = n, !.todo = S]
             = [[[r EXCEPT !.phase = p] EXCEPT !.next = n] EXCEPT !.todo = S]
    BY Zenon DEF Client
  <2>2. PICK a \in Client, b \in Client : a = [r EXCEPT !.phase = p] /\ b = [r EXCEPT !.canceled = TRUE]
    BY Zenon, ClientSet
  <2>3. PICK d \in Client : d = [a EXCEPT !.next = n]
    BY Zenon, ClientSet
  <2>4. /\ [a EXCEPT !.awaiting = FALSE] \in Client /\ [a EXCEPT !.error = e] \in Client
        /\ [b EXCEPT !.renewal = e] \in Client /\ [d EXCEPT !.todo = S] \in Client
    BY Zenon, ClientSet
  <2> QED BY Zenon, <2>1, <2>2, <2>3, <2>4
<1>2. "waiting" \in Phase /\ "none" \in Error /\ 0 \in Nat /\ {} \in SUBSET Check
  BY Zenon DEF Phase, Error
<1> QED BY Zenon, <1>1, <1>2

\* The process goes on in another phase, with the lease it has.
LEMMA GotoFields ==
  ASSUME client \in [Worker -> Client], NEW w \in Worker, NEW p \in Phase, Goto(w, p)
  PROVE  /\ client' \in [Worker -> Client]
         /\ \A v \in Worker \ {w} : client'[v] = client[v]
         /\ client'[w].phase = p /\ ~ client'[w].awaiting /\ SameLease(client'[w], client[w])
<1>1. client' \in [Worker -> Client]
  BY Zenon, ClientSets DEF Goto, Error
<1>2. client'[w].phase = p /\ ~ client'[w].awaiting /\ SameLease(client'[w], client[w])
  BY Zenon DEF Goto, Client, SameLease
<1> QED BY Zenon, <1>1, <1>2 DEF Goto

\* A failed renewal leaves the lease and the phase alone.
LEMMA RenewalFields ==
  ASSUME client \in [Worker -> Client], NEW w \in Worker, NEW e \in Error, RenewalFails(w, e)
  PROVE  /\ client' \in [Worker -> Client]
         /\ \A v \in Worker \ {w} : client'[v] = client[v]
         /\ client'[w].phase = client[w].phase /\ client'[w].awaiting = client[w].awaiting
         /\ SameLease(client'[w], client[w])
<1>1. client' \in [Worker -> Client]
  BY Zenon, ClientSets DEF RenewalFails
<1>2. client'[w].phase = client[w].phase /\ client'[w].awaiting = client[w].awaiting
      /\ SameLease(client'[w], client[w])
  BY Zenon DEF RenewalFails, Client, SameLease
<1> QED BY Zenon, <1>1, <1>2 DEF RenewalFails

\* A lease is decoded.
LEMMA ReceivedFields ==
  ASSUME client \in [Worker -> Client], NEW w \in Worker, NEW j \in Job, Received(w, j),
         jobs[j] \in JobRow, jobs'[j] \in JobRow
  PROVE  /\ client' \in [Worker -> Client]
         /\ \A v \in Worker \ {w} : client'[v] = client[v]
         /\ client'[w].phase = "claiming" /\ ~ client'[w].awaiting
         /\ client'[w].job = j /\ client'[w].token = jobs'[j].token
         /\ client'[w].next = jobs[j].next /\ client'[w].todo = Check \ jobs[j].completed
BY Zenon DEF Received, Client, Phase, Resting, JobRow, Error

\* A process that is started.
LEMMA RestingFields ==
  Resting \in Client /\ Resting.phase = "waiting" /\ Resting.awaiting = FALSE
BY Zenon DEF Resting, Client, Phase, Error

\* The batch of a check, as the worker signs it.
LEMMA BatchFields ==
  ASSUME client \in [Worker -> Client], NEW w \in Worker, client[w].job \in Job,
         NEW c \in client[w].todo
  PROVE  /\ Batch(w, c) \in AnyBatch
         /\ Batch(w, c).id = <<client[w].token, client[w].next>>
         /\ Batch(w, c).id[1] = client[w].token
         /\ Batch(w, c).job = client[w].job /\ Batch(w, c).worker = w
         /\ Batch(w, c).sequence = client[w].next /\ Batch(w, c).checks = {c}
BY Zenon DEF Batch, Client, AnyBatch

\* The completion of a lease, as the worker signs it.
LEMMA CompletionFields ==
  ASSUME client \in [Worker -> Client], NEW w \in Worker, client[w].job \in Job
  PROVE  [kind |-> "completion", token |-> client[w].token,
          receipt |-> [id |-> client[w].token, job |-> client[w].job, worker |-> w,
                       outcome |-> ReportedOutcome(w)]] \in AnyMessage
<1>1. ReportedOutcome(w) \in Outcome
  BY Zenon DEF ReportedOutcome, Client, Error, Outcome
<1>2. [id |-> client[w].token, job |-> client[w].job, worker |-> w, outcome |-> ReportedOutcome(w)]
        \in AnyReceipt
  BY Zenon, <1>1 DEF Client, AnyReceipt
<1> QED BY Zenon, <1>2 DEF AnyMessage, Client

\* What a message of either kind holds.
LEMMA MessageFields ==
  ASSUME NEW m \in AnyRequest
  PROVE  /\ m.kind \in {"evidence", "completion", "poll", "renewal"}
         /\ m.kind = "evidence" => m.batch \in AnyBatch /\ m = Evidence(m.batch)
         /\ m.kind = "completion" => m.receipt \in AnyReceipt /\ m.token \in Nat /\ m \in AnyMessage
         /\ m.kind = "poll" => m.worker \in Worker
         /\ m.kind = "renewal" => m.worker \in Worker /\ m.job \in Job /\ m.token \in Nat
BY Zenon DEF AnyRequest, AnyMessage, Evidence

\* Evidence is not a completion.
LEMMA EvidenceFields ==
  ASSUME NEW b \in AnyBatch
  PROVE  Evidence(b) \in AnyMessage /\ Evidence(b).kind = "evidence" /\ Evidence(b).batch = b
BY Zenon DEF Evidence, AnyMessage

-----------------------------------------------------------------------------
(***************************************************************************)
(* Every step but the one that queues evidence                             *)
(***************************************************************************)

\* The request that a worker sends next, or one that may still arrive.
AtHead(w, m) == outbox[w] # <<>> /\ m = Head(outbox[w])
Due(m) == m \in late \/ \E w \in Worker : AtHead(w, m)

\* A process goes on with the lease it has or gives it up.
Goes(w) ==
  /\ Busy(w)' => Busy(w) /\ SameLease(client'[w], client[w])
  /\ client'[w].phase = "claiming" => client[w].phase = "claiming"
  /\ client'[w].phase \in {"running", "emitting"} => client[w].phase \in {"running", "emitting"}

\* A poll brings a lease under a new token, for what the manifest leaves to do.
Starts(w) ==
  /\ client[w].phase = "polling" /\ client'[w].phase = "claiming" /\ ~ client'[w].awaiting
  /\ client'[w].token = lastToken + 1 /\ lastToken' = lastToken + 1
  /\ \E j \in Job :
       /\ client'[w].job = j /\ client'[w].next <= LastSequence(j) + 1
       /\ \A c \in batches' : (c.job = j /\ c.sequence < client'[w].next)
                                => c.checks \cap client'[w].todo = {}

\* The ledger takes the job of a lease for the first time.
Claims(w) ==
  /\ client[w].phase = "claiming" /\ client'[w].phase = "running"
  /\ SameLease(client'[w], client[w])
  /\ client[w].job \notin ledger[w] /\ client[w].job \in ledger'[w]

\* The receipt of a finished execution goes behind the evidence it needs.
Queues(w) ==
  \E m \in AnyMessage :
    /\ outbox'[w] = Append(outbox[w], m)
    /\ m.kind = "completion" /\ m.receipt.worker = w /\ MessageOK(m)'
    /\ \A p \in Needs(m) : p \in batches \/ \E k \in 1..Len(outbox[w]) : outbox[w][k] = Evidence(p)

\* The head of an outbox is removed because the server has it.
Drops(w) ==
  /\ outbox[w] # <<>> /\ outbox'[w] = Tail(outbox[w]) /\ ~ client'[w].awaiting
  /\ Head(outbox[w]).kind = "evidence" => Head(outbox[w]).batch \in batches'
  /\ Head(outbox[w]).kind = "completion" =>
       /\ Head(outbox[w]).receipt \in projected
       /\ jobs[Head(outbox[w]).receipt.job].result = Head(outbox[w]).receipt.id

\* A process awaits the answer to the completion at the head of its outbox.
Waits(w) ==
  client'[w].awaiting =>
    /\ Forwarding(w)' /\ outbox'[w] = outbox[w]
    /\ \/ client[w].awaiting /\ projections \subseteq projections' \cup projected'
       \/ \E m \in AnyMessage :
            /\ AtHead(w, m) /\ m.kind = "completion" /\ m.receipt \in projections'
            /\ jobs'[m.receipt.job].result = m.receipt.id

\* The batch b extends the evidence of its job.
Accepted(b) == batches' = batches \cup {b} /\ b.sequence = LastSequence(b.job) + 1

\* The completion m becomes the result of its job.
Commits(m, j) ==
  /\ m.kind = "completion" /\ m.receipt.job = j /\ \A k \in Job : jobs[k].result # m.receipt.id
  /\ jobs'[j].result = m.receipt.id /\ jobs'[j].status = "completed"
  /\ jobs'[j].worker = m.receipt.worker
  /\ outbox' = outbox /\ batches' = batches /\ \A k \in Job \ {j} : jobs'[k] = jobs[k]

LateMoves ==
  \A m \in late' :
    \/ m \in late \/ m.kind = "poll" \/ (m.kind = "renewal" /\ m.token \in 1..lastToken)
    \/ \E w \in Worker : AtHead(w, m) /\ outbox' = outbox /\ m.kind \in {"evidence", "completion"}

Proceeds ==
  /\ ClientTypeOK'
  /\ emitted' = emitted /\ projected \subseteq projected'
  /\ \/ batches' = batches
     \/ \E b \in AnyBatch : Due(Evidence(b)) /\ Accepted(b)
  /\ \A j \in Job : jobs'[j].result = jobs[j].result \/ \E m \in AnyMessage : Due(m) /\ Commits(m, j)
  /\ \A w \in Worker : /\ ledger[w] \subseteq ledger'[w]
                        /\ (Goes(w) \/ Starts(w) \/ Claims(w)) /\ Waits(w)
                        /\ (outbox'[w] = outbox[w] \/ Drops(w) \/ Queues(w))
  /\ \A v, w \in Worker : (Starts(v) /\ Starts(w)) => v = w
  /\ LateMoves

\* No evidence and no result is accepted.
Quiet == batches' = batches /\ \A j \in Job : jobs'[j].result = jobs[j].result

\* Every process goes on, and none begins to await an answer.
ClientsGo ==
  /\ client' \in [Worker -> Client]
  /\ \A w \in Worker :
       Goes(w) /\ (client'[w].awaiting => client[w].awaiting /\ client'[w].phase = client[w].phase)

\* A step that accepts nothing and leaves the outboxes alone is one of them.
LEMMA QuietStep ==
  ASSUME ClientTypeOK, AwaitInv, Quiet, ClientsGo, UNCHANGED <<outbox, ledger, emitted>>,
         late' \subseteq AnyRequest, LateMoves, projected \subseteq projected', projected' \subseteq Receipts,
         (\A w \in Worker : ~ client'[w].awaiting) \/ projections \subseteq projections' \cup projected'
  PROVE  Proceeds
<1>1. ClientTypeOK'
  BY Zenon DEF ClientTypeOK, ClientsGo
<1>2. \A w \in Worker : Waits(w)
  BY Zenon DEF Waits, ClientsGo, AwaitInv, Forwarding
<1>3. \A w \in Worker : Goes(w) /\ ~ Starts(w)
  BY Zenon DEF ClientsGo, Goes, Starts
<1> QED BY Zenon, <1>1, <1>2, <1>3 DEF Proceeds, Quiet

\* A process that does not touch its lease goes on.
LEMMA GotoGoes ==
  ASSUME client \in [Worker -> Client], NEW w \in Worker, NEW p \in Phase, Goto(w, p),
         \/ p \in {"waiting", "draining", "polling", "closing"}
         \/ p = "running" /\ client[w].phase = "emitting"
  PROVE  ClientsGo /\ ~ client'[w].awaiting
<1>1. ASSUME NEW v \in Worker, v # w PROVE client'[v] = client[v]
  BY Zenon, <1>1, GotoFields
<1>2. /\ client' \in [Worker -> Client] /\ client'[w].phase = p /\ ~ client'[w].awaiting
      /\ SameLease(client'[w], client[w])
  BY Zenon, GotoFields
<1>3. Goes(w)
  BY Zenon, <1>2 DEF Goes, Busy
<1>4. ASSUME NEW v \in Worker, v # w PROVE Goes(v)
  BY Zenon, <1>1, <1>4 DEF Goes, Busy, SameLease
<1> QED BY Zenon, <1>1, <1>2, <1>3, <1>4 DEF ClientsGo

\* A process whose phase and lease stay as they are goes on.
LEMMA SameGoes ==
  ASSUME client \in [Worker -> Client], client' \in [Worker -> Client], NEW w \in Worker,
         \A v \in Worker \ {w} : client'[v] = client[v],
         \/ client'[w].phase = client[w].phase /\ SameLease(client'[w], client[w])
         \/ client'[w].phase = "waiting"
         \/ Busy(w) /\ client'[w].phase = "finishing" /\ SameLease(client'[w], client[w]),
         client'[w].awaiting => client[w].awaiting /\ client'[w].phase = client[w].phase
  PROVE  ClientsGo
<1>1. Goes(w)
  BY Zenon DEF Goes, Busy
<1>2. ASSUME NEW v \in Worker, v # w PROVE client'[v] = client[v] /\ Goes(v)
  BY Zenon, <1>2 DEF Goes, Busy, SameLease
<1> QED BY Zenon, <1>1, <1>2 DEF ClientsGo

\* What follows a forward is no lease.
LEMMA AfterForwardGoes ==
  ASSUME client \in [Worker -> Client], NEW w \in Worker, Forwarding(w), Goto(w, AfterForward(w))
  PROVE  ClientsGo /\ ~ client'[w].awaiting
<1>1. AfterForward(w) \in Phase
      /\ \/ AfterForward(w) \in {"waiting", "draining", "polling", "closing"}
         \/ AfterForward(w) = "running" /\ client[w].phase = "emitting"
  BY Zenon DEF AfterForward, Forwarding, Phase
<1> QED BY Zenon, <1>1, GotoGoes

\* Acknowledge removes the head of one outbox.
LEMMA AcknowledgeGoes ==
  ASSUME ClientTypeOK, NEW w \in Worker, Forwarding(w), outbox[w] # <<>>, Acknowledge(w)
  PROVE  /\ ClientsGo /\ ~ client'[w].awaiting
         /\ outbox' \in [Worker -> Seq(AnyMessage)]
         /\ outbox'[w] = Tail(outbox[w]) /\ \A v \in Worker \ {w} : outbox'[v] = outbox[v]
<1> DEFINE p == IF client[w].phase = "emitting" THEN "running" ELSE client[w].phase
<1>1. Goto(w, p) /\ outbox' = [outbox EXCEPT ![w] = Tail(@)]
  BY Zenon DEF Acknowledge
<1>2. p \in Phase /\ (p \in {"draining", "closing"} \/ (p = "running" /\ client[w].phase = "emitting"))
  BY Zenon DEF Forwarding, Phase
<1> HIDE DEF p
<1>3. ClientsGo /\ ~ client'[w].awaiting
  BY Zenon, <1>1, <1>2, GotoGoes DEF ClientTypeOK
<1>4. outbox \in [Worker -> Seq(AnyMessage)] /\ Tail(outbox[w]) \in Seq(AnyMessage)
  BY DEF ClientTypeOK
<1> QED BY Zenon, <1>1, <1>3, <1>4

\* Elements of an outbox are messages; its head is its first element.
LEMMA OutboxItems ==
  ASSUME ClientTypeOK, NEW w \in Worker
  PROVE  /\ outbox[w] \in Seq(AnyMessage) /\ Len(outbox[w]) \in Nat
         /\ \A i \in 1..Len(outbox[w]) : outbox[w][i] \in AnyMessage
         /\ outbox[w] # <<>> => /\ Head(outbox[w]) = outbox[w][1] /\ Head(outbox[w]) \in AnyMessage
                                /\ 1 \in 1..Len(outbox[w])
<1>1. outbox[w] \in Seq(AnyMessage)
  BY Zenon DEF ClientTypeOK
<1> QED BY <1>1

\* The batch or the receipt of a message that is due was signed by a worker.
LEMMA DueItems ==
  ASSUME Open, ClientTypeOK, OutboxInv, LateInv, NEW m, Due(m)
  PROVE  /\ m \in AnyRequest
         /\ m.kind = "evidence" => m.batch \in AnyBatch /\ m.batch \in Batches /\ m = Evidence(m.batch)
         /\ m.kind = "completion" =>
              /\ m \in AnyMessage /\ m.receipt \in AnyReceipt /\ m.receipt \in Receipts
              /\ m.token \in 1..lastToken /\ m.receipt.id = m.token
<1>1. m \in AnyRequest
  BY Zenon, OutboxItems DEF Due, AtHead, AnyRequest, ClientTypeOK
<1>2. m.kind \in {"evidence", "completion"} => MessageOK(m)
  BY OutboxItems DEF Due, AtHead, OutboxInv, LateInv
<1> QED BY Zenon, <1>1, <1>2, MessageFields DEF MessageOK, Open

\* A message that the server has answered is removed.
LEMMA AnsweredStep ==
  ASSUME PInv, NEW w \in Worker, Answered(w)
  PROVE  Proceeds
<1> USE DEF PInv
<1>1. /\ outbox[w] # <<>> /\ Head(outbox[w]).kind = "completion" /\ Head(outbox[w]).receipt \in projected
      /\ Forwarding(w)
      /\ jobs[Head(outbox[w]).receipt.job].result = Head(outbox[w]).receipt.id
      /\ UNCHANGED <<vars, ledger, late, emitted, projected>> /\ Acknowledge(w)
  BY Zenon DEF Answered, AwaitInv, history
<1>2. /\ ClientsGo /\ ~ client'[w].awaiting /\ outbox' \in [Worker -> Seq(AnyMessage)]
      /\ outbox'[w] = Tail(outbox[w]) /\ \A v \in Worker \ {w} : outbox'[v] = outbox[v]
  BY Zenon, <1>1, AcknowledgeGoes
<1>3. Drops(w)
  BY Zenon, <1>1, <1>2 DEF Drops
<1>4. ClientTypeOK'
  BY Zenon, <1>1, <1>2 DEF ClientTypeOK, ClientsGo
<1>5. jobs' = jobs /\ batches' = batches /\ projections' = projections
  BY Zenon, <1>1 DEF vars, storeVars, threadVars
<1>6. (\A v \in Worker : Waits(v)) /\ LateMoves
  BY Zenon, <1>1, <1>2, <1>5 DEF Waits, ClientsGo, LateMoves, AwaitInv, Forwarding
<1>7. \A v \in Worker : Goes(v) /\ ~ Starts(v)
  BY Zenon, <1>2 DEF ClientsGo, Goes, Starts
<1> QED BY Zenon, <1>1, <1>2, <1>3, <1>4, <1>5, <1>6, <1>7 DEF Proceeds

\* What a process does that leaves the server and its outbox alone.
LEMMA LocalSteps ==
  ASSUME PInv, NEW w \in Worker,
         \/ StartCycle(w) \/ ForwardEnds(w) \/ PollSkipped(w) \/ Finish(w) \/ Start(w)
         \/ Unanswered(w) \/ DeliveryLost(w) \/ PollLost(w) \/ RenewalLost(w) \/ Stop(w) \/ Kill(w)
  PROVE  Proceeds
<1> USE DEF PInv
<1>0. client \in [Worker -> Client] /\ client[w] \in Client
  BY Zenon DEF ClientTypeOK
<1>1. /\ UNCHANGED <<vars, outbox, ledger, emitted, projected>>
  BY Zenon DEF StartCycle, ForwardEnds, PollSkipped, Finish, Start, Unanswered, DeliveryLost, PollLost,
         RenewalLost, Stop, Kill, history, GiveUp
<1>2. Quiet /\ projections' = projections /\ projected' \subseteq Receipts
  BY Zenon, <1>1 DEF Quiet, vars, storeVars, threadVars, ClientTypeOK
<1>3. late' \subseteq AnyRequest /\ LateMoves
  <2>1. CASE late' = late
    BY Zenon, <2>1 DEF LateMoves, ClientTypeOK
  <2>2. CASE DeliveryLost(w)
    <3>1. outbox[w] # <<>> /\ late' \in {late, late \cup {Head(outbox[w])}} /\ outbox' = outbox
      BY Zenon, <1>1, <2>2 DEF DeliveryLost
    <3>2. Head(outbox[w]) \in AnyRequest /\ Head(outbox[w]).kind \in {"evidence", "completion"}
      BY Zenon, <3>1, OutboxItems DEF AnyRequest, AnyMessage
    <3> QED BY Zenon, <3>1, <3>2 DEF LateMoves, AtHead, ClientTypeOK
  <2>3. CASE PollLost(w)
    <3>1. late' \in {late, late \cup {[kind |-> "poll", worker |-> w]}}
      BY Zenon, <2>3 DEF PollLost
    <3>2. [kind |-> "poll", worker |-> w] \in AnyRequest
      BY Zenon DEF AnyRequest
    <3> QED BY <3>1, <3>2 DEF LateMoves, ClientTypeOK
  <2>4. CASE RenewalLost(w)
    <3> DEFINE m == [kind |-> "renewal", worker |-> w, job |-> client[w].job, token |-> client[w].token]
    <3>1. late' \in {late, late \cup {m}} /\ Busy(w)
      BY Zenon, <2>4 DEF RenewalLost, Renewing, Busy
    <3>2. client[w].job \in Job /\ client[w].token \in 1..lastToken /\ client[w].token \in Nat
      BY Zenon, <1>0, <3>1 DEF LeaseInv, Client
    <3>3. m \in AnyRequest /\ m.kind = "renewal" /\ m.token = client[w].token
      BY Zenon, <3>2 DEF AnyRequest
    <3> HIDE DEF m
    <3> QED BY Zenon, <3>1, <3>2, <3>3 DEF LateMoves, ClientTypeOK
  <2> QED BY Zenon, <2>1, <2>2, <2>3, <2>4
          DEF StartCycle, ForwardEnds, PollSkipped, Finish, Start, Unanswered, Stop, Kill
<1>4. ClientsGo
  <2>1. CASE StartCycle(w) \/ PollSkipped(w) \/ PollLost(w)
    BY Zenon, <1>0, <2>1, GotoGoes DEF StartCycle, PollSkipped, PollLost, Phase
  <2>2. CASE ForwardEnds(w) \/ DeliveryLost(w) \/ Unanswered(w)
    BY Zenon, <1>0, <2>2, AfterForwardGoes DEF ForwardEnds, DeliveryLost, Unanswered, GiveUp, AwaitInv
  <2>3. CASE Finish(w)
    <3> DEFINE e == IF ExecutionDone(w) THEN "canceled" ELSE "none"
    <3>1. client' = [client EXCEPT ![w] = [client[w] EXCEPT !.phase = "finishing", !.error = e]] /\ Busy(w)
      BY Zenon, <2>3 DEF Finish, Busy
    <3>2. e \in Error /\ "finishing" \in Phase
      BY Zenon DEF Error, Phase
    <3> HIDE DEF e
    <3>3. [client[w] EXCEPT !.phase = "finishing", !.error = e] \in Client
      BY Zenon, <1>0, <3>2, ClientSets
    <3>4. client' \in [Worker -> Client] /\ \A v \in Worker \ {w} : client'[v] = client[v]
      BY Zenon, <1>0, <3>1, <3>3
    <3>5. client'[w].phase = "finishing" /\ SameLease(client'[w], client[w])
          /\ client'[w].awaiting = client[w].awaiting
      BY Zenon, <1>0, <3>1 DEF Client, SameLease
    <3>6. ~ client[w].awaiting
      BY Zenon, <2>3 DEF Finish, AwaitInv, Forwarding
    <3> QED BY Zenon, <1>0, <3>1, <3>4, <3>5, <3>6, SameGoes
  <2>4. CASE Start(w) \/ Kill(w)
    <3>1. client' = [client EXCEPT ![w] = Resting]
      BY Zenon, <2>4 DEF Start, Kill
    <3> QED BY Zenon, <1>0, <3>1, RestingFields, SameGoes
  <2>5. CASE RenewalLost(w)
    <3>1. PICK e \in Error : RenewalFails(w, e)
      BY Zenon, <2>5 DEF RenewalLost, Error
    <3> QED BY Zenon, <1>0, <3>1, RenewalFields, SameGoes
  <2>6. CASE Stop(w)
    <3>1. client' = [client EXCEPT ![w] = [client[w] EXCEPT !.stopping = TRUE]]
      BY Zenon, <2>6 DEF Stop
    <3>2. [client[w] EXCEPT !.stopping = TRUE] \in Client
      BY Zenon, <1>0, ClientSet
    <3>3. client' \in [Worker -> Client] /\ \A v \in Worker \ {w} : client'[v] = client[v]
      BY Zenon, <1>0, <3>1, <3>2
    <3>4. /\ client'[w].phase = client[w].phase /\ SameLease(client'[w], client[w])
          /\ client'[w].awaiting = client[w].awaiting
      BY Zenon, <1>0, <3>1 DEF Client, SameLease
    <3> QED BY Zenon, <1>0, <3>3, <3>4, SameGoes
  <2> QED BY Zenon, <2>1, <2>2, <2>3, <2>4, <2>5, <2>6
<1> QED BY Zenon, <1>1, <1>2, <1>3, <1>4, QuietStep

\* A job that is not fresh is not claimed, and a full outbox takes no message.
LEMMA RefusedSteps ==
  ASSUME PInv, NEW w \in Worker,
         \/ /\ VerifyAndClaim(w)
            /\ ~ (now < client[w].expires /\ client[w].job \notin ledger[w])
         \/ /\ (QueueCompletion(w) \/ \E c \in Check : EmitResult(w, c))
            /\ Len(outbox[w]) >= MaxItems
  PROVE  Proceeds
<1> USE DEF PInv
<1>0. client \in [Worker -> Client] /\ client[w] \in Client
  BY Zenon DEF ClientTypeOK
<1>1. UNCHANGED <<vars, outbox, ledger, emitted, projected, late>>
  BY Zenon DEF VerifyAndClaim, QueueCompletion, EmitResult, history, ClientTypeOK
<1>2. /\ late' \subseteq AnyRequest /\ LateMoves /\ projected' \subseteq Receipts
      /\ Quiet /\ projections' = projections
  BY Zenon, <1>1 DEF ClientTypeOK, LateMoves, Quiet, vars, storeVars, threadVars
<1>3. CASE QueueCompletion(w) /\ Len(outbox[w]) >= MaxItems
  <2>1. Goto(w, "waiting")
    BY Zenon, <1>3 DEF QueueCompletion
  <2>2. ClientsGo
    BY Zenon, <1>0, <2>1, GotoGoes DEF Phase
  <2> QED BY Zenon, <1>1, <1>2, <2>2, QuietStep
<1>4. CASE \/ VerifyAndClaim(w) /\ ~ (now < client[w].expires /\ client[w].job \notin ledger[w])
           \/ Len(outbox[w]) >= MaxItems /\ \E c \in Check : EmitResult(w, c)
  <2>1. /\ client' = [client EXCEPT ![w] = [client[w] EXCEPT !.phase = "finishing", !.error = "failed"]]
        /\ Busy(w) /\ ~ client[w].awaiting
    BY Zenon, <1>4 DEF VerifyAndClaim, EmitResult, Busy, AwaitInv, Forwarding
  <2>2. [client[w] EXCEPT !.phase = "finishing", !.error = "failed"] \in Client
    BY Zenon, <1>0, ClientSets DEF Phase, Error
  <2>3. client' \in [Worker -> Client] /\ \A v \in Worker \ {w} : client'[v] = client[v]
    BY Zenon, <1>0, <2>1, <2>2
  <2>4. client'[w].phase = "finishing" /\ SameLease(client'[w], client[w])
        /\ client'[w].awaiting = client[w].awaiting
    BY Zenon, <1>0, <2>1 DEF Client, SameLease
  <2>5. ClientsGo
    BY Zenon, <1>0, <2>1, <2>3, <2>4, SameGoes
  <2> QED BY Zenon, <1>1, <1>2, <2>5, QuietStep
<1> QED BY Zenon, <1>3, <1>4

\* A process that goes on starts no execution.
LEMMA GoesOn == \A w \in Worker : Goes(w) => ~ Starts(w)
BY Zenon DEF Goes, Starts

\* A step in which every process goes on and no receipt is queued is one of them.
LEMMA GoingStep ==
  ASSUME ClientTypeOK', emitted' = emitted, ledger' = ledger, projected \subseteq projected', LateMoves,
         batches' = batches \/ \E b \in AnyBatch : Due(Evidence(b)) /\ Accepted(b),
         \A j \in Job : jobs'[j].result = jobs[j].result \/ \E m \in AnyMessage : Due(m) /\ Commits(m, j),
         \A w \in Worker : Goes(w) /\ Waits(w) /\ (outbox'[w] = outbox[w] \/ Drops(w))
  PROVE  Proceeds
<1>1. \A w \in Worker : ~ Starts(w) /\ ledger[w] \subseteq ledger'[w]
  BY Zenon, GoesOn
<1> QED BY Zenon, <1>1 DEF Proceeds

\* A job is claimed in the ledger before its first inspection.
LEMMA ClaimStep ==
  ASSUME PInv, NEW w \in Worker, VerifyAndClaim(w), now < client[w].expires,
         client[w].job \notin ledger[w]
  PROVE  Proceeds
<1> USE DEF PInv
<1>0. client \in [Worker -> Client] /\ client[w] \in Client /\ ledger \in [Worker -> SUBSET Job]
  BY Zenon DEF ClientTypeOK
<1>1. /\ UNCHANGED <<vars, outbox, late, emitted, projected>>
      /\ client' = [client EXCEPT ![w] = [client[w] EXCEPT !.phase = "running", !.error = "none"]]
      /\ ledger' = [ledger EXCEPT ![w] = ledger[w] \cup {client[w].job}]
      /\ client[w].phase = "claiming" /\ client[w].job \in Job
  BY Zenon DEF VerifyAndClaim, history, LeaseInv, Busy
<1>2. [client[w] EXCEPT !.phase = "running", !.error = "none"] \in Client
  BY Zenon, <1>0, ClientSets DEF Phase, Error
<1>3. client' \in [Worker -> Client] /\ \A v \in Worker \ {w} : client'[v] = client[v]
  BY Zenon, <1>0, <1>1, <1>2
<1>4. /\ client'[w].phase = "running" /\ SameLease(client'[w], client[w])
      /\ client'[w].awaiting = client[w].awaiting /\ ~ client[w].awaiting
  BY Zenon, <1>0, <1>1 DEF Client, SameLease, AwaitInv, Forwarding
<1>5. ledger' \in [Worker -> SUBSET Job] /\ \A v \in Worker : ledger[v] \subseteq ledger'[v]
  BY Zenon, <1>0, <1>1
<1>6. ClientTypeOK'
  BY Zenon, <1>1, <1>3, <1>5 DEF ClientTypeOK
<1>7. Claims(w) /\ ~ Starts(w) /\ \A v \in Worker \ {w} : Goes(v) /\ ~ Starts(v)
  BY Zenon, <1>0, <1>1, <1>3, <1>4 DEF Claims, Goes, Busy, SameLease, Starts
<1>8. jobs' = jobs /\ batches' = batches /\ projections' = projections
  BY Zenon, <1>1 DEF vars, storeVars, threadVars
<1>9. \A v \in Worker : Waits(v)
  BY Zenon, <1>1, <1>3, <1>4, <1>8 DEF Waits, AwaitInv, Forwarding
<1>10. LateMoves
  BY Zenon, <1>1 DEF LateMoves
<1> QED BY Zenon, <1>1, <1>5, <1>6, <1>7, <1>8, <1>9, <1>10 DEF Proceeds

\* The receipt of a finished execution is queued.
LEMMA QueueStep ==
  ASSUME PInv, NEW w \in Worker, QueueCompletion(w), ~ (Len(outbox[w]) >= MaxItems)
  PROVE  Proceeds
<1> USE DEF PInv
<1> DEFINE receipt == [id |-> client[w].token, job |-> client[w].job, worker |-> w,
                       outcome |-> ReportedOutcome(w)]
           message == [kind |-> "completion", receipt |-> receipt, token |-> client[w].token]
<1>0. client \in [Worker -> Client] /\ client[w] \in Client /\ outbox \in [Worker -> Seq(AnyMessage)]
  BY Zenon DEF ClientTypeOK
<1>1. /\ UNCHANGED <<vars, ledger, late, emitted, projected>>
      /\ outbox' = [outbox EXCEPT ![w] = Append(outbox[w], message)] /\ Goto(w, "closing")
      /\ Busy(w)
  BY Zenon DEF QueueCompletion, Busy
<1>2. /\ client[w].job \in Job /\ client[w].token \in 1..lastToken
      /\ \A v \in Worker : (Busy(v) /\ client[v].token = client[w].token) => v = w
      /\ \A b \in Of(client[w].token) : b.worker = w
  BY Zenon, <1>1 DEF LeaseInv
<1>3. PICK m \in AnyMessage : /\ m = message /\ m.kind = "completion" /\ m.receipt.worker = w
                              /\ m.receipt.id = client[w].token /\ m.token = client[w].token
  <2>1. message \in AnyMessage
    BY Zenon, <1>0, <1>2, CompletionFields
  <2> QED BY Zenon, <2>1
<1>4. ClientsGo /\ ~ client'[w].awaiting /\ client'[w].phase = "closing"
      /\ \A v \in Worker \ {w} : client'[v] = client[v]
  BY Zenon, <1>0, <1>1, GotoGoes, GotoFields DEF Phase
<1>5. outbox' \in [Worker -> Seq(AnyMessage)] /\ outbox'[w] = Append(outbox[w], m)
      /\ \A v \in Worker \ {w} : outbox'[v] = outbox[v]
  <2>1. Append(outbox[w], m) \in Seq(AnyMessage)
    BY <1>0
  <2> QED BY Zenon, <1>0, <1>1, <1>3, <2>1
<1>6. ClientTypeOK'
  BY Zenon, <1>1, <1>4, <1>5 DEF ClientTypeOK, ClientsGo
<1>7. jobs' = jobs /\ batches' = batches /\ projections' = projections /\ lastToken' = lastToken
  BY Zenon, <1>1 DEF vars, storeVars, threadVars
<1>8. ~ Executing(m.token)'
  <2> SUFFICES ASSUME NEW v \in Worker, Busy(v)', client'[v].token = m.token PROVE FALSE
    BY Zenon DEF Executing
  <2>1. v # w
    BY Zenon, <1>4 DEF Busy
  <2>2. client'[v] = client[v] /\ Busy(v)
    BY Zenon, <1>4, <2>1 DEF Busy
  <2> QED BY Zenon, <1>2, <1>3, <2>1, <2>2
<1>9. MessageOK(m)'
  BY Zenon, <1>2, <1>3, <1>7, <1>8 DEF MessageOK
<1>10. ASSUME NEW p \in Needs(m)
       PROVE  p \in batches \/ \E k \in 1..Len(outbox[w]) : outbox[w][k] = Evidence(p)
  <2>1. p \in Of(client[w].token) /\ p \in emitted /\ p.worker = w
    BY Zenon, <1>2, <1>3, <1>10 DEF Needs, Of
  <2>2. DOMAIN outbox[w] = 1..Len(outbox[w])
    BY <1>0
  <2> QED BY Zenon, <2>1, <2>2 DEF EvidenceNotLost, Evidence
<1>11. Queues(w)
  BY Zenon, <1>3, <1>5, <1>9, <1>10 DEF Queues
<1>12. \A v \in Worker : Waits(v)
  BY Zenon, <1>4, <1>5, <1>7 DEF Waits, AwaitInv, Forwarding
<1>13. LateMoves
  BY Zenon, <1>1 DEF LateMoves
<1>14. \A v \in Worker : Goes(v) /\ ~ Starts(v)
  BY Zenon, <1>4, GoesOn DEF ClientsGo
<1> QED BY Zenon, <1>1, <1>5, <1>6, <1>7, <1>11, <1>12, <1>13, <1>14 DEF Proceeds

-----------------------------------------------------------------------------
(***************************************************************************)
(* These steps keep the invariant                                          *)
(***************************************************************************)

\* The evidence of a job is numbered from one without gaps or repetitions.
Ordered ==
  /\ \A j \in Job : LastSequence(j) \in Nat
  /\ \A c \in batches : c.job \in Job /\ c.sequence \in 1..LastSequence(c.job)
  /\ \A c, d \in batches : (c.job = d.job /\ c.sequence = d.sequence) => c = d

\* What the server never takes back.
Grows ==
  /\ lastToken \in Nat /\ lastToken' \in Nat /\ lastToken <= lastToken'
  /\ batches \subseteq batches'
  /\ \A j \in Job : /\ LastSequence(j)' \in Nat /\ LastSequence(j) <= LastSequence(j)'
                    /\ jobs[j].status = "completed" => jobs'[j] = jobs[j]

\* The tail of an outbox.
LEMMA TailItems ==
  ASSUME NEW q \in Seq(AnyMessage), q # <<>>
  PROVE  /\ Len(q) \in Nat /\ Len(Tail(q)) = Len(q) - 1 /\ Head(q) = q[1] /\ 1 \in 1..Len(q)
         /\ DOMAIN q = 1..Len(q) /\ DOMAIN Tail(q) = 1..Len(Tail(q))
         /\ \A i \in 1..Len(Tail(q)) : i + 1 \in 1..Len(q) /\ Tail(q)[i] = q[i + 1]
         /\ \A i \in 1..Len(q) : i # 1 => i - 1 \in 1..Len(Tail(q)) /\ Tail(q)[i - 1] = q[i]
<1>1. Len(q) \in Nat /\ Len(Tail(q)) = Len(q) - 1 /\ Head(q) = q[1] /\ 1 \in 1..Len(q)
      /\ DOMAIN q = 1..Len(q) /\ DOMAIN Tail(q) = 1..Len(Tail(q))
  OBVIOUS
<1>2. \A i \in 1..Len(Tail(q)) : i + 1 \in 1..Len(q) /\ Tail(q)[i] = q[i + 1]
  BY <1>1
<1>3. ASSUME NEW i \in 1..Len(q), i # 1 PROVE i - 1 \in 1..Len(Tail(q)) /\ Tail(q)[i - 1] = q[i]
  <2>1. i - 1 \in 1..Len(Tail(q)) /\ (i - 1) + 1 = i
    BY <1>1, <1>3
  <2> QED BY Zenon, <1>2, <2>1
<1> QED BY Zenon, <1>1, <1>2, <1>3

\* A message behind the others.
LEMMA AppendItems ==
  ASSUME NEW q \in Seq(AnyMessage), NEW m \in AnyMessage
  PROVE  /\ Len(q) \in Nat /\ Append(q, m) \in Seq(AnyMessage)
         /\ Len(Append(q, m)) = Len(q) + 1 /\ Append(q, m)[Len(q) + 1] = m
         /\ DOMAIN Append(q, m) = 1..Len(Append(q, m)) /\ DOMAIN q = 1..Len(q)
         /\ \A i \in 1..Len(q) : i \in 1..Len(Append(q, m)) /\ Append(q, m)[i] = q[i]
         /\ q # <<>> => Head(Append(q, m)) = Head(q)
         /\ Append(q, m) # <<>>
OBVIOUS

\* A message stays in its outbox or is the head that is dropped.
LEMMA MessagesStay ==
  ASSUME ClientTypeOK, Proceeds, NEW w \in Worker, NEW i \in 1..Len(outbox[w])
  PROVE  \/ \E k \in DOMAIN outbox'[w] : outbox'[w][k] = outbox[w][i] /\ k \in 1..Len(outbox'[w])
         \/ Drops(w) /\ outbox[w][i] = Head(outbox[w])
<1>1. outbox[w] \in Seq(AnyMessage) /\ DOMAIN outbox[w] = 1..Len(outbox[w])
  BY DEF ClientTypeOK
<1>2. CASE outbox'[w] = outbox[w]
  BY Zenon, <1>1, <1>2
<1>3. CASE Drops(w)
  <2>1. outbox[w] # <<>> /\ outbox'[w] = Tail(outbox[w])
    BY Zenon, <1>3 DEF Drops
  <2>2. CASE i = 1
    BY Zenon, <1>1, <1>3, <2>1, <2>2, TailItems
  <2>3. CASE i # 1
    <3>1. /\ i - 1 \in 1..Len(Tail(outbox[w])) /\ Tail(outbox[w])[i - 1] = outbox[w][i]
          /\ DOMAIN Tail(outbox[w]) = 1..Len(Tail(outbox[w]))
      BY Zenon, <1>1, <2>1, <2>3, TailItems
    <3>2. /\ i - 1 \in DOMAIN outbox'[w] /\ i - 1 \in 1..Len(outbox'[w])
          /\ outbox'[w][i - 1] = outbox[w][i]
      BY Zenon, <2>1, <3>1
    <3> QED BY Zenon, <3>2
  <2> QED BY Zenon, <2>2, <2>3
<1>4. CASE Queues(w)
  <2>1. PICK m \in AnyMessage : outbox'[w] = Append(outbox[w], m)
    BY Zenon, <1>4 DEF Queues
  <2>2. /\ i \in 1..Len(Append(outbox[w], m)) /\ Append(outbox[w], m)[i] = outbox[w][i]
        /\ DOMAIN Append(outbox[w], m) = 1..Len(Append(outbox[w], m))
    BY Zenon, <1>1, AppendItems
  <2>3. i \in DOMAIN outbox'[w] /\ i \in 1..Len(outbox'[w]) /\ outbox'[w][i] = outbox[w][i]
    BY Zenon, <2>1, <2>2
  <2> QED BY Zenon, <2>3
<1> QED BY Zenon, <1>2, <1>3, <1>4 DEF Proceeds

\* A request that is due has all it needs before it.
LEMMA DueFacts ==
  ASSUME ClientTypeOK, OutboxInv, LateInv, NEW m, Due(m), m.kind \in {"evidence", "completion"}
  PROVE  MessageOK(m) /\ Needs(m) \subseteq batches
<1>1. ASSUME NEW w \in Worker, AtHead(w, m) PROVE MessageOK(m) /\ Needs(m) \subseteq batches
  <2>1. 1 \in 1..Len(outbox[w]) /\ m = outbox[w][1]
    BY Zenon, <1>1, OutboxItems DEF AtHead
  <2>2. 1..(1-1) = {}
    OBVIOUS
  <2> QED BY Zenon, <2>1, <2>2 DEF OutboxInv
<1> QED BY Zenon, <1>1 DEF Due, LateInv

\* An execution that begins has a new token, and what was queued stays as it is.
LEMMA SameExecutions ==
  ASSUME Proceeds, lastToken \in Nat
  PROVE  /\ \A t \in 1..lastToken : Executing(t)' => Executing(t)
         /\ \A t : Of(t)' = Of(t)
         /\ \A n, t : Before(n, t)' = Before(n, t)
         /\ \A m : Needs(m)' = Needs(m)
<1>1. emitted' = emitted /\ \A w \in Worker : Goes(w) \/ Starts(w) \/ Claims(w)
  BY Zenon DEF Proceeds
<1>2. \A t : Of(t)' = Of(t)
  BY Zenon, <1>1 DEF Of
<1>3. ASSUME NEW t \in 1..lastToken, Executing(t)' PROVE Executing(t)
  <2>1. PICK w \in Worker : Busy(w)' /\ client'[w].token = t
    BY Zenon, <1>3 DEF Executing
  <2>2. ~ Starts(w)
    BY <2>1 DEF Starts
  <2> QED BY Zenon, <1>1, <2>1, <2>2 DEF Executing, Goes, Claims, SameLease, Busy
<1>4. \A n, t : Before(n, t)' = Before(n, t)
  BY Zenon, <1>2 DEF Before
<1>5. \A m : Needs(m)' = Needs(m)
  BY Zenon, <1>2 DEF Needs
<1> QED BY Zenon, <1>2, <1>3, <1>4, <1>5

\* The leases stay what they are.
LEMMA LeasesKept ==
  ASSUME ClientTypeOK, LeaseInv, ExecutionInv, LedgerInv, Proceeds, Grows
  PROVE  LeaseInv' /\ LedgerInv'
<1>1. emitted' = emitted
  BY Zenon DEF Proceeds
<1>2. \A w \in Worker : Goes(w) \/ Starts(w) \/ Claims(w)
  BY Zenon DEF Proceeds
<1>3. lastToken \in Nat /\ lastToken' \in Nat /\ \A t \in 1..lastToken : t \in 1..lastToken'
  BY DEF Grows
<1>4. ASSUME NEW w \in Worker, Busy(w)', ~ Starts(w)
      PROVE  /\ Busy(w) /\ SameLease(client'[w], client[w]) /\ client[w].token \in 1..lastToken
             /\ client'[w].phase = "claiming" => client[w].phase = "claiming"
  BY Zenon, <1>2, <1>4 DEF Goes, Claims, Busy, LeaseInv
<1>5. ASSUME NEW w \in Worker, Starts(w)
      PROVE  /\ client'[w].job \in Job /\ client'[w].token = lastToken + 1
             /\ client'[w].token \in 1..lastToken' /\ Of(client[w].token)' = {}
  <2>1. client'[w].job \in Job /\ client'[w].token = lastToken + 1 /\ lastToken' = lastToken + 1
    BY Zenon, <1>5 DEF Starts
  <2>2. \A b \in emitted : b.id[1] # lastToken + 1
    BY <1>3 DEF ExecutionInv
  <2> QED BY <1>1, <1>3, <2>1, <2>2 DEF Of
<1>6. LeaseInv'
  <2> SUFFICES ASSUME NEW w \in Worker, Busy(w)'
      PROVE  /\ client'[w].job \in Job /\ client'[w].token \in 1..lastToken'
             /\ \A v \in Worker : (Busy(v)' /\ client'[v].token = client'[w].token) => v = w
             /\ client'[w].phase = "claiming" => Of(client[w].token)' = {}
             /\ \A b \in Of(client[w].token)' :
                  /\ b.worker = w /\ b.job = client'[w].job /\ b.sequence < client'[w].next
                  /\ b.checks \cap client'[w].todo = {}
    BY Zenon DEF LeaseInv
  <2>1. ASSUME NEW v \in Worker, Busy(v)', client'[v].token = client'[w].token PROVE v = w
    <3>1. CASE Starts(v) /\ Starts(w)
      BY Zenon, <3>1 DEF Proceeds
    <3>2. CASE ~ Starts(v) /\ ~ Starts(w)
      BY <1>4, <2>1, <3>2 DEF SameLease, LeaseInv
    <3>3. CASE ~ (Starts(v) <=> Starts(w))
      BY <1>3, <1>4, <1>5, <2>1, <3>3 DEF SameLease
    <3> QED BY Zenon, <3>1, <3>2, <3>3
  <2>2. CASE Starts(w)
    BY Zenon, <1>5, <2>1, <2>2
  <2>3. CASE ~ Starts(w)
    <3>1. Busy(w) /\ SameLease(client'[w], client[w])
          /\ (client'[w].phase = "claiming" => client[w].phase = "claiming")
      BY Zenon, <1>4, <2>3
    <3>2. Of(client[w].token)' = Of(client[w].token)
      BY Zenon, <1>1, <3>1 DEF SameLease, Of
    <3> QED BY <1>3, <2>1, <3>1, <3>2 DEF LeaseInv, SameLease
  <2> QED BY Zenon, <2>2, <2>3
<1>7. LedgerInv'
  <2> SUFFICES ASSUME NEW w \in Worker, client'[w].phase \in {"running", "emitting"}
      PROVE  /\ client'[w].job \in ledger'[w]
             /\ \A b \in emitted : (b.worker = w /\ b.job = client'[w].job) => b.id[1] = client'[w].token
    BY Zenon, <1>1 DEF LedgerInv
  <2>1. CASE Goes(w)
    BY Zenon, <2>1 DEF LedgerInv, Goes, Busy, SameLease, Proceeds
  <2>2. CASE Claims(w)
    BY Zenon, <2>2 DEF Claims, SameLease, ExecutionInv
  <2> QED BY Zenon, <1>2, <2>1, <2>2 DEF Starts
<1> QED BY Zenon, <1>6, <1>7

\* The executions' batches are new to the evidence that is accepted meanwhile.
LEMMA ExecutionsKept ==
  ASSUME ClientTypeOK, LeaseInv, ProgressInv, ExecutionInv, Ordered, Proceeds, Grows
  PROVE  ProgressInv' /\ ExecutionInv'
<1>1. /\ emitted' = emitted
      /\ \A w \in Worker : ledger[w] \subseteq ledger'[w] /\ (Goes(w) \/ Starts(w) \/ Claims(w))
  BY Zenon DEF Proceeds
<1>2. \A t : Of(t)' = Of(t) /\ \A n : Before(n, t)' = Before(n, t)
  BY Zenon, SameExecutions DEF Grows
<1>3. \A b \in emitted : b \in AnyBatch /\ b.job \in Job /\ b.sequence \in Nat /\ b.worker \in Worker
  BY Zenon DEF ClientTypeOK, AnyBatch
<1>4. ASSUME NEW c \in batches', c \notin batches
      PROVE  c.job \in Job /\ c.sequence = LastSequence(c.job) + 1 /\ LastSequence(c.job) \in Nat
  BY Zenon, <1>4 DEF Proceeds, Accepted, AnyBatch, Ordered
<1>5. ASSUME NEW c \in batches', c \notin batches, NEW b \in emitted, b.job = c.job
      PROVE  ~ Before(c.sequence, b.id[1])
  <2>1. PICK p \in Of(b.id[1]) : p.sequence <= LastSequence(b.job) + 1
    BY Zenon DEF ExecutionInv
  <2>2. p \in emitted /\ p.sequence \in Nat
    BY Zenon, <1>3 DEF Of
  <2>3. ~ (c.sequence < p.sequence)
    BY <1>4, <1>5, <2>1, <2>2
  <2> QED BY Zenon, <2>1, <2>3 DEF Before
<1>6. ExecutionInv'
  <2> SUFFICES ASSUME NEW b \in emitted
      PROVE  /\ b.id = <<b.id[1], b.sequence>> /\ b.id[1] \in 1..lastToken'
             /\ b.job \in ledger'[b.worker]
             /\ \A c \in Of(b.id[1])' :
                  /\ c.job = b.job
                  /\ c # b => c.sequence # b.sequence /\ c.checks \cap b.checks = {}
                  /\ \A n \in (b.sequence)..(c.sequence) : \E p \in Of(b.id[1])' : p.sequence = n
             /\ \E p \in Of(b.id[1])' : p.sequence <= LastSequence(b.job)' + 1
             /\ \A c \in batches' : (c.job = b.job /\ Before(c.sequence, b.id[1])') => c.checks \cap b.checks = {}
    BY Zenon, <1>1 DEF ExecutionInv
  <2>1. /\ b.id = <<b.id[1], b.sequence>> /\ b.id[1] \in 1..lastToken' /\ b.job \in ledger'[b.worker]
    BY <1>1, <1>3 DEF ExecutionInv, Grows
  <2>2. \A c \in Of(b.id[1]) :
          /\ c.job = b.job
          /\ c # b => c.sequence # b.sequence /\ c.checks \cap b.checks = {}
          /\ \A n \in (b.sequence)..(c.sequence) : \E p \in Of(b.id[1]) : p.sequence = n
    BY Zenon DEF ExecutionInv
  <2>3. \E p \in Of(b.id[1]) : p.sequence <= LastSequence(b.job)' + 1
    <3>1. PICK p \in Of(b.id[1]) : p.sequence <= LastSequence(b.job) + 1
      BY Zenon DEF ExecutionInv
    <3>2. p.sequence \in Nat /\ LastSequence(b.job) \in Nat /\ LastSequence(b.job)' \in Nat
          /\ LastSequence(b.job) <= LastSequence(b.job)'
      BY Zenon, <1>3 DEF Of, Ordered, Grows
    <3> QED BY <3>1, <3>2
  <2>4. ASSUME NEW c \in batches', c.job = b.job, Before(c.sequence, b.id[1])
        PROVE  c.checks \cap b.checks = {}
    BY Zenon, <1>5, <2>4 DEF ExecutionInv
  <2> QED BY Zenon, <1>2, <2>1, <2>2, <2>3, <2>4
<1>7. ProgressInv'
  <2> SUFFICES ASSUME NEW w \in Worker, Busy(w)'
      PROVE  /\ \/ Of(client[w].token)' = {} /\ client'[w].next <= LastSequence(client[w].job)' + 1
                \/ \E b \in Of(client[w].token)' : b.sequence + 1 = client'[w].next
             /\ \A c \in batches' :
                  (c.job = client'[w].job /\ c.sequence < client'[w].next /\ Before(c.sequence, client[w].token)')
                    => c.checks \cap client'[w].todo = {}
    BY Zenon DEF ProgressInv
  <2>0. CASE Starts(w)
    <3>1. PICK j \in Job : /\ client'[w].job = j /\ client'[w].next <= LastSequence(j) + 1
                           /\ \A c \in batches' : (c.job = j /\ c.sequence < client'[w].next)
                                                     => c.checks \cap client'[w].todo = {}
      BY Zenon, <2>0 DEF Starts
    <3>2. Of(client[w].token)' = {}
      <4>1. client'[w].token = lastToken + 1 /\ lastToken \in Nat
        BY Zenon, <2>0 DEF Starts, Grows
      <4>2. \A b \in emitted : b.id[1] # lastToken + 1
        BY <4>1 DEF ExecutionInv
      <4> QED BY Zenon, <1>1, <4>1, <4>2 DEF Of
    <3>3. client'[w].next <= LastSequence(client[w].job)' + 1
      <4>1. /\ LastSequence(j) \in Nat /\ LastSequence(j)' \in Nat /\ LastSequence(j) <= LastSequence(j)'
            /\ client'[w].next \in Nat
        BY Zenon DEF Ordered, Grows, Proceeds, ClientTypeOK, Client
      <4>2. LastSequence(client[w].job)' = LastSequence(j)'
        BY Zenon, <3>1 DEF LastSequence
      <4> QED BY <3>1, <4>1, <4>2
    <3> QED BY Zenon, <3>1, <3>2, <3>3
  <2> SUFFICES ASSUME ~ Starts(w)
      PROVE  /\ \/ Of(client[w].token)' = {} /\ client'[w].next <= LastSequence(client[w].job)' + 1
                \/ \E b \in Of(client[w].token)' : b.sequence + 1 = client'[w].next
             /\ \A c \in batches' :
                  (c.job = client'[w].job /\ c.sequence < client'[w].next /\ Before(c.sequence, client[w].token)')
                    => c.checks \cap client'[w].todo = {}
    BY Zenon, <2>0
  <2>1. Busy(w) /\ SameLease(client'[w], client[w])
    BY Zenon, <1>1 DEF Goes, Claims, Busy
  <2>2. Of(client[w].token)' = Of(client[w].token)
    BY Zenon, <1>1, <2>1 DEF Of, SameLease
  <2>3. client[w].job \in Job /\ client[w].next \in Nat /\ \A b \in Of(client[w].token) : b.job = client[w].job
    BY Zenon, <2>1 DEF LeaseInv, ClientTypeOK, Client
  <2>4. /\ LastSequence(client[w].job) \in Nat
        /\ \A j \in Job : j = client[w].job => LastSequence(j)' \in Nat /\ LastSequence(j) <= LastSequence(j)'
    BY Zenon, <2>3 DEF Ordered, Grows
  <2>5. LastSequence(client[w].job)' \in Nat /\ LastSequence(client[w].job) <= LastSequence(client[w].job)'
    BY Zenon, <2>1, <2>3, <2>4 DEF SameLease, LastSequence
  <2>a. \/ Of(client[w].token) = {} /\ client[w].next <= LastSequence(client[w].job) + 1
        \/ \E b \in Of(client[w].token) : b.sequence + 1 = client[w].next
    BY Zenon, <2>1 DEF ProgressInv
  <2>6. \/ Of(client[w].token) = {} /\ client[w].next <= LastSequence(client[w].job)' + 1
        \/ \E b \in Of(client[w].token) : b.sequence + 1 = client[w].next
    <3>1. client[w].next <= LastSequence(client[w].job) + 1 => client[w].next <= LastSequence(client[w].job)' + 1
      BY <2>3, <2>4, <2>5
    <3> QED BY Zenon, <2>a, <3>1
  <2>7. ASSUME NEW c \in batches', c.job = client[w].job, c.sequence < client[w].next,
               Before(c.sequence, client[w].token)
        PROVE  c.checks \cap client[w].todo = {}
    <3>1. CASE c \in batches
      BY Zenon, <2>1, <2>7, <3>1 DEF ProgressInv
    <3>2. CASE c \notin batches
      <4>1. c.sequence = LastSequence(client[w].job) + 1
        BY Zenon, <1>4, <2>7, <3>2
      <4>2. Of(client[w].token) # {}
        <5>1. ~ (client[w].next <= LastSequence(client[w].job) + 1)
          BY <2>3, <2>4, <2>7, <4>1
        <5> QED BY Zenon, <2>a, <5>1
      <4>3. PICK b \in emitted : b.id[1] = client[w].token /\ b.job = client[w].job
        BY Zenon, <2>3, <4>2 DEF Of
      <4> QED BY Zenon, <1>5, <2>7, <3>2, <4>3
    <3> QED BY Zenon, <3>1, <3>2
  <2>8. \A c \in batches' : Before(c.sequence, client[w].token)' => Before(c.sequence, client[w].token)
    BY Zenon, <2>2 DEF Before
  <2> QED BY Zenon, <2>1, <2>2, <2>6, <2>7, <2>8 DEF SameLease
<1> QED BY Zenon, <1>6, <1>7

\* What a message says stays true.
LEMMA MessageKept ==
  ASSUME Proceeds, Grows, NEW m, MessageOK(m)
  PROVE  MessageOK(m)'
<1>1. emitted' = emitted /\ \A t \in 1..lastToken : Executing(t)' => Executing(t)
  BY Zenon, SameExecutions DEF Proceeds, Grows
<1>2. \A t \in 1..lastToken : t \in 1..lastToken'
  BY DEF Grows
<1> QED BY Zenon, <1>1, <1>2 DEF MessageOK

\* An accepted result stays.
LEMMA ResultsStay ==
  ASSUME ResultsInv, Grows, NEW j \in Job, jobs[j].result # Null
  PROVE  jobs'[j] = jobs[j]
BY Zenon DEF ResultsInv, Grows

\* What waits in the outboxes.
LEMMA OutboxesKept ==
  ASSUME ClientTypeOK, OutboxInv, Proceeds, Grows
  PROVE  OutboxInv'
<1> SUFFICES ASSUME NEW w \in Worker, NEW i \in 1..Len(outbox'[w])
    PROVE  /\ MessageOK(outbox[w][i])'
           /\ outbox'[w][i].kind = "completion" => outbox'[w][i].receipt.worker = w
           /\ \A p \in Needs(outbox[w][i])' :
                p \in batches' \/ \E k \in 1..(i-1) : outbox'[w][k] = Evidence(p)
  BY Zenon DEF OutboxInv
<1>1. outbox[w] \in Seq(AnyMessage) /\ (\A m : Needs(m)' = Needs(m)) /\ batches \subseteq batches'
  BY Zenon, SameExecutions DEF ClientTypeOK, Grows
<1>0. ASSUME NEW m, m = outbox'[w][i], MessageOK(m)' PROVE MessageOK(outbox[w][i])' /\ Needs(outbox[w][i])' = Needs(m)
  BY Zenon, <1>0, <1>1 DEF MessageOK, Needs
<1>2. CASE outbox'[w] = outbox[w]
  <2>1. PICK m : m = outbox[w][i]
    BY Zenon
  <2>2. /\ MessageOK(m) /\ (m.kind = "completion" => m.receipt.worker = w)
        /\ \A p \in Needs(m) : p \in batches \/ \E k \in 1..(i-1) : outbox[w][k] = Evidence(p)
    BY Zenon, <1>2, <2>1 DEF OutboxInv
  <2>3. MessageOK(m)' /\ Needs(m)' = Needs(m) /\ m = outbox'[w][i]
    BY Zenon, <1>1, <1>2, <2>1, <2>2, MessageKept
  <2>4. MessageOK(outbox[w][i])' /\ Needs(outbox[w][i])' = Needs(m)
    BY Zenon, <2>3 DEF MessageOK, Needs
  <2> QED BY Zenon, <1>1, <1>2, <2>2, <2>3, <2>4
<1>3. CASE Drops(w)
  <2>0. outbox[w] # <<>> /\ outbox'[w] = Tail(outbox[w])
        /\ (Head(outbox[w]).kind = "evidence" => Head(outbox[w]).batch \in batches')
    BY Zenon, <1>3 DEF Drops
  <2>1. PICK m : m = outbox[w][i + 1]
    BY Zenon
  <2>2. i + 1 \in 1..Len(outbox[w]) /\ m = outbox'[w][i] /\ i \in Nat /\ (i + 1) - 1 = i
    BY <1>1, <2>0, <2>1, TailItems
  <2>3. /\ MessageOK(m) /\ (m.kind = "completion" => m.receipt.worker = w)
        /\ \A p \in Needs(m) : p \in batches \/ \E k \in 1..i : outbox[w][k] = Evidence(p)
    <3>1. PICK n : n = i + 1
      BY Zenon
    <3>2. n \in 1..Len(outbox[w]) /\ n - 1 = i /\ m = outbox[w][n]
      BY Zenon, <2>1, <2>2, <3>1
    <3> QED BY Zenon, <3>2 DEF OutboxInv
  <2>4. MessageOK(m)' /\ Needs(m)' = Needs(m)
    BY Zenon, <1>1, <2>3, MessageKept
  <2>5. MessageOK(outbox[w][i])' /\ Needs(outbox[w][i])' = Needs(m)
    BY Zenon, <2>2, <2>4 DEF MessageOK, Needs
  <2>6. ASSUME NEW p \in Needs(m)
        PROVE  p \in batches' \/ \E k \in 1..(i-1) : outbox'[w][k] = Evidence(p)
    <3>1. CASE p \in batches
      BY Zenon, <1>1, <3>1
    <3>2. CASE \E k \in 1..i : outbox[w][k] = Evidence(p)
      <4>1. PICK k \in 1..i : outbox[w][k] = Evidence(p)
        BY Zenon, <3>2
      <4>2. CASE k = 1
        BY <1>1, <2>0, <4>1, <4>2, TailItems DEF Evidence
      <4>3. CASE k # 1
        <5>1. k \in 1..Len(outbox[w]) /\ k - 1 \in 1..(i-1)
          BY <1>1, <2>2, <4>3, TailItems
        <5>2. outbox'[w][k - 1] = Evidence(p)
          BY Zenon, <1>1, <2>0, <4>1, <4>3, <5>1, TailItems
        <5> QED BY Zenon, <5>1, <5>2
      <4> QED BY Zenon, <4>2, <4>3
    <3> QED BY Zenon, <2>3, <3>1, <3>2
  <2> QED BY Zenon, <2>2, <2>3, <2>5, <2>6
<1>4. CASE Queues(w)
  <2>1. PICK m \in AnyMessage :
          /\ outbox'[w] = Append(outbox[w], m)
          /\ m.kind = "completion" /\ m.receipt.worker = w /\ MessageOK(m)'
          /\ \A p \in Needs(m) : p \in batches \/ \E k \in 1..Len(outbox[w]) : outbox[w][k] = Evidence(p)
    BY Zenon, <1>4 DEF Queues
  <2>2. /\ Len(outbox[w]) \in Nat /\ Len(outbox'[w]) = Len(outbox[w]) + 1 /\ outbox'[w][Len(outbox[w]) + 1] = m
        /\ \A k \in 1..Len(outbox[w]) : outbox'[w][k] = outbox[w][k]
    BY <1>1, <2>1, AppendItems
  <2>3. CASE i = Len(outbox[w]) + 1
    <3>1. m = outbox'[w][i] /\ i - 1 = Len(outbox[w])
      BY <2>2, <2>3
    <3>2. MessageOK(outbox[w][i])' /\ Needs(outbox[w][i])' = Needs(m)
      BY Zenon, <1>0, <2>1, <3>1
    <3> QED BY <1>1, <2>1, <2>2, <3>1, <3>2
  <2>4. CASE i # Len(outbox[w]) + 1
    <3>1. i \in 1..Len(outbox[w]) /\ \A k \in 1..(i-1) : k \in 1..Len(outbox[w])
      BY <2>2, <2>4
    <3>2. PICK x : x = outbox[w][i]
      BY Zenon
    <3>3. /\ MessageOK(x) /\ (x.kind = "completion" => x.receipt.worker = w) /\ x = outbox'[w][i]
          /\ \A p \in Needs(x) : p \in batches \/ \E k \in 1..(i-1) : outbox[w][k] = Evidence(p)
      BY Zenon, <2>2, <3>1, <3>2 DEF OutboxInv
    <3>4. MessageOK(outbox[w][i])' /\ Needs(outbox[w][i])' = Needs(x)
      BY Zenon, <1>0, <3>3, MessageKept
    <3> QED BY Zenon, <1>1, <2>2, <3>1, <3>3, <3>4
  <2> QED BY Zenon, <2>3, <2>4
<1> QED BY Zenon, <1>2, <1>3, <1>4 DEF Proceeds

\* What may still arrive.
LEMMA LateKept ==
  ASSUME Open, ClientTypeOK, OutboxInv, LateInv, ResultsInv, Proceeds, Grows
  PROVE  LateInv'
<1>1. /\ LateMoves /\ late' \subseteq AnyRequest /\ batches \subseteq batches'
      /\ lastToken \in Nat /\ lastToken' \in Nat /\ lastToken <= lastToken'
  BY Zenon DEF Proceeds, Grows, ClientTypeOK
<1> SUFFICES ASSUME NEW m \in late'
    PROVE  /\ m.kind \in {"evidence", "completion"} => MessageOK(m)' /\ Needs(m)' \subseteq batches'
           /\ m.kind = "completion" =>
                \/ jobs'[m.receipt.job].result = m.receipt.id
                \/ \E i \in 1..Len(outbox'[m.receipt.worker]) : outbox'[m.receipt.worker][i] = m
           /\ m.kind = "renewal" => m.token \in 1..lastToken'
  BY Zenon DEF LateInv
<1>2. m.kind = "renewal" => m.token \in 1..lastToken'
  <2>1. m.kind = "renewal" => m.token \in 1..lastToken
    BY Zenon, <1>1 DEF LateMoves, LateInv
  <2> QED BY <1>1, <2>1
<1>3. m.kind \in {"evidence", "completion"} => Due(m)
  BY Zenon, <1>1 DEF LateMoves, Due
<1>4. m.kind \in {"evidence", "completion"} => MessageOK(m)' /\ Needs(m)' \subseteq batches'
  BY Zenon, <1>1, <1>3, DueFacts, MessageKept, SameExecutions
<1>5. ASSUME m.kind = "completion"
      PROVE  \/ jobs'[m.receipt.job].result = m.receipt.id
             \/ \E i \in 1..Len(outbox'[m.receipt.worker]) : outbox'[m.receipt.worker][i] = m
  <2>1. m.receipt \in AnyReceipt /\ m.receipt.job \in Job /\ m.receipt.worker \in Worker /\ m.receipt.id # Null
    BY Zenon, <1>1, <1>5, MessageFields, ReceiptsAssumption DEF AnyReceipt, Open
  <2>2. jobs[m.receipt.job].result = m.receipt.id => jobs'[m.receipt.job].result = m.receipt.id
    BY Zenon, <2>1, ResultsStay
  <2>3. \/ jobs[m.receipt.job].result = m.receipt.id
        \/ \E i \in 1..Len(outbox[m.receipt.worker]) : outbox[m.receipt.worker][i] = m
    <3>1. CASE m \in late
      BY Zenon, <1>5, <3>1 DEF LateInv
    <3>2. ASSUME NEW w \in Worker, AtHead(w, m)
          PROVE  \E i \in 1..Len(outbox[m.receipt.worker]) : outbox[m.receipt.worker][i] = m
      BY Zenon, <1>5, <3>2, OutboxItems DEF AtHead, OutboxInv
    <3> QED BY Zenon, <1>5, <3>1, <3>2, <1>1 DEF LateMoves
  <2>4. ASSUME NEW i \in 1..Len(outbox[m.receipt.worker]), outbox[m.receipt.worker][i] = m
        PROVE  \/ jobs[m.receipt.job].result = m.receipt.id
               \/ \E k \in 1..Len(outbox'[m.receipt.worker]) : outbox'[m.receipt.worker][k] = m
    BY Zenon, <1>5, <2>1, <2>4, MessagesStay DEF Drops
  <2> QED BY Zenon, <2>2, <2>3, <2>4
<1> QED BY Zenon, <1>2, <1>4, <1>5

\* Answers that are awaited.
LEMMA AwaitKept ==
  ASSUME Open, ClientTypeOK, AwaitInv, ResultsInv, Proceeds, Grows
  PROVE  AwaitInv'
<1> SUFFICES ASSUME NEW w \in Worker, client'[w].awaiting
    PROVE  /\ Forwarding(w)' /\ outbox'[w] # <<>> /\ Head(outbox'[w]).kind = "completion"
           /\ Head(outbox'[w]).receipt \in projections' \cup projected'
           /\ jobs'[Head(outbox'[w]).receipt.job].result = Head(outbox'[w]).receipt.id
  BY Zenon DEF AwaitInv
<1>1. Waits(w) /\ projected \subseteq projected'
  BY Zenon DEF Proceeds
<1>2. Forwarding(w)' /\ outbox'[w] = outbox[w]
  BY Zenon, <1>1 DEF Waits
<1>3. CASE client[w].awaiting /\ projections \subseteq projections' \cup projected'
  <2>1. /\ outbox[w] # <<>> /\ Head(outbox[w]).kind = "completion"
        /\ Head(outbox[w]).receipt \in projections \cup projected
        /\ jobs[Head(outbox[w]).receipt.job].result = Head(outbox[w]).receipt.id
    BY Zenon, <1>3 DEF AwaitInv
  <2>2. Head(outbox[w]).receipt.job \in Job /\ Head(outbox[w]).receipt.id # Null
    <3>1. Head(outbox[w]) \in AnyRequest
      BY Zenon, <2>1, OutboxItems DEF AnyRequest
    <3> QED BY Zenon, <2>1, <3>1, MessageFields, ReceiptsAssumption DEF AnyReceipt, Open
  <2>3. jobs'[Head(outbox[w]).receipt.job] = jobs[Head(outbox[w]).receipt.job]
    BY Zenon, <2>1, <2>2, ResultsStay
  <2> QED BY Zenon, <1>1, <1>2, <1>3, <2>1, <2>3
<1>4. CASE \E m \in AnyMessage :
             /\ AtHead(w, m) /\ m.kind = "completion" /\ m.receipt \in projections'
             /\ jobs'[m.receipt.job].result = m.receipt.id
  BY Zenon, <1>2, <1>4 DEF AtHead
<1> QED BY Zenon, <1>1, <1>3, <1>4 DEF Waits

\* The results that the server holds.
LEMMA ResultsKept ==
  ASSUME Open, ClientTypeOK, OutboxInv, LateInv, ResultsInv, Proceeds, Grows
  PROVE  ResultsInv'
<1>1. ASSUME NEW j \in Job, jobs'[j].result # jobs[j].result
      PROVE  \E m \in AnyMessage : Due(m) /\ Commits(m, j)
  BY Zenon, <1>1 DEF Proceeds
<1>2. \A t \in 1..lastToken : Executing(t)' => Executing(t)
  BY Zenon, SameExecutions DEF Grows
<1>3. \A t \in 1..lastToken : t \in 1..lastToken'
  BY DEF Grows
<1> SUFFICES ASSUME NEW j \in Job, jobs'[j].result # Null
    PROVE  /\ jobs'[j].status = "completed" /\ jobs'[j].result \in 1..lastToken'
           /\ ~ Executing(jobs[j].result)'
           /\ \A k \in Job : jobs'[k].result = jobs'[j].result => k = j
  BY Zenon DEF ResultsInv
<1>4. CASE jobs'[j].result = jobs[j].result
  <2>1. jobs'[j] = jobs[j] /\ jobs[j].result # Null
    BY Zenon, <1>4, ResultsStay
  <2>2. /\ jobs[j].status = "completed" /\ jobs[j].result \in 1..lastToken /\ ~ Executing(jobs[j].result)
        /\ \A k \in Job : jobs[k].result = jobs[j].result => k = j
    BY Zenon, <2>1 DEF ResultsInv
  <2>3. ~ Executing(jobs[j].result)'
    <3>1. PICK t \in 1..lastToken : t = jobs[j].result /\ ~ Executing(t)
      BY Zenon, <2>2
    <3>2. ~ Executing(t)' /\ t = jobs'[j].result
      BY Zenon, <1>2, <2>1, <3>1
    <3> QED BY Zenon, <3>2 DEF Executing
  <2>4. ASSUME NEW k \in Job, jobs'[k].result = jobs'[j].result PROVE k = j
    <3>1. CASE jobs'[k].result = jobs[k].result
      BY Zenon, <2>1, <2>2, <2>4, <3>1
    <3>2. CASE jobs'[k].result # jobs[k].result
      BY <1>1, <2>1, <2>4, <3>2 DEF Commits
    <3> QED BY Zenon, <3>1, <3>2
  <2> QED BY Zenon, <1>3, <2>1, <2>2, <2>3, <2>4
<1>5. CASE jobs'[j].result # jobs[j].result
  <2>1. PICK m \in AnyMessage : Due(m) /\ Commits(m, j)
    BY Zenon, <1>1, <1>5
  <2>2. m.kind = "completion" /\ jobs'[j].result = m.receipt.id
    BY Zenon, <2>1 DEF Commits
  <2>3. MessageOK(m)
    BY Zenon, <2>1, <2>2, DueFacts
  <2>4. m.receipt.id \in 1..lastToken /\ ~ Executing(m.receipt.id)
    BY Zenon, <2>2, <2>3 DEF MessageOK
  <2>5. ~ Executing(jobs[j].result)'
    <3>1. PICK t \in 1..lastToken : t = m.receipt.id /\ ~ Executing(t)
      BY Zenon, <2>4
    <3>2. ~ Executing(t)' /\ t = jobs'[j].result
      BY Zenon, <1>2, <2>2, <3>1
    <3> QED BY Zenon, <3>2 DEF Executing
  <2>6. jobs'[j].status = "completed" /\ \A k \in Job \ {j} : jobs'[k].result # m.receipt.id
    BY Zenon, <2>1 DEF Commits
  <2> QED BY Zenon, <1>3, <2>2, <2>4, <2>5, <2>6
<1> QED BY Zenon, <1>4, <1>5

\* Queued evidence is in the outbox or on the server, and all of it is on the
\* server when its result is.
LEMMA EvidenceSafe ==
  ASSUME ClientTypeOK, OutboxInv, LateInv, ResultsInv, EvidenceNotLost, EvidenceBeforeResult,
         Proceeds, Grows
  PROVE  EvidenceNotLost' /\ EvidenceBeforeResult'
<1>1. emitted' = emitted /\ batches \subseteq batches' /\ emitted \subseteq AnyBatch
  BY Zenon DEF Proceeds, Grows, ClientTypeOK
<1>2. EvidenceNotLost'
  <2> SUFFICES ASSUME NEW b \in emitted
      PROVE  b \in batches' \/ \E i \in DOMAIN outbox'[b.worker] :
                                 outbox'[b.worker][i] = [kind |-> "evidence", batch |-> b]
    BY Zenon, <1>1 DEF EvidenceNotLost
  <2>1. b.worker \in Worker /\ outbox[b.worker] \in Seq(AnyMessage)
    BY Zenon, <1>1 DEF AnyBatch, ClientTypeOK
  <2>2. ASSUME NEW i \in DOMAIN outbox[b.worker], outbox[b.worker][i] = [kind |-> "evidence", batch |-> b]
        PROVE  b \in batches' \/ \E k \in DOMAIN outbox'[b.worker] :
                                   outbox'[b.worker][k] = [kind |-> "evidence", batch |-> b]
    <3>1. i \in 1..Len(outbox[b.worker])
      BY <2>1
    <3>2. \/ \E k \in DOMAIN outbox'[b.worker] : outbox'[b.worker][k] = outbox[b.worker][i]
          \/ Drops(b.worker) /\ outbox[b.worker][i] = Head(outbox[b.worker])
      BY Zenon, <2>1, <3>1, MessagesStay
    <3>3. CASE Drops(b.worker) /\ outbox[b.worker][i] = Head(outbox[b.worker])
      <4>1. PICK m : m = Head(outbox[b.worker])
        BY Zenon
      <4>2. m.kind = "evidence" /\ m.batch = b
        BY <2>2, <3>3, <4>1
      <4>3. m.kind = "evidence" => m.batch \in batches'
        BY Zenon, <3>3, <4>1 DEF Drops
      <4> QED BY Zenon, <4>2, <4>3
    <3> QED BY Zenon, <2>2, <3>2, <3>3
  <2> QED BY Zenon, <1>1, <2>2 DEF EvidenceNotLost
<1>3. EvidenceBeforeResult'
  <2> SUFFICES ASSUME NEW j \in Job, jobs'[j].result # Null, NEW b \in emitted, b.job = j,
                      b.id[1] = jobs'[j].result
      PROVE  b \in batches'
    BY Zenon, <1>1 DEF EvidenceBeforeResult
  <2>1. CASE jobs'[j].result = jobs[j].result
    BY Zenon, <1>1, <2>1 DEF EvidenceBeforeResult
  <2>2. CASE jobs'[j].result # jobs[j].result
    <3>1. PICK m \in AnyMessage : Due(m) /\ Commits(m, j)
      BY Zenon, <2>2 DEF Proceeds
    <3>2. m.kind = "completion" /\ jobs'[j].result = m.receipt.id
      BY Zenon, <3>1 DEF Commits
    <3>3. Needs(m) \subseteq batches
      BY Zenon, <3>1, <3>2, DueFacts
    <3> QED BY Zenon, <1>1, <3>2, <3>3 DEF Needs, Of
  <2> QED BY Zenon, <2>1, <2>2
<1> QED BY Zenon, <1>2, <1>3

\* A batch that is accepted shares no check with one accepted before.
LEMMA ChecksSafe ==
  ASSUME ClientTypeOK, OutboxInv, LateInv, ExecutionInv, ChecksAcceptedOnce, Ordered, Proceeds
  PROVE  ChecksAcceptedOnce'
<1>1. ASSUME NEW b \in AnyBatch, Due(Evidence(b)), Accepted(b), NEW c \in batches, c.job = b.job, c # b
      PROVE  b.checks \cap c.checks = {}
  <2>1. /\ b \in emitted /\ b.sequence \in Nat /\ b \in Of(b.id[1])
        /\ \A p \in Of(b.id[1]) : p.sequence < b.sequence => p \in batches
    <3>1. MessageOK(Evidence(b)) /\ Needs(Evidence(b)) \subseteq batches
      BY Zenon, <1>1, DueFacts, EvidenceFields
    <3> QED BY Zenon, <3>1, EvidenceFields DEF MessageOK, Needs, Of, AnyBatch
  <2>2. c.sequence \in Nat /\ c.sequence < b.sequence
    BY <1>1, <2>1 DEF Ordered, Accepted
  <2>3. CASE Before(c.sequence, b.id[1])
    BY Zenon, <1>1, <2>1, <2>3 DEF ExecutionInv
  <2>4. CASE ~ Before(c.sequence, b.id[1])
    <3>1. PICK p \in Of(b.id[1]) : ~ (c.sequence < p.sequence)
      BY Zenon, <2>4 DEF Before
    <3>2. p \in emitted /\ p.id[1] = b.id[1] /\ p.sequence \in Nat
      BY Zenon, <3>1 DEF Of, ClientTypeOK, AnyBatch
    <3>3. c.sequence \in (p.sequence)..(b.sequence)
      BY <2>1, <2>2, <3>1, <3>2
    <3>4. PICK q \in Of(b.id[1]) : q.sequence = c.sequence
      BY <2>1, <3>2, <3>3 DEF ExecutionInv
    <3>5. q \in batches /\ q.job = b.job
      BY Zenon, <2>1, <2>2, <3>4 DEF ExecutionInv
    <3>6. q = c
      BY Zenon, <1>1, <3>4, <3>5 DEF Ordered
    <3> QED BY Zenon, <1>1, <2>1, <3>4, <3>6 DEF ExecutionInv
  <2> QED BY Zenon, <2>3, <2>4
<1>2. CASE batches' = batches
  BY Zenon, <1>2 DEF ChecksAcceptedOnce
<1>3. ASSUME NEW b \in AnyBatch, Due(Evidence(b)), Accepted(b) PROVE ChecksAcceptedOnce'
  <2>1. batches' = batches \cup {b}
    BY Zenon, <1>3 DEF Accepted
  <2>2. \A c \in batches : (c.job = b.job /\ c # b) => b.checks \cap c.checks = {}
    BY Zenon, <1>1, <1>3
  <2>3. \A c \in batches : (c.job = b.job /\ c # b) => c.checks \cap b.checks = {}
    BY Zenon, <2>2
  <2> QED BY Zenon, <2>1, <2>2, <2>3 DEF ChecksAcceptedOnce
<1> QED BY Zenon, <1>2, <1>3 DEF Proceeds

\* A result is in its scan, or its worker still holds the receipt.
LEMMA ReceiptsSafe ==
  ASSUME Open, ClientTypeOK, OutboxInv, LateInv, ResultsInv, ResultNotLost, Proceeds, Grows,
         \A j \in Job : jobs[j].result # Null => jobs[j].worker \in Worker
  PROVE  ResultNotLost'
<1> SUFFICES ASSUME NEW j \in Job, jobs'[j].result # Null
    PROVE  \/ \E r \in projected' : r.job = j
           \/ \E i \in DOMAIN outbox'[jobs'[j].worker] :
                /\ outbox'[jobs'[j].worker][i].kind = "completion"
                /\ outbox'[jobs'[j].worker][i].receipt.id = jobs'[j].result
  BY Zenon DEF ResultNotLost
<1>1. projected \subseteq projected'
  BY Zenon DEF Proceeds
<1>2. CASE jobs'[j].result = jobs[j].result
  <2>1. jobs'[j] = jobs[j] /\ jobs[j].result # Null
    BY Zenon, <1>2, ResultsStay
  <2>2. PICK w \in Worker : w = jobs[j].worker
    BY Zenon, <2>1
  <2>3. ASSUME NEW i \in DOMAIN outbox[w], outbox[w][i].kind = "completion",
               outbox[w][i].receipt.id = jobs[j].result
        PROVE  \/ \E r \in projected : r.job = j
               \/ \E k \in DOMAIN outbox'[w] : /\ outbox'[w][k].kind = "completion"
                                               /\ outbox'[w][k].receipt.id = jobs[j].result
    <3>1. i \in 1..Len(outbox[w]) /\ outbox[w][i] \in AnyRequest
      BY OutboxItems DEF AnyRequest
    <3>2. CASE \E k \in DOMAIN outbox'[w] : outbox'[w][k] = outbox[w][i]
      BY Zenon, <2>3, <3>2
    <3>3. CASE Drops(w) /\ outbox[w][i] = Head(outbox[w])
      <4>1. /\ outbox[w][i].receipt \in projected
            /\ jobs[outbox[w][i].receipt.job].result = jobs[j].result
        BY Zenon, <2>3, <3>3 DEF Drops
      <4>2. outbox[w][i].receipt.job \in Job
        BY Zenon, <2>3, <3>1, MessageFields DEF AnyReceipt
      <4>3. outbox[w][i].receipt.job = j
        BY Zenon, <2>1, <4>1, <4>2 DEF ResultsInv
      <4> QED BY Zenon, <4>1, <4>3
    <3> QED BY Zenon, <3>1, <3>2, <3>3, MessagesStay
  <2> QED BY Zenon, <1>1, <2>1, <2>2, <2>3 DEF ResultNotLost
<1>3. CASE jobs'[j].result # jobs[j].result
  <2>1. PICK m \in AnyMessage : Due(m) /\ Commits(m, j)
    BY Zenon, <1>3 DEF Proceeds
  <2>2. /\ m.kind = "completion" /\ jobs'[j].result = m.receipt.id /\ jobs'[j].worker = m.receipt.worker
        /\ outbox' = outbox /\ m.receipt.job = j /\ jobs[j].result # m.receipt.id
    BY Zenon, <2>1 DEF Commits
  <2>3. m.receipt.worker \in Worker
    BY Zenon, <2>1, <2>2, MessageFields DEF AnyRequest, AnyReceipt
  <2>4. \E i \in 1..Len(outbox[m.receipt.worker]) : outbox[m.receipt.worker][i] = m
    <3>1. CASE m \in late
      BY Zenon, <2>2, <3>1 DEF LateInv
    <3>2. ASSUME NEW w \in Worker, AtHead(w, m)
          PROVE  \E i \in 1..Len(outbox[m.receipt.worker]) : outbox[m.receipt.worker][i] = m
      <4>1. m = outbox[w][1] /\ 1 \in 1..Len(outbox[w])
        BY Zenon, <3>2, OutboxItems DEF AtHead
      <4>2. m.receipt.worker = w
        BY Zenon, <2>2, <4>1 DEF OutboxInv
      <4> QED BY Zenon, <4>1, <4>2
    <3> QED BY Zenon, <2>1, <3>1, <3>2 DEF Due
  <2>5. DOMAIN outbox[m.receipt.worker] = 1..Len(outbox[m.receipt.worker])
    <3>1. PICK v \in Worker : v = m.receipt.worker
      BY Zenon, <2>3
    <3>2. outbox[v] \in Seq(AnyMessage)
      BY Zenon, OutboxItems
    <3>3. DOMAIN outbox[v] = 1..Len(outbox[v])
      BY <3>2
    <3> QED BY Zenon, <3>1, <3>3
  <2> QED BY Zenon, <2>2, <2>4, <2>5
<1> QED BY Zenon, <1>2, <1>3

\* Every step but the one that queues evidence keeps the invariant.
LEMMA ProceedKeeps ==
  ASSUME Open, PInv, Ordered, Proceeds, Grows, ManifestInv',
         \A j \in Job : jobs[j].result # Null => jobs[j].worker \in Worker
  PROVE  PInv'
<1> USE DEF PInv
<1>1. LeaseInv' /\ LedgerInv'
  BY Zenon, LeasesKept
<1>2. ProgressInv' /\ ExecutionInv'
  BY Zenon, ExecutionsKept
<1>3. OutboxInv' /\ LateInv' /\ AwaitInv' /\ ResultsInv'
  BY Zenon, OutboxesKept, LateKept, AwaitKept, ResultsKept
<1>4. EvidenceNotLost' /\ EvidenceBeforeResult'
  BY Zenon, EvidenceSafe
<1>5. ChecksAcceptedOnce' /\ ResultNotLost'
  BY Zenon, ChecksSafe, ReceiptsSafe
<1>6. ExecutedOnce'
  BY Zenon DEF ExecutedOnce, Proceeds
<1>7. ClientTypeOK'
  BY Zenon DEF Proceeds
<1> QED BY Zenon, <1>1, <1>2, <1>3, <1>4, <1>5, <1>6, <1>7

-----------------------------------------------------------------------------

\* The batch b is signed and goes to the end of the outbox of w.
Emits(w, b) ==
  /\ client[w].phase = "running"
  /\ b \in AnyBatch /\ b.id = <<client[w].token, client[w].next>> /\ b.id[1] = client[w].token
  /\ b.worker = w /\ b.job = client[w].job /\ b.sequence = client[w].next
  /\ b.checks \subseteq client[w].todo
  /\ emitted' = emitted \cup {b}
  /\ outbox' \in [Worker -> Seq(AnyMessage)] /\ outbox'[w] = Append(outbox[w], Evidence(b))
  /\ client' \in [Worker -> Client] /\ client'[w].phase = "emitting" /\ ~ client'[w].awaiting
  /\ client'[w].job = client[w].job /\ client'[w].token = client[w].token
  /\ client'[w].next = client[w].next + 1 /\ client'[w].todo = client[w].todo \ b.checks
  /\ \A v \in Worker \ {w} : outbox'[v] = outbox[v] /\ client'[v] = client[v]
  /\ UNCHANGED <<jobs, batches, lastToken, projections, projected, ledger, late>>

\* A result that finds room in the outbox is queued.
LEMMA EmitStep ==
  ASSUME PInv, NEW w \in Worker, NEW c \in Check, EmitResult(w, c), ~ (Len(outbox[w]) >= MaxItems)
  PROVE  \E b : Emits(w, b)
<1> USE DEF PInv
<1>0. client \in [Worker -> Client] /\ client[w] \in Client /\ outbox \in [Worker -> Seq(AnyMessage)]
  BY Zenon DEF ClientTypeOK
<1>1. /\ client[w].phase = "running" /\ c \in client[w].todo
      /\ client' = [client EXCEPT ![w] = [client[w] EXCEPT !.phase = "emitting", !.next = client[w].next + 1,
                                                           !.todo = client[w].todo \ {c}]]
      /\ outbox' = [outbox EXCEPT ![w] = Append(outbox[w], Evidence(Batch(w, c)))]
      /\ emitted' = emitted \cup {Batch(w, c)}
      /\ UNCHANGED <<vars, ledger, late, projected>>
  <2>1. /\ client[w].phase = "running" /\ c \in client[w].todo
        /\ UNCHANGED <<vars, ledger, late, projected>>
    BY Zenon DEF EmitResult
  <2>2. /\ client' = [client EXCEPT ![w] = [client[w] EXCEPT !.phase = "emitting",
                                              !.next = client[w].next + 1, !.todo = client[w].todo \ {c}]]
        /\ outbox' = [outbox EXCEPT ![w] = Append(@, [kind |-> "evidence", batch |-> Batch(w, c)])]
        /\ emitted' = emitted \cup {Batch(w, c)}
    BY Zenon DEF EmitResult
  <2> QED BY Zenon, <2>1, <2>2 DEF Evidence
<1>2. client[w].job \in Job /\ ~ client[w].awaiting
  BY Zenon, <1>1 DEF LeaseInv, Busy, AwaitInv, Forwarding
<1>3. PICK b \in AnyBatch : /\ b = Batch(w, c)
                            /\ b.id = <<client[w].token, client[w].next>> /\ b.id[1] = client[w].token
                            /\ b.job = client[w].job /\ b.worker = w
                            /\ b.sequence = client[w].next /\ b.checks = {c}
  BY <1>0, <1>1, <1>2, BatchFields
<1>4. [client[w] EXCEPT !.phase = "emitting", !.next = client[w].next + 1, !.todo = client[w].todo \ {c}]
        \in Client
  <2>1. client[w].next + 1 \in Nat /\ client[w].todo \ {c} \in SUBSET Check /\ "emitting" \in Phase
    BY <1>0 DEF Client, Phase
  <2> QED BY Zenon, <1>0, <2>1, ClientSets
<1>5. client' \in [Worker -> Client] /\ \A v \in Worker \ {w} : client'[v] = client[v]
  BY Zenon, <1>0, <1>1, <1>4
<1>6. /\ client'[w].phase = "emitting" /\ client'[w].awaiting = client[w].awaiting
      /\ client'[w].job = client[w].job /\ client'[w].token = client[w].token
      /\ client'[w].next = client[w].next + 1 /\ client'[w].todo = client[w].todo \ {c}
  BY Zenon, <1>0, <1>1 DEF Client
<1>7. Append(outbox[w], Evidence(b)) \in Seq(AnyMessage)
  BY <1>0, <1>3, EvidenceFields
<1>8. /\ outbox' \in [Worker -> Seq(AnyMessage)] /\ outbox'[w] = Append(outbox[w], Evidence(b))
      /\ \A v \in Worker \ {w} : outbox'[v] = outbox[v]
  BY Zenon, <1>0, <1>1, <1>3, <1>7
<1>9. UNCHANGED <<jobs, batches, lastToken, projections, projected, ledger, late>>
  BY Zenon, <1>1 DEF vars, storeVars, threadVars
<1>10. Emits(w, b)
  BY Zenon, <1>1, <1>2, <1>3, <1>5, <1>6, <1>8, <1>9 DEF Emits
<1> QED BY Zenon, <1>10

\* Which executions there are stays, and one of them has one batch more, after
\* all it had.
LEMMA EmittedSets ==
  ASSUME ClientTypeOK, LeaseInv, NEW w \in Worker, NEW b, Emits(w, b)
  PROVE  /\ Busy(w) /\ client[w].token \in 1..lastToken /\ client[w].next \in Nat /\ client[w].job \in Job
         /\ \A v \in Worker : /\ Busy(v)' = Busy(v)
                              /\ client'[v].token = client[v].token /\ client'[v].job = client[v].job
                              /\ (Busy(v) /\ v # w) => client[v].token # client[w].token
         /\ \A t : Executing(t)' = Executing(t)
         /\ Executing(client[w].token)
         /\ \A t : Of(t)' = IF t = client[w].token THEN Of(t) \cup {b} ELSE Of(t)
         /\ \A p \in Of(client[w].token) :
              /\ p \in emitted /\ p \in AnyBatch /\ p.sequence \in Nat /\ p.sequence < client[w].next
              /\ p.worker = w /\ p.job = client[w].job /\ p # b /\ p.checks \cap client[w].todo = {}
<1>1. Busy(w) /\ Busy(w)' /\ client[w] \in Client
  BY Zenon DEF Emits, Busy, ClientTypeOK
<1>2. /\ client[w].token \in 1..lastToken /\ client[w].job \in Job
      /\ \A v \in Worker : (Busy(v) /\ client[v].token = client[w].token) => v = w
  BY Zenon, <1>1 DEF LeaseInv
<1>3. \A v \in Worker : /\ Busy(v)' = Busy(v)
                        /\ client'[v].token = client[v].token /\ client'[v].job = client[v].job
  BY <1>1 DEF Emits, Busy
<1>4. \A t : Executing(t)' = Executing(t)
  BY Zenon, <1>3 DEF Executing
<1>5. \A t : Of(t)' = IF t = client[w].token THEN Of(t) \cup {b} ELSE Of(t)
  BY Zenon DEF Of, Emits
<1>6. client[w].next \in Nat
  BY Zenon, <1>1 DEF Client
<1>7. ASSUME NEW p \in Of(client[w].token)
      PROVE  /\ p \in emitted /\ p \in AnyBatch /\ p.sequence \in Nat /\ p.sequence < client[w].next
             /\ p.worker = w /\ p.job = client[w].job /\ p # b /\ p.checks \cap client[w].todo = {}
  <2>1. p \in emitted /\ p \in AnyBatch /\ p.sequence \in Nat
    BY Zenon DEF Of, ClientTypeOK, AnyBatch
  <2>2. /\ p.sequence < client[w].next /\ p.worker = w /\ p.job = client[w].job
        /\ p.checks \cap client[w].todo = {}
    BY Zenon, <1>1 DEF LeaseInv
  <2> QED BY <1>6, <2>1, <2>2 DEF Emits
<1> QED BY Zenon, <1>1, <1>2, <1>3, <1>4, <1>5, <1>6, <1>7 DEF Executing

\* The lease goes on behind its new batch.
LEMMA EmitLeases ==
  ASSUME ClientTypeOK, LeaseInv, LedgerInv, NEW w \in Worker, NEW b, Emits(w, b)
  PROVE  LeaseInv' /\ LedgerInv'
<1>1. LeaseInv'
  <2> SUFFICES ASSUME NEW v \in Worker, Busy(v)'
      PROVE  /\ client'[v].job \in Job /\ client'[v].token \in 1..lastToken'
             /\ \A u \in Worker : (Busy(u)' /\ client'[u].token = client'[v].token) => u = v
             /\ client'[v].phase = "claiming" => Of(client[v].token)' = {}
             /\ \A p \in Of(client[v].token)' :
                  /\ p.worker = v /\ p.job = client'[v].job /\ p.sequence < client'[v].next
                  /\ p.checks \cap client'[v].todo = {}
    BY Zenon DEF LeaseInv
  <2>1. /\ Busy(v) /\ client'[v].job = client[v].job /\ client'[v].token = client[v].token
        /\ lastToken' = lastToken
    BY Zenon, EmittedSets DEF Emits
  <2>2. /\ client'[v].job \in Job /\ client'[v].token \in 1..lastToken'
        /\ \A u \in Worker : (Busy(u)' /\ client'[u].token = client'[v].token) => u = v
    BY <2>1, EmittedSets DEF LeaseInv
  <2>3. PICK t : t = client[v].token
    BY Zenon
  <2>4. Of(client[v].token)' = Of(t)'
    BY Zenon, <2>1, <2>3 DEF Of
  <2>5. CASE v = w
    <3>1. Of(t)' = Of(t) \cup {b} /\ client'[v].phase = "emitting"
      BY Zenon, <2>3, <2>5, EmittedSets DEF Emits
    <3>0. /\ client'[v].next = client[v].next + 1 /\ client'[v].todo = client[v].todo \ b.checks
          /\ b.worker = v /\ b.job = client[v].job /\ b.sequence = client[v].next
      BY Zenon, <2>5 DEF Emits
    <3>3. /\ client[v].next \in Nat
          /\ \A p \in Of(t) : /\ p.sequence \in Nat /\ p.sequence < client[v].next
                              /\ p.worker = v /\ p.job = client[v].job /\ p.checks \cap client[v].todo = {}
      BY Zenon, <2>3, <2>5, EmittedSets
    <3>2. ASSUME NEW p \in Of(t) \cup {b}
          PROVE  /\ p.worker = v /\ p.job = client'[v].job /\ p.sequence < client'[v].next
                 /\ p.checks \cap client'[v].todo = {}
      <4>1. CASE p = b
        BY <2>1, <3>0, <3>3, <4>1
      <4>2. CASE p \in Of(t)
        BY <2>1, <3>0, <3>3, <4>2
      <4> QED BY Zenon, <4>1, <4>2
    <3> QED BY Zenon, <2>2, <2>4, <3>1, <3>2
  <2>6. CASE v # w
    <3>1. t # client[w].token
      BY Zenon, <2>1, <2>3, <2>6, EmittedSets
    <3>2. Of(t)' = Of(t) /\ client'[v] = client[v]
      <4>1. Of(t)' = Of(t)
        BY Zenon, <3>1, EmittedSets
      <4> QED BY Zenon, <2>6, <4>1 DEF Emits
    <3> QED BY <2>1, <2>2, <2>3, <2>4, <3>2 DEF LeaseInv
  <2> QED BY Zenon, <2>5, <2>6
<1>2. LedgerInv'
  <2> SUFFICES ASSUME NEW v \in Worker, client'[v].phase \in {"running", "emitting"}
      PROVE  /\ client'[v].job \in ledger'[v]
             /\ \A p \in emitted' : (p.worker = v /\ p.job = client'[v].job) => p.id[1] = client'[v].token
    BY Zenon DEF LedgerInv
  <2>1. CASE v = w
    BY Zenon, <2>1 DEF LedgerInv, Emits
  <2>2. CASE v # w
    BY <2>2 DEF LedgerInv, Emits
  <2> QED BY Zenon, <2>1, <2>2
<1> QED BY Zenon, <1>1, <1>2

\* The execution is one batch further.
LEMMA EmitProgress ==
  ASSUME ClientTypeOK, LeaseInv, ProgressInv, Ordered, NEW w \in Worker, NEW b, Emits(w, b)
  PROVE  ProgressInv'
<1> SUFFICES ASSUME NEW v \in Worker, Busy(v)'
    PROVE  /\ \/ Of(client[v].token)' = {} /\ client'[v].next <= LastSequence(client[v].job)' + 1
              \/ \E p \in Of(client[v].token)' : p.sequence + 1 = client'[v].next
           /\ \A c \in batches' :
                (c.job = client'[v].job /\ c.sequence < client'[v].next /\ Before(c.sequence, client[v].token)')
                  => c.checks \cap client'[v].todo = {}
  BY Zenon DEF ProgressInv
<1>1. Busy(v) /\ client'[v].job = client[v].job /\ client'[v].token = client[v].token
  BY Zenon, EmittedSets
<1>2. batches' = batches
  BY Zenon DEF Emits
<1>3. LastSequence(client[v].job)' = LastSequence(client[v].job)
  BY Zenon, <1>1, <1>2 DEF LastSequence
<1>4. PICK t : t = client[v].token
  BY Zenon
<1>5. Of(client[v].token)' = Of(t)'
  BY Zenon, <1>1, <1>4 DEF Of
<1>6. CASE v = w
  <2>1. Of(t)' = Of(t) \cup {b}
    BY Zenon, <1>4, <1>6, EmittedSets
  <2>2. /\ b.sequence = client[v].next /\ client'[v].next = client[v].next + 1
        /\ client'[v].todo = client[v].todo \ b.checks
    BY Zenon, <1>6 DEF Emits
  <2>3. \E p \in Of(client[v].token)' : p.sequence + 1 = client'[v].next
    BY Zenon, <1>5, <2>1, <2>2
  <2>4. ASSUME NEW c \in batches, c.job = client[v].job, Before(c.sequence, client[v].token)'
        PROVE  c.checks \cap client'[v].todo = {}
    <3>1. \A p \in Of(t) \cup {b} : c.sequence < p.sequence
      BY Zenon, <1>5, <2>1, <2>4 DEF Before
    <3>2. c.sequence < client[v].next /\ Before(c.sequence, client[v].token)
      BY Zenon, <1>4, <2>2, <3>1 DEF Before
    <3>3. c.checks \cap client[v].todo = {}
      BY Zenon, <1>1, <2>4, <3>2 DEF ProgressInv
    <3> QED BY Zenon, <2>2, <3>3
  <2> QED BY Zenon, <1>1, <1>2, <2>3, <2>4
<1>7. CASE v # w
  <2>1. t # client[w].token
    BY Zenon, <1>1, <1>4, <1>7, EmittedSets
  <2>2. Of(t)' = Of(t)
    <3>1. \A u : Of(u)' = IF u = client[w].token THEN Of(u) \cup {b} ELSE Of(u)
      BY Zenon, EmittedSets
    <3> QED BY <2>1, <3>1
  <2>3. client'[v] = client[v]
    BY Zenon, <1>7 DEF Emits
  <2>4. \A n : Before(n, client[v].token)' = Before(n, client[v].token)
    BY Zenon, <1>4, <1>5, <2>2 DEF Before
  <2> QED BY Zenon, <1>1, <1>2, <1>3, <1>4, <1>5, <2>2, <2>3, <2>4 DEF ProgressInv
<1> QED BY Zenon, <1>6, <1>7

\* The batches of an execution stay contiguous and disjoint.
LEMMA EmitExecutions ==
  ASSUME ClientTypeOK, LeaseInv, ProgressInv, ExecutionInv, LedgerInv, Ordered,
         NEW w \in Worker, NEW b, Emits(w, b)
  PROVE  ExecutionInv'
<1>a. PICK t : t = client[w].token
  BY Zenon
<1>0. /\ Busy(w) /\ t \in 1..lastToken /\ client[w].next \in Nat /\ client[w].job \in Job
      /\ \A s : Of(s)' = IF s = t THEN Of(s) \cup {b} ELSE Of(s)
      /\ \A p \in Of(t) : /\ p \in emitted /\ p.sequence \in Nat /\ p.sequence < client[w].next
                          /\ p.job = client[w].job /\ p # b /\ p.checks \cap client[w].todo = {}
  BY <1>a, EmittedSets
<1>1. /\ b.id = <<t, client[w].next>> /\ b.id[1] = t /\ b.worker = w /\ b.job = client[w].job
      /\ b.sequence = client[w].next /\ b.checks \subseteq client[w].todo
      /\ emitted' = emitted \cup {b} /\ batches' = batches /\ ledger' = ledger /\ lastToken' = lastToken
      /\ client[w].phase = "running"
  BY Zenon, <1>a DEF Emits
<1>2. Of(t)' = Of(t) \cup {b} /\ \A s : s # t => Of(s)' = Of(s)
  BY Zenon, <1>0
<1>3. \A j : LastSequence(j)' = LastSequence(j)
  BY Zenon, <1>1 DEF LastSequence
<1>4. \A p \in Of(t) : p.sequence # b.sequence /\ p.checks \cap b.checks = {} /\ b.checks \cap p.checks = {}
  BY <1>0, <1>1
<1>5. Of(t) = {} \/ \E d \in Of(t) : d.sequence + 1 = b.sequence
  BY Zenon, <1>a, <1>0, <1>1 DEF ProgressInv
<1>6. \E p \in Of(t) \cup {b} : p.sequence <= LastSequence(b.job) + 1
  <2>1. CASE Of(t) = {}
    <3>1. client[w].next <= LastSequence(client[w].job) + 1
      BY Zenon, <1>a, <1>0, <1>1, <2>1 DEF ProgressInv
    <3> QED BY Zenon, <1>1, <3>1
  <2>2. ASSUME NEW d \in Of(t) PROVE \E p \in Of(t) : p.sequence <= LastSequence(b.job) + 1
    <3>1. d \in emitted /\ d.id[1] = t /\ d.job = b.job
      BY Zenon, <1>0, <1>1 DEF Of
    <3> QED BY Zenon, <3>1 DEF ExecutionInv
  <2> QED BY Zenon, <2>1, <2>2
<1>7. \A c \in batches : (c.job = b.job /\ Before(c.sequence, t)') => c.checks \cap b.checks = {}
  <2> SUFFICES ASSUME NEW c \in batches, c.job = b.job, Before(c.sequence, t)'
      PROVE  c.checks \cap b.checks = {}
    BY Zenon
  <2>1. \A p \in Of(t) \cup {b} : c.sequence < p.sequence
    <3>1. \A p \in Of(t)' : c.sequence < p.sequence
      BY Zenon DEF Before
    <3> QED BY Zenon, <1>2, <3>1
  <2>2. c.sequence < client[w].next /\ Before(c.sequence, t)
    BY Zenon, <1>1, <2>1 DEF Before
  <2>3. c.checks \cap client[w].todo = {}
    BY Zenon, <1>a, <1>0, <1>1, <2>2 DEF ProgressInv
  <2> QED BY Zenon, <1>1, <2>3
<1> SUFFICES ASSUME NEW x \in emitted'
    PROVE  /\ x.id = <<x.id[1], x.sequence>> /\ x.id[1] \in 1..lastToken'
           /\ x.job \in ledger'[x.worker]
           /\ \A c \in Of(x.id[1])' :
                /\ c.job = x.job
                /\ c # x => c.sequence # x.sequence /\ c.checks \cap x.checks = {}
                /\ \A n \in (x.sequence)..(c.sequence) : \E p \in Of(x.id[1])' : p.sequence = n
           /\ \E p \in Of(x.id[1])' : p.sequence <= LastSequence(x.job)' + 1
           /\ \A c \in batches' : (c.job = x.job /\ Before(c.sequence, x.id[1])') => c.checks \cap x.checks = {}
  BY Zenon DEF ExecutionInv
<1>8. CASE x = b
  <2>1. b.job \in ledger'[w]
    BY Zenon, <1>1 DEF LedgerInv
  <2>2. ASSUME NEW c \in Of(t) \cup {b}
        PROVE  /\ c.job = b.job
               /\ c # b => c.sequence # b.sequence /\ c.checks \cap b.checks = {}
               /\ \A n \in (b.sequence)..(c.sequence) : \E p \in Of(t) \cup {b} : p.sequence = n
    <3>1. CASE c = b
      <4>1. \A n \in (b.sequence)..(b.sequence) : n = b.sequence
        BY <1>0, <1>1
      <4> QED BY Zenon, <3>1, <4>1
    <3>2. CASE c \in Of(t)
      <4>1. (b.sequence)..(c.sequence) = {}
        BY <1>0, <1>1, <3>2
      <4> QED BY Zenon, <1>0, <1>1, <1>4, <3>2, <4>1
    <3> QED BY Zenon, <3>1, <3>2
  <2>3. b.id = <<b.id[1], b.sequence>>
    BY Zenon, <1>1
  <2>4. Of(x.id[1])' = Of(t) \cup {b}
    BY Zenon, <1>1, <1>2, <1>8
  <2>5. \E p \in Of(x.id[1])' : p.sequence <= LastSequence(x.job)' + 1
    BY Zenon, <1>3, <1>6, <1>8, <2>4
  <2>6. \A c \in batches' : (c.job = x.job /\ Before(c.sequence, x.id[1])') => c.checks \cap x.checks = {}
    BY Zenon, <1>1, <1>7, <1>8
  <2>7. x.id = <<x.id[1], x.sequence>> /\ x.id[1] \in 1..lastToken' /\ x.job \in ledger'[x.worker]
    BY Zenon, <1>0, <1>1, <1>8, <2>1, <2>3
  <2> QED BY Zenon, <1>8, <2>2, <2>4, <2>5, <2>6, <2>7
<1>9. CASE x # b
  <2>0. x \in emitted
    BY Zenon, <1>1, <1>9
  <2>1. /\ x.id = <<x.id[1], x.sequence>> /\ x.id[1] \in 1..lastToken' /\ x.job \in ledger'[x.worker]
    BY Zenon, <1>1, <2>0 DEF ExecutionInv
  <2>2. /\ \A c \in Of(x.id[1]) :
             /\ c.job = x.job
             /\ c # x => c.sequence # x.sequence /\ c.checks \cap x.checks = {}
             /\ \A n \in (x.sequence)..(c.sequence) : \E p \in Of(x.id[1]) : p.sequence = n
        /\ \E p \in Of(x.id[1]) : p.sequence <= LastSequence(x.job) + 1
        /\ \A c \in batches : (c.job = x.job /\ Before(c.sequence, x.id[1])) => c.checks \cap x.checks = {}
    BY Zenon, <2>0 DEF ExecutionInv
  <2>3. Of(x.id[1]) \subseteq Of(x.id[1])'
    BY Zenon, <1>2
  <2>4. \A n : Before(n, x.id[1])' => Before(n, x.id[1])
    BY Zenon, <2>3 DEF Before
  <2>5. CASE x.id[1] # t
    <3>1. Of(x.id[1])' = Of(x.id[1])
      BY Zenon, <1>2, <2>5
    <3>2. \E p \in Of(x.id[1])' : p.sequence <= LastSequence(x.job)' + 1
      BY Zenon, <1>3, <2>2, <2>3
    <3> QED BY Zenon, <1>1, <2>1, <2>2, <2>4, <3>1, <3>2
  <2>6. CASE x.id[1] = t
    <3>0. x \in Of(t)
      BY Zenon, <2>0, <2>6 DEF Of
    <3>1. b.job = x.job /\ b.sequence # x.sequence /\ b.checks \cap x.checks = {}
      BY Zenon, <1>0, <1>1, <1>4, <3>0
    <3>2. ASSUME NEW n \in (x.sequence)..(b.sequence) PROVE \E p \in Of(t) \cup {b} : p.sequence = n
      <4>1. PICK d \in Of(t) : d.sequence + 1 = b.sequence
        BY Zenon, <1>5, <3>0
      <4>2. d.sequence \in Nat /\ x.sequence \in Nat /\ b.sequence \in Nat
        BY Zenon, <1>0, <1>1, <3>0, <4>1
      <4>3. n = b.sequence \/ n \in (x.sequence)..(d.sequence)
        BY <4>1, <4>2
      <4>4. n \in (x.sequence)..(d.sequence) => \E p \in Of(t) : p.sequence = n
        BY Zenon, <2>2, <2>6, <4>1
      <4> QED BY Zenon, <4>3, <4>4
    <3>3. ASSUME NEW c \in Of(t) \cup {b}
          PROVE  /\ c.job = x.job
                 /\ c # x => c.sequence # x.sequence /\ c.checks \cap x.checks = {}
                 /\ \A n \in (x.sequence)..(c.sequence) : \E p \in Of(t) \cup {b} : p.sequence = n
      <4>1. CASE c = b
        BY Zenon, <3>1, <3>2, <4>1
      <4>2. CASE c \in Of(t)
        BY Zenon, <2>2, <2>6, <4>2
      <4> QED BY Zenon, <4>1, <4>2
    <3>4. Of(x.id[1])' = Of(t) \cup {b}
      BY Zenon, <1>2, <2>6
    <3>5. \E p \in Of(x.id[1])' : p.sequence <= LastSequence(x.job)' + 1
      BY Zenon, <1>3, <2>2, <2>3
    <3> QED BY Zenon, <1>1, <2>1, <2>2, <2>4, <3>3, <3>4, <3>5
  <2> QED BY Zenon, <2>5, <2>6
<1> QED BY Zenon, <1>8, <1>9

\* What a message says and needs stays the same.
LEMMA EmitMessage ==
  ASSUME ClientTypeOK, LeaseInv, NEW w \in Worker, NEW b, Emits(w, b), NEW m, MessageOK(m),
         m.kind \in {"evidence", "completion"}
  PROVE  MessageOK(m)' /\ Needs(m)' = Needs(m)
<1>a. PICK t : t = client[w].token
  BY Zenon
<1>0. /\ client[w].next \in Nat /\ Executing(t)
      /\ \A s : Executing(s)' = Executing(s)
      /\ \A s : Of(s)' = IF s = t THEN Of(s) \cup {b} ELSE Of(s)
      /\ \A p \in Of(t) : p.sequence \in Nat /\ p.sequence < client[w].next
  BY <1>a, EmittedSets
<1>1. b.sequence = client[w].next /\ emitted' = emitted \cup {b} /\ lastToken' = lastToken
  BY Zenon DEF Emits
<1>2. MessageOK(m)'
  BY Zenon, <1>0, <1>1 DEF MessageOK
<1>3. CASE m.kind = "evidence"
  <2>1. m.batch \in emitted
    BY Zenon, <1>3 DEF MessageOK
  <2>2. CASE m.batch.id[1] = t
    <3>1. m.batch \in Of(t)
      BY Zenon, <2>1, <2>2 DEF Of
    <3>2. ~ (b.sequence < m.batch.sequence)
      BY <1>0, <1>1, <3>1
    <3>3. Of(m.batch.id[1])' = Of(m.batch.id[1]) \cup {b}
      BY Zenon, <1>0, <2>2
    <3>4. {p \in Of(m.batch.id[1])' : p.sequence < m.batch.sequence}
            = {p \in Of(m.batch.id[1]) : p.sequence < m.batch.sequence}
      BY Zenon, <3>2, <3>3
    <3> QED BY Zenon, <1>2, <1>3, <3>4 DEF Needs
  <2>3. CASE m.batch.id[1] # t
    <3>1. Of(m.batch.id[1])' = Of(m.batch.id[1])
      BY Zenon, <1>0, <2>3
    <3> QED BY Zenon, <1>2, <1>3, <3>1 DEF Needs
  <2> QED BY Zenon, <2>2, <2>3
<1>4. CASE m.kind = "completion"
  <2>1. m.receipt.id # t
    BY Zenon, <1>0, <1>4 DEF MessageOK
  <2>2. Of(m.receipt.id)' = Of(m.receipt.id)
    BY Zenon, <1>0, <2>1
  <2> QED BY Zenon, <1>2, <1>4, <2>2 DEF Needs
<1> QED BY Zenon, <1>3, <1>4

\* Every message stays where it is in its outbox.
LEMMA EmitOutbox ==
  ASSUME ClientTypeOK, NEW w \in Worker, NEW b, Emits(w, b), NEW v \in Worker
  PROVE  /\ outbox[v] \in Seq(AnyMessage) /\ Len(outbox[v]) \in Nat
         /\ DOMAIN outbox[v] = 1..Len(outbox[v]) /\ DOMAIN outbox'[v] = 1..Len(outbox'[v])
         /\ \A i \in 1..Len(outbox[v]) : i \in 1..Len(outbox'[v]) /\ outbox'[v][i] = outbox[v][i]
         /\ \A i \in 1..Len(outbox'[v]) :
              \/ i \in 1..Len(outbox[v])
              \/ v = w /\ i = Len(outbox[w]) + 1 /\ outbox'[w][i] = Evidence(b)
         /\ Len(outbox[w]) + 1 \in DOMAIN outbox'[w] /\ outbox'[w][Len(outbox[w]) + 1] = Evidence(b)
<1>0. /\ outbox[v] \in Seq(AnyMessage) /\ outbox'[v] \in Seq(AnyMessage) /\ outbox[w] \in Seq(AnyMessage)
      /\ v # w => outbox'[v] = outbox[v]
      /\ outbox'[w] = Append(outbox[w], Evidence(b)) /\ Evidence(b) \in AnyMessage
  BY Zenon, EvidenceFields DEF Emits, ClientTypeOK
<1>1. /\ Len(outbox[w]) \in Nat /\ Len(outbox'[w]) = Len(outbox[w]) + 1
      /\ outbox'[w][Len(outbox[w]) + 1] = Evidence(b) /\ DOMAIN outbox'[w] = 1..Len(outbox'[w])
      /\ \A i \in 1..Len(outbox[w]) : i \in 1..Len(outbox'[w]) /\ outbox'[w][i] = outbox[w][i]
  BY <1>0, AppendItems
<1>2. Len(outbox[v]) \in Nat /\ DOMAIN outbox[v] = 1..Len(outbox[v]) /\ DOMAIN outbox'[v] = 1..Len(outbox'[v])
  BY <1>0
<1>3. \A i \in 1..Len(outbox'[w]) : i \in 1..Len(outbox[w]) \/ i = Len(outbox[w]) + 1
  BY <1>1
<1>4. Len(outbox[w]) + 1 \in DOMAIN outbox'[w]
  BY <1>1
<1> QED BY Zenon, <1>0, <1>1, <1>2, <1>3, <1>4

\* The new message needs what the execution queued before it.
LEMMA EmitOutboxes ==
  ASSUME ClientTypeOK, LeaseInv, OutboxInv, EvidenceNotLost, NEW w \in Worker, NEW b, Emits(w, b)
  PROVE  OutboxInv'
<1> SUFFICES ASSUME NEW v \in Worker, NEW i \in 1..Len(outbox'[v])
    PROVE  /\ MessageOK(outbox[v][i])'
           /\ outbox'[v][i].kind = "completion" => outbox'[v][i].receipt.worker = v
           /\ \A p \in Needs(outbox[v][i])' :
                p \in batches' \/ \E k \in 1..(i-1) : outbox'[v][k] = Evidence(p)
  BY Zenon DEF OutboxInv
<1>1. PICK m : m = outbox'[v][i]
  BY Zenon
<1>2. MessageOK(m)' => MessageOK(outbox[v][i])'
  BY Zenon, <1>1 DEF MessageOK
<1>3. Needs(outbox[v][i])' = Needs(m)'
  BY Zenon, <1>1 DEF Needs
<1>4. batches' = batches
  BY Zenon DEF Emits
<1>5. CASE i \in 1..Len(outbox[v])
  <2>1. /\ m = outbox[v][i] /\ MessageOK(m) /\ (m.kind = "completion" => m.receipt.worker = v)
        /\ \A p \in Needs(m) : p \in batches \/ \E k \in 1..(i-1) : outbox[v][k] = Evidence(p)
    <3>1. m = outbox[v][i]
      BY Zenon, <1>1, <1>5, EmitOutbox
    <3> QED BY Zenon, <1>5, <3>1 DEF OutboxInv
  <2>2. m.kind \in {"evidence", "completion"}
    <3>1. m \in AnyMessage
      BY Zenon, <1>5, <2>1, OutboxItems
    <3> QED BY Zenon, <3>1 DEF AnyMessage
  <2>3. MessageOK(m)' /\ Needs(m)' = Needs(m)
    BY Zenon, <2>1, <2>2, EmitMessage
  <2>4. \A k \in 1..(i-1) : outbox'[v][k] = outbox[v][k]
    <3>1. Len(outbox[v]) \in Nat /\ \A k \in 1..Len(outbox[v]) : outbox'[v][k] = outbox[v][k]
      BY Zenon, EmitOutbox
    <3>2. 1..(i-1) \subseteq 1..Len(outbox[v])
      BY <1>5, <3>1
    <3> QED BY Zenon, <3>1, <3>2
  <2> QED BY Zenon, <1>1, <1>2, <1>3, <1>4, <2>1, <2>3, <2>4
<1>6. CASE v = w /\ i = Len(outbox[w]) + 1 /\ outbox'[w][i] = Evidence(b)
  <2>0. m = Evidence(b) /\ b \in AnyBatch /\ b \in emitted'
    BY Zenon, <1>1, <1>6 DEF Emits
  <2>1. m.kind = "evidence" /\ m.batch = b
    BY Zenon, <2>0, EvidenceFields
  <2>2. MessageOK(m)' /\ m.kind # "completion"
    BY Zenon, <2>0, <2>1 DEF MessageOK
  <2>3. ASSUME NEW p \in Needs(m)'
        PROVE  p \in batches \/ \E k \in 1..(i-1) : outbox'[v][k] = Evidence(p)
    <3>1. p \in Of(b.id[1])' /\ p.sequence < b.sequence
      BY Zenon, <2>1, <2>3 DEF Needs
    <3>2. p \in emitted /\ p.worker = w
      <4>1. b.id[1] = client[w].token /\ b.sequence \in Nat
        BY Zenon DEF Emits, AnyBatch
      <4>2. Of(b.id[1])' = Of(client[w].token) \cup {b}
        BY <4>1, EmittedSets
      <4>3. p # b
        BY <3>1, <4>1
      <4> QED BY Zenon, <3>1, <4>2, <4>3, EmittedSets
    <3>3. Len(outbox[w]) \in Nat /\ DOMAIN outbox[w] = 1..Len(outbox[w])
          /\ \A k \in 1..Len(outbox[w]) : outbox'[w][k] = outbox[w][k]
      BY Zenon, EmitOutbox
    <3>4. i - 1 = Len(outbox[w])
      BY <1>6, <3>3
    <3>5. p \in batches \/ \E k \in 1..Len(outbox[w]) : outbox[w][k] = Evidence(p)
      BY Zenon, <3>2, <3>3 DEF EvidenceNotLost, Evidence
    <3> QED BY Zenon, <1>6, <3>3, <3>4, <3>5
  <2> QED BY Zenon, <1>1, <1>2, <1>3, <1>4, <2>2, <2>3
<1> QED BY Zenon, <1>5, <1>6, EmitOutbox

\* A step that queues evidence keeps the invariant.
LEMMA EmitKeeps ==
  ASSUME PInv, Ordered, NEW w \in Worker, NEW b, Emits(w, b),
         \A j \in Job : jobs[j].result # Null => jobs[j].worker \in Worker
  PROVE  PInv'
<1> USE DEF PInv
<1>0. /\ UNCHANGED <<jobs, batches, lastToken, projections, projected, ledger, late>>
      /\ emitted' = emitted \cup {b} /\ b \in AnyBatch /\ b.worker = w /\ b.job = client[w].job
      /\ b.id[1] = client[w].token /\ client[w].phase = "running"
  BY Zenon DEF Emits
<1>1. ClientTypeOK'
  BY Zenon, <1>0 DEF ClientTypeOK, Emits
<1>2. LeaseInv' /\ LedgerInv' /\ ProgressInv' /\ ExecutionInv' /\ OutboxInv'
  BY Zenon, EmitLeases, EmitProgress, EmitExecutions, EmitOutboxes
<1>3. LateInv'
  <2> SUFFICES ASSUME NEW m \in late
      PROVE  /\ m.kind \in {"evidence", "completion"} => MessageOK(m)' /\ Needs(m)' \subseteq batches'
             /\ m.kind = "completion" =>
                  \/ jobs'[m.receipt.job].result = m.receipt.id
                  \/ \E i \in 1..Len(outbox'[m.receipt.worker]) : outbox'[m.receipt.worker][i] = m
             /\ m.kind = "renewal" => m.token \in 1..lastToken'
    BY Zenon, <1>0 DEF LateInv
  <2>1. m.kind \in {"evidence", "completion"} => MessageOK(m)' /\ Needs(m)' \subseteq batches'
    BY <1>0, EmitMessage DEF LateInv
  <2>2. ASSUME m.kind = "completion"
        PROVE  \/ jobs'[m.receipt.job].result = m.receipt.id
               \/ \E i \in 1..Len(outbox'[m.receipt.worker]) : outbox'[m.receipt.worker][i] = m
    <3>1. m.receipt.worker \in Worker
      BY Zenon, <2>2, MessageFields DEF ClientTypeOK, AnyReceipt
    <3>2. \A i \in 1..Len(outbox[m.receipt.worker]) :
            /\ i \in 1..Len(outbox'[m.receipt.worker])
            /\ outbox'[m.receipt.worker][i] = outbox[m.receipt.worker][i]
      BY Zenon, <3>1, EmitOutbox
    <3> QED BY Zenon, <1>0, <2>2, <3>2 DEF LateInv
  <2>3. m.kind = "renewal" => m.token \in 1..lastToken'
    BY Zenon, <1>0 DEF LateInv
  <2> QED BY Zenon, <2>1, <2>2, <2>3
<1>4. AwaitInv'
  <2> SUFFICES ASSUME NEW v \in Worker, client'[v].awaiting
      PROVE  /\ Forwarding(v)' /\ outbox'[v] # <<>> /\ Head(outbox'[v]).kind = "completion"
             /\ Head(outbox'[v]).receipt \in projections' \cup projected'
             /\ jobs'[Head(outbox'[v]).receipt.job].result = Head(outbox'[v]).receipt.id
    BY Zenon DEF AwaitInv
  <2>1. outbox'[v] = outbox[v] /\ client'[v] = client[v]
    BY Zenon DEF Emits
  <2>2. /\ Forwarding(v) /\ outbox[v] # <<>> /\ Head(outbox[v]).kind = "completion"
        /\ Head(outbox[v]).receipt \in projections \cup projected
        /\ jobs[Head(outbox[v]).receipt.job].result = Head(outbox[v]).receipt.id
    BY Zenon, <2>1 DEF AwaitInv
  <2>3. Forwarding(v)'
    BY Zenon, <2>1, <2>2 DEF Forwarding
  <2> QED BY Zenon, <1>0, <2>1, <2>2, <2>3
<1>5. \A t : Executing(t)' = Executing(t)
  BY Zenon, EmittedSets
<1>6. Executing(client[w].token)
  BY Zenon, EmittedSets
<1>7. ResultsInv'
  <2>1. \A j \in Job : Executing(jobs[j].result)' = Executing(jobs[j].result)
    BY Zenon, <1>0, <1>5 DEF Executing
  <2> QED BY Zenon, <1>0, <2>1 DEF ResultsInv
<1>8. EvidenceNotLost'
  <2> SUFFICES ASSUME NEW p \in emitted \cup {b}
      PROVE  p \in batches \/ \E i \in DOMAIN outbox'[p.worker] : outbox'[p.worker][i] = Evidence(p)
    BY Zenon, <1>0 DEF EvidenceNotLost, Evidence
  <2>1. CASE p = b
    BY Zenon, <1>0, <2>1, EmitOutbox
  <2>2. CASE p \in emitted
    <3>1. p.worker \in Worker
      BY Zenon, <2>2 DEF ClientTypeOK, AnyBatch
    <3>2. p \in batches \/ \E i \in DOMAIN outbox[p.worker] : outbox[p.worker][i] = Evidence(p)
      BY Zenon, <2>2 DEF EvidenceNotLost, Evidence
    <3>3. \A i \in DOMAIN outbox[p.worker] :
            i \in DOMAIN outbox'[p.worker] /\ outbox'[p.worker][i] = outbox[p.worker][i]
      <4>1. PICK v \in Worker : v = p.worker
        BY Zenon, <3>1
      <4>2. /\ DOMAIN outbox[v] = 1..Len(outbox[v]) /\ DOMAIN outbox'[v] = 1..Len(outbox'[v])
            /\ \A i \in 1..Len(outbox[v]) : i \in 1..Len(outbox'[v]) /\ outbox'[v][i] = outbox[v][i]
        BY Zenon, EmitOutbox
      <4> QED BY Zenon, <4>1, <4>2
    <3> QED BY Zenon, <3>2, <3>3
  <2> QED BY Zenon, <2>1, <2>2
<1>9. EvidenceBeforeResult'
  <2>1. \A j \in Job : jobs[j].result # Null => b.id[1] # jobs[j].result
    BY Zenon, <1>0, <1>6 DEF ResultsInv
  <2> QED BY Zenon, <1>0, <2>1 DEF EvidenceBeforeResult
<1>10. ExecutedOnce'
  <2>1. \A p \in emitted : (p.worker = b.worker /\ p.job = b.job) => p.id[1] = b.id[1]
    BY Zenon, <1>0 DEF LedgerInv
  <2> QED BY <1>0, <2>1 DEF ExecutedOnce
<1>11. ManifestInv' /\ ChecksAcceptedOnce'
  BY Zenon, <1>0 DEF ManifestInv, ChecksAcceptedOnce
<1>12. ResultNotLost'
  <2> SUFFICES ASSUME NEW j \in Job, jobs[j].result # Null
      PROVE  \/ \E r \in projected : r.job = j
             \/ \E i \in DOMAIN outbox'[jobs[j].worker] :
                  /\ outbox'[jobs[j].worker][i].kind = "completion"
                  /\ outbox'[jobs[j].worker][i].receipt.id = jobs[j].result
    BY Zenon, <1>0 DEF ResultNotLost
  <2>1. jobs[j].worker \in Worker
    BY Zenon
  <2>2. \A i \in DOMAIN outbox[jobs[j].worker] :
          i \in DOMAIN outbox'[jobs[j].worker] /\ outbox'[jobs[j].worker][i] = outbox[jobs[j].worker][i]
    <3>1. PICK v \in Worker : v = jobs[j].worker
      BY Zenon, <2>1
    <3>2. /\ DOMAIN outbox[v] = 1..Len(outbox[v]) /\ DOMAIN outbox'[v] = 1..Len(outbox'[v])
          /\ \A i \in 1..Len(outbox[v]) : i \in 1..Len(outbox'[v]) /\ outbox'[v][i] = outbox[v][i]
      BY Zenon, EmitOutbox
    <3> QED BY Zenon, <3>1, <3>2
  <2> QED BY Zenon, <2>2 DEF ResultNotLost
<1> QED BY Zenon, <1>1, <1>2, <1>3, <1>4, <1>7, <1>8, <1>9, <1>10, <1>11, <1>12
=============================================================================
