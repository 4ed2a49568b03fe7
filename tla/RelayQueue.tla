----------------------------- MODULE RelayQueue -----------------------------
(***************************************************************************)
(* The store-and-forward queue of a relay (internal/relaytransport): a     *)
(* SQLite file of encrypted frames, the claims of uploaders on it, and the *)
(* monitor whose counters make the health report.  Nothing in the server   *)
(* or the agent runs the queue yet; its callers are the ones its tests     *)
(* have: senders that may repeat a frame, uploaders that claim, deliver    *)
(* and acknowledge, and somebody who purges.                               *)
(*                                                                         *)
(* Time is kept as the age of a frame and what is left of a lease, so that *)
(* the clock needs no bound.  An uploader holds one delivery at most, so   *)
(* its name stands for the random token of its latest claim.               *)
(***************************************************************************)
EXTENDS Integers, FiniteSets, FiniteSetsExt, Functions

CONSTANTS
  Frame,         \* message identifiers
  Kind,          \* the message kind of a frame
  Size,          \* its encoded length
  Uploader,
  Unclaimed,        \* delivery_token IS NULL
  MaxItems, MaxBytes, MaxAge,   \* QueueLimits
  FrameLife,     \* how old a valid frame may be
  Skew,          \* how far in the future a valid frame may be
  LeaseTime,     \* what uploaders pass to Claim
  MaxSent,       \* a bound on frames accepted while a process runs
  MaxRejected,   \* a bound on frames rejected for capacity
  MaxRowid       \* a bound on SQLite's rowid

MessageKind ==
  {"agent_check_in", "server_reply", "agent_log_batch", "integrity_alert", "tamper_alert"}

validateQueueLimits == MaxItems >= 1 /\ MaxBytes >= 1 /\ MaxAge > 0 /\ MaxAge <= FrameLife

ASSUME RelayAssumption ==
  /\ Kind \in [Frame -> MessageKind] /\ Size \in [Frame -> Nat \ {0}]
  /\ {MaxItems, MaxBytes, MaxAge, FrameLife, Skew, LeaseTime, MaxSent, MaxRejected,
      MaxRowid} \subseteq Nat
  /\ validateQueueLimits /\ LeaseTime > 0 /\ MaxRowid > 0 /\ Unclaimed \notin Uploader

VARIABLES
  file,        \* the SQLite file: its schema version and its rows by message_id
  process,     \* the relay: "down", "migrating" or "up"
  monitor,     \* TelemetryMonitor
  deliveries,  \* what each uploader holds
  received,    \* frames that reached the server
  taken        \* history: what the running process found and accepted

relayVars == <<file, process, monitor, deliveries, received, taken>>

Oldest == FrameLife + 1
Row == [rowid : 1..MaxRowid, age : -Skew..Oldest, priority : {0, 100, 200, 300},
        holder : Uploader \cup {Unclaimed}, left : 0..LeaseTime]
FreshMonitor == [accepted |-> 0, acknowledged |-> 0, capacity |-> 0, expired |-> 0]

Queued == DOMAIN file.rows
ItemsUsed == Cardinality(Queued)
BytesUsed == SumFunctionOnSet(Size, Queued)

priorityForFrame(f) ==
  CASE Kind[f] \in {"integrity_alert", "tamper_alert"} -> 300
    [] Kind[f] \in {"agent_check_in", "server_reply"} -> 200
    [] OTHER -> 100

\* The rowid of an INSERT is one more than the largest in the table.
NewRowid == {n \in 1..MaxRowid : /\ \A f \in Queued : file.rows[f].rowid < n
                                 /\ n > 1 => \E f \in Queued : file.rows[f].rowid = n - 1}
NewRow(rowid, age, priority) ==
  [rowid |-> rowid, age |-> age, priority |-> priority, holder |-> Unclaimed, left |-> 0]

\* A queue file that an earlier release may have left behind.
RelayInit ==
  /\ \E version \in 1..3, fs \in {{}} \cup {{f} : f \in Frame} :
       file = [version |-> version,
               rows |-> [f \in fs |->
                          NewRow(1, 0, IF version = 1 THEN 0 ELSE priorityForFrame(f))]]
  /\ process = "down" /\ monitor = FreshMonitor /\ received = {}
  /\ deliveries = [u \in Uploader |-> Unclaimed] /\ taken = [frames |-> {}, found |-> 0]

-----------------------------------------------------------------------------
\* Opening the file and its migrations, each a transaction of its own.

OpenQueue ==
  /\ process = "down" /\ process' = "migrating"
  /\ monitor' = FreshMonitor
  /\ taken' = [frames |-> Queued, found |-> ItemsUsed]
  /\ UNCHANGED <<file, deliveries, received>>

migratePriorityQueue ==
  /\ process = "migrating" /\ file.version = 1
  /\ file' = [version |-> 2, rows |-> [f \in Queued |->
                [file.rows[f] EXCEPT !.priority = priorityForFrame(f)]]]
  /\ UNCHANGED <<process, monitor, deliveries, received, taken>>

migrateDeliveryQueue ==
  /\ process = "migrating" /\ file.version = 2
  /\ file' = [file EXCEPT !.version = 3]
  /\ UNCHANGED <<process, monitor, deliveries, received, taken>>

QueueOpened ==
  /\ process = "migrating" /\ file.version = 3 /\ process' = "up"
  /\ UNCHANGED <<file, monitor, deliveries, received, taken>>

\* The relay stops; its uploaders and its monitor go with it.
RelayStops ==
  /\ process # "down" /\ process' = "down"
  /\ deliveries' = [u \in Uploader |-> Unclaimed]
  /\ UNCHANGED <<file, monitor, received, taken>>

-----------------------------------------------------------------------------
\* ValidateFrame, as far as it depends on the clock.
ValidateFrame(age) == -Skew <= age /\ age <= FrameLife

\* Whether Enqueue accepts frame f of this age, and why not.
EnqueueResult(f, age) ==
  IF ~ValidateFrame(age) \/ age > MaxAge THEN "error"
  ELSE IF Size[f] > MaxBytes THEN "full"
  ELSE IF f \in Queued THEN "duplicate"
  ELSE IF ItemsUsed >= MaxItems \/ BytesUsed + Size[f] > MaxBytes THEN "full"
  ELSE "accepted"

RecordEnqueue(result) ==
  monitor' = CASE result = "accepted" -> [monitor EXCEPT !.accepted = @ + 1]
               [] result = "full" -> [monitor EXCEPT !.capacity = @ + 1]
               [] OTHER -> monitor

Enqueue(f, age) ==
  LET result == EnqueueResult(f, age) IN
  /\ process = "up" /\ monitor.accepted < MaxSent /\ monitor.capacity < MaxRejected
  /\ RecordEnqueue(result)
  /\ IF result = "accepted"
     THEN /\ \E rowid \in NewRowid :
               file' = [file EXCEPT !.rows =
                 [g \in Queued \cup {f} |->
                    IF g = f THEN NewRow(rowid, age, priorityForFrame(f)) ELSE file.rows[g]]]
          /\ taken' = [taken EXCEPT !.frames = @ \cup {f}]
     ELSE UNCHANGED <<file, taken>>
  /\ UNCHANGED <<process, deliveries, received>>

Claimable(f) == file.rows[f].holder = Unclaimed \/ file.rows[f].left = 0
\* ORDER BY priority DESC,rowid
Before(f, g) ==
  \/ file.rows[f].priority > file.rows[g].priority
  \/ file.rows[f].priority = file.rows[g].priority /\ file.rows[f].rowid <= file.rows[g].rowid
Head1st == {f \in Queued : Claimable(f) /\ \A g \in Queued : Claimable(g) => Before(f, g)}

Held(row, holder, left) == [row EXCEPT !.holder = holder, !.left = left]

\* A row that fails ValidateFrame rolls the claim back and nothing changes.
Claim(u) ==
  /\ process = "up" /\ deliveries[u] = Unclaimed
  /\ \E f \in Head1st :
       /\ ValidateFrame(file.rows[f].age)
       /\ file' = [file EXCEPT !.rows[f] = Held(@, u, LeaseTime)]
       /\ deliveries' = [deliveries EXCEPT ![u] = f]
  /\ UNCHANGED <<process, monitor, received, taken>>

\* The upload reaches the server; its answer may never come back.
Deliver(u) ==
  /\ deliveries[u] # Unclaimed /\ received' = received \cup {deliveries[u]}
  /\ UNCHANGED <<file, process, monitor, deliveries, taken>>

HoldsToken(u) == deliveries[u] \in Queued /\ file.rows[deliveries[u]].holder = u
\* As Acknowledge, without a look at the number of deleted rows.
AcknowledgeUncounted(u) ==
  /\ deliveries[u] # Unclaimed /\ deliveries[u] \in received
  /\ deliveries' = [deliveries EXCEPT ![u] = Unclaimed]
  /\ file' = IF HoldsToken(u)
             THEN [file EXCEPT !.rows = Restrict(@, Queued \ {deliveries[u]})]
             ELSE file
  /\ monitor' = [monitor EXCEPT !.acknowledged = @ + 1]
  /\ UNCHANGED <<process, received, taken>>

\* An uploader that was told the server has the frame.
Acknowledge(u) ==
  /\ deliveries[u] # Unclaimed /\ deliveries[u] \in received
  /\ deliveries' = [deliveries EXCEPT ![u] = Unclaimed]
  /\ IF HoldsToken(u)
     THEN /\ file' = [file EXCEPT !.rows = Restrict(@, Queued \ {deliveries[u]})]
          /\ monitor' = [monitor EXCEPT !.acknowledged = @ + 1]
     ELSE UNCHANGED <<file, monitor>>
  /\ UNCHANGED <<process, received, taken>>

\* An uploader that was not.
Release(u) ==
  /\ deliveries[u] # Unclaimed
  /\ deliveries' = [deliveries EXCEPT ![u] = Unclaimed]
  /\ IF HoldsToken(u)
     THEN file' = [file EXCEPT !.rows[deliveries[u]] = Held(@, Unclaimed, 0)]
     ELSE UNCHANGED file
  /\ UNCHANGED <<process, monitor, received, taken>>

\* As Kept, sparing the frames an uploader has claimed.
KeptInFlight == {f \in Queued : file.rows[f].age <= MaxAge \/ file.rows[f].holder # Unclaimed}

\* The rows that are not older than the cutoff.
Kept == {f \in Queued : file.rows[f].age <= MaxAge}
PurgeExpired ==
  /\ process = "up"
  /\ file' = [file EXCEPT !.rows = Restrict(@, Kept)]
  /\ monitor' = [monitor EXCEPT !.expired = @ + Cardinality(Queued \ Kept)]
  /\ UNCHANGED <<process, deliveries, received, taken>>

RelayTimePasses ==
  /\ file' = [file EXCEPT !.rows = [f \in Queued |->
       [file.rows[f] EXCEPT !.age = IF @ < Oldest THEN @ + 1 ELSE @,
                            !.left = IF @ > 0 THEN @ - 1 ELSE @]]]
  /\ UNCHANGED <<process, monitor, deliveries, received, taken>>

-----------------------------------------------------------------------------
RelayNext ==
  \/ OpenQueue \/ migratePriorityQueue \/ migrateDeliveryQueue \/ QueueOpened \/ RelayStops
  \/ \E f \in Frame, age \in -(Skew + 1)..Oldest : Enqueue(f, age)
  \/ \E u \in Uploader : Claim(u) \/ Deliver(u) \/ Acknowledge(u) \/ Release(u)
  \/ PurgeExpired \/ RelayTimePasses

RelaySpec == RelayInit /\ [][RelayNext]_relayVars

-----------------------------------------------------------------------------
utilizationBasisPoints(used, limit) ==
  IF used <= 0 THEN 0 ELSE IF used >= limit THEN 10000 ELSE (used * 10000) \div limit

\* The health the monitor reports, from its counters and the queue's Stats.
\* Nothing that runs the queue reports integrity failures or dropped records.
classifyRelayHealth(integrityFailures, droppedRecords) ==
  LET strained == \/ monitor.capacity > 0 \/ monitor.expired > 0 \/ droppedRecords > 0
                  \/ utilizationBasisPoints(ItemsUsed, MaxItems) >= 9000
                  \/ utilizationBasisPoints(BytesUsed, MaxBytes) >= 9000
  IN  IF integrityFailures > 0 THEN "critical" ELSE IF strained THEN "degraded" ELSE "healthy"

RelayTypeOK ==
  /\ file.version \in 1..3 /\ Queued \subseteq Frame /\ \A f \in Queued : file.rows[f] \in Row
  /\ process \in {"down", "migrating", "up"}
  /\ deliveries \in [Uploader -> Frame \cup {Unclaimed}]
  /\ received \subseteq Frame /\ taken.frames \subseteq Frame

(* No frame gets lost unnoticed, whatever uploads are repeated, answers    *)
(* are late and leases run out, over migrations and restarts: the counters *)
(* of the monitor and the rows add up to the frames that Enqueue accepted  *)
(* and OpenQueue found, and when a frame is neither queued nor at the      *)
(* server, the report of the relay does not say healthy (queue.go          *)
(* Acknowledge and PurgeExpired, telemetry.go classifyRelayHealth).        *)
FramesAccounted ==
  process # "down" =>
    /\ ItemsUsed + monitor.acknowledged + monitor.expired = taken.found + monitor.accepted
    /\ \A f \in taken.frames \ (Queued \cup received) : classifyRelayHealth(0, 0) = "degraded"

(* Claim gives its error when the first row in line is too old to be       *)
(* valid, and then the frames behind it wait.  PurgeExpired always removes *)
(* such a row, also when it is leased: the error cannot last (queue.go     *)
(* Claim, PurgeExpired and validateQueueLimits).                           *)
PurgeUnblocksClaim ==
  \A f \in Head1st : ~ValidateFrame(file.rows[f].age) => f \notin Kept
=============================================================================
