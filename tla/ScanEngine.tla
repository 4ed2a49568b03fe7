----------------------------- MODULE ScanEngine -----------------------------
(***************************************************************************)
(* Local scans: the engine of internal/scanner with its queue and its one  *)
(* running scan, the scheduler of internal/scheduling that resumes paused  *)
(* scans, the requests that create and cancel scans, and the store they    *)
(* all write whole scans into.                                             *)
(*                                                                         *)
(* Threads: the engine's goroutine and, once it has returned, Shutdown     *)
(* (run); one launching thread per scan (launch: a request, or the         *)
(* scheduler); one canceling request per scan (cancels).  The mutex        *)
(* Engine.state is held by a launch between its save and its enqueue; all  *)
(* its other critical sections are single steps.                           *)
(*                                                                         *)
(* The maintenance window is open while clock is even, and a scan launched *)
(* in it at clock t has its WindowEnd at t + 1.  Every scheduled scan has  *)
(* a policy of its own.  A storage error is not modelled.                  *)
(***************************************************************************)
EXTENDS Integers, Sequences, FiniteSets

CONSTANTS
  Scan,            \* the scans somebody may ask for
  Scheduled,       \* those with a ScanPolicyID
  Windowed,        \* those whose policy has a maintenance window
  Canceling,       \* those somebody may cancel
  Checks,          \* Checks[s]: the target-and-port pairs of a scan
  Null,
  QueueSize,       \* config.QueueSize
  MaxConcurrent,   \* config.MaxConcurrent
  MaxClock,        \* a bound on the windows
  MaxRestarts      \* a bound on stops and crashes of the process

ASSUME EngineAssumption ==
  /\ Windowed \subseteq Scheduled /\ Scheduled \subseteq Scan
  /\ Null \notin Scan \cup Int
  /\ Canceling \subseteq Scan
  /\ \A s \in Scan : IsFiniteSet(Checks[s]) /\ Checks[s] # {}
  /\ QueueSize \in Nat \ {0} /\ MaxConcurrent \in Nat \ {0}
  /\ MaxClock \in Nat /\ MaxRestarts \in Nat

VARIABLES
  stored,     \* stored[s]: the rows of a scan
  queue,      \* Engine.queue: copies of scans
  active,     \* the keys of Engine.active
  canceled,   \* Engine.canceled
  stopCtx,    \* the context of the running scan is canceled
  run,        \* the engine's goroutine
  launch,     \* launch[s]: a call of Schedule or the tick that leads to it
  cancels,    \* cancels[s]: a call of Cancel
  engine,     \* the process: open, closed (shutting down), stopped
  clock,      \* maintenance windows that have begun and ended
  restarts,   \* how often the process was started again
  inspected,  \* inspected[s]: the checks carried out to the end
  stopped     \* the scans whose Cancel has returned without an error

Check == UNION {Checks[s] : s \in Scan}

engineVars == <<queue, active, canceled, stopCtx, run>>
history == <<inspected, stopped>>
vars == <<stored, engineVars, launch, cancels, engine, clock, restarts, history>>

Status == {"none", "queued", "running", "paused", "completed", "failed", "canceled"}
Cancelable == {"queued", "running", "paused"}

\* A scan as it is stored and copied: window is Null or its WindowEnd.
ScanRow == [status : Status, checks : SUBSET Check, window : Nat \cup {Null}]

NoScan == [status |-> "none", checks |-> {}, window |-> Null]
Resting == [phase |-> "idle", scan |-> Null, copy |-> NoScan, todo |-> {}, flying |-> {},
            open |-> FALSE, byWindow |-> FALSE]
Idle == [phase |-> "idle", copy |-> NoScan]

Init ==
  /\ stored = [s \in Scan |-> NoScan]
  /\ queue = <<>>
  /\ active = {}
  /\ canceled = {}
  /\ stopCtx = FALSE
  /\ run = Resting
  /\ launch = [s \in Scan |-> Idle]
  /\ cancels = [s \in Scan |-> Idle]
  /\ engine = "open"
  /\ clock = 0
  /\ restarts = 0
  /\ inspected = [s \in Scan |-> {}]
  /\ stopped = {}

Save(s, row) == stored' = [stored EXCEPT ![s] = row]

\* Engine.state is free.
Unlocked == \A s \in Scan : launch[s].phase # "saved"

\* e.ctx.Err() # nil
EngineDone == engine = "closed"

\* ctx.Err() # nil of the running scan.
ScanDone == stopCtx \/ EngineDone

\* The timer of the scan's window has fired.
WindowOver(row) == row.window # Null /\ clock >= row.window

\* Window: inside, and the end of the window.
Inside(s) == s \in Windowed => clock % 2 = 0
WindowEnd(s) == IF s \in Windowed THEN clock + 1 ELSE Null

With(row, status) == [row EXCEPT !.status = status]

\* interrupt
Interrupted(s, row) == With(row, IF s \in Scheduled THEN "paused" ELSE "failed")

-----------------------------------------------------------------------------
(***************************************************************************)
(* Launching                                                               *)
(***************************************************************************)

\* createScan, runReusableScanPolicy or the scheduler's buildScan: a new scan
\* is saved by Schedule, which then holds the mutex.
CreateScan(s) ==
  /\ engine = "open"
  /\ Unlocked
  /\ stored[s].status = "none"
  /\ launch[s].phase = "idle"
  /\ Inside(s)
  /\ LET row == [status |-> "queued", checks |-> {}, window |-> WindowEnd(s)]
     IN Save(s, row) /\ launch' = [launch EXCEPT ![s] = [phase |-> "saved", copy |-> row]]
  /\ UNCHANGED <<engineVars, cancels, engine, clock, restarts, history>>

\* The scheduler's copy of a scan it is about to resume.
Listed(s) ==
  [phase |-> "listed", copy |-> [With(stored[s], "queued") EXCEPT !.window = WindowEnd(s)]]

\* Mutant: any active scan of the policy is launched again.
ListActive(s) ==
  /\ engine = "open"
  /\ s \in Scheduled
  /\ Inside(s)
  /\ stored[s].status \in Cancelable
  /\ launch[s].phase = "idle"
  /\ launch' = [launch EXCEPT ![s] = Listed(s)]
  /\ UNCHANGED <<stored, engineVars, cancels, engine, clock, restarts, history>>

\* tick: List reads a paused scan inside its window.
ListPaused(s) ==
  /\ engine = "open"
  /\ s \in Scheduled
  /\ Inside(s)
  /\ stored[s].status = "paused"
  /\ launch[s].phase = "idle"
  /\ launch' = [launch EXCEPT ![s] = Listed(s)]
  /\ UNCHANGED <<stored, engineVars, cancels, engine, clock, restarts, history>>

\* Mutant: the scan is launched without its checkpoints.
ResumeAfresh(s) ==
  /\ launch[s].phase = "listed"
  /\ Unlocked
  /\ Save(s, [launch[s].copy EXCEPT !.checks = {}])
  /\ launch' = [launch EXCEPT ![s].phase = "saved", ![s].copy.checks = {}]
  /\ UNCHANGED <<engineVars, cancels, engine, clock, restarts, history>>

\* Schedule of a paused scan.  The engine is open: Shutdown waits for the tick.
Resume(s) ==
  /\ launch[s].phase = "listed"
  /\ Unlocked
  /\ Save(s, launch[s].copy)
  /\ launch' = [launch EXCEPT ![s].phase = "saved"]
  /\ UNCHANGED <<engineVars, cancels, engine, clock, restarts, history>>

\* Mutant: a full queue is reported and the scan left as it was saved.
EnqueueForgets(s) ==
  /\ launch[s].phase = "saved"
  /\ queue' = IF Len(queue) < QueueSize THEN Append(queue, [scan |-> s, copy |-> launch[s].copy])
              ELSE queue
  /\ launch' = [launch EXCEPT ![s] = Idle]
  /\ UNCHANGED <<stored, active, canceled, stopCtx, run, cancels, engine, clock, restarts, history>>

\* The rest of Schedule: enqueue, or interrupt when the queue is full.
Enqueue(s) ==
  /\ launch[s].phase = "saved"
  /\ IF Len(queue) < QueueSize
     THEN /\ queue' = Append(queue, [scan |-> s, copy |-> launch[s].copy])
          /\ stored' = stored
     ELSE /\ queue' = queue
          /\ Save(s, Interrupted(s, launch[s].copy))
  /\ launch' = [launch EXCEPT ![s] = Idle]
  /\ UNCHANGED <<active, canceled, stopCtx, run, cancels, engine, clock, restarts, history>>

-----------------------------------------------------------------------------
(***************************************************************************)
(* Running                                                                 *)
(***************************************************************************)

\* schedule: the select may take a scan although the context is done.
Take ==
  /\ engine # "stopped"
  /\ run.phase = "idle"
  /\ queue # <<>>
  /\ run' = [Resting EXCEPT !.phase = "taken", !.scan = Head(queue).scan,
                            !.copy = Head(queue).copy]
  /\ queue' = Tail(queue)
  /\ UNCHANGED <<stored, active, canceled, stopCtx, launch, cancels, engine, clock, restarts,
                 history>>

\* schedule returns.
Return ==
  /\ EngineDone
  /\ run.phase = "idle"
  /\ run' = [run EXCEPT !.phase = "returned"]
  /\ UNCHANGED <<stored, queue, active, canceled, stopCtx, launch, cancels, engine, clock,
                 restarts, history>>

\* beginScan
BeginScan ==
  /\ run.phase = "taken"
  /\ Unlocked
  /\ IF run.scan \in canceled
     THEN /\ canceled' = canceled \ {run.scan}
          /\ run' = [run EXCEPT !.phase = "dropping"]
          /\ UNCHANGED <<active, stopCtx>>
     ELSE /\ active' = active \cup {run.scan}
          /\ stopCtx' = FALSE
          /\ run' = [run EXCEPT !.phase = "begun"]
          /\ canceled' = canceled
  /\ UNCHANGED <<stored, queue, launch, cancels, engine, clock, restarts, history>>

\* finishCanceled of a scan canceled in the queue.
Drop ==
  /\ run.phase = "dropping"
  /\ Save(run.scan, With(run.copy, "canceled"))
  /\ run' = Resting
  /\ UNCHANGED <<queue, active, canceled, stopCtx, launch, cancels, engine, clock, restarts,
                 history>>

\* The first save of run, and the start of queueJobs.
StartRun ==
  /\ run.phase = "begun"
  /\ LET row == With(run.copy, "running")
         over == WindowOver(run.copy)
     IN /\ Save(run.scan, row)
        /\ run' = [run EXCEPT !.phase = "probing", !.copy = row, !.todo = Checks[run.scan] \ row.checks,
                              !.open = ~ over, !.byWindow = over]
  /\ UNCHANGED <<queue, active, canceled, stopCtx, launch, cancels, engine, clock, restarts,
                 history>>

\* queueJobs hands a check to a worker; the select may do so although the
\* window or the context is over.
Dispatch(c) ==
  /\ run.phase = "probing" /\ run.open
  /\ c \in run.todo
  /\ Cardinality(run.flying) < MaxConcurrent
  /\ run' = [run EXCEPT !.todo = @ \ {c}, !.flying = @ \cup {c}]
  /\ UNCHANGED <<stored, queue, active, canceled, stopCtx, launch, cancels, engine, clock,
                 restarts, history>>

\* queueJobs returns: nothing is left, the context is done or the window over.
QueueCloses ==
  /\ run.phase = "probing" /\ run.open
  /\ \/ /\ run.todo = {} \/ ScanDone
        /\ run' = [run EXCEPT !.open = FALSE]
     \/ /\ run.todo # {} /\ WindowOver(run.copy)
        /\ run' = [run EXCEPT !.open = FALSE, !.byWindow = TRUE]
  /\ UNCHANGED <<stored, queue, active, canceled, stopCtx, launch, cancels, engine, clock,
                 restarts, history>>

\* max(1, scan.TotalChecks/progressSaveDivisor)
SaveInterval(s) ==
  IF Cardinality(Checks[s]) \div 100 > 1 THEN Cardinality(Checks[s]) \div 100 ELSE 1

\* A result reaches run; an inspection that the context cut short passes too.
Result(c) ==
  /\ run.phase = "probing"
  /\ c \in run.flying
  /\ LET row == [run.copy EXCEPT !.checks = @ \cup {c}]
     IN /\ run' = [run EXCEPT !.flying = @ \ {c}, !.copy = row]
        /\ IF Cardinality(row.checks) % SaveInterval(run.scan) = 0 THEN Save(run.scan, row)
           ELSE stored' = stored
  /\ \/ inspected' = [inspected EXCEPT ![run.scan] = @ \cup {c}]
     \/ ScanDone /\ inspected' = inspected
  /\ UNCHANGED <<queue, active, canceled, stopCtx, launch, cancels, engine, clock, restarts,
                 stopped>>

\* processJobs: the context is done before the result is taken.
Discard(c) ==
  /\ run.phase = "probing"
  /\ c \in run.flying
  /\ ScanDone
  /\ run' = [run EXCEPT !.flying = @ \ {c}]
  /\ UNCHANGED <<stored, queue, active, canceled, stopCtx, launch, cancels, engine, clock,
                 restarts, history>>

\* Mutant: a window that closed is not told from a finished queue.
ConclusionUnpaused(row) == With(row, IF ScanDone THEN "canceled" ELSE "completed")

\* What run saves when the results are closed and the engine was not.
Conclusion(row) ==
  With(row, IF ScanDone THEN "canceled"
            ELSE IF run.byWindow /\ row.checks # Checks[run.scan] THEN "paused" ELSE "completed")

\* The results are closed.  The contexts are looked at one after the other
\* before the last save: that of the engine, then that of the scan, which a
\* shutdown in between has canceled as well.
Conclude ==
  /\ run.phase = "probing"
  /\ ~ run.open
  /\ run.flying = {}
  /\ run' = IF EngineDone
            THEN [run EXCEPT !.phase = "concluding", !.copy = Interrupted(run.scan, run.copy)]
            ELSE [run EXCEPT !.phase = "settling"]
  /\ UNCHANGED <<stored, queue, active, canceled, stopCtx, launch, cancels, engine, clock,
                 restarts, history>>

Settle ==
  /\ run.phase = "settling"
  /\ run' = [run EXCEPT !.phase = "concluding", !.copy = Conclusion(run.copy)]
  /\ UNCHANGED <<stored, queue, active, canceled, stopCtx, launch, cancels, engine, clock,
                 restarts, history>>

SaveConclusion ==
  /\ run.phase = "concluding"
  /\ Save(run.scan, run.copy)
  /\ run' = [run EXCEPT !.phase = "ending"]
  /\ UNCHANGED <<queue, active, canceled, stopCtx, launch, cancels, engine, clock, restarts,
                 history>>

\* endScan
EndScan ==
  /\ run.phase = "ending"
  /\ Unlocked
  /\ active' = active \ {run.scan}
  /\ canceled' = canceled \ {run.scan}
  /\ stopCtx' = FALSE
  /\ run' = Resting
  /\ UNCHANGED <<stored, queue, launch, cancels, engine, clock, restarts, history>>

-----------------------------------------------------------------------------
(***************************************************************************)
(* Canceling, stopping and restarting                                      *)
(***************************************************************************)

\* Cancel reads the scan.  Handlers outlive the start of Shutdown when the HTTP
\* server does not stop in time.
CancelRead(s) ==
  /\ engine # "stopped"
  /\ s \in Canceling
  /\ cancels[s].phase = "idle"
  /\ stored[s].status \in Cancelable
  /\ cancels' = [cancels EXCEPT ![s] = [phase |-> "read", copy |-> stored[s]]]
  /\ UNCHANGED <<stored, engineVars, launch, engine, clock, restarts, history>>

\* Cancel marks the scan and cancels its context.
CancelMark(s) ==
  /\ cancels[s].phase = "read"
  /\ Unlocked
  /\ canceled' = IF s \in active \/ cancels[s].copy.status \in {"queued", "running"}
                 THEN canceled \cup {s} ELSE canceled
  /\ stopCtx' = (stopCtx \/ s \in active)
  /\ cancels' = [cancels EXCEPT ![s].phase = "marked"]
  /\ UNCHANGED <<stored, queue, active, run, launch, engine, clock, restarts, history>>

\* Cancel saves its copy as canceled.
CancelSave(s) ==
  /\ cancels[s].phase = "marked"
  /\ Save(s, With(cancels[s].copy, "canceled"))
  /\ cancels' = [cancels EXCEPT ![s] = Idle]
  /\ stopped' = stopped \cup {s}
  /\ UNCHANGED <<engineVars, launch, engine, clock, restarts, inspected>>

\* Shutdown closes the engine; the scheduler's tick has ended before.
Shutdown ==
  /\ engine = "open"
  /\ restarts < MaxRestarts
  /\ Unlocked
  /\ \A s \in Scan : launch[s].phase = "idle"
  /\ engine' = "closed"
  /\ UNCHANGED <<stored, engineVars, launch, cancels, clock, restarts, history>>

\* Shutdown takes a scan out of the queue and its mark with it, then saves it.
Drain ==
  /\ run.phase = "returned"
  /\ queue # <<>>
  /\ LET s == Head(queue).scan
         row == Head(queue).copy
     IN /\ canceled' = canceled \ {s}
        /\ run' = [run EXCEPT !.phase = "drained", !.scan = s,
                              !.copy = IF s \in canceled THEN With(row, "canceled")
                                       ELSE Interrupted(s, row)]
  /\ queue' = Tail(queue)
  /\ UNCHANGED <<stored, active, stopCtx, launch, cancels, engine, clock, restarts, history>>

DrainSave ==
  /\ run.phase = "drained"
  /\ Save(run.scan, run.copy)
  /\ run' = [Resting EXCEPT !.phase = "returned"]
  /\ UNCHANGED <<queue, active, canceled, stopCtx, launch, cancels, engine, clock, restarts,
                 history>>

\* Everything in memory is gone.
Gone ==
  /\ queue' = <<>> /\ active' = {} /\ canceled' = {} /\ stopCtx' = FALSE /\ run' = Resting
  /\ launch' = [s \in Scan |-> Idle]
  /\ cancels' = [s \in Scan |-> Idle]

\* The process ends after Shutdown.
Exit ==
  /\ run.phase = "returned"
  /\ queue = <<>>
  /\ engine' = "stopped"
  /\ Gone
  /\ UNCHANGED <<stored, clock, restarts, history>>

Crash ==
  /\ engine # "stopped"
  /\ restarts < MaxRestarts
  /\ engine' = "stopped"
  /\ Gone
  /\ UNCHANGED <<stored, clock, restarts, history>>

\* Mutant: interrupted scans keep their status.
StartUnreconciled ==
  /\ engine = "stopped"
  /\ restarts' = restarts + 1
  /\ engine' = "open"
  /\ UNCHANGED <<stored, engineVars, launch, cancels, clock, history>>

\* New: ReconcileInterrupted, and an engine with nothing in it.
Start ==
  /\ engine = "stopped"
  /\ restarts' = restarts + 1
  /\ engine' = "open"
  /\ stored' = [s \in Scan |-> IF stored[s].status \in {"queued", "running"}
                               THEN Interrupted(s, stored[s]) ELSE stored[s]]
  /\ UNCHANGED <<engineVars, launch, cancels, clock, history>>

\* A maintenance window ends or begins.
Tick ==
  /\ clock < MaxClock
  /\ clock' = clock + 1
  /\ UNCHANGED <<stored, engineVars, launch, cancels, engine, restarts, history>>

-----------------------------------------------------------------------------
\* The engine's goroutine, then Shutdown, then the next process: one after the
\* other.
EngineStep ==
  \/ Take \/ BeginScan \/ Drop \/ StartRun \/ QueueCloses \/ Conclude \/ Settle
  \/ SaveConclusion \/ EndScan \/ Return \/ Drain \/ DrainSave \/ Exit \/ Start
  \/ \E c \in Check : Dispatch(c) \/ Result(c) \/ Discard(c)

Request(s) ==
  \/ CreateScan(s) \/ ListPaused(s) \/ CancelRead(s)

Handler(s) ==
  \/ Resume(s) \/ Enqueue(s) \/ CancelMark(s) \/ CancelSave(s)

Next ==
  \/ EngineStep
  \/ \E s \in Scan : Request(s) \/ Handler(s)
  \/ Shutdown \/ Crash \/ Tick

Spec == Init /\ [][Next]_vars

\* Goroutines and handlers that can run are run, Go's mutex starves nobody who
\* waits for it, and a process that stopped is started again; nobody owes a
\* request, a tick, a stop or a crash.
Fairness ==
  /\ WF_vars(EngineStep)
  /\ SF_vars(BeginScan) /\ SF_vars(EndScan)
  /\ \A s \in Scan : WF_vars(Handler(s))

FairSpec == Spec /\ Fairness

-----------------------------------------------------------------------------
Copy(phases) == [phase : phases, copy : ScanRow]

\* Every variable has its type; the queue never holds more than QueueSize
\* scans and the engine's goroutine has at most its own scan registered.
EngineTypeOK ==
  /\ stored \in [Scan -> ScanRow]
  /\ queue \in Seq([scan : Scan, copy : ScanRow]) /\ Len(queue) <= QueueSize
  /\ active \in SUBSET {run.scan}
  /\ canceled \subseteq Scan
  /\ stopCtx \in BOOLEAN
  /\ run \in [phase : {"idle", "taken", "dropping", "begun", "probing", "settling", "concluding", "ending",
                       "returned", "drained"},
              scan : Scan \cup {Null}, copy : ScanRow, todo : SUBSET Check,
              flying : SUBSET Check, open : BOOLEAN, byWindow : BOOLEAN]
  /\ launch \in [Scan -> Copy({"idle", "listed", "saved"})]
  /\ cancels \in [Scan -> Copy({"idle", "read", "marked"})]
  /\ engine \in {"open", "closed", "stopped"}
  /\ clock \in 0..MaxClock /\ restarts \in 0..MaxRestarts
  /\ inspected \in [Scan -> SUBSET Check]
  /\ stopped \subseteq Scan

\* The engine works on s: it is queued, or taken and its last save not yet done.
Positions(s) == {i \in 1..Len(queue) : queue[i].scan = s}
Working(s) == run.scan = s /\ run.phase # "ending"

\* A scan shown as completed has had every one of its checks, whatever pauses,
\* resumptions, cancellations and restarts it went through.
CompletedIsComplete == \A s \in Scan : stored[s].status = "completed" => stored[s].checks = Checks[s]

\* A scan shown as queued or running is in the hands of the engine or of the
\* Schedule that queues it: nobody waits for a scan that was forgotten.
NoOrphans ==
  engine # "stopped" =>
    \A s \in Scan : stored[s].status \in {"queued", "running"} =>
      Positions(s) # {} \/ Working(s) \/ launch[s].phase = "saved"

\* The engine never holds a scan twice, so no check is made by two runs at once:
\* the scheduler, which reads stored scans, resumes only what the engine let go.
HeldOnce ==
  \A s \in Scan : Cardinality(Positions(s)) + (IF Working(s) THEN 1 ELSE 0)
                    + (IF launch[s].phase = "saved" THEN 1 ELSE 0) <= 1

\* Nothing but the save of a Cancel takes back a stored check: progress saves, pauses,
\* resumptions from the scheduler's copy, shutdowns and restarts keep them all.
ProgressKept ==
  [][\A s \in Scan : stored[s].checks \subseteq stored'[s].checks
                      \/ (cancels[s].phase = "marked" /\ cancels'[s].phase = "idle")]_vars

\* A scan shown as queued or running does not stay so for ever.
ScansSettle ==
  \A s \in Scan : stored[s].status \in {"queued", "running"}
                    ~> stored[s].status \notin {"queued", "running"}

\* A scan whose Cancel has succeeded is not begun afterwards.
CancelIsFinal ==
  [][(active' \ active) \cap stopped = {}]_vars

\* A completed scan has had every check inspected to the end: what a window or a
\* stop of the process leaves undone is done when the scan is resumed.
CompletedIsInspected ==
  \A s \in Scan : stored[s].status = "completed" => inspected[s] = Checks[s]

=============================================================================
