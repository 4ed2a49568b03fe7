-------------------------- MODULE ScanEngineProofs --------------------------
(***************************************************************************)
(* The engine of local scans keeps its promises for any scans, checks,     *)
(* windows, queue sizes, cancellations, crashes and restarts.              *)
(***************************************************************************)
EXTENDS ScanEngine, TLAPS

\* A copy of scan s that its holder will save has all that is stored of it.
Fits(s, row) == stored[s].checks \subseteq row.checks /\ row.checks \subseteq Checks[s]
\* The stored status of a scan that somebody holds.
Taken(s) == stored[s].status \notin {"none", "paused"}

StoredInv ==
  \A s \in Scan :
    /\ stored[s].checks \subseteq Checks[s]
    /\ stored[s].status = "none" => stored[s].checks = {}
    /\ stored[s].status = "completed" => stored[s].checks = Checks[s]
    /\ cancels[s].phase # "idle" => cancels[s].copy.checks \subseteq stored[s].checks

QueueInv ==
  \A i \in 1..Len(queue) :
    LET s == queue[i].scan IN
    /\ \A j \in 1..Len(queue) : queue[j].scan = s => j = i
    /\ ~ Working(s) /\ launch[s].phase = "idle" /\ Taken(s)
    /\ Fits(s, queue[i].copy) /\ queue[i].copy.status = "queued"

LaunchInv ==
  \A s \in Scan : launch[s].phase # "idle" =>
    /\ ~ Working(s) /\ Fits(s, launch[s].copy) /\ launch[s].copy.status = "queued"
    /\ launch[s].phase = "saved" => Taken(s)

Ended == {"paused", "failed", "canceled", "completed"}
RunInv ==
  /\ run.phase = "idle" => run = Resting
  /\ run.phase = "returned" => run = [Resting EXCEPT !.phase = "returned"]
  /\ run.phase \notin {"begun", "probing", "settling", "concluding", "ending"} => active = {}
  /\ run.phase \notin {"idle", "returned"} =>
       /\ run.scan \in Scan
       /\ run.todo \subseteq Checks[run.scan] /\ run.flying \subseteq Checks[run.scan]
       /\ run.phase # "ending" => Taken(run.scan) /\ Fits(run.scan, run.copy)
  /\ run.phase \in {"taken", "dropping", "begun"} => run.copy.status = "queued"
  /\ run.phase \in {"concluding", "drained"} => run.copy.status \in Ended
  /\ run.phase \in {"concluding", "drained"} /\ run.copy.status = "completed"
       => run.copy.checks = Checks[run.scan]
  /\ run.phase = "settling" => ~ run.open /\ run.flying = {}
  /\ run.phase \in {"probing", "settling"} =>
       /\ run.copy.status = "running"
       /\ ~ ScanDone => /\ Checks[run.scan] \subseteq run.todo \cup run.flying \cup run.copy.checks
                        /\ ~ run.open /\ ~ run.byWindow => run.todo = {}

StoppedInv ==
  engine = "stopped" =>
    /\ queue = <<>> /\ run = Resting
    /\ \A s \in Scan : launch[s] = Idle /\ cancels[s] = Idle

\* The inductive invariant, with a bound the type of restarts needs.
EngineInv ==
  EngineTypeOK /\ StoredInv /\ QueueInv /\ LaunchInv /\ RunInv /\ StoppedInv /\ NoOrphans
RestartsInv ==
  /\ engine # "open" => restarts < MaxRestarts
  /\ run.phase \in {"returned", "drained"} => engine # "open"

RunState ==
  [phase : {"idle", "taken", "dropping", "begun", "probing", "settling", "concluding", "ending",
            "returned", "drained"},
   scan : Scan \cup {Null}, copy : ScanRow, todo : SUBSET Check,
   flying : SUBSET Check, open : BOOLEAN, byWindow : BOOLEAN]
Item == [scan : Scan, copy : ScanRow]

-----------------------------------------------------------------------------
\* Rows keep their type when their status or their checks change.
LEMMA RowTypes ==
  ASSUME NEW row \in ScanRow
  PROVE  /\ \A status \in Status : /\ With(row, status) \in ScanRow /\ With(row, status).status = status
                                   /\ With(row, status).checks = row.checks
                                   /\ With(row, status).window = row.window
         /\ \A c \in Check : [row EXCEPT !.checks = @ \cup {c}] \in ScanRow
         /\ \A s \in Scan : /\ Interrupted(s, row) \in ScanRow
                            /\ Interrupted(s, row).status \in {"paused", "failed"}
                            /\ Interrupted(s, row).checks = row.checks
<1>1. \A status \in Status : /\ With(row, status) \in ScanRow /\ With(row, status).status = status
                             /\ With(row, status).checks = row.checks
                             /\ With(row, status).window = row.window
  BY Zenon DEF With, ScanRow
<1>2. \A c \in Check : [row EXCEPT !.checks = @ \cup {c}] \in ScanRow
  BY Zenon DEF ScanRow
<1>3. \A s \in Scan : /\ Interrupted(s, row) \in ScanRow
                      /\ Interrupted(s, row).status \in {"paused", "failed"}
                      /\ Interrupted(s, row).checks = row.checks
  BY Zenon, <1>1 DEF Interrupted, Status
<1> QED BY Zenon, <1>1, <1>2, <1>3

\* The checks of a scan are checks.
LEMMA ChecksOf == \A s \in Scan : Checks[s] \subseteq Check
BY Zenon DEF Check

\* The states a process begins and ends in.
LEMMA RestTypes ==
  /\ NoScan \in ScanRow /\ Resting \in RunState /\ Idle.phase = "idle" /\ Idle.copy = NoScan
  /\ Idle \in Copy({"idle", "listed", "saved"}) /\ Idle \in Copy({"idle", "read", "marked"})
  /\ Resting.phase = "idle" /\ Resting.scan = Null
<1>1. NoScan \in ScanRow
  BY Zenon DEF NoScan, ScanRow, Status
<1> QED BY Zenon, <1>1 DEF Resting, RunState, Idle, Copy

\* What is in the queue.
LEMMA QueueItems ==
  ASSUME EngineTypeOK, NEW i \in 1..Len(queue)
  PROVE  queue[i].scan \in Scan /\ queue[i].copy \in ScanRow
<1>1. queue \in Seq(Item)
  BY Zenon DEF EngineTypeOK, Item
<1>2. queue[i] \in Item
  BY <1>1
<1> QED BY Zenon, <1>2 DEF Item

\* The engine starts with the invariant.
LEMMA EngineBegins == Init => EngineInv
<1> SUFFICES ASSUME Init PROVE EngineInv
  BY Zenon
<1>1. EngineTypeOK
  <2>1. run \in RunState
    BY Zenon, RestTypes DEF Init
  <2>2. stored \in [Scan -> ScanRow] /\ inspected \in [Scan -> SUBSET Check]
    BY Zenon, RestTypes DEF Init
  <2>3. launch \in [Scan -> Copy({"idle", "listed", "saved"})]
    BY Zenon, RestTypes DEF Init
  <2>4. cancels \in [Scan -> Copy({"idle", "read", "marked"})]
    BY Zenon, RestTypes DEF Init
  <2>5. queue \in Seq(Item) /\ Len(queue) <= QueueSize
    BY EngineAssumption DEF Init
  <2>6. /\ active \in SUBSET {run.scan} /\ canceled \subseteq Scan /\ stopCtx \in BOOLEAN
        /\ engine \in {"open", "closed", "stopped"} /\ stopped \subseteq Scan
    BY Zenon DEF Init
  <2>7. clock \in 0..MaxClock /\ restarts \in 0..MaxRestarts
    BY EngineAssumption DEF Init
  <2> QED BY Zenon, <2>1, <2>2, <2>3, <2>4, <2>5, <2>6, <2>7 DEF EngineTypeOK, RunState, Item
<1>2. StoredInv
  BY Zenon, RestTypes DEF Init, StoredInv, NoScan
<1>3. QueueInv /\ LaunchInv
  BY RestTypes DEF Init, QueueInv, LaunchInv
<1>4. RunInv
  BY Zenon, RestTypes DEF Init, RunInv
<1>5. StoppedInv /\ NoOrphans
  BY Zenon DEF Init, StoppedInv, NoOrphans, NoScan
<1> QED BY Zenon, <1>1, <1>2, <1>3, <1>4, <1>5 DEF EngineInv

\* Steps of the engine's goroutine that neither write a row nor change what it holds.
LEMMA HoldsStill ==
  ASSUME EngineInv, UNCHANGED <<stored, queue, launch, cancels, engine>>,
         run'.scan = run.scan, run.phase = "ending" <=> run'.phase = "ending"
  PROVE  StoredInv' /\ QueueInv' /\ LaunchInv' /\ NoOrphans'
<1>1. \A s : Working(s)' <=> Working(s)
  BY Zenon DEF Working
<1>2. \A s : Taken(s)' <=> Taken(s)
  BY Zenon DEF Taken
<1>3. \A s, row : Fits(s, row)' <=> Fits(s, row)
  BY Zenon DEF Fits
<1>4. StoredInv'
  BY Zenon DEF EngineInv, StoredInv
<1>5. QueueInv' /\ LaunchInv'
  BY Zenon, <1>1, <1>2, <1>3 DEF EngineInv, QueueInv, LaunchInv
<1>6. NoOrphans'
  BY Zenon, <1>1 DEF EngineInv, NoOrphans, Positions
<1> QED BY Zenon, <1>4, <1>5, <1>6

\* The types of what a step of the goroutine changes.
LEMMA RunTypes ==
  ASSUME EngineTypeOK, UNCHANGED <<launch, cancels, clock, restarts, stopped>>,
         run' \in RunState, stored' \in [Scan -> ScanRow], active' \subseteq {run'.scan},
         queue' = queue \/ (queue # <<>> /\ queue' = Tail(queue)),
         canceled' \subseteq Scan, stopCtx' \in BOOLEAN, engine' \in {"open", "closed", "stopped"},
         inspected' \in [Scan -> SUBSET Check]
  PROVE  EngineTypeOK'
<1>1. queue' \in Seq(Item) /\ Len(queue') <= QueueSize
  <2>1. queue \in Seq(Item) /\ Len(queue) <= QueueSize
    BY Zenon DEF EngineTypeOK, Item
  <2>2. queue # <<>> => Tail(queue) \in Seq(Item) /\ Len(Tail(queue)) = Len(queue) - 1
    BY <2>1
  <2> QED BY <2>1, <2>2, EngineAssumption
<1> QED BY Zenon, <1>1 DEF EngineTypeOK, RunState, Item

\* A goroutine that has a scan belongs to a process that runs.
LEMMA RunningProcess ==
  ASSUME EngineInv, run.phase # "idle"
  PROVE  engine # "stopped"
BY Zenon, RestTypes DEF EngineInv, StoppedInv

\* beginScan.
LEMMA BeginScanStep == ASSUME EngineInv, BeginScan PROVE EngineInv'
<1> USE DEF EngineInv
<1>1. /\ run.phase = "taken" /\ run.scan \in Scan /\ run \in RunState
      /\ UNCHANGED <<stored, queue, launch, cancels, engine, clock, restarts, history>>
  BY Zenon DEF BeginScan, RunInv, EngineTypeOK, RunState
<1>2. PICK phase \in {"dropping", "begun"} : run' = [run EXCEPT !.phase = phase]
  BY Zenon DEF BeginScan
<1>3. /\ run' \in RunState /\ run'.phase = phase /\ run'.scan = run.scan /\ run'.copy = run.copy
      /\ run'.todo = run.todo /\ run'.flying = run.flying
  BY Zenon, <1>1, <1>2 DEF RunState
<1>4. StoredInv' /\ QueueInv' /\ LaunchInv' /\ NoOrphans'
  BY Zenon, <1>1, <1>3, HoldsStill
<1>5. /\ active' \subseteq {run.scan} /\ canceled' \subseteq Scan /\ stopCtx' \in BOOLEAN
      /\ phase = "dropping" => active' = active
  BY Zenon, <1>1, <1>2, <1>3 DEF BeginScan, EngineTypeOK, RunState
<1>6. EngineTypeOK'
  BY Zenon, <1>1, <1>3, <1>5, RunTypes DEF EngineTypeOK, history
<1>7. RunInv'
  BY Zenon, <1>1, <1>3, <1>5 DEF RunInv, Taken, Fits
<1>8. StoppedInv'
  BY Zenon, <1>1, RunningProcess DEF StoppedInv
<1> QED BY Zenon, <1>4, <1>6, <1>7, <1>8

\* queueJobs, the workers and the end of the results: what is stored stays.
LEMMA ProbingSteps ==
  ASSUME EngineInv,
         Conclude \/ Settle \/ QueueCloses \/ \E c \in Check : Dispatch(c) \/ Discard(c)
  PROVE  EngineInv'
<1> USE DEF EngineInv
<1>1. /\ run.phase \in {"probing", "settling"} /\ run.scan \in Scan /\ run \in RunState
      /\ run.copy \in ScanRow
      /\ UNCHANGED <<stored, queue, active, canceled, stopCtx, launch, cancels, engine, clock,
                     restarts, history>>
  BY Zenon DEF Conclude, Settle, QueueCloses, Dispatch, Discard, RunInv, EngineTypeOK, RunState
<1>2. StoppedInv' /\ (ScanDone' <=> ScanDone)
  BY Zenon, <1>1, RunningProcess DEF StoppedInv, ScanDone, EngineDone
<1>3. ASSUME run' \in RunState, run'.scan = run.scan, 
             run'.phase \in {"probing", "settling", "concluding"}, RunInv'
      PROVE  EngineInv'
  <2>1. StoredInv' /\ QueueInv' /\ LaunchInv' /\ NoOrphans'
    BY Zenon, <1>1, <1>3, HoldsStill
  <2>2. EngineTypeOK'
    BY Zenon, <1>1, <1>3, RunTypes DEF EngineTypeOK, history
  <2> QED BY Zenon, <1>2, <1>3, <2>1, <2>2
<1>4. CASE QueueCloses
  <2>1. /\ run.phase = "probing"
        /\ \/ (run.todo = {} \/ ScanDone) /\ run' = [run EXCEPT !.open = FALSE]
           \/ run' = [run EXCEPT !.open = FALSE, !.byWindow = TRUE]
    BY Zenon, <1>4 DEF QueueCloses
  <2>2. /\ run' \in RunState /\ run'.scan = run.scan /\ run'.phase = "probing" /\ run'.copy = run.copy
        /\ run'.todo = run.todo /\ run'.flying = run.flying
        /\ run.todo = {} \/ ScanDone \/ run'.byWindow
    BY Zenon, <1>1, <2>1 DEF RunState
  <2>3. RunInv'
    BY Zenon, <1>1, <1>2, <2>2 DEF RunInv, Taken, Fits
  <2> QED BY Zenon, <1>3, <2>2, <2>3
<1>5. ASSUME NEW c \in Check, Dispatch(c) PROVE EngineInv'
  <2>1. /\ run.phase = "probing" /\ c \in run.todo
        /\ run' = [run EXCEPT !.todo = @ \ {c}, !.flying = @ \cup {c}]
    BY Zenon, <1>5 DEF Dispatch
  <2>2. /\ run' \in RunState /\ run'.scan = run.scan /\ run'.phase = "probing" /\ run'.copy = run.copy
        /\ run'.todo = run.todo \ {c} /\ run'.flying = run.flying \cup {c}
        /\ run'.open = run.open /\ run'.byWindow = run.byWindow
    BY Zenon, <1>1, <2>1 DEF RunState
  <2>3. RunInv'
    BY Zenon, <1>1, <1>2, <2>1, <2>2 DEF RunInv, Taken, Fits
  <2> QED BY Zenon, <1>3, <2>2, <2>3
<1>6. ASSUME NEW c \in Check, Discard(c) PROVE EngineInv'
  <2>1. run.phase = "probing" /\ ScanDone /\ run' = [run EXCEPT !.flying = @ \ {c}]
    BY Zenon, <1>6 DEF Discard
  <2>2. /\ run' \in RunState /\ run'.scan = run.scan /\ run'.phase = "probing" /\ run'.copy = run.copy
        /\ run'.todo = run.todo /\ run'.flying = run.flying \ {c}
    BY Zenon, <1>1, <2>1 DEF RunState
  <2>3. RunInv'
    BY Zenon, <1>1, <1>2, <2>1, <2>2 DEF RunInv, Taken, Fits
  <2> QED BY Zenon, <1>3, <2>2, <2>3
<1>7. CASE Conclude /\ EngineDone
  <2> DEFINE row == Interrupted(run.scan, run.copy)
  <2>1. run' = [run EXCEPT !.phase = "concluding", !.copy = row]
    BY Zenon, <1>7 DEF Conclude
  <2>2. row \in ScanRow /\ row.status \in {"paused", "failed"} /\ row.checks = run.copy.checks
    BY Zenon, <1>1, RowTypes
  <2> HIDE DEF row
  <2>3. /\ run' \in RunState /\ run'.scan = run.scan /\ run'.phase = "concluding" /\ run'.copy = row
        /\ run'.todo = run.todo /\ run'.flying = run.flying
    BY Zenon, <1>1, <2>1, <2>2 DEF RunState
  <2>4. RunInv'
    BY Zenon, <1>1, <2>2, <2>3 DEF RunInv, Taken, Fits, Ended
  <2> QED BY Zenon, <1>3, <2>3, <2>4
<1>8. CASE Conclude /\ ~ EngineDone
  <2>1. /\ run.phase = "probing" /\ ~ run.open /\ run.flying = {}
        /\ run' = [run EXCEPT !.phase = "settling"]
    BY Zenon, <1>8 DEF Conclude
  <2>2. /\ run' \in RunState /\ run'.scan = run.scan /\ run'.phase = "settling" /\ run'.copy = run.copy
        /\ run'.todo = run.todo /\ run'.flying = run.flying
        /\ run'.open = run.open /\ run'.byWindow = run.byWindow
    BY Zenon, <1>1, <2>1 DEF RunState
  <2>3. RunInv'
    BY Zenon, <1>1, <1>2, <2>1, <2>2 DEF RunInv, Taken, Fits
  <2> QED BY Zenon, <1>3, <2>2, <2>3
<1>9. CASE Settle
  <2> DEFINE row == Conclusion(run.copy)
  <2>1. /\ run.phase = "settling" /\ ~ run.open /\ run.flying = {}
        /\ run' = [run EXCEPT !.phase = "concluding", !.copy = row]
    BY Zenon, <1>9 DEF Settle, RunInv
  <2>2. /\ row \in ScanRow /\ row.status \in Ended /\ row.checks = run.copy.checks
        /\ row.status = "completed" => /\ ~ ScanDone
                                       /\ run.byWindow => run.copy.checks = Checks[run.scan]
    <3>1. PICK status \in Ended : /\ row = With(run.copy, status)
                                  /\ status = "completed" =>
                                       /\ ~ ScanDone
                                       /\ run.byWindow => run.copy.checks = Checks[run.scan]
      BY Zenon DEF Conclusion, Ended
    <3> QED BY <1>1, <3>1, RowTypes DEF Ended, Status
  <2>3. row.status = "completed" => row.checks = Checks[run.scan]
    BY Zenon, <1>1, <2>1, <2>2 DEF RunInv, Fits
  <2> HIDE DEF row
  <2>4. /\ run' \in RunState /\ run'.scan = run.scan /\ run'.phase = "concluding" /\ run'.copy = row
        /\ run'.todo = run.todo /\ run'.flying = run.flying
    BY Zenon, <1>1, <2>1, <2>2 DEF RunState
  <2>5. RunInv'
    BY Zenon, <1>1, <2>2, <2>3, <2>4 DEF RunInv, Taken, Fits
  <2> QED BY Zenon, <1>3, <2>4, <2>5
<1> QED BY Zenon, <1>4, <1>5, <1>6, <1>7, <1>8, <1>9

\* schedule returns.
LEMMA ReturnStep == ASSUME EngineInv, Return PROVE EngineInv'
<1> USE DEF EngineInv
<1>1. /\ EngineDone /\ run.phase = "idle" /\ run = Resting /\ run' = [Resting EXCEPT !.phase = "returned"]
      /\ UNCHANGED <<stored, queue, active, canceled, stopCtx, launch, cancels, engine, clock,
                     restarts, history>>
  BY Zenon DEF Return, RunInv
<1>2. run' \in RunState /\ run'.scan = Null /\ run'.phase = "returned" /\ run.scan = Null
  BY Zenon, <1>1, RestTypes DEF RunState
<1>3. StoredInv' /\ QueueInv' /\ LaunchInv' /\ NoOrphans'
  BY Zenon, <1>1, <1>2, HoldsStill
<1>4. EngineTypeOK'
  BY Zenon, <1>1, <1>2, RunTypes DEF EngineTypeOK, history
<1>5. RunInv' /\ StoppedInv'
  BY Zenon, <1>1, <1>2 DEF RunInv, StoppedInv, EngineDone
<1> QED BY Zenon, <1>3, <1>4, <1>5

-----------------------------------------------------------------------------
\* The goroutine saves the scan it holds: the row has all checks that were stored, and
\* when it lets go of the scan, an end status.
LEMMA SavedByRun ==
  ASSUME EngineInv, run.phase \notin {"idle", "returned", "ending"},
         NEW row \in ScanRow, Save(run.scan, row), Fits(run.scan, row),
         row.status \in Ended \/ (row.status = "running" /\ run'.scan = run.scan /\ run'.phase # "ending"),
         row.status = "completed" => row.checks = Checks[run.scan],
         run'.scan \in {run.scan, Null},
         UNCHANGED <<queue, launch, cancels, engine>>
  PROVE  /\ StoredInv' /\ QueueInv' /\ LaunchInv' /\ NoOrphans' /\ stored' \in [Scan -> ScanRow]
         /\ stored'[run.scan] = row /\ run.scan \in Scan
<1> USE DEF EngineInv
<1> DEFINE r == run.scan
<1>1. r \in Scan /\ stored[r].checks \subseteq row.checks /\ row.checks \subseteq Checks[r]
      /\ r # Null /\ Working(r)
  BY Zenon, EngineAssumption DEF RunInv, Fits, Working
<1>2. /\ stored' \in [Scan -> ScanRow] /\ stored'[r] = row
      /\ \A s \in Scan : s # r => stored'[s] = stored[s]
  BY Zenon, <1>1 DEF Save, EngineTypeOK
<1>3. \A s \in Scan : s # r => ~ Working(s)' /\ (Taken(s)' <=> Taken(s))
                               /\ (\A c : Fits(s, c)' <=> Fits(s, c))
  BY Zenon, <1>1, <1>2, EngineAssumption DEF Working, Taken, Fits
<1>4. row.status \notin {"none", "queued"} /\ (row.status = "running" => Working(r)')
  BY Zenon DEF Ended, Working
<1>5. StoredInv'
  <2> SUFFICES ASSUME NEW s \in Scan
               PROVE  /\ stored'[s].checks \subseteq Checks[s]
                      /\ stored'[s].status = "none" => stored'[s].checks = {}
                      /\ stored'[s].status = "completed" => stored'[s].checks = Checks[s]
                      /\ cancels[s].phase # "idle" => cancels[s].copy.checks \subseteq stored'[s].checks
    BY Zenon DEF StoredInv
  <2>1. CASE s = r
    BY Zenon, <1>1, <1>2, <1>4, <2>1 DEF StoredInv
  <2>2. CASE s # r
    BY Zenon, <1>2, <2>2 DEF StoredInv
  <2> QED BY Zenon, <2>1, <2>2
<1>6. QueueInv'
  <2>1. \A i \in 1..Len(queue) : queue[i].scan \in Scan /\ queue[i].scan # r
    BY Zenon, <1>1, QueueItems DEF QueueInv
  <2> QED BY Zenon, <1>3, <2>1 DEF QueueInv
<1>7. LaunchInv'
  <2>1. \A s \in Scan : launch[s].phase # "idle" => s # r
    BY Zenon, <1>1 DEF LaunchInv
  <2> QED BY Zenon, <1>3, <2>1 DEF LaunchInv
<1>8. NoOrphans'
  <2> SUFFICES ASSUME NEW s \in Scan, engine # "stopped", stored'[s].status \in {"queued", "running"}
               PROVE  Positions(s)' # {} \/ Working(s)' \/ launch[s].phase = "saved"
    BY Zenon DEF NoOrphans
  <2>1. CASE s = r
    BY Zenon, <1>2, <1>4, <2>1 DEF Ended
  <2>2. CASE s # r
    <3>1. Positions(s)' = Positions(s) /\ ~ Working(s)
      BY Zenon, <2>2 DEF Positions, Working
    <3> QED BY Zenon, <1>2, <2>2, <3>1 DEF NoOrphans
  <2> QED BY Zenon, <2>1, <2>2
<1> QED BY Zenon, <1>1, <1>2, <1>5, <1>6, <1>7, <1>8

\* finishCanceled, the last save of run, and a save of Shutdown: the scan is let go.
LEMMA LetGoSteps ==
  ASSUME EngineInv, Drop \/ SaveConclusion \/ DrainSave
  PROVE  EngineInv'
<1> USE DEF EngineInv
<1>1. /\ UNCHANGED <<queue, active, canceled, stopCtx, launch, cancels, engine, clock, restarts, history>>
      /\ run.phase \in {"dropping", "concluding", "drained"} /\ run \in RunState /\ run.copy \in ScanRow
      /\ Fits(run.scan, run.copy) /\ run.scan \in Scan
  BY Zenon DEF Drop, SaveConclusion, DrainSave, EngineTypeOK, RunState, RunInv
<1>2. StoppedInv'
  BY Zenon, <1>1, RunningProcess DEF StoppedInv
<1>3. ASSUME NEW row \in ScanRow, Save(run.scan, row), row.status \in Ended, Fits(run.scan, row),
             row.status = "completed" => row.checks = Checks[run.scan],
             run' \in RunState, run'.scan \in {run.scan, Null}, active \subseteq {run'.scan}, RunInv'
      PROVE  EngineInv'
  <2>1. StoredInv' /\ QueueInv' /\ LaunchInv' /\ NoOrphans' /\ stored' \in [Scan -> ScanRow]
    BY Zenon, <1>1, <1>3, SavedByRun
  <2>2. EngineTypeOK'
    BY Zenon, <1>1, <1>3, <2>1, RunTypes DEF EngineTypeOK, history
  <2> QED BY Zenon, <1>2, <1>3, <2>1, <2>2
<1>4. CASE Drop
  <2>1. run.phase = "dropping" /\ Save(run.scan, With(run.copy, "canceled")) /\ run' = Resting
    BY Zenon, <1>4 DEF Drop
  <2>2. /\ With(run.copy, "canceled") \in ScanRow /\ With(run.copy, "canceled").status = "canceled"
        /\ With(run.copy, "canceled").checks = run.copy.checks
    BY Zenon, <1>1, RowTypes DEF Status
  <2>3. run'.scan = Null /\ run' \in RunState /\ run'.phase = "idle" /\ active = {}
    BY Zenon, <2>1, RestTypes DEF RunInv
  <2>4. RunInv'
    BY Zenon, <1>1, <2>1, <2>3 DEF RunInv
  <2> QED BY Zenon, <1>1, <1>3, <2>1, <2>2, <2>3, <2>4 DEF Fits, Ended
<1>5. CASE SaveConclusion
  <2>1. run.phase = "concluding" /\ Save(run.scan, run.copy) /\ run' = [run EXCEPT !.phase = "ending"]
    BY Zenon, <1>5 DEF SaveConclusion
  <2>2. /\ run' \in RunState /\ run'.scan = run.scan /\ run'.phase = "ending"
        /\ run'.todo = run.todo /\ run'.flying = run.flying
    BY Zenon, <1>1, <2>1 DEF RunState
  <2>3. RunInv'
    BY Zenon, <1>1, <2>1, <2>2 DEF RunInv
  <2>4. active \subseteq {run'.scan}
    BY Zenon, <2>2 DEF EngineTypeOK
  <2>5. run.copy.status \in Ended /\ (run.copy.status = "completed" => run.copy.checks = Checks[run.scan])
    BY Zenon, <2>1 DEF RunInv
  <2> QED BY Zenon, <1>1, <1>3, <2>1, <2>2, <2>3, <2>4, <2>5
<1>6. CASE DrainSave
  <2>1. /\ run.phase = "drained" /\ Save(run.scan, run.copy)
        /\ run' = [Resting EXCEPT !.phase = "returned"]
    BY Zenon, <1>6 DEF DrainSave
  <2>2. run' \in RunState /\ run'.scan = Null /\ run'.phase = "returned" /\ active = {}
    BY Zenon, <2>1, RestTypes DEF RunState, RunInv
  <2>3. RunInv'
    BY Zenon, <1>1, <2>1, <2>2 DEF RunInv
  <2>4. run.copy.status \in Ended /\ (run.copy.status = "completed" => run.copy.checks = Checks[run.scan])
    BY Zenon, <2>1 DEF RunInv
  <2> QED BY Zenon, <1>1, <1>3, <2>1, <2>2, <2>3, <2>4
<1> QED BY Zenon, <1>4, <1>5, <1>6

\* The first save of run: what is left to do is what has not been checked.
LEMMA StartRunStep == ASSUME EngineInv, StartRun PROVE EngineInv'
<1> USE DEF EngineInv
<1> DEFINE row == With(run.copy, "running")
           over == WindowOver(run.copy)
<1>1. /\ run.phase = "begun" /\ Save(run.scan, row)
      /\ run' = [run EXCEPT !.phase = "probing", !.copy = row, !.todo = Checks[run.scan] \ row.checks,
                            !.open = ~ over, !.byWindow = over]
      /\ UNCHANGED <<queue, active, canceled, stopCtx, launch, cancels, engine, clock, restarts, history>>
  BY Zenon DEF StartRun
<1>2. run \in RunState /\ run.copy \in ScanRow /\ run.scan \in Scan /\ Fits(run.scan, run.copy)
  BY Zenon, <1>1 DEF EngineTypeOK, RunState, RunInv
<1>3. row \in ScanRow /\ row.status = "running" /\ row.checks = run.copy.checks
  BY Zenon, <1>2, RowTypes DEF Status
<1>4. Fits(run.scan, row) /\ row.checks \subseteq Checks[run.scan]
  BY Zenon, <1>2, <1>3 DEF Fits
<1> HIDE DEF row
<1>5. over \in BOOLEAN
  BY Zenon DEF WindowOver
<1> HIDE DEF over
<1>6. Checks[run.scan] \ row.checks \in SUBSET Check
  BY Zenon, <1>2, ChecksOf
<1>7. /\ run' \in RunState /\ run'.phase = "probing" /\ run'.scan = run.scan /\ run'.copy = row
      /\ run'.todo = Checks[run.scan] \ row.checks /\ run'.flying = run.flying
      /\ run'.open = ~ over /\ run'.byWindow = over
  BY Zenon, <1>1, <1>2, <1>3, <1>5, <1>6 DEF RunState
<1>8. StoredInv' /\ QueueInv' /\ LaunchInv' /\ NoOrphans' /\ stored' \in [Scan -> ScanRow]
      /\ stored'[run.scan] = row
  BY Zenon, <1>1, <1>3, <1>4, <1>7, SavedByRun
<1>9. EngineTypeOK'
  BY Zenon, <1>1, <1>7, <1>8, RunTypes DEF EngineTypeOK, history
<1>10. RunInv'
  BY Zenon, <1>1, <1>2, <1>3, <1>4, <1>7, <1>8 DEF RunInv, Taken, Fits
<1>11. StoppedInv'
  BY Zenon, <1>1, RunningProcess DEF StoppedInv
<1> QED BY Zenon, <1>8, <1>9, <1>10, <1>11

\* A result: the check leaves the workers and enters the row, stored or not.
LEMMA ResultStep == ASSUME EngineInv, NEW c \in Check, Result(c) PROVE EngineInv'
<1> USE DEF EngineInv
<1> DEFINE row == [run.copy EXCEPT !.checks = @ \cup {c}]
<1>1. /\ run.phase = "probing" /\ c \in run.flying
      /\ run' = [run EXCEPT !.flying = @ \ {c}, !.copy = row]
      /\ Save(run.scan, row) \/ stored' = stored
      /\ inspected' = [inspected EXCEPT ![run.scan] = @ \cup {c}] \/ inspected' = inspected
      /\ UNCHANGED <<queue, active, canceled, stopCtx, launch, cancels, engine, clock, restarts, stopped>>
  BY Zenon DEF Result
<1>2. /\ run \in RunState /\ run.copy \in ScanRow /\ run.scan \in Scan /\ Fits(run.scan, run.copy)
      /\ run.flying \subseteq Checks[run.scan] /\ run.copy.status = "running" /\ Taken(run.scan)
  BY Zenon, <1>1 DEF EngineTypeOK, RunState, RunInv
<1>3. row \in ScanRow /\ row.status = "running" /\ row.checks = run.copy.checks \cup {c}
  BY Zenon, <1>2, RowTypes DEF ScanRow
<1>4. Fits(run.scan, row)
  BY Zenon, <1>1, <1>2, <1>3 DEF Fits
<1> HIDE DEF row
<1>5. /\ run' \in RunState /\ run'.phase = "probing" /\ run'.scan = run.scan /\ run'.copy = row
      /\ run'.todo = run.todo /\ run'.flying = run.flying \ {c}
      /\ run'.open = run.open /\ run'.byWindow = run.byWindow
  BY Zenon, <1>1, <1>2, <1>3 DEF RunState
<1>6. /\ StoredInv' /\ QueueInv' /\ LaunchInv' /\ NoOrphans' /\ stored' \in [Scan -> ScanRow]
      /\ stored'[run.scan].status \notin {"none", "paused"} /\ stored'[run.scan].checks \subseteq row.checks
  <2>1. CASE Save(run.scan, row)
    <3>1. /\ StoredInv' /\ QueueInv' /\ LaunchInv' /\ NoOrphans' /\ stored' \in [Scan -> ScanRow]
          /\ stored'[run.scan] = row
      BY Zenon, <1>1, <1>3, <1>4, <1>5, <2>1, SavedByRun
    <3>2. stored'[run.scan].status = "running" /\ stored'[run.scan].checks = row.checks
      BY Zenon, <1>3, <3>1
    <3> QED BY Zenon, <3>1, <3>2
  <2>2. CASE stored' = stored
    <3>1. StoredInv' /\ QueueInv' /\ LaunchInv' /\ NoOrphans'
      BY Zenon, <1>1, <1>5, <2>2, HoldsStill
    <3>2. /\ stored' \in [Scan -> ScanRow] /\ stored'[run.scan].checks \subseteq row.checks
          /\ stored'[run.scan].status \notin {"none", "paused"}
      BY Zenon, <1>2, <1>4, <2>2 DEF Taken, Fits, EngineTypeOK
    <3> QED BY Zenon, <3>1, <3>2
  <2> QED BY Zenon, <1>1, <2>1, <2>2
<1>7. inspected' \in [Scan -> SUBSET Check]
  BY <1>1, <1>2 DEF EngineTypeOK
<1>8. EngineTypeOK'
  BY Zenon, <1>1, <1>5, <1>6, <1>7, RunTypes DEF EngineTypeOK
<1>9. ScanDone' <=> ScanDone
  BY Zenon, <1>1 DEF ScanDone, EngineDone
<1>10. RunInv'
  <2>1. Taken(run.scan)' /\ Fits(run.scan, run.copy)'
    BY Zenon, <1>4, <1>5, <1>6 DEF Taken, Fits
  <2> QED BY Zenon, <1>1, <1>2, <1>3, <1>5, <1>9, <2>1 DEF RunInv
<1>11. StoppedInv'
  BY Zenon, <1>1, RunningProcess DEF StoppedInv
<1> QED BY Zenon, <1>6, <1>8, <1>10, <1>11

\* endScan: the scan was let go of before.
LEMMA EndScanStep == ASSUME EngineInv, EndScan PROVE EngineInv'
<1> USE DEF EngineInv
<1>1. /\ run.phase = "ending" /\ active' = active \ {run.scan} /\ canceled' = canceled \ {run.scan}
      /\ stopCtx' = FALSE /\ run' = Resting
      /\ UNCHANGED <<stored, queue, launch, cancels, engine, clock, restarts, history>>
  BY Zenon DEF EndScan
<1>2. run' \in RunState /\ run'.scan = Null /\ run'.phase = "idle" /\ active' = {}
  BY Zenon, <1>1, RestTypes DEF EngineTypeOK
<1>3. \A s \in Scan : ~ Working(s)' /\ ~ Working(s)
  BY Zenon, <1>1, <1>2, EngineAssumption DEF Working
<1>4. \A s : (Taken(s)' <=> Taken(s)) /\ (\A row : Fits(s, row)' <=> Fits(s, row))
  BY Zenon, <1>1 DEF Taken, Fits
<1>5. \A i \in 1..Len(queue) : queue[i].scan \in Scan
  BY Zenon, QueueItems
<1>6. StoredInv' /\ QueueInv' /\ LaunchInv'
  BY Zenon, <1>1, <1>3, <1>4, <1>5 DEF StoredInv, QueueInv, LaunchInv
<1>7. NoOrphans'
  BY Zenon, <1>1, <1>3 DEF NoOrphans, Positions
<1>8. EngineTypeOK'
  BY Zenon, <1>1, <1>2, RunTypes DEF EngineTypeOK, history
<1>9. RunInv' /\ StoppedInv'
  BY Zenon, <1>1, <1>2, RunningProcess DEF RunInv, StoppedInv
<1> QED BY Zenon, <1>6, <1>7, <1>8, <1>9

-----------------------------------------------------------------------------
\* The first scan of the queue goes over to the goroutine, or to Shutdown.
LEMMA HeadTaken ==
  ASSUME EngineInv, queue # <<>>, queue' = Tail(queue), run.phase \in {"idle", "returned"},
         run'.scan = Head(queue).scan, run'.phase # "ending", UNCHANGED <<stored, launch, cancels, engine>>
  PROVE  /\ StoredInv' /\ QueueInv' /\ LaunchInv' /\ NoOrphans'
         /\ Head(queue).scan \in Scan /\ Head(queue).copy \in ScanRow /\ Head(queue).copy.status = "queued"
         /\ Taken(Head(queue).scan) /\ Fits(Head(queue).scan, Head(queue).copy)
<1> USE DEF EngineInv
<1> DEFINE h == Head(queue).scan
<1>1. queue \in Seq(Item) /\ Len(queue) \in Nat /\ Len(queue) >= 1 /\ Head(queue) = queue[1]
  BY DEF EngineTypeOK, Item
<1>2. h \in Scan /\ Head(queue).copy \in ScanRow
  BY <1>1, QueueItems
<1>3. /\ Head(queue).copy.status = "queued" /\ Taken(h) /\ Fits(h, Head(queue).copy)
      /\ launch[h].phase = "idle" /\ \A j \in 1..Len(queue) : queue[j].scan = h => j = 1
  BY <1>1 DEF QueueInv
<1>4. \A s : (Taken(s)' <=> Taken(s)) /\ (\A row : Fits(s, row)' <=> Fits(s, row))
  BY Zenon DEF Taken, Fits
<1>5. \A s \in Scan : ~ Working(s) /\ (Working(s)' <=> s = h)
  BY Zenon, RestTypes, EngineAssumption DEF RunInv, Working, Resting
<1>6. Len(queue') = Len(queue) - 1 /\ \A i \in 1..Len(queue') : queue'[i] = queue[i + 1]
  BY <1>1
<1>7. StoredInv'
  BY Zenon DEF StoredInv
<1>8. LaunchInv'
  BY Zenon, <1>3, <1>4, <1>5 DEF LaunchInv
<1>9. QueueInv'
  <2> SUFFICES ASSUME NEW i \in 1..Len(queue'), NEW s, s = queue'[i].scan,
                      NEW row, row = queue'[i].copy
               PROVE  /\ \A j \in 1..Len(queue') : queue'[j].scan = s => j = i
                      /\ ~ Working(s)' /\ launch'[s].phase = "idle" /\ Taken(s)'
                      /\ Fits(s, row)' /\ row.status = "queued"
    BY DEF QueueInv, Working, Taken, Fits
  <2>1. i + 1 \in 1..Len(queue) /\ i + 1 # 1 /\ queue'[i] = queue[i + 1]
    BY <1>1, <1>6
  <2>2. queue[i + 1].scan \in Scan /\ queue[i + 1].scan # h
    BY Zenon, <1>3, <2>1, QueueItems
  <2>3. \A j \in 1..Len(queue') : j + 1 \in 1..Len(queue) /\ queue'[j] = queue[j + 1]
    BY <1>1, <1>6
  <2>4. \A j \in 1..Len(queue') : queue'[j].scan = queue'[i].scan => j = i
    <3> SUFFICES ASSUME NEW j \in 1..Len(queue'), queue'[j].scan = queue'[i].scan PROVE j = i
      BY Zenon
    <3>1. j + 1 = i + 1
      BY <2>1, <2>3 DEF QueueInv
    <3> QED BY <1>6, <3>1
  <2> QED BY Zenon, <1>4, <1>5, <2>1, <2>2, <2>4 DEF QueueInv
<1>10. NoOrphans'
  <2> SUFFICES ASSUME NEW s \in Scan, engine # "stopped", stored[s].status \in {"queued", "running"}
               PROVE  Positions(s)' # {} \/ Working(s)' \/ launch[s].phase = "saved"
    BY Zenon DEF NoOrphans
  <2>1. CASE s = h
    BY Zenon, <1>5, <2>1
  <2>2. CASE launch[s].phase = "saved"
    BY Zenon, <2>2
  <2>3. CASE s # h /\ launch[s].phase # "saved"
    <3>1. PICK i \in 1..Len(queue) : queue[i].scan = s
      BY Zenon, <1>5, <2>3 DEF NoOrphans, Positions
    <3>2. i # 1
      BY Zenon, <1>1, <2>3, <3>1
    <3>3. i - 1 \in 1..Len(queue') /\ queue'[i - 1] = queue[i]
      BY <1>1, <1>6, <3>2
    <3>4. i - 1 \in Positions(s)'
      BY Zenon, <3>1, <3>3 DEF Positions
    <3> QED BY Zenon, <3>4
  <2> QED BY Zenon, <2>1, <2>2, <2>3
<1> QED BY Zenon, <1>2, <1>3, <1>7, <1>8, <1>9, <1>10

\* schedule takes a scan.
LEMMA TakeStep == ASSUME EngineInv, Take PROVE EngineInv'
<1> USE DEF EngineInv
<1> DEFINE h == Head(queue).scan
           copy == Head(queue).copy
<1>1. /\ engine # "stopped" /\ run.phase = "idle" /\ queue # <<>> /\ queue' = Tail(queue)
      /\ run' = [Resting EXCEPT !.phase = "taken", !.scan = h, !.copy = copy]
      /\ UNCHANGED <<stored, active, canceled, stopCtx, launch, cancels, engine, clock, restarts, history>>
  BY Zenon DEF Take
<1>2. /\ run'.phase = "taken" /\ run'.scan = h /\ run'.copy = copy /\ run'.todo = {} /\ run'.flying = {}
  BY Zenon, <1>1 DEF Resting
<1>3. /\ StoredInv' /\ QueueInv' /\ LaunchInv' /\ NoOrphans' /\ h \in Scan /\ copy \in ScanRow
      /\ copy.status = "queued" /\ Taken(h) /\ Fits(h, copy)
  BY Zenon, <1>1, <1>2, HeadTaken
<1>4. Taken(run.scan)' /\ Fits(run.scan, run.copy)'
  BY Zenon, <1>1, <1>2, <1>3 DEF Taken, Fits
<1> HIDE DEF h, copy
<1>5. run' \in RunState
  BY Zenon, <1>1, <1>3 DEF Resting, RunState
<1>6. active = {}
  BY Zenon, <1>1 DEF RunInv
<1>7. EngineTypeOK'
  BY Zenon, <1>1, <1>5, <1>6, RunTypes DEF EngineTypeOK, history
<1>8. RunInv' /\ StoppedInv'
  BY Zenon, <1>1, <1>2, <1>3, <1>4, <1>6 DEF RunInv, StoppedInv
<1> QED BY Zenon, <1>3, <1>7, <1>8

\* Shutdown takes a scan out of the queue.
LEMMA DrainStep == ASSUME EngineInv, Drain PROVE EngineInv'
<1> USE DEF EngineInv
<1> DEFINE h == Head(queue).scan
           copy == Head(queue).copy
           row == IF h \in canceled THEN With(copy, "canceled") ELSE Interrupted(h, copy)
<1>1. /\ run.phase = "returned" /\ queue # <<>> /\ queue' = Tail(queue) /\ canceled' = canceled \ {h}
      /\ run' = [run EXCEPT !.phase = "drained", !.scan = h, !.copy = row]
      /\ UNCHANGED <<stored, active, stopCtx, launch, cancels, engine, clock, restarts, history>>
  BY Zenon DEF Drain
<1>2. run = [Resting EXCEPT !.phase = "returned"] /\ active = {}
  BY Zenon, <1>1 DEF RunInv
<1>3. /\ run'.phase = "drained" /\ run'.scan = h /\ run'.copy = row /\ run'.todo = {} /\ run'.flying = {}
  BY Zenon, <1>1, <1>2 DEF Resting
<1>4. /\ StoredInv' /\ QueueInv' /\ LaunchInv' /\ NoOrphans' /\ h \in Scan /\ copy \in ScanRow
      /\ Taken(h) /\ Fits(h, copy)
  BY Zenon, <1>1, <1>3, HeadTaken
<1>5. row \in ScanRow /\ row.status \in {"canceled", "paused", "failed"} /\ row.checks = copy.checks
  BY Zenon, <1>4, RowTypes DEF Status
<1>6. Taken(run.scan)' /\ Fits(run.scan, run.copy)'
  BY Zenon, <1>1, <1>3, <1>4, <1>5 DEF Taken, Fits
<1> HIDE DEF h, copy, row
<1>7. run' \in RunState
  BY Zenon, <1>1, <1>2, <1>4, <1>5 DEF Resting, RunState
<1>8. EngineTypeOK'
  BY Zenon, <1>1, <1>2, <1>7, RunTypes DEF EngineTypeOK, history
<1>9. RunInv' /\ StoppedInv'
  BY Zenon, <1>1, <1>2, <1>3, <1>4, <1>5, <1>6, RunningProcess DEF RunInv, StoppedInv, Ended
<1> QED BY Zenon, <1>4, <1>8, <1>9

-----------------------------------------------------------------------------
\* Types of a launch: one row, one launching thread and the queue change.
LEMMA LaunchTypes ==
  ASSUME EngineTypeOK, NEW s \in Scan, NEW l \in Copy({"idle", "listed", "saved"}),
         launch' = [launch EXCEPT ![s] = l], stored' \in [Scan -> ScanRow],
         queue' \in Seq(Item), Len(queue') <= QueueSize,
         UNCHANGED <<active, canceled, stopCtx, run, cancels, engine, clock, restarts, history>>
  PROVE  /\ EngineTypeOK' /\ launch'[s] = l /\ \A t \in Scan : t # s => launch'[t] = launch[t]
<1>1. /\ launch' \in [Scan -> Copy({"idle", "listed", "saved"})] /\ launch'[s] = l
      /\ \A t \in Scan : t # s => launch'[t] = launch[t]
  BY Zenon DEF EngineTypeOK
<1> QED BY <1>1 DEF EngineTypeOK, Item, history

\* Rows of other scans than the one that is saved.
LEMMA SaveOne ==
  ASSUME EngineTypeOK, NEW s \in Scan, NEW row \in ScanRow, Save(s, row)
  PROVE  /\ stored' \in [Scan -> ScanRow] /\ stored'[s] = row
         /\ \A t \in Scan : t # s => /\ stored'[t] = stored[t] /\ (Taken(t)' <=> Taken(t))
                                     /\ \A c : Fits(t, c)' <=> Fits(t, c)
<1>1. /\ stored' \in [Scan -> ScanRow] /\ stored'[s] = row
      /\ \A t \in Scan : t # s => stored'[t] = stored[t]
  BY Zenon DEF Save, EngineTypeOK
<1> QED BY Zenon, <1>1 DEF Taken, Fits

\* RunInv after a step of somebody who does not write the goroutine's scan.
LEMMA RunUndisturbed ==
  ASSUME EngineInv, run' = run, active' = active,
         run.phase \notin {"idle", "returned", "ending"} => stored'[run.scan] = stored[run.scan],
         ScanDone => ScanDone'
  PROVE  RunInv'
<1>1. /\ run.phase \notin {"idle", "returned", "ending"} =>
           (Taken(run.scan) => Taken(run.scan)') /\ (Fits(run.scan, run.copy) => Fits(run.scan, run.copy)')
  BY Zenon DEF Taken, Fits
<1> QED BY Zenon, <1>1 DEF EngineInv, RunInv

\* A new scan: it was not there, so nobody held it.
LEMMA CreateScanStep == ASSUME EngineInv, NEW s \in Scan, CreateScan(s) PROVE EngineInv'
<1> USE DEF EngineInv
<1> DEFINE row == [status |-> "queued", checks |-> {}, window |-> WindowEnd(s)]
           l == [phase |-> "saved", copy |-> row]
<1>1. /\ engine = "open" /\ stored[s].status = "none" /\ launch[s].phase = "idle" /\ Save(s, row)
      /\ launch' = [launch EXCEPT ![s] = l]
      /\ UNCHANGED <<engineVars, cancels, engine, clock, restarts, history>>
  BY Zenon DEF CreateScan
<1>2. UNCHANGED <<queue, active, canceled, stopCtx, run>>
  BY Zenon, <1>1 DEF engineVars
<1>3. WindowEnd(s) \in Nat \cup {Null}
  BY EngineAssumption DEF WindowEnd, EngineTypeOK
<1>4. row \in ScanRow /\ row.status = "queued" /\ row.checks = {}
  BY Zenon, <1>3 DEF ScanRow, Status
<1> HIDE DEF row
<1>5. l \in Copy({"idle", "listed", "saved"}) /\ l.phase = "saved" /\ l.copy = row
  BY Zenon, <1>4 DEF Copy
<1> HIDE DEF l
<1>6. /\ stored' \in [Scan -> ScanRow] /\ stored'[s] = row
      /\ \A t \in Scan : t # s => /\ stored'[t] = stored[t] /\ (Taken(t)' <=> Taken(t))
                                  /\ \A c : Fits(t, c)' <=> Fits(t, c)
  BY Zenon, <1>1, <1>4, SaveOne
<1>7. EngineTypeOK' /\ launch'[s] = l /\ \A t \in Scan : t # s => launch'[t] = launch[t]
  <2>1. queue' \in Seq(Item) /\ Len(queue') <= QueueSize
    BY Zenon, <1>2 DEF EngineTypeOK, Item
  <2> QED BY Zenon, <1>1, <1>2, <1>5, <1>6, <2>1, LaunchTypes
<1>8. ~ Working(s) /\ ~ Taken(s) /\ \A i \in 1..Len(queue) : queue[i].scan # s
  BY <1>1, EngineAssumption DEF Working, RunInv, Resting, Taken, QueueInv
<1>9. \A t : Working(t)' <=> Working(t)
  BY Zenon, <1>2 DEF Working
<1>10. StoredInv'
  <2>1. \A t \in Scan : t # s => stored'[t] = stored[t] /\ cancels'[t] = cancels[t]
    BY Zenon, <1>1, <1>6
  <2>2. stored[s].checks = {} /\ (cancels[s].phase # "idle" => cancels[s].copy.checks = {})
    BY Zenon, <1>1 DEF StoredInv
  <2> QED BY Zenon, <1>1, <1>4, <1>6, <2>1, <2>2 DEF StoredInv
<1>11. QueueInv'
  BY <1>2, <1>6, <1>7, <1>8, <1>9, QueueItems DEF QueueInv
<1>12. LaunchInv'
  <2>1. Taken(s)' /\ Fits(s, launch[s].copy)'
    BY Zenon, <1>4, <1>5, <1>6, <1>7 DEF Taken, Fits
  <2>2. \A t \in Scan : t # s => (Fits(t, launch[t].copy)' <=> Fits(t, launch[t].copy))
    BY Zenon, <1>6, <1>7 DEF Fits
  <2> QED BY Zenon, <1>4, <1>5, <1>6, <1>7, <1>8, <1>9, <2>1, <2>2 DEF LaunchInv
<1>13. NoOrphans'
  <2>1. \A t : Positions(t)' = Positions(t)
    BY Zenon, <1>2 DEF Positions
  <2> QED BY Zenon, <1>1, <1>5, <1>6, <1>7, <1>9, <2>1 DEF NoOrphans
<1>14. RunInv'
  <2>1. run.phase \notin {"idle", "returned", "ending"} => run.scan \in Scan /\ run.scan # s
    BY Zenon, <1>8 DEF RunInv, Working
  <2>2. ScanDone => ScanDone'
    BY Zenon, <1>1, <1>2 DEF ScanDone, EngineDone
  <2> QED BY Zenon, <1>2, <1>6, <2>1, <2>2, RunUndisturbed
<1>15. StoppedInv'
  BY Zenon, <1>1 DEF StoppedInv
<1> QED BY Zenon, <1>7, <1>10, <1>11, <1>12, <1>13, <1>14, <1>15

\* The scheduler lists a paused scan: a paused scan is nobody's.
LEMMA ListPausedStep == ASSUME EngineInv, NEW s \in Scan, ListPaused(s) PROVE EngineInv'
<1> USE DEF EngineInv
<1> DEFINE l == Listed(s)
<1>1. /\ engine = "open" /\ stored[s].status = "paused" /\ launch[s].phase = "idle"
      /\ launch' = [launch EXCEPT ![s] = l]
      /\ UNCHANGED <<stored, engineVars, cancels, engine, clock, restarts, history>>
  BY Zenon DEF ListPaused
<1>2. UNCHANGED <<queue, active, canceled, stopCtx, run>>
  BY Zenon, <1>1 DEF engineVars
<1>3. WindowEnd(s) \in Nat \cup {Null} /\ stored[s] \in ScanRow
  BY EngineAssumption DEF WindowEnd, EngineTypeOK
<1>4. /\ l \in Copy({"idle", "listed", "saved"}) /\ l.phase = "listed"
      /\ l.copy.checks = stored[s].checks /\ l.copy.status = "queued"
  <2>1. /\ With(stored[s], "queued") \in ScanRow /\ With(stored[s], "queued").status = "queued"
        /\ With(stored[s], "queued").checks = stored[s].checks
    BY Zenon, <1>3, RowTypes DEF Status
  <2>2. ASSUME NEW row \in ScanRow
        PROVE  /\ [row EXCEPT !.window = WindowEnd(s)] \in ScanRow
               /\ [row EXCEPT !.window = WindowEnd(s)].status = row.status
               /\ [row EXCEPT !.window = WindowEnd(s)].checks = row.checks
    BY Zenon, <1>3 DEF ScanRow
  <2> QED BY Zenon, <2>1, <2>2 DEF Listed, Copy
<1> HIDE DEF l
<1>5. EngineTypeOK' /\ launch'[s] = l /\ \A t \in Scan : t # s => launch'[t] = launch[t]
  <2>1. queue' \in Seq(Item) /\ Len(queue') <= QueueSize /\ stored' \in [Scan -> ScanRow]
    BY Zenon, <1>1, <1>2 DEF EngineTypeOK, Item
  <2> QED BY Zenon, <1>1, <1>2, <1>4, <2>1, LaunchTypes
<1>6. ~ Working(s) /\ \A i \in 1..Len(queue) : queue[i].scan # s
  BY <1>1, EngineAssumption DEF Working, RunInv, Resting, Taken, QueueInv
<1>7. \A t : (Working(t)' <=> Working(t)) /\ (Taken(t)' <=> Taken(t)) /\ Positions(t)' = Positions(t)
  BY Zenon, <1>1, <1>2 DEF Working, Taken, Positions
<1>8. StoredInv'
  BY Zenon, <1>1 DEF StoredInv
<1>9. QueueInv'
  <2>1. \A t, row : Fits(t, row)' <=> Fits(t, row)
    BY Zenon, <1>1 DEF Fits
  <2> QED BY Zenon, <1>2, <1>5, <1>6, <1>7, <2>1, QueueItems DEF QueueInv
<1>10. LaunchInv'
  <2>1. \A t \in Scan : t # s => (Fits(t, launch[t].copy)' <=> Fits(t, launch[t].copy))
    BY Zenon, <1>1, <1>5 DEF Fits
  <2>2. Fits(s, launch[s].copy)'
    BY Zenon, <1>1, <1>4, <1>5 DEF Fits, StoredInv
  <2> QED BY Zenon, <1>4, <1>5, <1>6, <1>7, <2>1, <2>2 DEF LaunchInv
<1>11. NoOrphans'
  BY Zenon, <1>1, <1>5, <1>7 DEF NoOrphans
<1>12. RunInv'
  BY Zenon, <1>1, <1>2, RunUndisturbed DEF ScanDone, EngineDone
<1>13. StoppedInv'
  BY Zenon, <1>1 DEF StoppedInv
<1> QED BY Zenon, <1>5, <1>8, <1>9, <1>10, <1>11, <1>12, <1>13

\* Schedule saves the scan that is resumed with the checks of the scheduler's copy.
LEMMA ResumeStep == ASSUME EngineInv, NEW s \in Scan, Resume(s) PROVE EngineInv'
<1> USE DEF EngineInv
<1> DEFINE row == launch[s].copy
           l == [launch[s] EXCEPT !.phase = "saved"]
<1>1. /\ launch[s].phase = "listed" /\ Save(s, row) /\ launch' = [launch EXCEPT ![s] = l]
      /\ UNCHANGED <<engineVars, cancels, engine, clock, restarts, history>>
  BY Zenon DEF Resume
<1>2. UNCHANGED <<queue, active, canceled, stopCtx, run>>
  BY Zenon, <1>1 DEF engineVars
<1>3. launch[s] \in Copy({"idle", "listed", "saved"})
  BY Zenon DEF EngineTypeOK
<1>4. /\ row \in ScanRow /\ row.status = "queued" /\ stored[s].checks \subseteq row.checks
      /\ row.checks \subseteq Checks[s] /\ ~ Working(s)
      /\ l \in Copy({"idle", "listed", "saved"}) /\ l.phase = "saved" /\ l.copy = row
  BY Zenon, <1>1, <1>3 DEF Copy, LaunchInv, Fits
<1> HIDE DEF row, l
<1>5. /\ stored' \in [Scan -> ScanRow] /\ stored'[s] = row
      /\ \A t \in Scan : t # s => /\ stored'[t] = stored[t] /\ (Taken(t)' <=> Taken(t))
                                  /\ \A c : Fits(t, c)' <=> Fits(t, c)
  BY Zenon, <1>1, <1>4, SaveOne
<1>6. EngineTypeOK' /\ launch'[s] = l /\ \A t \in Scan : t # s => launch'[t] = launch[t]
  <2>1. queue' \in Seq(Item) /\ Len(queue') <= QueueSize
    BY Zenon, <1>2 DEF EngineTypeOK, Item
  <2> QED BY Zenon, <1>1, <1>2, <1>4, <1>5, <2>1, LaunchTypes
<1>7. \A i \in 1..Len(queue) : queue[i].scan # s
  BY Zenon, <1>1 DEF QueueInv
<1>8. \A t : (Working(t)' <=> Working(t)) /\ Positions(t)' = Positions(t)
  BY Zenon, <1>2 DEF Working, Positions
<1>9. StoredInv'
  <2>1. \A t \in Scan : t # s => stored'[t] = stored[t] /\ cancels'[t] = cancels[t]
    BY Zenon, <1>1, <1>5
  <2>2. cancels[s].phase # "idle" => cancels[s].copy.checks \subseteq row.checks
    BY Zenon, <1>4 DEF StoredInv
  <2> QED BY Zenon, <1>1, <1>4, <1>5, <2>1, <2>2 DEF StoredInv
<1>10. QueueInv'
  BY Zenon, <1>2, <1>5, <1>6, <1>7, <1>8, QueueItems DEF QueueInv
<1>11. LaunchInv'
  <2>1. \A t \in Scan : t # s => (Fits(t, launch[t].copy)' <=> Fits(t, launch[t].copy))
    BY Zenon, <1>5, <1>6 DEF Fits
  <2>2. Fits(s, launch[s].copy)' /\ Taken(s)'
    BY Zenon, <1>4, <1>5, <1>6 DEF Fits, Taken
  <2> QED BY Zenon, <1>4, <1>5, <1>6, <1>8, <2>1, <2>2 DEF LaunchInv
<1>12. NoOrphans'
  BY Zenon, <1>1, <1>4, <1>5, <1>6, <1>8 DEF NoOrphans
<1>13. RunInv'
  <2>1. run.phase \notin {"idle", "returned", "ending"} => run.scan \in Scan /\ run.scan # s
    BY Zenon, <1>4 DEF RunInv, Working
  <2>2. ScanDone => ScanDone'
    BY Zenon, <1>1, <1>2 DEF ScanDone, EngineDone
  <2> QED BY Zenon, <1>2, <1>5, <2>1, <2>2, RunUndisturbed
<1>14. StoppedInv'
  BY Zenon, <1>1, RestTypes DEF StoppedInv
<1> QED BY Zenon, <1>6, <1>9, <1>10, <1>11, <1>12, <1>13, <1>14

\* The rest of Schedule: the scan goes into the queue, or is interrupted when it is full.
LEMMA EnqueueStep == ASSUME EngineInv, NEW s \in Scan, Enqueue(s) PROVE EngineInv'
<1> USE DEF EngineInv
<1> DEFINE row == launch[s].copy
           item == [scan |-> s, copy |-> row]
<1>1. /\ launch[s].phase = "saved" /\ launch' = [launch EXCEPT ![s] = Idle]
      /\ UNCHANGED <<active, canceled, stopCtx, run, cancels, engine, clock, restarts, history>>
      /\ \/ Len(queue) < QueueSize /\ queue' = Append(queue, item) /\ stored' = stored
         \/ queue' = queue /\ Save(s, Interrupted(s, row))
  BY Zenon DEF Enqueue
<1>2. /\ row \in ScanRow /\ row.status = "queued" /\ Fits(s, row) /\ ~ Working(s) /\ Taken(s)
      /\ \A i \in 1..Len(queue) : queue[i].scan \in Scan /\ queue[i].scan # s
  <2>1. row \in ScanRow
    BY Zenon DEF EngineTypeOK, Copy
  <2> QED BY Zenon, <1>1, <2>1, QueueItems DEF LaunchInv, QueueInv
<1>3. queue \in Seq(Item) /\ Len(queue) \in Nat /\ Len(queue) <= QueueSize
  BY DEF EngineTypeOK, Item
<1>4. \A t : Working(t)' <=> Working(t)
  BY Zenon, <1>1 DEF Working
<1>5. engine # "stopped" /\ StoppedInv'
  BY Zenon, <1>1, RestTypes DEF StoppedInv
<1>6. ScanDone => ScanDone'
  BY Zenon, <1>1 DEF ScanDone, EngineDone
<1>7. CASE Len(queue) < QueueSize /\ queue' = Append(queue, item) /\ stored' = stored
  <2>1. item \in Item /\ item.scan = s /\ item.copy = row
    BY Zenon, <1>2 DEF Item
  <2> HIDE DEF row, item
  <2>2. /\ queue' \in Seq(Item) /\ Len(queue') = Len(queue) + 1
        /\ queue'[Len(queue) + 1] = item /\ \A i \in 1..Len(queue) : queue'[i] = queue[i]
    BY <1>3, <1>7, <2>1
  <2>3. Len(queue') <= QueueSize
    BY <1>3, <1>7, <2>2, EngineAssumption
  <2>4. EngineTypeOK' /\ launch'[s] = Idle /\ \A t \in Scan : t # s => launch'[t] = launch[t]
    <3>1. stored' \in [Scan -> ScanRow]
      BY Zenon, <1>7 DEF EngineTypeOK
    <3> QED BY Zenon, <1>1, <2>2, <2>3, <3>1, RestTypes, LaunchTypes
  <2>5. StoredInv'
    BY Zenon, <1>1, <1>7 DEF StoredInv
  <2>6. \A t : (Taken(t)' <=> Taken(t)) /\ (\A c : Fits(t, c)' <=> Fits(t, c))
    BY Zenon, <1>7 DEF Taken, Fits
  <2>7. QueueInv'
    <3> SUFFICES ASSUME NEW i \in 1..Len(queue'), NEW t, t = queue'[i].scan, NEW c, c = queue'[i].copy
                 PROVE  /\ \A j \in 1..Len(queue') : queue'[j].scan = t => j = i
                        /\ ~ Working(t)' /\ launch'[t].phase = "idle" /\ Taken(t)'
                        /\ Fits(t, c)' /\ c.status = "queued"
      BY Zenon DEF QueueInv, Working, Taken, Fits
    <3>1. \A j \in 1..Len(queue') : j \in 1..Len(queue) \/ j = Len(queue) + 1
      BY <1>3, <2>2
    <3>2. CASE i = Len(queue) + 1
      <4>1. t = s /\ c = row
        BY Zenon, <2>1, <2>2, <3>2
      <4>2. \A j \in 1..Len(queue') : queue'[j].scan = t => j = i
        BY Zenon, <1>2, <2>2, <3>1, <3>2, <4>1
      <4>3. Fits(s, row) /\ row.status = "queued"
        BY Zenon, <1>2
      <4> QED BY Zenon, <1>2, <1>4, <2>4, <2>6, <4>1, <4>2, <4>3, RestTypes
    <3>3. CASE i \in 1..Len(queue)
      <4>1. t = queue[i].scan /\ c = queue[i].copy /\ t \in Scan /\ t # s
        BY Zenon, <1>2, <2>2, <3>3
      <4>2. \A j \in 1..Len(queue') : queue'[j].scan = t => j = i
        BY Zenon, <2>1, <2>2, <3>1, <3>3, <4>1 DEF QueueInv
      <4> QED BY <1>4, <2>4, <2>6, <3>3, <4>1, <4>2 DEF QueueInv
    <3> QED BY Zenon, <3>1, <3>2, <3>3
  <2>8. LaunchInv'
    <3>1. \A t \in Scan : t # s => (Fits(t, launch[t].copy)' <=> Fits(t, launch[t].copy))
      BY Zenon, <1>7, <2>4 DEF Fits
    <3> QED BY Zenon, <1>4, <2>4, <2>6, <3>1, RestTypes DEF LaunchInv
  <2>9. NoOrphans'
    <3> SUFFICES ASSUME NEW t \in Scan, stored[t].status \in {"queued", "running"}
                 PROVE  Positions(t)' # {} \/ Working(t)' \/ launch'[t].phase = "saved"
      BY Zenon, <1>7 DEF NoOrphans
    <3>1. CASE t = s
      <4>1. Len(queue) + 1 \in Positions(t)'
        BY <1>3, <2>1, <2>2, <3>1 DEF Positions
      <4> QED BY Zenon, <4>1
    <3>2. CASE t # s
      <4>1. Positions(t) \subseteq Positions(t)'
        BY <1>3, <2>2 DEF Positions
      <4> QED BY Zenon, <1>4, <1>5, <2>4, <3>2, <4>1 DEF NoOrphans
    <3> QED BY Zenon, <3>1, <3>2
  <2>10. RunInv'
    BY Zenon, <1>1, <1>6, <1>7, RunUndisturbed
  <2> QED BY Zenon, <1>5, <2>4, <2>5, <2>7, <2>8, <2>9, <2>10
<1>8. CASE queue' = queue /\ Save(s, Interrupted(s, row))
  <2> DEFINE r == Interrupted(s, row)
  <2>1. r \in ScanRow /\ r.status \in {"paused", "failed"} /\ r.checks = row.checks
    BY Zenon, <1>2, RowTypes
  <2>2. stored[s].checks \subseteq r.checks /\ r.checks \subseteq Checks[s]
    BY Zenon, <1>2, <2>1 DEF Fits
  <2> HIDE DEF r
  <2>3. /\ stored' \in [Scan -> ScanRow] /\ stored'[s] = r
        /\ \A t \in Scan : t # s => /\ stored'[t] = stored[t] /\ (Taken(t)' <=> Taken(t))
                                    /\ \A c : Fits(t, c)' <=> Fits(t, c)
    BY Zenon, <1>8, <2>1, SaveOne DEF r
  <2>4. EngineTypeOK' /\ launch'[s] = Idle /\ \A t \in Scan : t # s => launch'[t] = launch[t]
    <3>1. queue' \in Seq(Item) /\ Len(queue') <= QueueSize
      BY Zenon, <1>3, <1>8
    <3> QED BY Zenon, <1>1, <2>3, <3>1, RestTypes, LaunchTypes
  <2>5. StoredInv'
    <3>1. \A t \in Scan : t # s => stored'[t] = stored[t] /\ cancels'[t] = cancels[t]
      BY Zenon, <1>1, <2>3
    <3>2. cancels[s].phase # "idle" => cancels[s].copy.checks \subseteq r.checks
      BY Zenon, <2>2 DEF StoredInv
    <3> QED BY Zenon, <1>1, <2>1, <2>2, <2>3, <3>1, <3>2 DEF StoredInv
  <2>6. QueueInv'
    BY Zenon, <1>2, <1>4, <1>8, <2>3, <2>4 DEF QueueInv
  <2>7. LaunchInv'
    <3>1. \A t \in Scan : t # s => (Fits(t, launch[t].copy)' <=> Fits(t, launch[t].copy))
      BY Zenon, <2>3, <2>4 DEF Fits
    <3> QED BY Zenon, <1>4, <2>3, <2>4, <3>1, RestTypes DEF LaunchInv
  <2>8. NoOrphans'
    <3>1. \A t : Positions(t)' = Positions(t)
      BY Zenon, <1>8 DEF Positions
    <3> QED BY Zenon, <1>4, <1>5, <2>1, <2>3, <2>4, <3>1 DEF NoOrphans
  <2>9. RunInv'
    <3>1. run.phase \notin {"idle", "returned", "ending"} => run.scan \in Scan /\ run.scan # s
      BY Zenon, <1>2 DEF RunInv, Working
    <3> QED BY Zenon, <1>1, <1>6, <2>3, <3>1, RunUndisturbed
  <2> QED BY Zenon, <1>5, <2>4, <2>5, <2>6, <2>7, <2>8, <2>9
<1> QED BY Zenon, <1>1, <1>7, <1>8

-----------------------------------------------------------------------------
\* Cancel reads a scan, and marks it: what it read was stored.
LEMMA CancelBegins ==
  ASSUME EngineInv, NEW s \in Scan, CancelRead(s) \/ CancelMark(s)
  PROVE  EngineInv'
<1> USE DEF EngineInv
<1>1. /\ UNCHANGED <<stored, queue, active, run, launch, engine, clock, restarts, history>>
      /\ canceled' \subseteq Scan /\ stopCtx' \in BOOLEAN /\ (stopCtx => stopCtx') /\ engine # "stopped"
  BY Zenon, RestTypes DEF CancelRead, CancelMark, engineVars, EngineTypeOK, StoppedInv
<1>2. PICK c \in Copy({"idle", "read", "marked"}) :
        /\ cancels' = [cancels EXCEPT ![s] = c]
        /\ c.copy = stored[s] \/ c.copy = cancels[s].copy
        /\ c.copy = stored[s] \/ cancels[s].phase # "idle"
  <2>1. CASE CancelRead(s)
    <3> DEFINE c == [phase |-> "read", copy |-> stored[s]]
    <3>1. c \in Copy({"idle", "read", "marked"}) /\ cancels' = [cancels EXCEPT ![s] = c] /\ c.copy = stored[s]
      BY Zenon, <2>1 DEF CancelRead, EngineTypeOK, Copy
    <3> QED BY Zenon, <3>1
  <2>2. CASE CancelMark(s)
    <3> DEFINE c == [cancels[s] EXCEPT !.phase = "marked"]
    <3>1. cancels[s] \in Copy({"idle", "read", "marked"}) /\ cancels[s].phase = "read"
      BY Zenon, <2>2 DEF EngineTypeOK, CancelMark
    <3>2. /\ c \in Copy({"idle", "read", "marked"}) /\ cancels' = [cancels EXCEPT ![s] = c]
          /\ c.copy = cancels[s].copy
      BY Zenon, <2>2, <3>1 DEF CancelMark, Copy
    <3> QED BY Zenon, <3>1, <3>2
  <2> QED BY Zenon, <2>1, <2>2
<1>3. /\ cancels' \in [Scan -> Copy({"idle", "read", "marked"})] /\ cancels'[s] = c
      /\ \A t \in Scan : t # s => cancels'[t] = cancels[t]
  BY Zenon, <1>2 DEF EngineTypeOK
<1>4. EngineTypeOK'
  BY Zenon, <1>1, <1>3 DEF EngineTypeOK, history
<1>5. StoredInv'
  <2>1. c.copy.checks \subseteq stored[s].checks
    BY Zenon, <1>2 DEF StoredInv
  <2> QED BY Zenon, <1>1, <1>3, <2>1 DEF StoredInv
<1>6. \A t : /\ (Working(t)' <=> Working(t)) /\ (Taken(t)' <=> Taken(t)) /\ Positions(t)' = Positions(t)
             /\ \A row : Fits(t, row)' <=> Fits(t, row)
  BY Zenon, <1>1 DEF Working, Taken, Positions, Fits
<1>7. QueueInv' /\ LaunchInv' /\ NoOrphans'
  BY Zenon, <1>1, <1>6 DEF QueueInv, LaunchInv, NoOrphans
<1>8. RunInv'
  BY Zenon, <1>1, RunUndisturbed DEF ScanDone, EngineDone
<1>9. StoppedInv'
  BY Zenon, <1>1 DEF StoppedInv
<1> QED BY Zenon, <1>4, <1>5, <1>7, <1>8, <1>9

\* Cancel saves what it read: no holder's copy has fewer checks.
LEMMA CancelSaveStep == ASSUME EngineInv, NEW s \in Scan, CancelSave(s) PROVE EngineInv'
<1> USE DEF EngineInv
<1> DEFINE row == With(cancels[s].copy, "canceled")
<1>1. /\ cancels[s].phase = "marked" /\ Save(s, row) /\ cancels' = [cancels EXCEPT ![s] = Idle]
      /\ stopped' = stopped \cup {s} /\ engine # "stopped"
      /\ UNCHANGED <<queue, active, canceled, stopCtx, run, launch, engine, clock, restarts, inspected>>
  BY Zenon, RestTypes DEF CancelSave, engineVars, StoppedInv
<1>2. cancels[s].copy \in ScanRow /\ cancels[s].copy.checks \subseteq stored[s].checks
  BY Zenon, <1>1 DEF EngineTypeOK, Copy, StoredInv
<1>3. /\ row \in ScanRow /\ row.status = "canceled" /\ row.checks \subseteq stored[s].checks
      /\ row.checks \subseteq Checks[s]
  BY Zenon, <1>2, RowTypes DEF Status, StoredInv
<1> HIDE DEF row
<1>4. /\ stored' \in [Scan -> ScanRow] /\ stored'[s] = row
      /\ \A t \in Scan : t # s => /\ stored'[t] = stored[t] /\ (Taken(t)' <=> Taken(t))
                                  /\ \A c : Fits(t, c)' <=> Fits(t, c)
  BY Zenon, <1>1, <1>3, SaveOne
<1>5. \A t \in Scan : (Taken(t) => Taken(t)') /\ (\A c : Fits(t, c) => Fits(t, c)')
  BY Zenon, <1>3, <1>4 DEF Taken, Fits
<1>6. /\ cancels' \in [Scan -> Copy({"idle", "read", "marked"})] /\ cancels'[s] = Idle
      /\ \A t \in Scan : t # s => cancels'[t] = cancels[t]
  BY Zenon, <1>1, RestTypes DEF EngineTypeOK
<1>7. EngineTypeOK'
  BY <1>1, <1>4, <1>6 DEF EngineTypeOK
<1>8. StoredInv'
  BY Zenon, <1>3, <1>4, <1>6, RestTypes DEF StoredInv
<1>9. \A t : (Working(t)' <=> Working(t)) /\ Positions(t)' = Positions(t)
  BY Zenon, <1>1 DEF Working, Positions
<1>10. QueueInv'
  BY Zenon, <1>1, <1>5, <1>9, QueueItems DEF QueueInv
<1>11. LaunchInv'
  <2>1. \A t \in Scan : Fits(t, launch[t].copy) => Fits(t, launch[t].copy)'
    BY Zenon, <1>1, <1>3, <1>4 DEF Fits
  <2> QED BY Zenon, <1>1, <1>5, <1>9, <2>1 DEF LaunchInv
<1>12. NoOrphans'
  BY Zenon, <1>1, <1>3, <1>4, <1>9 DEF NoOrphans
<1>13. RunInv'
  <2>1. run.phase \notin {"idle", "returned", "ending"} => Taken(run.scan)' /\ Fits(run.scan, run.copy)'
    BY Zenon, <1>1, <1>3, <1>4 DEF RunInv, Taken, Fits
  <2>2. ScanDone' <=> ScanDone
    BY Zenon, <1>1 DEF ScanDone, EngineDone
  <2> QED BY Zenon, <1>1, <2>1, <2>2 DEF RunInv
<1>14. StoppedInv'
  BY Zenon, <1>1 DEF StoppedInv
<1> QED BY Zenon, <1>7, <1>8, <1>10, <1>11, <1>12, <1>13, <1>14

-----------------------------------------------------------------------------
\* The engine is closed, and the clock goes on.
LEMMA ClosingSteps == ASSUME EngineInv, Shutdown \/ Tick PROVE EngineInv'
<1> USE DEF EngineInv
<1>1. UNCHANGED <<stored, queue, active, canceled, stopCtx, run, launch, cancels, restarts, history>>
  BY Zenon DEF Shutdown, Tick, engineVars
<1>2. /\ clock' \in 0..MaxClock /\ engine' \in {"open", "closed", "stopped"}
      /\ engine' = engine \/ (engine = "open" /\ engine' = "closed")
  BY EngineAssumption DEF Shutdown, Tick, EngineTypeOK
<1>3. EngineTypeOK'
  BY Zenon, <1>1, <1>2 DEF EngineTypeOK, history
<1>4. \A t : /\ (Working(t)' <=> Working(t)) /\ (Taken(t)' <=> Taken(t)) /\ Positions(t)' = Positions(t)
             /\ \A row : Fits(t, row)' <=> Fits(t, row)
  BY Zenon, <1>1 DEF Working, Taken, Positions, Fits
<1>5. StoredInv' /\ QueueInv' /\ LaunchInv'
  BY Zenon, <1>1, <1>4 DEF StoredInv, QueueInv, LaunchInv
<1>6. NoOrphans' /\ StoppedInv'
  BY Zenon, <1>1, <1>2, <1>4 DEF NoOrphans, StoppedInv
<1>7. RunInv'
  BY Zenon, <1>1, <1>2, RunUndisturbed DEF ScanDone, EngineDone
<1> QED BY Zenon, <1>3, <1>5, <1>6, <1>7

\* The process ends: nothing is held any more.
LEMMA EndingSteps == ASSUME EngineInv, Exit \/ Crash PROVE EngineInv'
<1> USE DEF EngineInv
<1>1. /\ queue' = <<>> /\ active' = {} /\ canceled' = {} /\ stopCtx' = FALSE /\ run' = Resting
      /\ engine' = "stopped" /\ UNCHANGED <<stored, clock, restarts, history>>
  BY Zenon DEF Exit, Crash, Gone
<1>2. /\ launch' = [s \in Scan |-> Idle] /\ cancels' = [s \in Scan |-> Idle]
  BY Zenon DEF Exit, Crash, Gone
<1>3. /\ launch' \in [Scan -> Copy({"idle", "listed", "saved"})]
      /\ cancels' \in [Scan -> Copy({"idle", "read", "marked"})]
      /\ \A s \in Scan : launch'[s] = Idle /\ cancels'[s] = Idle
  BY Zenon, <1>2, RestTypes
<1>4. run' \in RunState /\ run'.phase = "idle"
  BY Zenon, <1>1, RestTypes
<1>5. queue' \in Seq(Item) /\ Len(queue') <= QueueSize /\ 1..Len(queue') = {}
  <2>1. queue' = <<>>
    BY Zenon, <1>1
  <2> QED BY <2>1, EngineAssumption
<1>6. EngineTypeOK'
  BY Zenon, <1>1, <1>3, <1>4, <1>5 DEF EngineTypeOK, RunState, Item, history
<1>7. \A s \in Scan : launch'[s].phase = "idle" /\ cancels'[s].phase = "idle"
  BY Zenon, <1>3, RestTypes
<1>8. StoredInv'
  BY Zenon, <1>1, <1>7 DEF StoredInv
<1>9. QueueInv'
  BY Zenon, <1>5 DEF QueueInv
<1>10. LaunchInv'
  BY Zenon, <1>7 DEF LaunchInv
<1>11. RunInv' /\ StoppedInv' /\ NoOrphans'
  BY Zenon, <1>1, <1>3, <1>4 DEF RunInv, StoppedInv, NoOrphans
<1> QED BY Zenon, <1>6, <1>8, <1>9, <1>10, <1>11

\* New: what the last process left queued or running is interrupted.
LEMMA StartStep == ASSUME EngineInv, Start, restarts' \in 0..MaxRestarts PROVE EngineInv'
<1> USE DEF EngineInv
<1> DEFINE new(s) == IF stored[s].status \in {"queued", "running"} THEN Interrupted(s, stored[s]) ELSE stored[s]
<1>1. /\ engine = "stopped" /\ engine' = "open" /\ stored' = [s \in Scan |-> new(s)]
      /\ UNCHANGED <<queue, active, canceled, stopCtx, run, launch, cancels, clock, history>>
  BY Zenon DEF Start, engineVars
<1>2. /\ queue = <<>> /\ run = Resting /\ run.phase = "idle"
      /\ \A s \in Scan : launch[s].phase = "idle" /\ cancels[s].phase = "idle"
  BY Zenon, <1>1, RestTypes DEF StoppedInv
<1>3. \A s \in Scan : /\ new(s) \in ScanRow /\ new(s).status \notin {"queued", "running"}
                      /\ new(s).checks = stored[s].checks
                      /\ new(s).status \in {"paused", "failed"} \/ new(s) = stored[s]
  BY RowTypes DEF EngineTypeOK
<1>4. stored' \in [Scan -> ScanRow] /\ \A s \in Scan : stored'[s] = new(s)
  BY Zenon, <1>1, <1>3
<1> HIDE DEF new
<1>5. EngineTypeOK'
  BY Zenon, <1>1, <1>4 DEF EngineTypeOK, history
<1>6. StoredInv'
  BY Zenon, <1>1, <1>2, <1>3, <1>4 DEF StoredInv
<1>7. QueueInv' /\ LaunchInv'
  BY <1>1, <1>2 DEF QueueInv, LaunchInv
<1>8. RunInv' /\ StoppedInv' /\ NoOrphans'
  BY Zenon, <1>1, <1>2, <1>3, <1>4 DEF RunInv, StoppedInv, NoOrphans
<1> QED BY Zenon, <1>5, <1>6, <1>7, <1>8

-----------------------------------------------------------------------------
\* A process that stops is one that may be started again.
LEMMA RestartsStep ==
  ASSUME EngineInv, RestartsInv, Next
  PROVE  RestartsInv' /\ (Start => restarts' \in 0..MaxRestarts)
<1>1. run \in RunState /\ restarts \in Nat /\ MaxRestarts \in Nat
  BY EngineAssumption DEF EngineInv, EngineTypeOK, RunState
<1>2. CASE Shutdown \/ Crash
  <2>1. restarts' = restarts /\ restarts < MaxRestarts /\ engine' # "open"
    BY Zenon, <1>2 DEF Shutdown, Crash
  <2> QED BY Zenon, <1>1, <2>1 DEF RestartsInv, Start
<1>3. CASE Start
  <2>1. run.phase = "idle" /\ run' = run
    BY Zenon, <1>3, RestTypes DEF Start, engineVars, EngineInv, StoppedInv
  <2> QED BY <1>1, <1>3, <2>1 DEF Start, RestartsInv
<1>4. CASE Exit
  <2>1. engine # "open" /\ engine' = "stopped" /\ restarts' = restarts
    BY Zenon, <1>4 DEF Exit, RestartsInv
  <2> QED BY Zenon, <2>1 DEF RestartsInv, Start
<1>5. CASE Return \/ Drain \/ DrainSave
  <2>1. engine # "open" /\ engine' = engine /\ restarts' = restarts
    BY Zenon, <1>5 DEF Return, Drain, DrainSave, EngineDone, RestartsInv
  <2> QED BY Zenon, <2>1 DEF RestartsInv, Start
<1>6. ASSUME UNCHANGED <<engine, restarts>>, run'.phase \notin {"returned", "drained"} \/ run' = run
      PROVE  RestartsInv' /\ (Start => restarts' \in 0..MaxRestarts)
  BY Zenon, <1>6 DEF RestartsInv, Start
<1>7. CASE Take \/ Drop \/ EndScan
  <2>1. UNCHANGED <<engine, restarts>> /\ run'.phase \in {"taken", "idle"}
    BY Zenon, <1>7, RestTypes DEF Take, Drop, EndScan, Resting
  <2> QED BY Zenon, <1>6, <2>1
<1>8. CASE BeginScan \/ StartRun \/ Conclude \/ Settle \/ SaveConclusion
  <2>1. UNCHANGED <<engine, restarts>>
    BY Zenon, <1>8 DEF BeginScan, StartRun, Conclude, Settle, SaveConclusion
  <2>2. run'.phase \in {"dropping", "begun", "probing", "settling", "concluding", "ending"}
    BY Zenon, <1>1, <1>8 DEF BeginScan, StartRun, Conclude, Settle, SaveConclusion, RunState
  <2> QED BY Zenon, <1>6, <2>1, <2>2
<1>9. CASE QueueCloses \/ \E c \in Check : Dispatch(c) \/ Result(c) \/ Discard(c)
  <2>1. UNCHANGED <<engine, restarts>>
    BY Zenon, <1>9 DEF QueueCloses, Dispatch, Result, Discard
  <2>2. run'.phase = "probing"
    BY Zenon, <1>1, <1>9 DEF QueueCloses, Dispatch, Result, Discard, RunState
  <2> QED BY Zenon, <1>6, <2>1, <2>2
<1>10. CASE Tick \/ \E s \in Scan : Request(s) \/ Handler(s)
  <2>1. UNCHANGED <<engine, restarts, run>>
    BY Zenon, <1>10 DEF Tick, Request, Handler, CreateScan, ListPaused, CancelRead, Resume, Enqueue, CancelMark,
                 CancelSave, engineVars
  <2> QED BY Zenon, <1>6, <2>1
<1> QED BY Zenon, <1>2, <1>3, <1>4, <1>5, <1>7, <1>8, <1>9, <1>10 DEF Next, EngineStep

\* The invariant is inductive.
LEMMA EngineStepKeeps ==
  EngineInv /\ RestartsInv /\ [Next]_vars => EngineInv' /\ RestartsInv'
<1> SUFFICES ASSUME EngineInv, RestartsInv, [Next]_vars PROVE EngineInv' /\ RestartsInv'
  BY Zenon
<1>1. CASE UNCHANGED vars
  <2>1. UNCHANGED <<stored, queue, active, canceled, stopCtx, run, launch, cancels, engine, clock,
                    restarts, inspected, stopped>>
    BY Zenon, <1>1 DEF vars, engineVars, history
  <2>2. StoredInv' /\ QueueInv' /\ LaunchInv' /\ NoOrphans'
    BY Zenon, <2>1, HoldsStill
  <2>3. RunInv'
    BY Zenon, <2>1, RunUndisturbed DEF ScanDone, EngineDone
  <2>4. EngineTypeOK' /\ StoppedInv' /\ RestartsInv'
    BY <2>1 DEF EngineInv, EngineTypeOK, StoppedInv, RestartsInv
  <2> QED BY Zenon, <2>2, <2>3, <2>4 DEF EngineInv
<1>2. CASE Next
  <2>1. RestartsInv' /\ (Start => restarts' \in 0..MaxRestarts)
    BY Zenon, <1>2, RestartsStep
  <2>2. CASE EngineStep
    BY Zenon, <2>1, <2>2, TakeStep, BeginScanStep, LetGoSteps, StartRunStep, ProbingSteps, EndScanStep,
       ReturnStep, DrainStep, EndingSteps, StartStep, ResultStep DEF EngineStep
  <2>3. ASSUME NEW s \in Scan, Request(s) \/ Handler(s) PROVE EngineInv'
    BY Zenon, <2>3, CreateScanStep, ListPausedStep, CancelBegins, ResumeStep, EnqueueStep, CancelSaveStep
    DEF Request, Handler
  <2>4. CASE Shutdown \/ Crash \/ Tick
    BY Zenon, <2>1, <2>4, ClosingSteps, EndingSteps
  <2> QED BY Zenon, <1>2, <2>1, <2>2, <2>3, <2>4 DEF Next
<1> QED BY Zenon, <1>1, <1>2

\* The invariant of the specification, with or without its fairness.
THEOREM EngineInvariance == Spec => [](EngineInv /\ RestartsInv)
<1>1. Init => EngineInv /\ RestartsInv
  BY Zenon, EngineBegins, RestTypes DEF Init, RestartsInv
<1> QED BY <1>1, EngineStepKeeps, PTL DEF Spec

\* A completed scan has had all of its checks (run, Cancel, Schedule, Shutdown).
THEOREM CompletedScansComplete == Spec => []CompletedIsComplete
<1>1. EngineInv => CompletedIsComplete
  BY Zenon DEF EngineInv, StoredInv, CompletedIsComplete
<1> QED BY <1>1, EngineInvariance, PTL

\* A scan shown as queued or running is held by somebody (Schedule, run, New).
THEOREM NobodyForgotten == Spec => []NoOrphans
<1>1. EngineInv => NoOrphans
  BY Zenon DEF EngineInv
<1> QED BY <1>1, EngineInvariance, PTL

INSTANCE FiniteSetTheorems

\* A scan is in one place at most.
LEMMA OnePlace == EngineInv => HeldOnce
<1> SUFFICES ASSUME EngineInv, NEW s \in Scan
             PROVE  Cardinality(Positions(s)) + (IF Working(s) THEN 1 ELSE 0)
                      + (IF launch[s].phase = "saved" THEN 1 ELSE 0) <= 1
  BY Zenon DEF HeldOnce
<1>1. CASE Positions(s) = {}
  <2>1. Cardinality(Positions(s)) = 0
    BY Zenon, <1>1, FS_EmptySet
  <2>2. ~ (Working(s) /\ launch[s].phase = "saved")
    BY Zenon DEF EngineInv, LaunchInv
  <2> QED BY <2>1, <2>2
<1>2. CASE Positions(s) # {}
  <2>1. PICK i \in 1..Len(queue) : queue[i].scan = s
    BY Zenon, <1>2 DEF Positions
  <2>2. Positions(s) = {i} /\ ~ Working(s) /\ launch[s].phase # "saved"
    BY Zenon, <2>1 DEF EngineInv, QueueInv, Positions
  <2>3. Cardinality(Positions(s)) = 1
    BY Zenon, <2>2, FS_Singleton
  <2> QED BY <2>2, <2>3
<1> QED BY Zenon, <1>1, <1>2

\* The engine never holds a scan twice (Schedule, the scheduler's tick, schedule).
THEOREM NeverHeldTwice == Spec => []HeldOnce
<1> QED BY OnePlace, EngineInvariance, PTL

\* A save of a row with all checks that were stored loses none.
LEMMA SaveKeeps ==
  ASSUME EngineTypeOK, NEW r \in Scan, NEW row, Save(r, row), stored[r].checks \subseteq row.checks
  PROVE  \A s \in Scan : stored[s].checks \subseteq stored'[s].checks
BY Zenon DEF Save, EngineTypeOK

\* Every step but the save of a Cancel keeps the checks that are stored.
LEMMA ChecksKept ==
  ASSUME EngineInv, Next
  PROVE  \/ \A s \in Scan : stored[s].checks \subseteq stored'[s].checks
         \/ \E s \in Scan : CancelSave(s)
<1> USE DEF EngineInv
<1>1. CASE stored' = stored
  BY Zenon, <1>1
<1>2. ASSUME NEW s \in Scan, CreateScan(s) PROVE \A t \in Scan : stored[t].checks \subseteq stored'[t].checks
  <2>1. stored[s].checks = {}
    BY Zenon, <1>2 DEF CreateScan, StoredInv
  <2> QED BY Zenon, <1>2, <2>1, SaveKeeps DEF CreateScan
<1>3. ASSUME NEW s \in Scan, Resume(s) PROVE \A t \in Scan : stored[t].checks \subseteq stored'[t].checks
  BY Zenon, <1>3, SaveKeeps DEF Resume, LaunchInv, Fits
<1>4. ASSUME NEW s \in Scan, Enqueue(s), stored' # stored
      PROVE  \A t \in Scan : stored[t].checks \subseteq stored'[t].checks
  <2>1. launch[s].copy \in ScanRow /\ stored[s].checks \subseteq launch[s].copy.checks
    BY Zenon, <1>4 DEF EngineTypeOK, Copy, Enqueue, LaunchInv, Fits
  <2>2. Save(s, Interrupted(s, launch[s].copy))
    BY Zenon, <1>4 DEF Enqueue
  <2> QED BY Zenon, <2>1, <2>2, RowTypes, SaveKeeps
<1>5. ASSUME run.phase \notin {"idle", "returned", "ending"}
      PROVE  run.scan \in Scan /\ stored[run.scan].checks \subseteq run.copy.checks /\ run.copy \in ScanRow
  BY Zenon, <1>5 DEF RunInv, Fits, EngineTypeOK, RunState
<1>6. CASE Drop
  <2>1. Save(run.scan, With(run.copy, "canceled")) /\ run.phase = "dropping"
    BY Zenon, <1>6 DEF Drop
  <2> QED BY Zenon, <1>5, <2>1, RowTypes, SaveKeeps DEF Status
<1>7. CASE StartRun
  <2>1. Save(run.scan, With(run.copy, "running")) /\ run.phase = "begun"
    BY Zenon, <1>7 DEF StartRun
  <2> QED BY Zenon, <1>5, <2>1, RowTypes, SaveKeeps DEF Status
<1>8. CASE SaveConclusion \/ DrainSave
  BY Zenon, <1>5, <1>8, SaveKeeps DEF SaveConclusion, DrainSave
<1>9. ASSUME NEW c \in Check, Result(c), stored' # stored
      PROVE  \A t \in Scan : stored[t].checks \subseteq stored'[t].checks
  <2>1. Save(run.scan, [run.copy EXCEPT !.checks = @ \cup {c}]) /\ run.phase = "probing"
    BY Zenon, <1>9 DEF Result
  <2>2. stored[run.scan].checks \subseteq [run.copy EXCEPT !.checks = @ \cup {c}].checks
    BY Zenon, <1>5, <2>1 DEF ScanRow
  <2> QED BY Zenon, <1>5, <2>1, <2>2, SaveKeeps
<1>10. CASE Start
  BY <1>10, RowTypes DEF Start, EngineTypeOK
<1>11. CASE Take \/ BeginScan \/ QueueCloses \/ Conclude \/ Settle \/ EndScan \/ Return \/ Drain
            \/ Exit \/ Shutdown \/ Crash \/ Tick \/ \E c \in Check : Dispatch(c) \/ Discard(c)
  <2>1. stored' = stored
    BY Zenon, <1>11 DEF Take, BeginScan, QueueCloses, Conclude, Settle, EndScan, Return, Drain, Exit,
                 Shutdown, Crash, Tick, Dispatch, Discard
  <2> QED BY Zenon, <1>1, <2>1
<1>12. ASSUME NEW s \in Scan, ListPaused(s) \/ CancelRead(s) \/ CancelMark(s)
       PROVE  stored' = stored
  BY Zenon, <1>12 DEF ListPaused, CancelRead, CancelMark
<1> QED BY Zenon, <1>1, <1>2, <1>3, <1>4, <1>6, <1>7, <1>8, <1>9, <1>10, <1>11, <1>12
        DEF Next, EngineStep, Request, Handler

\* No step but the save of a Cancel takes back a stored check: the progress of a scan
\* outlives pauses, resumptions, shutdowns, crashes and restarts.
THEOREM ProgressIsKept == Spec => ProgressKept
<1> DEFINE Kept == \A s \in Scan : stored[s].checks \subseteq stored'[s].checks
                      \/ (cancels[s].phase = "marked" /\ cancels'[s].phase = "idle")
<1>1. EngineInv /\ [Next]_vars => [Kept]_vars
  <2> SUFFICES ASSUME EngineInv, Next PROVE Kept
    BY Zenon
  <2>1. ASSUME NEW s \in Scan, CancelSave(s), NEW t \in Scan
        PROVE  stored[t].checks \subseteq stored'[t].checks
                 \/ (cancels[t].phase = "marked" /\ cancels'[t].phase = "idle")
    <3>1. CASE t = s
      BY Zenon, <2>1, <3>1, RestTypes DEF CancelSave, EngineInv, EngineTypeOK
    <3>2. CASE t # s
      BY Zenon, <2>1, <3>2 DEF CancelSave, Save, EngineInv, EngineTypeOK
    <3> QED BY Zenon, <3>1, <3>2
  <2> QED BY Zenon, <2>1, ChecksKept
<1>2. Spec => [][Kept]_vars
  BY <1>1, EngineInvariance, PTL DEF Spec
<1> QED BY Zenon, <1>2 DEF ProgressKept
=============================================================================
