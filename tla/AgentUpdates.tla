---------------------------- MODULE AgentUpdates ----------------------------
(***************************************************************************)
(* Endpoint-agent updates, from the release catalog of the server to the   *)
(* executable on the host: internal/agentupdatecatalog and its tables, the *)
(* update part of a check-in, internal/agentupdate on Unix and on Windows, *)
(* and the Windows helper of cmd/mossward-agent-updater.                   *)
(*                                                                         *)
(* One endpoint.  A version is its rank in the order of IsUpgrade, and a   *)
(* file is the version whose bytes it holds: every file is written to a    *)
(* temporary name, synced and renamed, so no partial file has a name that  *)
(* is read.  Every rename is a step of its own and the agent, the helper   *)
(* and the host may stop before and after each one.                        *)
(***************************************************************************)
EXTENDS Integers, FiniteSets

CONSTANTS
  NoUpdate,        \* no transaction, no file, no offer
  MaxVersion,      \* version 1 is installed, 2..MaxVersion are released
  HealthTimeout,   \* Manifest.HealthTimeoutSeconds
  ManifestLife,    \* the clock value at which every manifest expires
  Helper,          \* helper processes that may run at the same time
  MaxTime,         \* a bound on the clock
  MaxStops         \* a bound on crashes of the agent or of a helper

ASSUME UpdatesAssumption ==
  /\ MaxVersion \in Nat \ {0, 1} /\ HealthTimeout \in Nat \ {0}
  /\ ManifestLife \in Nat /\ MaxTime \in Nat /\ MaxStops \in Nat
  /\ NoUpdate \notin Int /\ IsFiniteSet(Helper)

VARIABLES
  platform,     \* the build of the agent
  release,      \* agent_update_releases: the status of every version
  assignment,   \* the row of agent_update_assignments, or NoUpdate
  exe,          \* the installed executable
  pending,      \* the .pending file beside it (Windows)
  knownGood,    \* the known-good-<version> files
  candidate,    \* the candidate-<version> files
  journal,      \* transaction.json
  agent,        \* the agent's process
  helper,       \* the helper processes (Windows)
  stopping,     \* the service manager was asked to stop the agent
  time,
  stops

hostVars == <<exe, pending, knownGood, candidate, journal>>
serverVars == <<release, assignment>>
updatesVars == <<platform, serverVars, hostVars, agent, helper, stopping, time, stops>>

Version == 1..MaxVersion
ReleaseStatus == {"absent", "staged", "approved", "revoked"}
AssignmentStatus == {"assigned", "offered", "installed"}
TransactionState ==
  {"prepared", "awaiting_health", "committed", "rollback_required", "rolled_back"}
Transaction ==
  [state : TransactionState, previous : Version, target : Version, deadline : Nat]

ASSUME TransactionAssumption == NoUpdate \notin Transaction

AgentStep ==
  {"down", "recover", "restore", "restore_move", "restore_done", "idle", "reported",
   "answered", "confirm", "preserve", "stage", "prepare", "activate", "replace", "launch"}
HelperStep ==
  {"off", "start", "stop_to_apply", "apply", "serve", "monitor", "judge",
   "stop_to_restore", "restore", "restore_mark", "restore_move", "restore_done", "restart"}

Process(steps) == [pc : steps, image : Version, offer : Version \cup {NoUpdate},
                   txn : Transaction \cup {NoUpdate}]
Stopped == [pc |-> "down", image |-> 1, offer |-> NoUpdate, txn |-> NoUpdate]
NotRunning == [pc |-> "off", txn |-> NoUpdate]

UpdatesInit ==
  /\ platform \in {"unix", "windows"}
  /\ release = [v \in Version |-> "absent"] /\ assignment = NoUpdate
  /\ exe = 1 /\ pending = NoUpdate /\ journal = NoUpdate
  /\ knownGood = [v \in Version |-> NoUpdate] /\ candidate = {}
  /\ agent = Stopped /\ helper = [h \in Helper |-> NotRunning]
  /\ stopping = FALSE /\ time = 0 /\ stops = 0

(***************************************************************************)
(* The transaction file.                                                   *)
(***************************************************************************)
ManifestValid == time < ManifestLife
\* Mutant: any other version counts as an upgrade.
IsUpgradeAnyOther(current, target) == target # current
IsUpgrade(current, target) == target > current

\* A new transaction; Validate refuses nothing else that this code builds.
NewTransaction(previous, target) ==
  [state |-> "prepared", previous |-> previous, target |-> target,
   deadline |-> time + HealthTimeout]

RequiresRollback(t) ==
  \/ t.state = "rollback_required"
  \/ t.state = "awaiting_health" /\ time >= t.deadline

Marked(t, state) == [t EXCEPT !.state = state]
SaveTransaction(t) == journal' = t
InState(states) == journal # NoUpdate /\ journal.state \in states

\* copyVerifiedCandidate: the file exists and holds what the digest names.
CopyVerified(file, v) == file = v

GoTo(step) == agent' = [agent EXCEPT !.pc = step]
Rest == agent' = [agent EXCEPT !.pc = "idle", !.offer = NoUpdate, !.txn = NoUpdate]
Exit == agent' = Stopped

-----------------------------------------------------------------------------
(***************************************************************************)
(* The server: the catalog, the assignment of the endpoint.                *)
(***************************************************************************)

CreateRelease(v) == release[v] = "absent" /\ release' = [release EXCEPT ![v] = "staged"]
ImportRelease(v) == v # 1 /\ ManifestValid /\ CreateRelease(v) /\ UNCHANGED assignment

\* transitionAgentUpdate: staged, approved, revoked, in that order only.
Transition(v, from, to) == release[v] = from /\ release' = [release EXCEPT ![v] = to]
ApproveRelease(v) == Transition(v, "staged", "approved") /\ UNCHANGED assignment
RevokeRelease(v) == Transition(v, "approved", "revoked") /\ UNCHANGED assignment

\* AssignAgentUpdate: the row of the endpoint is inserted or overwritten.
AssignUpdate(v) ==
  /\ release[v] = "approved"
  /\ assignment' = [version |-> v, status |-> "assigned"]
Assign(v) == AssignUpdate(v) /\ UNCHANGED release

Catalog ==
  /\ \E v \in Version : \/ ImportRelease(v) \/ ApproveRelease(v)
                        \/ RevokeRelease(v) \/ Assign(v)
  /\ UNCHANGED <<platform, hostVars, agent, helper, stopping, time, stops>>

Open == assignment # NoUpdate /\ assignment.status \in {"assigned", "offered"}

\* RecordEndpointCheckIn: the reported version closes the assignment.
RecordCheckIn ==
  /\ agent.pc = "idle" /\ ~stopping
  /\ assignment' = IF Open /\ assignment.version = agent.image
                   THEN [assignment EXCEPT !.status = "installed"] ELSE assignment
  /\ GoTo("reported")
  /\ UNCHANGED <<release, hostVars, helper, stopping>>

\* AgentUpdateOffer: the envelope of the assigned release, while approved.
UpdateOffer ==
  LET offered == Open /\ release[assignment.version] = "approved" IN
  /\ agent.pc = "reported"
  /\ assignment' = IF offered THEN [assignment EXCEPT !.status = "offered"] ELSE assignment
  /\ agent' = [agent EXCEPT !.pc = "answered",
                            !.offer = IF offered THEN assignment.version ELSE NoUpdate]
  /\ UNCHANGED <<release, hostVars, helper, stopping>>

\* The answer is lost, or a later part of the check-in fails.
CheckInFails ==
  /\ agent.pc \in {"reported", "answered"}
  /\ Rest /\ UNCHANGED <<serverVars, hostVars, helper, stopping>>

-----------------------------------------------------------------------------
(***************************************************************************)
(* The agent: starting and stopping.                                       *)
(***************************************************************************)
ServiceStarts ==
  /\ agent.pc = "down"
  /\ agent' = [Stopped EXCEPT !.pc = "recover", !.image = exe]
  /\ stopping' = FALSE
  /\ UNCHANGED <<serverVars, hostVars, helper>>

\* A stop request is honoured when the current check-in has returned.
ServiceStops ==
  /\ stopping /\ agent.pc = "idle"
  /\ Exit /\ stopping' = FALSE
  /\ UNCHANGED <<serverVars, hostVars, helper>>

Launch == \E h \in Helper : /\ helper[h] = NotRunning
                            /\ helper' = [helper EXCEPT ![h].pc = "start"]

RecoverUnix ==
  /\ platform = "unix" /\ agent.pc = "recover"
  /\ IF journal = NoUpdate \/ ~RequiresRollback(journal) THEN Rest
     ELSE IF CopyVerified(knownGood[journal.previous], journal.previous)
          THEN agent' = [agent EXCEPT !.pc = "restore", !.txn = journal] ELSE Exit
  /\ UNCHANGED <<serverVars, hostVars, helper, stopping>>

\* Mutant: the rollback is recorded as done before the executable is moved.
RestoreMarkDone ==
  /\ agent.pc = "restore"
  /\ SaveTransaction(Marked(agent.txn, "rolled_back")) /\ GoTo("restore_move")
  /\ UNCHANGED <<serverVars, exe, pending, knownGood, candidate, helper, stopping>>

\* The known-good copy is ready beside the executable.
RestoreMark ==
  /\ agent.pc = "restore"
  /\ SaveTransaction(Marked(agent.txn, "rollback_required")) /\ GoTo("restore_move")
  /\ UNCHANGED <<serverVars, exe, pending, knownGood, candidate, helper, stopping>>
RestoreMove ==
  /\ agent.pc = "restore_move"
  /\ exe' = agent.txn.previous /\ GoTo("restore_done")
  /\ UNCHANGED <<serverVars, pending, knownGood, candidate, journal, helper, stopping>>
RestoreDone ==
  /\ agent.pc = "restore_done"
  /\ SaveTransaction(Marked(agent.txn, "rolled_back")) /\ Exit
  /\ UNCHANGED <<serverVars, exe, pending, knownGood, candidate, helper, stopping>>

RecoverWindows ==
  LET replaced == journal.state = "awaiting_health" /\ ~RequiresRollback(journal)
                                                    /\ pending = NoUpdate IN
  /\ platform = "windows" /\ agent.pc = "recover"
  /\ IF ~InState({"awaiting_health", "rollback_required"})
     THEN Rest /\ UNCHANGED helper
     ELSE IF replaced
          THEN (IF CopyVerified(exe, journal.target) THEN Rest ELSE Exit) /\ UNCHANGED helper
          ELSE Exit /\ (Launch \/ UNCHANGED helper)
  /\ UNCHANGED <<serverVars, hostVars, stopping>>

-----------------------------------------------------------------------------
(***************************************************************************)
(* The agent: after an answered check-in.                                  *)
(***************************************************************************)

\* ConfirmHealthy up to its decision: now is an argument, read before.
ConfirmDecision(t) ==
  IF time >= t.deadline THEN "rollback_required" ELSE "committed"

ConfirmLoad ==
  /\ agent.pc = "answered"
  /\ IF ~InState({"awaiting_health"}) THEN GoTo("preserve")
     ELSE IF journal.target # agent.image THEN Rest
          ELSE agent' = [agent EXCEPT !.pc = "confirm",
                                      !.txn = Marked(journal, ConfirmDecision(journal))]
  /\ UNCHANGED <<serverVars, hostVars, helper, stopping>>

ConfirmSave ==
  /\ agent.pc = "confirm"
  /\ SaveTransaction(agent.txn)
  /\ IF agent.txn.state = "committed"
     THEN agent' = [agent EXCEPT !.pc = "preserve", !.txn = NoUpdate] ELSE Rest
  /\ UNCHANGED <<serverVars, exe, pending, knownGood, candidate, helper, stopping>>

\* applyUpdateOffer: what it accepts.
OfferAccepted == agent.offer # NoUpdate /\ ManifestValid /\ IsUpgrade(agent.image, agent.offer)

\* Mutant: the record is made without the copy.
PreserveNothing ==
  /\ agent.pc = "preserve"
  /\ IF OfferAccepted THEN GoTo("stage") ELSE Rest
  /\ UNCHANGED <<serverVars, hostVars, helper, stopping>>

\* A known-good file of the running version is never overwritten.
PreserveKnownGood ==
  LET v == agent.image IN
  /\ agent.pc = "preserve"
  /\ IF OfferAccepted /\ knownGood[v] = NoUpdate
     THEN knownGood' = [knownGood EXCEPT ![v] = exe] /\ GoTo("stage")
     ELSE Rest /\ UNCHANGED knownGood
  /\ UNCHANGED <<serverVars, exe, pending, candidate, journal, helper, stopping>>

\* writeCandidate: a candidate of this version is refused.
WriteCandidate(v) == v \notin candidate /\ candidate' = candidate \cup {v}
Stage ==
  /\ agent.pc = "stage" /\ ManifestValid
  /\ WriteCandidate(agent.offer) /\ GoTo("prepare")
  /\ UNCHANGED <<serverVars, exe, pending, knownGood, journal, helper, stopping>>

Prepare ==
  LET t == NewTransaction(agent.image, agent.offer) IN
  /\ agent.pc = "prepare"
  /\ SaveTransaction(t) /\ agent' = [agent EXCEPT !.pc = "activate", !.txn = t]
  /\ UNCHANGED <<serverVars, exe, pending, knownGood, candidate, helper, stopping>>

\* Activate up to the journal: the verified copy beside the executable.
Activate ==
  LET t == Marked(agent.txn, "awaiting_health") IN
  /\ agent.pc = "activate"
  /\ IF agent.txn.target \in candidate /\ (platform = "windows" => pending = NoUpdate)
     THEN SaveTransaction(t) /\ agent' = [agent EXCEPT !.pc = "replace", !.txn = t]
     ELSE Rest /\ UNCHANGED journal
  /\ UNCHANGED <<serverVars, exe, pending, knownGood, candidate, helper, stopping>>

ReplaceUnix ==
  /\ platform = "unix" /\ agent.pc = "replace"
  /\ exe' = agent.txn.target
  /\ Exit \/ Rest                  \* Rest: the directory could not be synced
  /\ UNCHANGED <<serverVars, pending, knownGood, candidate, journal, helper, stopping>>

ReplaceWindows ==
  /\ platform = "windows" /\ agent.pc = "replace"
  /\ pending' = agent.txn.target /\ GoTo("launch")
  /\ UNCHANGED <<serverVars, exe, knownGood, candidate, journal, helper, stopping>>

LaunchUpdater ==
  /\ agent.pc = "launch"
  /\ Launch /\ Exit
  /\ UNCHANGED <<serverVars, hostVars, stopping>>

\* Any of these steps fails: the check-in returns the error, the loop goes on.
UpdateFails ==
  /\ agent.pc \in {"confirm", "stage", "prepare", "activate", "replace", "launch"}
  /\ Rest /\ UNCHANGED <<serverVars, hostVars, helper, stopping>>

AgentMoves ==
  \/ RecordCheckIn \/ UpdateOffer \/ CheckInFails \/ ServiceStarts \/ ServiceStops
  \/ RecoverUnix \/ RestoreMark \/ RestoreMove \/ RestoreDone \/ RecoverWindows
  \/ ConfirmLoad \/ ConfirmSave \/ PreserveKnownGood \/ Stage \/ Prepare
  \/ Activate \/ ReplaceUnix \/ ReplaceWindows \/ LaunchUpdater \/ UpdateFails

-----------------------------------------------------------------------------
(***************************************************************************)
(* The Windows helper.  MoveFileEx fails while the executable runs.        *)
(***************************************************************************)
HelperAt(h, from) == helper[h].pc = from
HelperGoes(h, to) == helper' = [helper EXCEPT ![h].pc = to]
HelperExits(h) == helper' = [helper EXCEPT ![h] = NotRunning]
Down == agent.pc = "down"

HelperStarts(h) ==
  /\ HelperAt(h, "start")
  /\ IF journal = NoUpdate THEN HelperExits(h)
     ELSE HelperGoes(h, IF RequiresRollback(journal) THEN "stop_to_restore"
                        ELSE IF exe = journal.target THEN "serve" ELSE "stop_to_apply")
  /\ UNCHANGED <<hostVars, agent, stopping>>

\* stopService: asks, then waits for the service, at most 30 seconds.
StopService(h, from, to) ==
  /\ HelperAt(h, from)
  /\ IF Down THEN HelperGoes(h, to) /\ UNCHANGED stopping
     ELSE \/ ~stopping /\ stopping' = TRUE /\ UNCHANGED helper
          \/ stopping /\ HelperExits(h) /\ UNCHANGED stopping
  /\ UNCHANGED <<hostVars, agent>>

ApplyPending(h) ==
  /\ HelperAt(h, "apply")
  /\ IF journal.state = "awaiting_health" /\ pending # NoUpdate /\ Down
     THEN exe' = pending /\ pending' = NoUpdate /\ HelperGoes(h, "serve")
     ELSE HelperExits(h) /\ UNCHANGED <<exe, pending>>
  /\ UNCHANGED <<knownGood, candidate, journal, agent, stopping>>

\* Start the service, or roll back when it does not start.
Serve(h, from, to, failed) ==
  /\ HelperAt(h, from)
  /\ IF Down
     THEN \/ /\ agent' = [Stopped EXCEPT !.pc = "recover", !.image = exe] /\ stopping' = FALSE
             /\ HelperGoes(h, to)
          \/ HelperGoes(h, failed) /\ UNCHANGED <<agent, stopping>>
     ELSE HelperGoes(h, to) /\ UNCHANGED <<agent, stopping>>
  /\ UNCHANGED hostVars

\* monitorHealth: the journal is read before the clock is.
Monitor(h) ==
  /\ HelperAt(h, "monitor")
  /\ IF journal.state = "committed" THEN HelperExits(h)
     ELSE helper' = [helper EXCEPT ![h] = [pc |-> "judge", txn |-> journal]]
  /\ UNCHANGED <<hostVars, agent, stopping>>
Judge(h) ==
  /\ HelperAt(h, "judge")
  /\ HelperGoes(h, IF RequiresRollback(helper[h].txn) THEN "stop_to_restore" ELSE "monitor")
  /\ UNCHANGED <<hostVars, agent, stopping>>

\* RollbackWindowsUpdate, whatever the state of the transaction is.
RollbackCopy(h) ==
  /\ HelperAt(h, "restore")
  /\ IF CopyVerified(knownGood[journal.previous], journal.previous)
     THEN helper' = [helper EXCEPT ![h] = [pc |-> "restore_mark", txn |-> journal]]
     ELSE HelperExits(h)
  /\ UNCHANGED <<hostVars, agent, stopping>>
RollbackMark(h) ==
  /\ HelperAt(h, "restore_mark")
  /\ SaveTransaction(Marked(helper[h].txn, "rollback_required")) /\ HelperGoes(h, "restore_move")
  /\ UNCHANGED <<exe, pending, knownGood, candidate, agent, stopping>>
RollbackMove(h) ==
  /\ HelperAt(h, "restore_move")
  /\ IF Down THEN exe' = helper[h].txn.previous /\ HelperGoes(h, "restore_done")
     ELSE HelperExits(h) /\ UNCHANGED exe
  /\ UNCHANGED <<pending, knownGood, candidate, journal, agent, stopping>>
RollbackDone(h) ==
  /\ HelperAt(h, "restore_done")
  /\ SaveTransaction(Marked(helper[h].txn, "rolled_back")) /\ HelperGoes(h, "restart")
  /\ UNCHANGED <<exe, pending, knownGood, candidate, agent, stopping>>

HelperMoves(h) ==
  /\ \/ HelperStarts(h) \/ StopService(h, "stop_to_apply", "apply")
     \/ StopService(h, "stop_to_restore", "restore") \/ ApplyPending(h)
     \/ Serve(h, "serve", "monitor", "stop_to_restore") \/ Monitor(h) \/ Judge(h)
     \/ RollbackCopy(h) \/ RollbackMark(h) \/ RollbackMove(h) \/ RollbackDone(h)
     \/ Serve(h, "restart", "off", "off")
  /\ UNCHANGED serverVars

-----------------------------------------------------------------------------
Crash ==
  /\ stops < MaxStops /\ stops' = stops + 1
  /\ \/ ~Down /\ Exit /\ stopping' = FALSE /\ UNCHANGED helper
     \/ \E h \in Helper : ~HelperAt(h, "off") /\ HelperExits(h) /\ UNCHANGED <<agent, stopping>>
  /\ UNCHANGED <<platform, serverVars, hostVars, time>>

Tick ==
  /\ time < MaxTime /\ time' = time + 1
  /\ UNCHANGED <<platform, serverVars, hostVars, agent, helper, stopping, stops>>

UpdatesNext ==
  \/ Catalog \/ Crash \/ Tick
  \/ (AgentMoves \/ \E h \in Helper : HelperMoves(h)) /\ UNCHANGED <<platform, time, stops>>

UpdatesSpec == UpdatesInit /\ [][UpdatesNext]_updatesVars

-----------------------------------------------------------------------------
UpdatesTypeOK ==
  /\ platform \in {"unix", "windows"} /\ release \in [Version -> ReleaseStatus]
  /\ assignment \in [version : Version, status : AssignmentStatus] \cup {NoUpdate}
  /\ exe \in Version /\ pending \in Version \cup {NoUpdate}
  /\ knownGood \in [Version -> Version \cup {NoUpdate}] /\ candidate \subseteq Version
  /\ journal \in Transaction \cup {NoUpdate}
  /\ agent \in Process(AgentStep)
  /\ helper \in [Helper -> [pc : HelperStep, txn : Transaction \cup {NoUpdate}]]
  /\ stopping \in BOOLEAN /\ time \in 0..MaxTime /\ stops \in 0..MaxStops

\* Whenever the journal may lead to a rollback, the known-good file it names
\* holds the previous executable; on Unix the installed one is either side
\* (activate_unix.go and recover_unix.go, activate_windows.go, transaction.go:
\* the journal is saved between the copies and renames it speaks of).
Recoverable ==
  InState({"awaiting_health", "rollback_required"}) =>
    /\ knownGood[journal.previous] = journal.previous
    /\ platform = "unix" => exe \in {journal.previous, journal.target}

\* On Unix a finished transaction says which executable is installed
\* (ConfirmHealthy of transaction.go, the recovery of recover_unix.go).
JournalTruthful ==
  platform = "unix" =>
    /\ InState({"committed"}) => exe = journal.target
    /\ InState({"rolled_back"}) => exe = journal.previous

\* "committed and completed rollback records are not repeated": a transaction
\* that is finished is only ever replaced by a new one (RollbackWindowsUpdate of
\* activate_windows.go, monitorHealth of mossward-agent-updater).
FinishedIsFinal ==
  [][InState({"committed", "rolled_back"}) =>
       journal' = journal \/ journal'.state = "prepared"]_updatesVars

Program ==
  INSTANCE InstalledAgent WITH
    Versions <- Version, Nothing <- NoUpdate, installed <- exe,
    released <- {v \in Version : release[v] \in {"approved", "revoked"}},
    fallback <- IF /\ InState({"awaiting_health", "rollback_required", "committed"})
                   /\ exe = journal.target
                THEN journal.previous ELSE NoUpdate

\* On Unix, through every interruption, the host's executable only changes
\* to a newer approved release or back to the one it replaced (the updater of
\* internal/agentupdate implements InstalledAgent).
ImplementsInstalledAgent ==
  /\ Program!ProgramInit
  /\ [][platform = "unix" => Program!ProgramNext]_(Program!programVars)
=============================================================================
