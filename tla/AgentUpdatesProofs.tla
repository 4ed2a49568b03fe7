------------------------- MODULE AgentUpdatesProofs -------------------------
(***************************************************************************)
(* Updating an agent is safe for any number of versions, helpers, crashes  *)
(* and any timing: Recoverable and JournalTruthful are invariants, and on  *)
(* Unix the updater implements InstalledAgent.                             *)
(***************************************************************************)
EXTENDS AgentUpdates, TLAPS

Released(v) == release[v] \in {"approved", "revoked"}

\* A transaction that may be saved: an upgrade to a version that was approved,
\* from one whose known-good copy is there.
Good(t) ==
  /\ t \in Transaction /\ t.previous < t.target
  /\ knownGood[t.previous] = t.previous /\ Released(t.target)

CopiesInv == \A v \in Version : knownGood[v] \in {v, NoUpdate}
JournalInv == journal # NoUpdate => Good(journal)

\* What the agent holds between two of its steps.
AgentInv ==
  /\ agent.offer # NoUpdate => Released(agent.offer)
  /\ agent.pc \in {"restore", "restore_move", "restore_done", "confirm",
                   "activate", "replace", "launch"} => Good(agent.txn)
  /\ agent.pc \in {"stage", "prepare"} =>
       /\ agent.offer \in Version /\ agent.offer > agent.image
       /\ knownGood[agent.image] = agent.image

\* A helper past its start has found a journal.
HelperInv ==
  \A h \in Helper :
    /\ helper[h].pc \notin {"off", "start"} => journal # NoUpdate
    /\ helper[h].pc \in {"restore_mark", "restore_move", "restore_done"} => Good(helper[h].txn)

\* A running agent is the installed program, except after its own Unix rename;
\* then the journal keeps it from going past the confirmation.
Swapped ==
  /\ platform = "unix" /\ InState({"awaiting_health"})
  /\ exe = journal.target /\ agent.image = journal.previous
  /\ agent.pc \in {"idle", "reported", "answered"}
ImageInv ==
  agent.pc \notin {"down", "restore_done"} => exe = agent.image \/ Swapped

\* On Unix only the agent writes the journal and the executable, so they agree
\* with what it is about to do.
UnixInv ==
  platform = "unix" =>
    /\ agent.pc # "launch" /\ \A h \in Helper : helper[h].pc = "off"
    /\ InState({"awaiting_health", "rollback_required"}) =>
         exe \in {journal.previous, journal.target}
    /\ InState({"committed"}) => exe = journal.target
    /\ InState({"rolled_back"}) => exe = journal.previous
    /\ agent.pc = "restore" =>
         journal = agent.txn /\ InState({"awaiting_health", "rollback_required"})
    /\ agent.pc \in {"restore_move", "restore_done"} =>
         journal = Marked(agent.txn, "rollback_required")
    /\ agent.pc = "restore_done" => exe = agent.txn.previous
    /\ agent.pc = "confirm" =>
         /\ InState({"awaiting_health"}) /\ exe = journal.target
         /\ agent.txn \in {Marked(journal, "committed"), Marked(journal, "rollback_required")}
    /\ agent.pc \in {"activate", "replace"} => agent.txn.previous = agent.image
    /\ agent.pc = "replace" => journal = agent.txn /\ InState({"awaiting_health"})

WindowsInv ==
  platform = "windows" => agent.pc \notin {"restore", "restore_move", "restore_done"}

\* The inductive invariant.
UpdatesInv ==
  /\ UpdatesTypeOK /\ CopiesInv /\ JournalInv /\ AgentInv
  /\ HelperInv /\ ImageInv /\ UnixInv /\ WindowsInv

\* The agent is idle again.
LEMMA RestAgent ==
  ASSUME UpdatesTypeOK, Rest
  PROVE  /\ agent' \in Process(AgentStep) /\ agent'.pc = "idle" /\ agent'.image = agent.image
         /\ agent'.offer = NoUpdate /\ agent'.txn = NoUpdate
BY Zenon DEF UpdatesTypeOK, Rest, Process, AgentStep

\* The agent goes to another step.
LEMMA GoToAgent ==
  ASSUME UpdatesTypeOK, NEW step \in AgentStep, GoTo(step)
  PROVE  /\ agent' \in Process(AgentStep) /\ agent'.pc = step /\ agent'.image = agent.image
         /\ agent'.offer = agent.offer /\ agent'.txn = agent.txn
BY Zenon DEF UpdatesTypeOK, GoTo, Process

\* The agent ends.
LEMMA ExitAgent ==
  ASSUME Exit
  PROVE  /\ agent' \in Process(AgentStep) /\ agent'.pc = "down"
         /\ agent'.offer = NoUpdate /\ agent'.txn = NoUpdate
BY UpdatesAssumption DEF Exit, Stopped, Process, AgentStep, Version

\* Marking changes the state of a transaction only.
LEMMA MarkedTransaction ==
  ASSUME NEW t \in Transaction, NEW state \in TransactionState
  PROVE  /\ Marked(t, state) \in Transaction /\ Marked(t, state).state = state
         /\ Marked(t, state).previous = t.previous /\ Marked(t, state).target = t.target
         /\ Good(t) => Good(Marked(t, state))
BY Zenon DEF Marked, Transaction, Good

\* Copies, journal and helpers are right after a step that leaves copies, releases
\* and helpers alone and the journal too, or saves a good transaction.
LEMMA FilesKept ==
  ASSUME UpdatesInv, UNCHANGED <<knownGood, release, helper>>,
         journal' = journal \/ (Good(journal') /\ journal' # NoUpdate)
  PROVE  CopiesInv' /\ JournalInv' /\ HelperInv'
BY Zenon DEF UpdatesInv, CopiesInv, JournalInv, HelperInv, Good, Released

\* A check-in or an update that ends, with or without an error, keeps the invariant.
LEMMA AgentRests ==
  ASSUME UpdatesInv, agent.pc \notin {"down", "restore_done"}, Rest, UNCHANGED stopping,
         UNCHANGED <<platform, serverVars, hostVars, helper, time, stops>>
  PROVE  UpdatesInv'
<1> USE DEF UpdatesInv, hostVars, serverVars
<1>1. /\ agent' \in Process(AgentStep) /\ agent'.pc = "idle" /\ agent'.image = agent.image
      /\ agent'.offer = NoUpdate
  BY Zenon, RestAgent
<1>2. CopiesInv' /\ JournalInv' /\ HelperInv'
  BY Zenon, <1>1, FilesKept
<1>3. UpdatesTypeOK'
  BY Zenon, <1>1 DEF UpdatesTypeOK
<1>4. AgentInv'
  BY Zenon, <1>1 DEF AgentInv, Good, Released
<1>5. ImageInv'
  BY Zenon, <1>1 DEF ImageInv, Swapped, InState
<1>6. UnixInv'
  BY Zenon, <1>1 DEF UnixInv, InState
<1>7. WindowsInv'
  BY Zenon, <1>1 DEF WindowsInv
<1> QED BY Zenon, <1>2, <1>3, <1>4, <1>5, <1>6, <1>7 DEF UpdatesInv

\* So does an agent that ends.
LEMMA AgentExits ==
  ASSUME UpdatesInv, Exit, stopping' \in BOOLEAN,
         UNCHANGED <<platform, serverVars, hostVars, helper, time, stops>>
  PROVE  UpdatesInv'
<1> USE DEF UpdatesInv, hostVars, serverVars
<1>1. agent' \in Process(AgentStep) /\ agent'.pc = "down" /\ agent'.offer = NoUpdate
  BY Zenon, ExitAgent
<1>2. CopiesInv' /\ JournalInv' /\ HelperInv'
  BY Zenon, <1>1, FilesKept
<1>3. UpdatesTypeOK'
  BY Zenon, <1>1 DEF UpdatesTypeOK
<1>4. AgentInv'
  BY Zenon, <1>1 DEF AgentInv, Good, Released
<1>5. ImageInv'
  BY Zenon, <1>1 DEF ImageInv, Swapped, InState
<1>6. UnixInv'
  BY Zenon, <1>1 DEF UnixInv, InState
<1>7. WindowsInv'
  BY Zenon, <1>1 DEF WindowsInv
<1> QED BY Zenon, <1>2, <1>3, <1>4, <1>5, <1>6, <1>7 DEF UpdatesInv

\* A started agent runs the installed executable.
LEMMA ServiceStartsKeeps ==
  ASSUME UpdatesInv, ServiceStarts, UNCHANGED <<platform, time, stops>>
  PROVE  UpdatesInv'
<1> USE DEF UpdatesInv, hostVars, serverVars, ServiceStarts
<1>1. /\ agent' \in Process(AgentStep) /\ agent'.pc = "recover" /\ agent'.image = exe
      /\ agent'.offer = NoUpdate
  BY Zenon DEF Stopped, Process, AgentStep, UpdatesTypeOK
<1>2. CopiesInv' /\ JournalInv' /\ HelperInv'
  BY Zenon, <1>1, FilesKept
<1>3. UpdatesTypeOK'
  BY Zenon, <1>1 DEF UpdatesTypeOK
<1>4. AgentInv'
  BY Zenon, <1>1 DEF AgentInv, Good, Released
<1>5. ImageInv'
  BY Zenon, <1>1 DEF ImageInv, Swapped, InState
<1>6. UnixInv'
  BY Zenon, <1>1 DEF UnixInv, InState
<1>7. WindowsInv'
  BY Zenon, <1>1 DEF WindowsInv
<1> QED BY Zenon, <1>2, <1>3, <1>4, <1>5, <1>6, <1>7 DEF UpdatesInv

\* RecordCheckIn closes an assignment.
LEMMA RecordCheckInKeeps ==
  ASSUME UpdatesInv, RecordCheckIn, UNCHANGED <<platform, time, stops>>
  PROVE  UpdatesInv'
<1> USE DEF UpdatesInv, hostVars, serverVars, RecordCheckIn
<1>1. /\ agent' \in Process(AgentStep) /\ agent'.pc = "reported" /\ agent'.image = agent.image
      /\ agent'.offer = agent.offer /\ agent'.txn = agent.txn
  BY Zenon, GoToAgent DEF AgentStep
<1>2. CopiesInv' /\ JournalInv' /\ HelperInv'
  BY Zenon, <1>1, FilesKept
<1>3. UpdatesTypeOK'
  BY Zenon, <1>1 DEF UpdatesTypeOK, Open, AssignmentStatus
<1>4. AgentInv'
  BY Zenon, <1>1 DEF AgentInv, Good, Released
<1>5. ImageInv'
  BY Zenon, <1>1 DEF ImageInv, Swapped, InState
<1>6. UnixInv'
  BY Zenon, <1>1 DEF UnixInv, InState
<1>7. WindowsInv'
  BY Zenon, <1>1 DEF WindowsInv
<1> QED BY Zenon, <1>2, <1>3, <1>4, <1>5, <1>6, <1>7 DEF UpdatesInv

\* UpdateOffer hands out an approved release.
LEMMA UpdateOfferKeeps ==
  ASSUME UpdatesInv, UpdateOffer, UNCHANGED <<platform, time, stops>>
  PROVE  UpdatesInv'
<1> USE DEF UpdatesInv, hostVars, serverVars, UpdateOffer
<1>1. /\ agent' \in Process(AgentStep) /\ agent'.pc = "answered" /\ agent'.image = agent.image
      /\ agent'.offer # NoUpdate => Released(agent'.offer)
  BY Zenon DEF Open, UpdatesTypeOK, Process, AgentStep, Released
<1>2. CopiesInv' /\ JournalInv' /\ HelperInv'
  BY Zenon, <1>1, FilesKept
<1>3. UpdatesTypeOK'
  BY Zenon, <1>1 DEF UpdatesTypeOK, Open, AssignmentStatus
<1>4. AgentInv'
  BY Zenon, <1>1 DEF AgentInv, Good, Released
<1>5. ImageInv'
  BY Zenon, <1>1 DEF ImageInv, Swapped, InState
<1>6. UnixInv'
  BY Zenon, <1>1 DEF UnixInv, InState
<1>7. WindowsInv'
  BY Zenon, <1>1 DEF WindowsInv
<1> QED BY Zenon, <1>2, <1>3, <1>4, <1>5, <1>6, <1>7 DEF UpdatesInv

\* The journal asks for the rollback before the executable is moved.
LEMMA RestoreMarkKeeps ==
  ASSUME UpdatesInv, RestoreMark, UNCHANGED <<platform, time, stops>>
  PROVE  UpdatesInv'
<1> USE DEF UpdatesInv, hostVars, serverVars, RestoreMark
<1>1. /\ agent' \in Process(AgentStep) /\ agent'.pc = "restore_move" /\ agent'.image = agent.image
      /\ agent'.offer = agent.offer /\ agent'.txn = agent.txn
      /\ journal' = Marked(agent.txn, "rollback_required") /\ journal'.state = "rollback_required"
      /\ journal'.previous = agent.txn.previous /\ journal'.target = agent.txn.target
      /\ Good(journal') /\ journal' \in Transaction /\ journal' # NoUpdate
  BY Zenon, GoToAgent, MarkedTransaction, TransactionAssumption
  DEF AgentStep, AgentInv, SaveTransaction, TransactionState, Good
<1>2. CopiesInv' /\ JournalInv' /\ HelperInv'
  BY Zenon, <1>1, FilesKept
<1>3. UpdatesTypeOK'
  BY Zenon, <1>1 DEF UpdatesTypeOK
<1>4. AgentInv'
  BY Zenon, <1>1 DEF AgentInv, Good, Released
<1>5. ImageInv'
  BY Zenon, <1>1 DEF ImageInv, Swapped, InState
<1>6. UnixInv'
  BY Zenon, <1>1 DEF UnixInv, InState
<1>7. WindowsInv'
  BY Zenon, <1>1 DEF WindowsInv
<1> QED BY Zenon, <1>2, <1>3, <1>4, <1>5, <1>6, <1>7 DEF UpdatesInv

\* The executable is moved while the journal asks for it.
LEMMA RestoreMoveKeeps ==
  ASSUME UpdatesInv, RestoreMove, UNCHANGED <<platform, time, stops>>
  PROVE  UpdatesInv'
<1> USE DEF UpdatesInv, hostVars, serverVars, RestoreMove
<1>1. /\ agent' \in Process(AgentStep) /\ agent'.pc = "restore_done" /\ agent'.image = agent.image
      /\ agent'.offer = agent.offer /\ agent'.txn = agent.txn
      /\ platform = "unix" /\ agent.txn \in Transaction /\ exe' = agent.txn.previous
      /\ journal.state = "rollback_required" /\ journal.previous = agent.txn.previous
  BY GoToAgent, MarkedTransaction
  DEF AgentStep, AgentInv, UnixInv, WindowsInv, UpdatesTypeOK, TransactionState, Good
<1>2. CopiesInv' /\ JournalInv' /\ HelperInv'
  BY Zenon, <1>1, FilesKept
<1>3. UpdatesTypeOK'
  BY Zenon, <1>1 DEF UpdatesTypeOK, Transaction
<1>4. AgentInv'
  BY Zenon, <1>1 DEF AgentInv, Good, Released
<1>5. ImageInv'
  BY Zenon, <1>1 DEF ImageInv, Swapped, InState
<1>6. UnixInv'
  BY Zenon, <1>1 DEF UnixInv, InState
<1>7. WindowsInv'
  BY Zenon, <1>1 DEF WindowsInv
<1> QED BY Zenon, <1>2, <1>3, <1>4, <1>5, <1>6, <1>7 DEF UpdatesInv

\* The rollback is recorded when the executable is the previous one.
LEMMA RestoreDoneKeeps ==
  ASSUME UpdatesInv, RestoreDone, UNCHANGED <<platform, time, stops>>
  PROVE  UpdatesInv'
<1> USE DEF UpdatesInv, hostVars, serverVars, RestoreDone
<1>1. agent' \in Process(AgentStep) /\ agent'.pc = "down" /\ agent'.offer = NoUpdate
      /\ journal' = Marked(agent.txn, "rolled_back") /\ journal'.state = "rolled_back"
      /\ journal'.previous = agent.txn.previous /\ journal'.target = agent.txn.target
      /\ Good(journal') /\ journal' \in Transaction /\ journal' # NoUpdate
      /\ platform = "unix" /\ exe = agent.txn.previous
  BY Zenon, ExitAgent, MarkedTransaction, TransactionAssumption
  DEF AgentInv, UnixInv, WindowsInv, UpdatesTypeOK, SaveTransaction, TransactionState, Good
<1>2. CopiesInv' /\ JournalInv' /\ HelperInv'
  BY Zenon, <1>1, FilesKept
<1>3. UpdatesTypeOK'
  BY Zenon, <1>1 DEF UpdatesTypeOK
<1>4. AgentInv'
  BY Zenon, <1>1 DEF AgentInv, Good, Released
<1>5. ImageInv'
  BY Zenon, <1>1 DEF ImageInv, Swapped, InState
<1>6. UnixInv'
  BY Zenon, <1>1 DEF UnixInv, InState
<1>7. WindowsInv'
  BY Zenon, <1>1 DEF WindowsInv
<1> QED BY Zenon, <1>2, <1>3, <1>4, <1>5, <1>6, <1>7 DEF UpdatesInv

\* Recovery on Unix begins a rollback only of the journal it has read.
LEMMA RecoverUnixKeeps ==
  ASSUME UpdatesInv, RecoverUnix, UNCHANGED <<platform, time, stops>>
  PROVE  UpdatesInv'
<1> USE DEF UpdatesInv, hostVars, serverVars, RecoverUnix
<1>1. CASE Rest
  BY Zenon, <1>1, AgentRests
<1>2. CASE Exit
  BY Zenon, <1>2, AgentExits DEF UpdatesTypeOK
<1>3. CASE /\ journal # NoUpdate /\ RequiresRollback(journal)
           /\ agent' = [agent EXCEPT !.pc = "restore", !.txn = journal]
  <2>1. /\ agent' \in Process(AgentStep) /\ agent'.pc = "restore" /\ agent'.image = agent.image
        /\ agent'.offer = agent.offer /\ agent'.txn = journal /\ Good(journal)
        /\ InState({"awaiting_health", "rollback_required"})
    BY Zenon, <1>3 DEF UpdatesTypeOK, Process, AgentStep, JournalInv, InState, RequiresRollback
  <2>2. CopiesInv' /\ JournalInv' /\ HelperInv'
    BY Zenon, <1>3, <2>1, FilesKept
  <2>3. UpdatesTypeOK'
    BY Zenon, <1>3, <2>1 DEF UpdatesTypeOK
  <2>4. AgentInv'
    BY Zenon, <1>3, <2>1 DEF AgentInv, Good, Released
  <2>5. ImageInv'
    BY Zenon, <1>3, <2>1 DEF ImageInv, Swapped, InState
  <2>6. UnixInv'
    BY Zenon, <1>3, <2>1 DEF UnixInv, InState
  <2>7. WindowsInv'
    BY Zenon, <1>3, <2>1 DEF WindowsInv
  <2> QED BY Zenon, <2>2, <2>3, <2>4, <2>5, <2>6, <2>7 DEF UpdatesInv
<1> QED BY Zenon, <1>1, <1>2, <1>3

\* A launched helper has only started.
LEMMA LaunchKeeps ==
  ASSUME UpdatesInv, platform = "windows", Exit, Launch, UNCHANGED stopping,
         UNCHANGED <<platform, serverVars, hostVars, time, stops>>
  PROVE  UpdatesInv'
<1> USE DEF UpdatesInv, hostVars, serverVars
<1>1. agent' \in Process(AgentStep) /\ agent'.pc = "down" /\ agent'.offer = NoUpdate
  BY Zenon, ExitAgent
<1>2. /\ helper' \in [Helper -> [pc : HelperStep, txn : Transaction \cup {NoUpdate}]]
      /\ \A h \in Helper : helper'[h] = helper[h] \/ helper'[h].pc = "start"
  BY DEF Launch, NotRunning, HelperStep, UpdatesTypeOK
<1>3. UpdatesTypeOK'
  BY Zenon, <1>1, <1>2 DEF UpdatesTypeOK
<1>4. CopiesInv'
  BY Zenon, <1>1, <1>2 DEF CopiesInv
<1>5. JournalInv'
  BY Zenon, <1>1, <1>2 DEF JournalInv, Good, Released
<1>6. AgentInv'
  BY Zenon, <1>1, <1>2 DEF AgentInv, Good, Released
<1>7. HelperInv'
  BY Zenon, <1>1, <1>2 DEF HelperInv, JournalInv, Good, Released
<1>8. ImageInv'
  BY Zenon, <1>1, <1>2 DEF ImageInv, Swapped, InState
<1>9. UnixInv'
  BY Zenon, <1>1, <1>2 DEF UnixInv, InState
<1>10. WindowsInv'
  BY Zenon, <1>1, <1>2 DEF WindowsInv
<1> QED BY Zenon, <1>3, <1>4, <1>5, <1>6, <1>7, <1>8, <1>9, <1>10 DEF UpdatesInv

\* Recovery on Windows rests, ends, or ends after it has launched a helper.
LEMMA RecoverWindowsKeeps ==
  ASSUME UpdatesInv, RecoverWindows, UNCHANGED <<platform, time, stops>>
  PROVE  UpdatesInv'
<1> USE DEF UpdatesInv, hostVars, serverVars, RecoverWindows
<1>1. CASE Rest /\ UNCHANGED helper
  BY Zenon, <1>1, AgentRests
<1>2. CASE Exit /\ UNCHANGED helper
  BY Zenon, <1>2, AgentExits DEF UpdatesTypeOK
<1>3. CASE Exit /\ Launch
  BY Zenon, <1>3, LaunchKeeps
<1> QED BY Zenon, <1>1, <1>2, <1>3

\* The agent ends once the helper is launched.
LEMMA LaunchUpdaterKeeps ==
  ASSUME UpdatesInv, LaunchUpdater, UNCHANGED <<platform, time, stops>>
  PROVE  UpdatesInv'
BY Zenon, LaunchKeeps DEF LaunchUpdater, UpdatesInv, UnixInv, UpdatesTypeOK

\* The agent goes on to the next step of a check-in and holds what it held.
LEMMA ConfirmLoadKeeps ==
  ASSUME UpdatesInv, ConfirmLoad, UNCHANGED <<platform, time, stops>>
  PROVE  UpdatesInv'
<1> USE DEF UpdatesInv, hostVars, serverVars, ConfirmLoad
<1>1. CASE Rest
  BY Zenon, <1>1, AgentRests
<1>2. CASE ~InState({"awaiting_health"}) /\ GoTo("preserve")
  <2>1. /\ agent' \in Process(AgentStep) /\ agent'.pc = "preserve" /\ agent'.image = agent.image
      /\ agent'.offer = agent.offer /\ agent'.txn = agent.txn
    BY Zenon, <1>2, GoToAgent DEF AgentStep
  <2>2. CopiesInv' /\ JournalInv' /\ HelperInv'
    BY Zenon, <1>2, <2>1, FilesKept
  <2>3. UpdatesTypeOK'
    BY Zenon, <1>2, <2>1 DEF UpdatesTypeOK
  <2>4. AgentInv'
    BY Zenon, <1>2, <2>1 DEF AgentInv, Good, Released
  <2>5. ImageInv'
    BY Zenon, <1>2, <2>1 DEF ImageInv, Swapped, InState
  <2>6. UnixInv'
    BY Zenon, <1>2, <2>1 DEF UnixInv, InState, Swapped
  <2>7. WindowsInv'
    BY Zenon, <1>2, <2>1 DEF WindowsInv
  <2> QED BY Zenon, <2>2, <2>3, <2>4, <2>5, <2>6, <2>7 DEF UpdatesInv
<1>3. CASE /\ journal # NoUpdate /\ journal.state = "awaiting_health"
           /\ journal.target = agent.image
           /\ agent' = [agent EXCEPT !.pc = "confirm",
                                   !.txn = Marked(journal, ConfirmDecision(journal))]
  <2>1. /\ agent' \in Process(AgentStep) /\ agent'.pc = "confirm" /\ agent'.image = agent.image
        /\ agent'.offer = agent.offer /\ Good(agent'.txn) /\ exe = journal.target
        /\ agent'.txn \in {Marked(journal, "committed"), Marked(journal, "rollback_required")}
    BY Zenon, <1>3, MarkedTransaction
    DEF ConfirmDecision, UpdatesTypeOK, Process, AgentStep, TransactionState, JournalInv,
        ImageInv, Swapped, InState, Good, Transaction, Version
  <2>2. CopiesInv' /\ JournalInv' /\ HelperInv'
    BY Zenon, <1>3, <2>1, FilesKept
  <2>3. UpdatesTypeOK'
    BY Zenon, <1>3, <2>1 DEF UpdatesTypeOK
  <2>4. AgentInv'
    BY Zenon, <1>3, <2>1 DEF AgentInv, Good, Released
  <2>5. ImageInv'
    BY Zenon, <1>3, <2>1 DEF ImageInv, Swapped, InState
  <2>6. UnixInv'
    BY Zenon, <1>3, <2>1 DEF UnixInv, InState
  <2>7. WindowsInv'
    BY Zenon, <1>3, <2>1 DEF WindowsInv
  <2> QED BY Zenon, <2>2, <2>3, <2>4, <2>5, <2>6, <2>7 DEF UpdatesInv
<1> QED BY Zenon, <1>1, <1>2, <1>3 DEF InState

\* A confirmed update is committed, or left for a rollback.
LEMMA ConfirmSaveKeeps ==
  ASSUME UpdatesInv, ConfirmSave, UNCHANGED <<platform, time, stops>>
  PROVE  UpdatesInv'
<1> USE DEF UpdatesInv, hostVars, serverVars, ConfirmSave, SaveTransaction
<1>1. /\ journal' = agent.txn /\ Good(agent.txn) /\ journal' \in Transaction /\ journal' # NoUpdate
      /\ platform = "unix" =>
           /\ exe = journal'.target /\ exe = agent.image
           /\ journal'.state \in {"committed", "rollback_required"}
  BY MarkedTransaction, TransactionAssumption
  DEF AgentInv, UnixInv, ImageInv, Swapped, InState, Good, UpdatesTypeOK, TransactionState
<1>2. /\ agent' \in Process(AgentStep) /\ agent'.pc \in {"preserve", "idle"}
      /\ agent'.image = agent.image /\ agent'.offer \in {agent.offer, NoUpdate}
  BY Zenon, RestAgent DEF UpdatesTypeOK, Process, AgentStep
<1>3. CopiesInv' /\ JournalInv' /\ HelperInv'
  BY Zenon, <1>1, <1>2, FilesKept
<1>4. UpdatesTypeOK'
  BY Zenon, <1>1, <1>2 DEF UpdatesTypeOK
<1>5. AgentInv'
  BY Zenon, <1>1, <1>2 DEF AgentInv, Good, Released
<1>6. ImageInv'
  BY Zenon, <1>1, <1>2 DEF ImageInv, Swapped, InState
<1>7. UnixInv'
  BY Zenon, <1>1, <1>2 DEF UnixInv, InState
<1>8. WindowsInv'
  BY Zenon, <1>1, <1>2 DEF WindowsInv
<1> QED BY Zenon, <1>3, <1>4, <1>5, <1>6, <1>7, <1>8 DEF UpdatesInv

\* The copy that is made is one of the running version.
LEMMA PreserveKnownGoodKeeps ==
  ASSUME UpdatesInv, PreserveKnownGood, UNCHANGED <<platform, time, stops>>
  PROVE  UpdatesInv'
<1> USE DEF UpdatesInv, hostVars, serverVars, PreserveKnownGood
<1>1. CASE Rest /\ UNCHANGED knownGood
  BY Zenon, <1>1, AgentRests
<1>2. CASE /\ OfferAccepted /\ knownGood[agent.image] = NoUpdate /\ GoTo("stage")
           /\ knownGood' = [knownGood EXCEPT ![agent.image] = exe]
  <2>1. /\ agent' \in Process(AgentStep) /\ agent'.pc = "stage" /\ agent'.image = agent.image
      /\ agent'.offer = agent.offer /\ agent'.txn = agent.txn
        /\ agent.image \in Version /\ agent.offer \in Version /\ agent.offer > agent.image
        /\ knownGood' \in [Version -> Version \cup {NoUpdate}] /\ knownGood'[agent.image] = agent.image
        /\ \A v \in Version : knownGood'[v] # knownGood[v] => v = agent.image
    BY Zenon, <1>2, GoToAgent
    DEF AgentStep, OfferAccepted, IsUpgrade, UpdatesTypeOK, Process, ImageInv, Swapped
  <2>2. UpdatesTypeOK'
    BY Zenon, <1>2, <2>1 DEF UpdatesTypeOK
  <2>3. CopiesInv'
    BY Zenon, <1>2, <2>1 DEF CopiesInv, UpdatesTypeOK, Transaction, CopiesInv
  <2>4. JournalInv'
    BY Zenon, <1>2, <2>1 DEF JournalInv, Good, Released, UpdatesTypeOK, Transaction, CopiesInv
  <2>5. AgentInv'
    BY Zenon, <1>2, <2>1 DEF AgentInv, Good, Released, UpdatesTypeOK, Transaction, CopiesInv
  <2>6. HelperInv'
    BY Zenon, <1>2, <2>1
    DEF HelperInv, JournalInv, Good, Released, UpdatesTypeOK, Transaction, CopiesInv
  <2>7. ImageInv'
    BY Zenon, <1>2, <2>1 DEF ImageInv, Swapped, InState
  <2>8. UnixInv'
    BY Zenon, <1>2, <2>1 DEF UnixInv, InState
  <2>9. WindowsInv'
    BY Zenon, <1>2, <2>1 DEF WindowsInv
  <2> QED BY Zenon, <2>2, <2>3, <2>4, <2>5, <2>6, <2>7, <2>8, <2>9 DEF UpdatesInv
<1> QED BY Zenon, <1>1, <1>2

\* A candidate is written.
LEMMA StageKeeps ==
  ASSUME UpdatesInv, Stage, UNCHANGED <<platform, time, stops>>
  PROVE  UpdatesInv'
<1> USE DEF UpdatesInv, hostVars, serverVars, Stage
<1>1. /\ agent' \in Process(AgentStep) /\ agent'.pc = "prepare" /\ agent'.image = agent.image
      /\ agent'.offer = agent.offer /\ agent'.txn = agent.txn
  BY Zenon, GoToAgent DEF AgentStep
<1>2. CopiesInv' /\ JournalInv' /\ HelperInv'
  BY Zenon, <1>1, FilesKept
<1>3. UpdatesTypeOK'
  BY Zenon, <1>1 DEF UpdatesTypeOK, WriteCandidate, AgentInv
<1>4. AgentInv'
  BY Zenon, <1>1 DEF AgentInv, Good, Released
<1>5. ImageInv'
  BY Zenon, <1>1 DEF ImageInv, Swapped, InState
<1>6. UnixInv'
  BY Zenon, <1>1 DEF UnixInv, InState
<1>7. WindowsInv'
  BY Zenon, <1>1 DEF WindowsInv
<1> QED BY Zenon, <1>2, <1>3, <1>4, <1>5, <1>6, <1>7 DEF UpdatesInv

\* A prepared transaction leads from the running version to the offered one.
LEMMA PrepareKeeps ==
  ASSUME UpdatesInv, Prepare, UNCHANGED <<platform, time, stops>>
  PROVE  UpdatesInv'
<1> USE DEF UpdatesInv, hostVars, serverVars, Prepare
<1> DEFINE t == NewTransaction(agent.image, agent.offer)
<1>0. /\ t \in Transaction /\ t.state = "prepared"
      /\ t.previous = agent.image /\ t.target = agent.offer
  <2>1. agent.image \in Version /\ agent.offer \in Version /\ time + HealthTimeout \in Nat
    BY UpdatesAssumption DEF UpdatesTypeOK, Process, AgentInv
  <2> QED BY Zenon, <2>1 DEF NewTransaction, Transaction, TransactionState
<1>1. t # NoUpdate /\ Good(t)
  <2> HIDE DEF t
  <2>1. /\ agent.image < agent.offer /\ knownGood[agent.image] = agent.image
        /\ Released(agent.offer)
    BY UpdatesAssumption DEF AgentInv, UpdatesTypeOK, Process, Version
  <2> QED BY Zenon, <1>0, <2>1, TransactionAssumption DEF Good
<1> HIDE DEF t
<1>2. /\ journal' = t /\ agent'.txn = t /\ agent' \in Process(AgentStep) /\ agent'.pc = "activate"
      /\ agent'.image = agent.image /\ agent'.offer = agent.offer
  BY Zenon, <1>0 DEF SaveTransaction, UpdatesTypeOK, Process, AgentStep, t
<1>3. CopiesInv' /\ JournalInv' /\ HelperInv'
  BY Zenon, <1>0, <1>1, <1>2, FilesKept
<1>4. UpdatesTypeOK'
  BY Zenon, <1>0, <1>1, <1>2 DEF UpdatesTypeOK
<1>5. AgentInv'
  BY Zenon, <1>0, <1>1, <1>2 DEF AgentInv, Good, Released
<1>6. ImageInv'
  BY Zenon, <1>0, <1>1, <1>2 DEF ImageInv, Swapped, InState
<1>7. UnixInv'
  BY Zenon, <1>0, <1>1, <1>2 DEF UnixInv, InState
<1>8. WindowsInv'
  BY Zenon, <1>0, <1>1, <1>2 DEF WindowsInv
<1> QED BY Zenon, <1>3, <1>4, <1>5, <1>6, <1>7, <1>8 DEF UpdatesInv

\* The journal says awaiting_health before the executable is replaced.
LEMMA ActivateKeeps ==
  ASSUME UpdatesInv, Activate, UNCHANGED <<platform, time, stops>>
  PROVE  UpdatesInv'
<1> USE DEF UpdatesInv, hostVars, serverVars, Activate
<1> DEFINE t == Marked(agent.txn, "awaiting_health")
<1>1. CASE Rest /\ UNCHANGED journal
  BY Zenon, <1>1, AgentRests
<1>2. CASE SaveTransaction(t) /\ agent' = [agent EXCEPT !.pc = "replace", !.txn = t]
  <2>1. /\ t \in Transaction /\ t # NoUpdate /\ Good(t) /\ t.state = "awaiting_health"
        /\ platform = "unix" => t.previous = agent.image /\ exe = agent.image
    BY MarkedTransaction, TransactionAssumption
    DEF TransactionState, AgentInv, UnixInv, ImageInv, Swapped, Good
  <2> HIDE DEF t
  <2>2. /\ journal' = t /\ agent'.txn = t /\ agent' \in Process(AgentStep) /\ agent'.pc = "replace"
        /\ agent'.image = agent.image /\ agent'.offer = agent.offer
    BY Zenon, <1>2, <2>1 DEF SaveTransaction, UpdatesTypeOK, Process, AgentStep
  <2>3. CopiesInv' /\ JournalInv' /\ HelperInv'
    BY Zenon, <2>1, <2>2, FilesKept
  <2>4. UpdatesTypeOK'
    BY Zenon, <2>1, <2>2 DEF UpdatesTypeOK
  <2>5. AgentInv'
    BY Zenon, <2>1, <2>2 DEF AgentInv, Good, Released
  <2>6. ImageInv'
    BY Zenon, <2>1, <2>2 DEF ImageInv, Swapped, InState
  <2>7. UnixInv'
    BY Zenon, <2>1, <2>2 DEF UnixInv, InState
  <2>8. WindowsInv'
    BY Zenon, <2>1, <2>2 DEF WindowsInv
  <2> QED BY Zenon, <2>3, <2>4, <2>5, <2>6, <2>7, <2>8 DEF UpdatesInv
<1> QED BY Zenon, <1>1, <1>2

\* The rename on Unix leaves an agent that has been replaced, or none.
LEMMA ReplaceUnixKeeps ==
  ASSUME UpdatesInv, ReplaceUnix, UNCHANGED <<platform, time, stops>>
  PROVE  UpdatesInv'
<1> USE DEF UpdatesInv, hostVars, serverVars, ReplaceUnix
<1>1. /\ exe' = journal.target /\ exe' \in Version /\ agent.image = journal.previous
      /\ InState({"awaiting_health"})
  BY Zenon DEF UnixInv, AgentInv, Good, Transaction
<1>2. CASE Exit
  <2>1. agent' \in Process(AgentStep) /\ agent'.pc = "down" /\ agent'.offer = NoUpdate
    BY Zenon, <1>2, ExitAgent
  <2>2. CopiesInv' /\ JournalInv' /\ HelperInv'
    BY Zenon, <1>1, <2>1, FilesKept
  <2>3. UpdatesTypeOK'
    BY Zenon, <1>1, <2>1 DEF UpdatesTypeOK
  <2>4. AgentInv'
    BY Zenon, <1>1, <2>1 DEF AgentInv, Good, Released
  <2>5. ImageInv'
    BY Zenon, <1>1, <2>1 DEF ImageInv, Swapped, InState
  <2>6. UnixInv'
    BY Zenon, <1>1, <2>1 DEF UnixInv, InState
  <2>7. WindowsInv'
    BY Zenon, <1>1, <2>1 DEF WindowsInv
  <2> QED BY Zenon, <2>2, <2>3, <2>4, <2>5, <2>6, <2>7 DEF UpdatesInv
<1>3. CASE Rest
  <2>1. /\ agent' \in Process(AgentStep) /\ agent'.pc = "idle" /\ agent'.image = agent.image
      /\ agent'.offer = NoUpdate
    BY Zenon, <1>3, RestAgent
  <2>2. CopiesInv' /\ JournalInv' /\ HelperInv'
    BY Zenon, <1>1, <2>1, FilesKept
  <2>3. UpdatesTypeOK'
    BY Zenon, <1>1, <2>1 DEF UpdatesTypeOK
  <2>4. AgentInv'
    BY Zenon, <1>1, <2>1 DEF AgentInv, Good, Released
  <2>5. ImageInv'
    BY Zenon, <1>1, <2>1 DEF ImageInv, Swapped, InState
  <2>6. UnixInv'
    BY Zenon, <1>1, <2>1 DEF UnixInv, InState
  <2>7. WindowsInv'
    BY Zenon, <1>1, <2>1 DEF WindowsInv
  <2> QED BY Zenon, <2>2, <2>3, <2>4, <2>5, <2>6, <2>7 DEF UpdatesInv
<1> QED BY Zenon, <1>2, <1>3

\* On Windows the new executable waits beside the old one.
LEMMA ReplaceWindowsKeeps ==
  ASSUME UpdatesInv, ReplaceWindows, UNCHANGED <<platform, time, stops>>
  PROVE  UpdatesInv'
<1> USE DEF UpdatesInv, hostVars, serverVars, ReplaceWindows
<1>1. /\ agent' \in Process(AgentStep) /\ agent'.pc = "launch" /\ agent'.image = agent.image
      /\ agent'.offer = agent.offer /\ agent'.txn = agent.txn
      /\ pending' \in Version
  BY Zenon, GoToAgent DEF AgentStep, AgentInv, Good, Transaction
<1>2. CopiesInv' /\ JournalInv' /\ HelperInv'
  BY Zenon, <1>1, FilesKept
<1>3. UpdatesTypeOK'
  BY Zenon, <1>1 DEF UpdatesTypeOK
<1>4. AgentInv'
  BY Zenon, <1>1 DEF AgentInv, Good, Released
<1>5. ImageInv'
  BY Zenon, <1>1 DEF ImageInv, Swapped, InState
<1>6. UnixInv'
  BY Zenon, <1>1 DEF UnixInv, InState
<1>7. WindowsInv'
  BY Zenon, <1>1 DEF WindowsInv
<1> QED BY Zenon, <1>2, <1>3, <1>4, <1>5, <1>6, <1>7 DEF UpdatesInv

-----------------------------------------------------------------------------
(***************************************************************************)
(* The steps of the Windows helpers, of the catalog and of the environment *)
(* keep the inductive invariant.                                           *)
(***************************************************************************)

\* The record of a helper that goes to another step.
LEMMA HelperGoesOn ==
  ASSUME UpdatesTypeOK, NEW h \in Helper, NEW to \in HelperStep, HelperGoes(h, to)
  PROVE  /\ helper' \in [Helper -> [pc : HelperStep, txn : Transaction \cup {NoUpdate}]]
         /\ helper'[h].pc = to /\ helper'[h].txn = helper[h].txn
         /\ \A g \in Helper \ {h} : helper'[g] = helper[g]
BY Zenon DEF UpdatesTypeOK, HelperGoes

\* The record of a helper that ends.
LEMMA HelperEnds ==
  ASSUME UpdatesTypeOK, NEW h \in Helper, HelperExits(h)
  PROVE  /\ helper' \in [Helper -> [pc : HelperStep, txn : Transaction \cup {NoUpdate}]]
         /\ helper'[h].pc = "off" /\ \A g \in Helper \ {h} : helper'[g] = helper[g]
BY Zenon DEF UpdatesTypeOK, HelperExits, NotRunning, HelperStep

\* A helper that changes nothing but its own place keeps the invariant when the
\* new place has what it needs.
LEMMA HelperMoved ==
  ASSUME UpdatesInv, platform = "windows", NEW h \in Helper,
         helper' \in [Helper -> [pc : HelperStep, txn : Transaction \cup {NoUpdate}]],
         \A g \in Helper \ {h} : helper'[g] = helper[g],
         helper'[h].pc \notin {"off", "start"} => journal # NoUpdate,
         helper'[h].pc \in {"restore_mark", "restore_move", "restore_done"} => Good(helper'[h].txn),
         stopping' \in BOOLEAN,
         UNCHANGED <<platform, serverVars, hostVars, agent, time, stops>>
  PROVE  UpdatesInv'
<1> USE DEF UpdatesInv, hostVars, serverVars
<1>1. UpdatesTypeOK'
  BY Zenon DEF UpdatesTypeOK
<1>2. CopiesInv'
  BY Zenon DEF CopiesInv
<1>3. JournalInv'
  BY Zenon DEF JournalInv, Good, Released
<1>4. AgentInv'
  BY Zenon DEF AgentInv, Good, Released
<1>5. HelperInv'
  BY Zenon DEF HelperInv, JournalInv, Good, Released
<1>6. ImageInv'
  BY Zenon DEF ImageInv, Swapped, InState
<1>7. UnixInv'
  BY Zenon DEF UnixInv, InState
<1>8. WindowsInv'
  BY Zenon DEF WindowsInv
<1> QED BY Zenon, <1>1, <1>2, <1>3, <1>4, <1>5, <1>6, <1>7, <1>8 DEF UpdatesInv

\* A helper may always end.
LEMMA HelperExitsKeeps ==
  ASSUME UpdatesInv, platform = "windows", NEW h \in Helper, HelperExits(h),
         UNCHANGED <<platform, serverVars, hostVars, agent, stopping, time, stops>>
  PROVE  UpdatesInv'
BY Zenon, HelperEnds, HelperMoved DEF UpdatesInv, UpdatesTypeOK

\* A helper that has found a journal may go on.
LEMMA HelperGoesKeeps ==
  ASSUME UpdatesInv, platform = "windows", NEW h \in Helper,
         NEW to \in HelperStep \ {"restore_mark", "restore_move", "restore_done"}, HelperGoes(h, to),
         journal # NoUpdate,
         UNCHANGED <<platform, serverVars, hostVars, agent, stopping, time, stops>>
  PROVE  UpdatesInv'
BY Zenon, HelperGoesOn, HelperMoved DEF UpdatesInv, UpdatesTypeOK

\* Helpers run on Windows only, and past their start they have found a journal.
LEMMA HelperOnWindows ==
  ASSUME UpdatesInv, NEW h \in Helper, helper[h].pc # "off"
  PROVE  platform = "windows" /\ (helper[h].pc # "start" => Good(journal) /\ journal # NoUpdate)
BY Zenon DEF UpdatesInv, UpdatesTypeOK, UnixInv, HelperInv, JournalInv

\* Starting the service starts the installed executable.
LEMMA ServeKeeps ==
  ASSUME UpdatesInv, NEW h \in Helper, NEW from \in HelperStep \ {"off", "start"},
         NEW to \in HelperStep \ {"restore_mark", "restore_move", "restore_done"},
         NEW failed \in HelperStep \ {"restore_mark", "restore_move", "restore_done"},
         Serve(h, from, to, failed), UNCHANGED <<platform, serverVars, time, stops>>
  PROVE  UpdatesInv'
<1> USE DEF UpdatesInv, hostVars, serverVars
<1>1. platform = "windows" /\ journal # NoUpdate
  BY Zenon, HelperOnWindows DEF Serve, HelperAt
<1>2. CASE UNCHANGED <<agent, stopping>> /\ \E step \in {to, failed} : HelperGoes(h, step)
  BY Zenon, <1>1, <1>2, HelperGoesKeeps DEF Serve
<1>3. CASE /\ HelperGoes(h, to) /\ stopping' = FALSE
           /\ agent' = [Stopped EXCEPT !.pc = "recover", !.image = exe]
  <2>1. /\ agent' \in Process(AgentStep) /\ agent'.pc = "recover" /\ agent'.image = exe
        /\ agent'.offer = NoUpdate
    BY Zenon, <1>3 DEF Stopped, Process, AgentStep, UpdatesTypeOK
  <2>2. /\ helper' \in [Helper -> [pc : HelperStep, txn : Transaction \cup {NoUpdate}]]
        /\ helper'[h].pc = to /\ \A g \in Helper \ {h} : helper'[g] = helper[g]
    BY Zenon, <1>3, HelperGoesOn
  <2>3. UNCHANGED hostVars
    BY Zenon DEF Serve
  <2>4. UpdatesTypeOK'
    BY Zenon, <1>1, <1>3, <2>1, <2>2, <2>3 DEF UpdatesTypeOK
  <2>5. CopiesInv'
    BY Zenon, <1>1, <1>3, <2>1, <2>2, <2>3 DEF CopiesInv
  <2>6. JournalInv'
    BY Zenon, <1>1, <1>3, <2>1, <2>2, <2>3 DEF JournalInv, Good, Released
  <2>7. AgentInv'
    BY Zenon, <1>1, <1>3, <2>1, <2>2, <2>3 DEF AgentInv, Good, Released
  <2>8. HelperInv'
    BY <1>1, <1>3, <2>1, <2>2, <2>3 DEF HelperInv, JournalInv, Good, Released
  <2>9. ImageInv'
    BY Zenon, <1>1, <1>3, <2>1, <2>2, <2>3 DEF ImageInv, Swapped, InState
  <2>10. UnixInv'
    BY Zenon, <1>1, <1>3, <2>1, <2>2, <2>3 DEF UnixInv, InState
  <2>11. WindowsInv'
    BY Zenon, <1>1, <1>3, <2>1, <2>2, <2>3 DEF WindowsInv
  <2> QED BY Zenon, <2>4, <2>5, <2>6, <2>7, <2>8, <2>9, <2>10, <2>11 DEF UpdatesInv
<1> QED BY Zenon, <1>2, <1>3 DEF Serve

\* A helper that replaces the executable does so while the agent is down.
LEMMA HelperReplaces ==
  ASSUME UpdatesInv, platform = "windows", journal # NoUpdate, NEW h \in Helper,
         NEW to \in HelperStep \ {"restore_mark", "restore_move"}, HelperGoes(h, to),
         to = "restore_done" => Good(helper[h].txn),
         Down, exe' \in Version, pending' \in Version \cup {NoUpdate},
         UNCHANGED <<platform, serverVars, knownGood, candidate, journal, agent>>,
         UNCHANGED <<stopping, time, stops>>
  PROVE  UpdatesInv'
<1> USE DEF UpdatesInv, hostVars, serverVars, Down
<1>1. /\ helper' \in [Helper -> [pc : HelperStep, txn : Transaction \cup {NoUpdate}]]
      /\ helper'[h].pc = to /\ helper'[h].txn = helper[h].txn
      /\ \A g \in Helper \ {h} : helper'[g] = helper[g]
  BY Zenon, HelperGoesOn
<1>2. UpdatesTypeOK'
  BY Zenon, <1>1 DEF UpdatesTypeOK
<1>3. CopiesInv'
  BY Zenon, <1>1 DEF CopiesInv
<1>4. JournalInv'
  BY Zenon, <1>1 DEF JournalInv, Good, Released
<1>5. AgentInv'
  BY Zenon, <1>1 DEF AgentInv, Good, Released
<1>6. HelperInv'
  BY Zenon, <1>1 DEF HelperInv, JournalInv, Good, Released
<1>7. ImageInv'
  BY Zenon, <1>1 DEF ImageInv, Swapped, InState
<1>8. UnixInv'
  BY Zenon, <1>1 DEF UnixInv, InState
<1>9. WindowsInv'
  BY Zenon, <1>1 DEF WindowsInv
<1> QED BY Zenon, <1>2, <1>3, <1>4, <1>5, <1>6, <1>7, <1>8, <1>9 DEF UpdatesInv

\* A helper that marks a transaction of the journal marks a good one.
LEMMA HelperMarks ==
  ASSUME UpdatesInv, platform = "windows", journal # NoUpdate, NEW h \in Helper,
         NEW t, Good(t), NEW state \in TransactionState, SaveTransaction(Marked(t, state)),
         helper' \in [Helper -> [pc : HelperStep, txn : Transaction \cup {NoUpdate}]],
         \A g \in Helper \ {h} : helper'[g] = helper[g],
         helper'[h].pc \in {"restore_mark", "restore_move", "restore_done"} => Good(helper'[h].txn),
         UNCHANGED <<platform, serverVars, exe, pending, knownGood, candidate, agent>>,
         UNCHANGED <<stopping, time, stops>>
  PROVE  UpdatesInv'
<1> USE DEF UpdatesInv, hostVars, serverVars
<1>1. Good(journal') /\ journal' \in Transaction /\ journal' # NoUpdate
  BY Zenon, MarkedTransaction, TransactionAssumption DEF SaveTransaction, Good
<1>2. UpdatesTypeOK'
  BY Zenon, <1>1 DEF UpdatesTypeOK
<1>3. CopiesInv'
  BY Zenon, <1>1 DEF CopiesInv
<1>4. JournalInv'
  BY Zenon, <1>1 DEF JournalInv, Good, Released
<1>5. AgentInv'
  BY Zenon, <1>1 DEF AgentInv, Good, Released
<1>6. HelperInv'
  BY Zenon, <1>1 DEF HelperInv, JournalInv, Good, Released
<1>7. ImageInv'
  BY Zenon, <1>1 DEF ImageInv, Swapped, InState
<1>8. UnixInv'
  BY Zenon, <1>1 DEF UnixInv, InState
<1>9. WindowsInv'
  BY Zenon, <1>1 DEF WindowsInv
<1> QED BY Zenon, <1>2, <1>3, <1>4, <1>5, <1>6, <1>7, <1>8, <1>9 DEF UpdatesInv

\* Every step of a helper keeps the invariant.
LEMMA HelperKeeps ==
  ASSUME UpdatesInv, NEW h \in Helper, HelperMoves(h), UNCHANGED <<platform, time, stops>>
  PROVE  UpdatesInv'
<1> USE DEF hostVars, serverVars
<1>0. helper[h] \in [pc : HelperStep,
txn : Transaction \cup {NoUpdate}] /\ UNCHANGED serverVars
  BY Zenon DEF HelperMoves, UpdatesInv, UpdatesTypeOK
<1>1. CASE HelperStarts(h)
  <2>1. platform = "windows"
    BY Zenon, <1>1, HelperOnWindows DEF HelperStarts, HelperAt
  <2>2. CASE HelperExits(h)
    BY Zenon, <1>0, <1>1, <2>1, <2>2, HelperExitsKeeps DEF HelperStarts
  <2>3. CASE /\ journal # NoUpdate
             /\ \E to \in {"stop_to_restore", "serve", "stop_to_apply"} : HelperGoes(h, to)
    BY Zenon, <1>0, <1>1, <2>1, <2>3, HelperGoesKeeps DEF HelperStarts, HelperStep
  <2> QED BY Zenon, <1>1, <2>2, <2>3 DEF HelperStarts
<1>2. ASSUME NEW from \in {"stop_to_apply", "stop_to_restore"},
NEW to \in {"apply", "restore"},
             StopService(h, from, to)
      PROVE  UpdatesInv'
  <2>1. platform = "windows" /\ journal # NoUpdate
    BY Zenon, <1>2, HelperOnWindows DEF StopService, HelperAt
  <2>2. CASE HelperGoes(h, to) /\ UNCHANGED stopping
    BY Zenon, <1>0, <1>2, <2>1, <2>2, HelperGoesKeeps DEF StopService, HelperStep
  <2>3. CASE HelperExits(h) /\ UNCHANGED stopping
    BY Zenon, <1>0, <1>2, <2>1, <2>3, HelperExitsKeeps DEF StopService
  <2>4. CASE stopping' = TRUE /\ UNCHANGED helper
    <3>1. helper' \in [Helper -> [pc : HelperStep, txn : Transaction \cup {NoUpdate}]]
      BY Zenon, <2>4 DEF UpdatesInv, UpdatesTypeOK
    <3> QED BY Zenon, <1>0, <1>2, <2>1, <2>4, <3>1, HelperMoved
            DEF StopService, UpdatesInv, HelperInv
  <2> QED BY Zenon, <1>2, <2>2, <2>3, <2>4 DEF StopService
<1>3. CASE ApplyPending(h)
  <2>1. platform = "windows" /\ journal # NoUpdate
    BY Zenon, <1>3, HelperOnWindows DEF ApplyPending, HelperAt
  <2>2. CASE HelperExits(h) /\ UNCHANGED <<exe, pending>>
    BY Zenon, <1>0, <1>3, <2>1, <2>2, HelperExitsKeeps DEF ApplyPending
  <2>3. CASE /\ Down /\ pending # NoUpdate /\ HelperGoes(h, "serve")
             /\ exe' = pending /\ pending' = NoUpdate
    BY Zenon, <1>0, <1>3, <2>1, <2>3, HelperReplaces
    DEF ApplyPending, HelperStep, UpdatesInv, UpdatesTypeOK
  <2> QED BY Zenon, <1>3, <2>2, <2>3 DEF ApplyPending
<1>4. CASE Serve(h, "serve", "monitor", "stop_to_restore")
  BY Zenon, <1>0, <1>4, ServeKeeps DEF HelperStep
<1>5. CASE Monitor(h)
  <2>1. platform = "windows" /\ journal # NoUpdate /\ Good(journal)
    BY Zenon, <1>5, HelperOnWindows DEF Monitor, HelperAt
  <2>2. CASE HelperExits(h)
    BY Zenon, <1>0, <1>5, <2>1, <2>2, HelperExitsKeeps DEF Monitor
  <2>3. CASE helper' = [helper EXCEPT ![h] = [pc |-> "judge", txn |-> journal]]
    <3>1. /\ helper' \in [Helper -> [pc : HelperStep, txn : Transaction \cup {NoUpdate}]]
          /\ helper'[h].pc = "judge" /\ \A g \in Helper \ {h} : helper'[g] = helper[g]
      BY Zenon, <2>1, <2>3 DEF HelperStep, Good, UpdatesInv, UpdatesTypeOK
    <3> QED BY Zenon, <1>0, <1>5, <2>1, <3>1, HelperMoved DEF Monitor, UpdatesInv, UpdatesTypeOK
  <2> QED BY Zenon, <1>5, <2>2, <2>3 DEF Monitor
<1>6. CASE Judge(h)
  <2>1. platform = "windows" /\ journal # NoUpdate
    BY Zenon, <1>6, HelperOnWindows DEF Judge, HelperAt
  <2>2. PICK to \in {"stop_to_restore", "monitor"} : HelperGoes(h, to)
    BY Zenon, <1>6 DEF Judge
  <2> QED BY Zenon, <1>0, <1>6, <2>1, <2>2, HelperGoesKeeps DEF Judge, HelperStep
<1>7. CASE RollbackCopy(h)
  <2>1. platform = "windows" /\ journal # NoUpdate /\ Good(journal)
    BY Zenon, <1>7, HelperOnWindows DEF RollbackCopy, HelperAt
  <2>2. CASE HelperExits(h)
    BY Zenon, <1>0, <1>7, <2>1, <2>2, HelperExitsKeeps DEF RollbackCopy
  <2>3. CASE helper' = [helper EXCEPT ![h] = [pc |-> "restore_mark", txn |-> journal]]
    <3>1. /\ helper' \in [Helper -> [pc : HelperStep, txn : Transaction \cup {NoUpdate}]]
          /\ helper'[h].txn = journal /\ \A g \in Helper \ {h} : helper'[g] = helper[g]
      BY Zenon, <2>1, <2>3 DEF HelperStep, Good, UpdatesInv, UpdatesTypeOK
    <3> QED BY Zenon, <1>0, <1>7, <2>1, <3>1, HelperMoved DEF RollbackCopy, UpdatesInv, UpdatesTypeOK
  <2> QED BY Zenon, <1>7, <2>2, <2>3 DEF RollbackCopy
<1>8. CASE RollbackMove(h)
  <2>1. platform = "windows" /\ journal # NoUpdate /\ Good(helper[h].txn)
    BY Zenon, <1>8, HelperOnWindows DEF RollbackMove, HelperAt, UpdatesInv, HelperInv
  <2>2. CASE HelperExits(h) /\ UNCHANGED exe
    BY Zenon, <1>0, <1>8, <2>1, <2>2, HelperExitsKeeps DEF RollbackMove
  <2>3. CASE Down /\ exe' = helper[h].txn.previous /\ HelperGoes(h, "restore_done")
    <3>1. exe' \in Version /\ pending' \in Version \cup {NoUpdate}
      BY Zenon, <1>8, <2>1, <2>3 DEF RollbackMove, Good, Transaction, UpdatesInv, UpdatesTypeOK
    <3> QED BY Zenon, <1>0, <1>8, <2>1, <2>3, <3>1, HelperReplaces DEF RollbackMove, HelperStep
  <2> QED BY Zenon, <1>8, <2>2, <2>3 DEF RollbackMove
<1>9. CASE RollbackDone(h)
  <2>1. platform = "windows" /\ journal # NoUpdate /\ Good(helper[h].txn)
    BY Zenon, <1>9, HelperOnWindows DEF RollbackDone, HelperAt, UpdatesInv, HelperInv
  <2>2. /\ helper' \in [Helper -> [pc : HelperStep, txn : Transaction \cup {NoUpdate}]]
        /\ helper'[h].pc = "restart" /\ \A g \in Helper \ {h} : helper'[g] = helper[g]
    BY Zenon, <1>9, HelperGoesOn DEF RollbackDone, HelperStep, UpdatesInv
  <2> QED BY Zenon, <1>0, <1>9, <2>1, <2>2, HelperMarks DEF RollbackDone, TransactionState
<1>10. CASE Serve(h, "restart", "off", "off")
  BY Zenon, <1>0, <1>10, ServeKeeps DEF HelperStep
<1>11. CASE RollbackMark(h)
  <2>1. platform = "windows" /\ journal # NoUpdate /\ Good(helper[h].txn)
    BY Zenon, <1>11, HelperOnWindows DEF RollbackMark, HelperAt, UpdatesInv, HelperInv
  <2>2. /\ helper' \in [Helper -> [pc : HelperStep, txn : Transaction \cup {NoUpdate}]]
        /\ helper'[h].txn = helper[h].txn /\ \A g \in Helper \ {h} : helper'[g] = helper[g]
    BY Zenon, <1>11, HelperGoesOn DEF RollbackMark, HelperStep, UpdatesInv
  <2> QED BY Zenon, <1>0, <1>11, <2>1, <2>2, HelperMarks DEF RollbackMark, TransactionState
<1> QED BY Zenon, <1>1, <1>2, <1>3, <1>4, <1>5, <1>6, <1>7, <1>8, <1>9, <1>10, <1>11
        DEF HelperMoves

\* The catalog never takes back that a version was released.
LEMMA CatalogKeeps ==
  ASSUME UpdatesInv, Catalog
  PROVE  UpdatesInv'
<1> USE DEF UpdatesInv, hostVars, serverVars, Catalog
<1>1. /\ release' \in [Version -> ReleaseStatus]
      /\ assignment' \in [version : Version, status : AssignmentStatus] \cup {NoUpdate}
      /\ \A v \in Version : Released(v) => Released(v)'
  <2>1. PICK v \in Version : ImportRelease(v) \/ ApproveRelease(v) \/ RevokeRelease(v) \/ Assign(v)
    BY Zenon DEF Catalog
  <2>2. CASE ImportRelease(v) \/ ApproveRelease(v) \/ RevokeRelease(v)
    <3>1. PICK from, to \in ReleaseStatus :
            /\ release[v] = from /\ release' = [release EXCEPT ![v] = to]
            /\ from \in {"approved", "revoked"} => to \in {"approved", "revoked"}
            /\ assignment' = assignment
      BY Zenon, <2>2 DEF ImportRelease, CreateRelease, ApproveRelease, RevokeRelease, Transition, ReleaseStatus
    <3>2. release \in [Version -> ReleaseStatus]
      BY Zenon DEF UpdatesTypeOK
    <3> QED BY Zenon, <3>1, <3>2 DEF UpdatesTypeOK, Released
  <2>3. CASE Assign(v)
    BY Zenon, <2>3 DEF Assign, AssignUpdate, AssignmentStatus, UpdatesTypeOK, Released
  <2> QED BY Zenon, <2>1, <2>2, <2>3
<1>2. UpdatesTypeOK'
  BY Zenon, <1>1 DEF UpdatesTypeOK
<1>3. CopiesInv'
  BY Zenon, <1>1 DEF CopiesInv
<1>4. JournalInv'
  BY Zenon, <1>1 DEF JournalInv, Good, Released, Transaction, UpdatesTypeOK, Process
<1>5. AgentInv'
  BY Zenon, <1>1 DEF AgentInv, Good, Released, Transaction, UpdatesTypeOK, Process
<1>6. HelperInv'
  BY Zenon, <1>1 DEF HelperInv, JournalInv, Good, Released, Transaction, UpdatesTypeOK, Process
<1>7. ImageInv'
  BY Zenon, <1>1 DEF ImageInv, Swapped, InState
<1>8. UnixInv'
  BY Zenon, <1>1 DEF UnixInv, InState
<1>9. WindowsInv'
  BY Zenon, <1>1 DEF WindowsInv
<1> QED BY Zenon, <1>2, <1>3, <1>4, <1>5, <1>6, <1>7, <1>8, <1>9 DEF UpdatesInv

\* A crash ends the agent or a helper.
LEMMA CrashKeeps ==
  ASSUME UpdatesInv, Crash
  PROVE  UpdatesInv'
<1> USE DEF UpdatesInv, hostVars, serverVars, Crash
<1>1. stops' \in 0..MaxStops
  BY UpdatesAssumption DEF UpdatesTypeOK
<1>2. CASE Exit /\ stopping' = FALSE /\ UNCHANGED helper
  <2>1. agent' \in Process(AgentStep) /\ agent'.pc = "down" /\ agent'.offer = NoUpdate
    BY Zenon, <1>2, ExitAgent
  <2>2. CopiesInv' /\ JournalInv' /\ HelperInv'
    BY Zenon, <1>1, <1>2, <2>1, FilesKept
  <2>3. UpdatesTypeOK'
    BY Zenon, <1>1, <1>2, <2>1 DEF UpdatesTypeOK
  <2>4. AgentInv'
    BY Zenon, <1>1, <1>2, <2>1 DEF AgentInv, Good, Released
  <2>5. ImageInv'
    BY Zenon, <1>1, <1>2, <2>1 DEF ImageInv, Swapped, InState
  <2>6. UnixInv'
    BY Zenon, <1>1, <1>2, <2>1 DEF UnixInv, InState
  <2>7. WindowsInv'
    BY Zenon, <1>1, <1>2, <2>1 DEF WindowsInv
  <2> QED BY Zenon, <2>2, <2>3, <2>4, <2>5, <2>6, <2>7 DEF UpdatesInv
<1>3. ASSUME NEW h \in Helper, ~HelperAt(h, "off"), HelperExits(h),
UNCHANGED <<agent, stopping>>
      PROVE  UpdatesInv'
  <2>1. /\ helper' \in [Helper -> [pc : HelperStep, txn : Transaction \cup {NoUpdate}]]
        /\ helper'[h].pc = "off" /\ \A g \in Helper \ {h} : helper'[g] = helper[g]
    BY Zenon, <1>3, HelperEnds
  <2>2. UpdatesTypeOK'
    BY Zenon, <1>1, <1>3, <2>1 DEF UpdatesTypeOK
  <2>3. CopiesInv'
    BY Zenon, <1>1, <1>3, <2>1 DEF CopiesInv
  <2>4. JournalInv'
    BY Zenon, <1>1, <1>3, <2>1 DEF JournalInv, Good, Released
  <2>5. AgentInv'
    BY Zenon, <1>1, <1>3, <2>1 DEF AgentInv, Good, Released
  <2>6. HelperInv'
    BY Zenon, <1>1, <1>3, <2>1 DEF HelperInv, JournalInv, Good, Released
  <2>7. ImageInv'
    BY Zenon, <1>1, <1>3, <2>1 DEF ImageInv, Swapped, InState
  <2>8. UnixInv'
    BY Zenon, <1>1, <1>3, <2>1 DEF UnixInv, InState
  <2>9. WindowsInv'
    BY Zenon, <1>1, <1>3, <2>1 DEF WindowsInv
  <2> QED BY Zenon, <2>2, <2>3, <2>4, <2>5, <2>6, <2>7, <2>8, <2>9 DEF UpdatesInv
<1> QED BY Zenon, <1>2, <1>3

\* The clock does not matter to the invariant.
LEMMA TickKeeps ==
  ASSUME UpdatesInv, Tick
  PROVE  UpdatesInv'
<1> USE DEF UpdatesInv, hostVars, serverVars, Tick
<1>1. time' \in 0..MaxTime
  BY UpdatesAssumption DEF UpdatesTypeOK
<1>2. CopiesInv' /\ JournalInv' /\ HelperInv'
  BY Zenon, <1>1, FilesKept
<1>3. UpdatesTypeOK'
  BY Zenon, <1>1 DEF UpdatesTypeOK
<1>4. AgentInv'
  BY Zenon, <1>1 DEF AgentInv, Good, Released
<1>5. ImageInv'
  BY Zenon, <1>1 DEF ImageInv, Swapped, InState
<1>6. UnixInv'
  BY Zenon, <1>1 DEF UnixInv, InState
<1>7. WindowsInv'
  BY Zenon, <1>1 DEF WindowsInv
<1> QED BY Zenon, <1>2, <1>3, <1>4, <1>5, <1>6, <1>7 DEF UpdatesInv

-----------------------------------------------------------------------------
(***************************************************************************)
(* The theorems                                                            *)
(***************************************************************************)

\* The first state has the invariant.
LEMMA UpdatesBegin == UpdatesInit => UpdatesInv
<1> SUFFICES ASSUME UpdatesInit PROVE UpdatesInv
  BY Zenon
<1>1. UpdatesTypeOK
  <2>1. 1 \in Version /\ 0 \in 0..MaxTime /\ 0 \in 0..MaxStops
    BY UpdatesAssumption DEF Version
  <2>2. agent \in Process(AgentStep)
    BY Zenon, <2>1 DEF UpdatesInit, Stopped, Process, AgentStep
  <2>3. helper \in [Helper -> [pc : HelperStep, txn : Transaction \cup {NoUpdate}]]
    BY Zenon DEF UpdatesInit, NotRunning, HelperStep
  <2>4. release \in [Version -> ReleaseStatus] /\ knownGood \in [Version -> Version \cup {NoUpdate}]
    BY Zenon DEF UpdatesInit, ReleaseStatus
  <2> QED BY Zenon, <2>1, <2>2, <2>3, <2>4 DEF UpdatesInit, UpdatesTypeOK
<1>2. /\ agent.pc = "down" /\ agent.offer = NoUpdate /\ journal = NoUpdate
      /\ \A h \in Helper : helper[h].pc = "off"
  BY Zenon DEF UpdatesInit, Stopped, NotRunning
<1>3. CopiesInv
  BY Zenon DEF UpdatesInit, CopiesInv
<1> QED BY Zenon, <1>1, <1>2, <1>3
        DEF UpdatesInv, JournalInv, AgentInv, HelperInv, ImageInv, UnixInv, WindowsInv,
            InState

\* Every step of the agent keeps it.
LEMMA AgentKeeps ==
  ASSUME UpdatesInv, AgentMoves, UNCHANGED <<platform, time, stops>>
  PROVE  UpdatesInv'
<1>1. CASE CheckInFails
  BY Zenon, <1>1, AgentRests DEF CheckInFails
<1>2. CASE ServiceStops
  <2>1. stopping' \in BOOLEAN
    BY Zenon, <1>2 DEF ServiceStops
  <2> QED BY Zenon, <1>2, <2>1, AgentExits DEF ServiceStops
<1>3. CASE UpdateFails
  BY Zenon, <1>3, AgentRests DEF UpdateFails
<1> QED BY Zenon, <1>1, <1>2, <1>3, RecordCheckInKeeps, UpdateOfferKeeps, ServiceStartsKeeps,
           RecoverUnixKeeps,
           RestoreMarkKeeps, RestoreMoveKeeps, RestoreDoneKeeps, RecoverWindowsKeeps,
           ConfirmLoadKeeps,
           ConfirmSaveKeeps, PreserveKnownGoodKeeps, StageKeeps, PrepareKeeps,
           ActivateKeeps,
           ReplaceUnixKeeps, ReplaceWindowsKeeps, LaunchUpdaterKeeps DEF AgentMoves

\* UpdatesInv is an invariant of the updates.
LEMMA UpdatesInvariant == UpdatesSpec => []UpdatesInv
<1>1. UpdatesInv /\ [UpdatesNext]_updatesVars => UpdatesInv'
  <2> SUFFICES ASSUME UpdatesInv, [UpdatesNext]_updatesVars PROVE UpdatesInv'
    BY Zenon
  <2>1. CASE UNCHANGED updatesVars
    <3> USE <2>1 DEF updatesVars, hostVars, serverVars, UpdatesInv
    <3>1. UpdatesTypeOK' /\ CopiesInv' /\ WindowsInv'
      BY Zenon DEF UpdatesTypeOK, CopiesInv, WindowsInv
    <3>2. JournalInv' /\ AgentInv' /\ HelperInv'
      BY Zenon DEF JournalInv, AgentInv, HelperInv, Good, Released
    <3>3. ImageInv'
      BY Zenon DEF ImageInv, Swapped, InState
    <3>4. UnixInv'
      BY Zenon DEF UnixInv, InState
    <3> QED BY Zenon, <3>1, <3>2, <3>3, <3>4
  <2>2. CASE AgentMoves /\ UNCHANGED <<platform, time, stops>>
    BY Zenon, <2>2, AgentKeeps
  <2>3. CASE (\E h \in Helper : HelperMoves(h)) /\ UNCHANGED <<platform, time, stops>>
    BY Zenon, <2>3, HelperKeeps
  <2> QED BY Zenon, <2>1, <2>2, <2>3, CatalogKeeps, CrashKeeps, TickKeeps DEF UpdatesNext
<1> QED BY UpdatesBegin, <1>1, PTL DEF UpdatesSpec

(* Whatever is interrupted, a journal that may lead to a rollback names a  *)
(* known-good copy that is there (activate_unix.go, recover_unix.go,       *)
(* activate_windows.go, transaction.go).                                   *)
THEOREM RecoveryIsPossible == UpdatesSpec => []Recoverable
<1>1. UpdatesInv => Recoverable
  BY Zenon DEF UpdatesInv, JournalInv, Good, UnixInv, Recoverable, InState
<1> QED BY <1>1, UpdatesInvariant, PTL

(* On Unix a finished transaction says which executable is installed       *)
(* (ConfirmHealthy of transaction.go, Recover of recover_unix.go).         *)
THEOREM JournalIsTruthful == UpdatesSpec => []JournalTruthful
<1>1. UpdatesInv => JournalTruthful
  BY Zenon DEF UpdatesInv, UnixInv, JournalTruthful
<1> QED BY <1>1, UpdatesInvariant, PTL

-----------------------------------------------------------------------------
\* A step that leaves the executable, the journal and the releases alone does
\* not change the installed agent.
LEMMA ProgramKept ==
  ASSUME UNCHANGED <<exe, journal, release>>
  PROVE  UNCHANGED Program!programVars
BY Zenon DEF Program!programVars, InState

\* Among the steps of the catalog only an approval shows, as a publication.
LEMMA CatalogRefines ==
  ASSUME UpdatesInv, Catalog
  PROVE  Program!ProgramNext \/ UNCHANGED Program!programVars
<1> USE DEF hostVars, serverVars
<1>1. UNCHANGED <<exe, journal>>
  BY Zenon DEF Catalog
<1>2. ASSUME NEW v \in Version, ApproveRelease(v)
      PROVE  Program!ProgramNext
  <2>1. {w \in Version : release'[w] \in {"approved", "revoked"}}
          = {w \in Version : release[w] \in {"approved", "revoked"}} \cup {v}
    BY Zenon, <1>2 DEF ApproveRelease, Transition, UpdatesInv, UpdatesTypeOK
  <2>2. Program!Publish(v)
    BY Zenon, <1>1, <2>1 DEF Program!Publish, InState
  <2> QED BY Zenon, <2>2 DEF Program!ProgramNext
<1>3. ASSUME NEW v \in Version, ImportRelease(v) \/ RevokeRelease(v) \/ Assign(v)
      PROVE  UNCHANGED Program!programVars
  <2>1. {w \in Version : release'[w] \in {"approved", "revoked"}}
          = {w \in Version : release[w] \in {"approved", "revoked"}}
    BY Zenon, <1>3
    DEF ImportRelease, CreateRelease, RevokeRelease, Transition, Assign, UpdatesInv,
        UpdatesTypeOK
  <2> QED BY Zenon, <1>1, <2>1 DEF Program!programVars, InState
<1> QED BY Zenon, <1>2, <1>3 DEF Catalog

\* On Unix the agent's renames are the upgrades and the restorations, a prepared
\* transaction settles the one before, and nothing else shows.
LEMMA AgentRefines ==
  ASSUME UpdatesInv, platform = "unix", AgentMoves
  PROVE  Program!ProgramNext \/ UNCHANGED Program!programVars
<1> USE DEF hostVars, serverVars
<1>1. CASE UNCHANGED <<exe, journal, release>>
  BY Zenon, <1>1, ProgramKept
<1>2. CASE RestoreMark
  <2>1. /\ UNCHANGED <<exe, release>> /\ journal \in Transaction
        /\ InState({"awaiting_health", "rollback_required"})
        /\ journal' # NoUpdate /\ journal'.state = "rollback_required"
        /\ journal'.previous = journal.previous /\ journal'.target = journal.target
    <3>1. /\ journal = agent.txn /\ Good(agent.txn)
          /\ InState({"awaiting_health", "rollback_required"})
          /\ journal' = Marked(agent.txn, "rollback_required") /\ UNCHANGED <<exe, release>>
      BY Zenon, <1>2 DEF RestoreMark, SaveTransaction, UpdatesInv, UnixInv, AgentInv
    <3>2. journal \in Transaction /\ "rollback_required" \in TransactionState
      BY Zenon, <3>1 DEF Good, TransactionState
    <3> QED BY Zenon, <3>1, <3>2, MarkedTransaction, TransactionAssumption
  <2> QED BY Zenon, <2>1 DEF Program!programVars, InState
<1>3. CASE RestoreMove
  <2>1. /\ UNCHANGED <<journal, release>> /\ exe' = journal.previous /\ journal # NoUpdate
        /\ journal.state = "rollback_required" /\ journal.previous < journal.target
        /\ journal.previous \in Version /\ journal.target \in Version
        /\ exe \in {journal.previous, journal.target}
    <3>1. /\ journal = Marked(agent.txn, "rollback_required") /\ Good(agent.txn)
          /\ UNCHANGED <<journal, release>> /\ exe' = agent.txn.previous
      BY Zenon, <1>3 DEF RestoreMove, UpdatesInv, UnixInv, AgentInv
    <3>2. /\ journal \in Transaction /\ journal.state = "rollback_required"
          /\ journal.previous = agent.txn.previous /\ Good(journal)
      BY Zenon, <3>1, MarkedTransaction DEF Good, TransactionState
    <3> QED BY Zenon, <3>1, <3>2, TransactionAssumption
            DEF UpdatesInv, UnixInv, InState, Good, Transaction
  <2>2. journal.previous # NoUpdate /\ journal.previous # journal.target
    BY <2>1, UpdatesAssumption DEF Version
  <2>3. CASE exe = journal.target
    <3>1. Program!Restore
      BY Zenon, <2>1, <2>2, <2>3 DEF Program!Restore, InState
    <3> QED BY Zenon, <3>1 DEF Program!ProgramNext
  <2>4. CASE exe = journal.previous
    BY Zenon, <2>1, <2>2, <2>4 DEF Program!programVars, InState
  <2> QED BY Zenon, <2>1, <2>3, <2>4
<1>4. CASE RestoreDone
  <2>1. /\ journal = Marked(agent.txn, "rollback_required") /\ Good(agent.txn)
        /\ UNCHANGED <<exe, release>> /\ exe = agent.txn.previous
        /\ journal' = Marked(agent.txn, "rolled_back")
    BY Zenon, <1>4 DEF RestoreDone, SaveTransaction, UpdatesInv, UnixInv, AgentInv
  <2>2. /\ journal.target = agent.txn.target /\ journal'.state = "rolled_back"
    BY Zenon, <2>1, MarkedTransaction DEF Good, TransactionState
  <2>3. exe # journal.target
    BY <2>1, <2>2 DEF Good, Transaction, Version
  <2> QED BY Zenon, <2>1, <2>2, <2>3 DEF Program!programVars, InState
<1>5. CASE ConfirmSave
  <2>1. /\ UNCHANGED <<exe, release>> /\ journal \in Transaction
        /\ InState({"awaiting_health"}) /\ journal' # NoUpdate
        /\ journal'.state \in {"committed", "rollback_required"}
        /\ journal'.previous = journal.previous /\ journal'.target = journal.target
    BY <1>5, MarkedTransaction, TransactionAssumption
    DEF ConfirmSave, SaveTransaction, UpdatesInv, UnixInv, AgentInv, Good, TransactionState,
        InState, UpdatesTypeOK
  <2> QED BY Zenon, <2>1 DEF Program!programVars, InState
<1>6. CASE Prepare
  <2>1. UNCHANGED <<exe, release>> /\ journal'.state = "prepared"
    BY Zenon, <1>6 DEF Prepare, SaveTransaction, NewTransaction
  <2>2. Program!Settle
    BY Zenon, <2>1 DEF Program!Settle, InState
  <2> QED BY Zenon, <2>2 DEF Program!ProgramNext
<1>7. CASE Activate
  <2>1. CASE UNCHANGED journal
    BY Zenon, <1>7, <2>1, ProgramKept DEF Activate
  <2>2. CASE SaveTransaction(Marked(agent.txn, "awaiting_health"))
    <3>1. /\ UNCHANGED <<exe, release>> /\ Good(agent.txn) /\ exe = agent.txn.previous
          /\ journal' = Marked(agent.txn, "awaiting_health")
      BY Zenon, <1>7, <2>2
      DEF Activate, SaveTransaction, UpdatesInv, UnixInv, AgentInv, ImageInv, Swapped
    <3>2. journal'.target # exe
      BY <3>1, MarkedTransaction DEF Good, Transaction, Version, TransactionState
    <3>3. Program!Settle
      BY Zenon, <3>1, <3>2 DEF Program!Settle, InState
    <3> QED BY Zenon, <3>3 DEF Program!ProgramNext
  <2> QED BY Zenon, <1>7, <2>1, <2>2 DEF Activate
<1>8. CASE ReplaceUnix
  <2>1. /\ UNCHANGED <<journal, release>> /\ InState({"awaiting_health"})
        /\ exe = journal.previous /\ exe' = journal.target /\ Good(journal)
    BY Zenon, <1>8 DEF ReplaceUnix, UpdatesInv, UnixInv, AgentInv, ImageInv, Swapped
  <2>2. Program!Upgrade(journal.target)
    BY Zenon, <2>1 DEF Program!Upgrade, InState, Good, Released, Transaction, Version
  <2> QED BY Zenon, <2>1, <2>2 DEF Program!ProgramNext, Good, Transaction
<1> QED BY Zenon, <1>1, <1>2, <1>3, <1>4, <1>5, <1>6, <1>7, <1>8
        DEF AgentMoves, RecordCheckIn, UpdateOffer, CheckInFails, ServiceStarts,
            ServiceStops, RecoverUnix,
            RecoverWindows, ConfirmLoad, PreserveKnownGood, Stage, ReplaceWindows,
            LaunchUpdater, UpdateFails

(* On Unix the updater of internal/agentupdate implements InstalledAgent:  *)
(* through every interruption the executable only changes to a newer       *)
(* approved release, or back to the one it replaced.                       *)
THEOREM UpdaterImplementsInstalledAgent == UpdatesSpec => ImplementsInstalledAgent
<1>1. UpdatesInit => Program!ProgramInit
  BY Zenon DEF UpdatesInit, Program!ProgramInit, InState
<1>2. UpdatesInv /\ [UpdatesNext]_updatesVars
        => [platform = "unix" => Program!ProgramNext]_(Program!programVars)
  <2> SUFFICES ASSUME UpdatesInv, [UpdatesNext]_updatesVars, platform = "unix"
               PROVE  Program!ProgramNext \/ UNCHANGED Program!programVars
    BY Zenon
  <2>1. CASE UNCHANGED updatesVars \/ Crash \/ Tick
    BY Zenon, <2>1, ProgramKept DEF updatesVars, hostVars, serverVars, Crash, Tick
  <2>2. ASSUME NEW h \in Helper, HelperMoves(h)
        PROVE  FALSE
    <3>1. helper[h].pc = "off"
      BY Zenon DEF UpdatesInv, UnixInv
    <3> QED BY Zenon, <2>2, <3>1
            DEF HelperMoves, HelperAt, HelperStarts, StopService, ApplyPending, Serve,
               Monitor, Judge, RollbackCopy, RollbackMark, RollbackMove, RollbackDone
  <2> QED BY Zenon, <2>1, <2>2, AgentRefines, CatalogRefines DEF UpdatesNext
<1> QED BY <1>1, <1>2, UpdatesInvariant, PTL DEF UpdatesSpec, ImplementsInstalledAgent
=============================================================================
