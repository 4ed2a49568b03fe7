-------------------------- MODULE PostgresSession --------------------------
(***************************************************************************)
(* PostgreSQL at its default isolation level, READ COMMITTED, as the       *)
(* PostgreSQL store uses it, with one store call per session.  A statement *)
(* sees what was committed when it began and its own transaction's writes. *)
(* It locks the rows it found one after the other, in the order it scans   *)
(* them; a row another session holds is waited for, and then read again: a *)
(* row that no longer matches, or was deleted and written anew, is left    *)
(* out, and a row that came to match in the meantime was never found.      *)
(* PostgreSQL is external code: what is modelled is what the store relies  *)
(* on.                                                                     *)
(*                                                                         *)
(* Program(c, got) is the sequence of statements of call c given the       *)
(* answers so far, and Reference(c, d) what the same function of the       *)
(* SQLite store makes of the database d.                                   *)
(***************************************************************************)
EXTENDS SqlStatements, SequencesExt

CONSTANTS
  Session,            \* the sessions, each with one call to make
  KnownDeadlocks,     \* the functions that may wait for one another, in pairs
  Program(_, _),
  Reference(_, _)

VARIABLES
  db,                 \* the committed rows
  start,              \* the rows the sessions began with
  session             \* the state of each session

sqlVars == <<db, start, session>>

\* The statement a call makes after the answers it has; the last is COMMIT.
StatementAfter(call, got) ==
  LET statements == Program(call, got) IN
    IF Len(got) < Len(statements) THEN statements[Len(got) + 1] ELSE [Statement EXCEPT !.op = "commit"]

Begun(call) ==
  [call |-> call, got |-> <<>>, now |-> StatementAfter(call, <<>>), todo |-> {}, gone |-> {}, picked |-> {}, scanning |-> FALSE,
   mine |-> <<>>, removed |-> {}, locks |-> {}, end |-> "running"]

StoreInit(rows, calls) ==
  /\ db = rows
  /\ start = rows
  /\ session = [s \in Session |-> Begun(calls[s])]

Running(s) == session[s].end = "running"

\* A transaction's writes over the rows: <<>> is a deleted row.
Over(d, mine) ==
  [t \in DOMAIN d |->
     LET gone == {r[2] : r \in {x \in DOMAIN mine : x[1] = t /\ mine[x] = <<>>}}
         kept == {r[2] : r \in {x \in DOMAIN mine : x[1] = t /\ mine[x] # <<>>}}
     IN  [k \in (DOMAIN d[t] \ gone) \cup kept |->
            IF k \in kept THEN mine[<<t, k>>][1] ELSE d[t][k]]]

View(s) == Over(db, session[s].mine)

Current(s) == session[s].now
AtEnd(s) == Current(s).op = "commit"

NextRow(s) == CHOOSE k \in session[s].todo : \A j \in session[s].todo : Rank(k) <= Rank(j)

\* The parents an INSERT checks: none for a row that is there already.
Checked(s, c) == IF \A row \in c.rows : row.id \in DOMAIN View(s)[c.table] THEN {} ELSE c.parents

\* The row locks the next move of s needs, as <<table, key, strength>>.
Needs(s) ==
  LET c == Current(s)
      keys == {row.id : row \in c.rows}
  IN  CASE session[s].scanning -> {<<c.table, NextRow(s), c.lock>>}
        [] c.op = "advisory" -> {<<"advisory", c.table, ForUpdateLock>>}
        [] c.op \in {"insert", "absent", "upsert"} ->
             {<<p[1], p[2], KeyShare>> : p \in Checked(s, c)}
             \cup {<<c.table, k, IF c.op = "upsert" THEN NoKeyUpdate ELSE KeyShare>> : k \in keys}
        [] OTHER -> {}

Excludes(a, b) == a[1] = b[1] /\ a[2] = b[2] /\ a[3] + b[3] >= 5

\* s cannot move before o ends.
WaitsFor(s, o) ==
  /\ s # o /\ Running(s) /\ Running(o) /\ ~AtEnd(s)
  /\ \E need \in Needs(s) : \E held \in session[o].locks : Excludes(need, held)

Moves(s) == Running(s) /\ ~AtEnd(s) /\ \A o \in Session : ~WaitsFor(s, o)

\* A session whose transaction has ended holds nothing.
Ended(rec, how) ==
  [rec EXCEPT !.end = how, !.now = Statement, !.mine = <<>>, !.removed = {}, !.locks = {}, !.todo = {},
              !.gone = {}, !.picked = {}, !.scanning = FALSE]

\* The statement is answered, or its answer is an error of the function.
Answered(rec, c, rows) ==
  IF c.need /\ rows = {}
    THEN Ended(rec, "refused")
    ELSE [rec EXCEPT !.got = Append(@, rows),
                     !.now = StatementAfter(rec.call, Append(rec.got, rows)), !.todo = {}, !.gone = {}, !.picked = {},
                     !.scanning = FALSE]

Becomes(s, rec) == session' = [session EXCEPT ![s] = rec] /\ UNCHANGED <<db, start>>

\* The rows a query returns, each joined row matching as well.
Selected(s, c) ==
  {row \in Rows(View(s), c.table, c.where) :
     \A j \in Range(c.join) : LET found == Found(View(s), j.table, j.where) IN
                                 IF j.via = "" THEN found # {} ELSE row[j.via] \in found}

\* SELECT; a statement that is left out; a check of the function itself.
Query(s) ==
  /\ Moves(s) /\ Current(s).op \in {"select", "skip", "refuse"}
  /\ LET c == Current(s) IN
       Becomes(s, IF c.op = "refuse" /\ c.refuse
                    THEN Ended(session[s], "refused")
                    ELSE Answered(session[s], c, IF c.op = "select" THEN Selected(s, c) ELSE {}))

TakeAdvisoryLock(s) ==
  /\ Moves(s) /\ Current(s).op = "advisory"
  /\ Becomes(s, Answered([session[s] EXCEPT !.locks = @ \cup Needs(s)], Current(s), {}))

\* The rows a locking statement starts from: those a subquery names, or not.
Named(s, q) == {row[q.via] : row \in Rows(View(s), q.table, q.where)}
Matching(s, c) ==
  {k \in Found(View(s), c.table, c.where) :
     /\ \A q \in Range(c.unless) : k \notin Named(s, q)
     /\ \A q \in Range(c.among) : k \in Named(s, q)}

\* A locking statement finds its rows.
Scan(s) ==
  /\ Moves(s) /\ ~session[s].scanning /\ Current(s).op \in {"lock", "update", "delete"}
  /\ LET c == Current(s)
         found == Matching(s, c)
     IN  Becomes(s, IF found = {}
                      THEN Answered(session[s], c, {})
                      ELSE [session[s] EXCEPT !.todo = found, !.scanning = TRUE])

\* It locks the next of them and, if it still matches, does its work on it.
TakeRow(s) ==
  /\ Moves(s) /\ session[s].scanning
  /\ LET c == Current(s)
         k == NextRow(s)
         matches == k \in Found(View(s), c.table, c.where) \ session[s].gone
         row == View(s)[c.table][k]
         after == CASE c.op = "update" -> (<<c.table, k>> :> <<Assigned(c, row)>>)
                    [] c.op = "delete" -> (<<c.table, k>> :> <<>>)
                    [] OTHER -> <<>>
         picked == session[s].picked \cup (IF matches THEN {row} ELSE {})
         locked == [session[s] EXCEPT !.locks = @ \cup Needs(s),
                                      !.todo = @ \ {k},
                                      !.picked = picked,
                                      !.removed = @ \cup (IF matches /\ c.op = "delete"
                                                            THEN {<<c.table, k>>} ELSE {}),
                                      !.mine = IF matches THEN after @@ @ ELSE @]
     IN  Becomes(s, IF locked.todo = {} THEN Answered(locked, c, picked) ELSE locked)

\* FOR UPDATE SKIP LOCKED: the first row that matches and nobody holds.
Lease(s) ==
  /\ Moves(s) /\ Current(s).op = "lease"
  /\ LET c == Current(s)
         free == {k \in {row.id : row \in Selected(s, c)} :
                    ~\E o \in Session \ {s} : \E held \in session[o].locks :
                        Excludes(<<c.table, k, ForUpdateLock>>, held)}
         k == CHOOSE x \in free : \A y \in free : Rank(x) <= Rank(y)
     IN  Becomes(s, IF free = {}
                      THEN Answered(session[s], c, {})
                      ELSE Answered([session[s] EXCEPT
                                       !.locks = @ \cup {<<c.table, k, ForUpdateLock>>}],
                                    c, {View(s)[c.table][k]}))

\* INSERT.  A key another session is inserting or deleting is waited for; a
\* row that is there is an error, is updated, or is left alone; a parent that
\* is not there is an error.
Write(s) ==
  /\ Moves(s) /\ Current(s).op \in {"insert", "upsert", "absent"}
  /\ LET c == Current(s)
         there == {row \in c.rows : row.id \in DOMAIN View(s)[c.table]}
         orphan == \E p \in Checked(s, c) : p[2] \notin DOMAIN View(s)[p[1]]
         value(row) == IF row \in there THEN Conflict(c, row, View(s)[c.table][row.id]) ELSE row
         written == IF c.op = "upsert" THEN c.rows ELSE c.rows \ there
         writes == [r \in {<<c.table, row.id>> : row \in written} |->
                      <<value(CHOOSE row \in written : row.id = r[2])>>]
         locks == {<<p[1], p[2], KeyShare>> : p \in Checked(s, c)}
                  \cup {<<c.table, row.id,
                          IF row \in there THEN NoKeyUpdate ELSE ForUpdateLock>> : row \in written}
     IN  Becomes(s, IF orphan \/ (c.op = "insert" /\ there # {})
                      THEN Ended(session[s], "error")
                      ELSE Answered([session[s] EXCEPT !.locks = @ \cup locks,
                                                       !.mine = writes @@ @], c, written))

\* The rows the transaction removed are gone for a statement that found them,
\* whatever it wrote under their keys.
CommitTransaction(s) ==
  LET lost(o) == {k \in session[o].todo : <<Current(o).table, k>> \in session[s].removed} IN
    /\ Running(s) /\ AtEnd(s)
    /\ db' = View(s)
    /\ session' = [o \in Session |->
                     IF o = s THEN Ended(session[s], "committed")
                     ELSE IF session[o].scanning
                       THEN [session[o] EXCEPT !.gone = @ \cup lost(o)]
                       ELSE session[o]]
    /\ UNCHANGED start

\* PostgreSQL ends one of the transactions that wait for one another.
DeadlockDetected(s) ==
  /\ \E o \in Session : WaitsFor(s, o) /\ WaitsFor(o, s)
  /\ Becomes(s, Ended(session[s], "deadlock"))

\* Every call has returned.
AllEnded == \A s \in Session : ~Running(s)
Settled == AllEnded /\ UNCHANGED sqlVars

StoreNext ==
  \/ \E s \in Session :
       \/ Query(s) \/ TakeAdvisoryLock(s) \/ Scan(s) \/ TakeRow(s) \/ Lease(s) \/ Write(s)
       \/ CommitTransaction(s) \/ DeadlockDetected(s)
  \/ Settled
----------------------------------------------------------------------------
\* The calls run one after the other by the SQLite store, from the rows they
\* began with; a call PostgreSQL itself ended took no part.
Replay(order) ==
  LET step(so, s) ==
        LET result == Reference(session[s].call, so.db) IN
          IF session[s].end \in {"error", "deadlock"}
            THEN so
            ELSE [db |-> result.db,
                  same |-> so.same /\ result.ok = (session[s].end = "committed")]
  IN  FoldLeft(step, [db |-> start, same |-> TRUE], order)

\* When every call has returned, the rows and the answers are those of the
\* SQLite store making the same calls in some order: the locks of the
\* PostgreSQL functions leave no interleaving a caller could tell from one
\* after the other.
SerializableAsSqlite ==
  AllEnded => \E order \in SetToSeqs(Session) :
                 LET so == Replay(order) IN so.same /\ so.db = db

\* Two calls wait for one another only where the functions are known to lock in
\* opposite orders: everywhere else the rows are locked in one order.
DeadlocksKnown ==
  \A s \in Session : session[s].end = "deadlock" =>
                      {session[o].call.op : o \in Session} \in KnownDeadlocks
============================================================================
