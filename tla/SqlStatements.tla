--------------------------- MODULE SqlStatements ---------------------------
(***************************************************************************)
(* The statements a PostgreSQL transaction is made of, as data.  A store   *)
(* function is a sequence of them, written as a function of the answers it *)
(* has so far: answer i is the set of rows statement i returned or wrote.  *)
(* These are the forms the PostgreSQL store uses; how a statement runs is  *)
(* in PostgresSession.                                                     *)
(***************************************************************************)
EXTENDS StoreRows

CONSTANT ScanOrder    \* every key, in the order of the keys and of the scans

Ranks == [k \in Range(ScanOrder) |-> CHOOSE i \in DOMAIN ScanOrder : ScanOrder[i] = k]
Rank(k) == Ranks[k]

\* The strength of the four row locks; two of them exclude one another when
\* their strengths add up to five or more.
KeyShare == 1
Share == 2
NoKeyUpdate == 3
ForUpdateLock == 4

Statement ==
  [op |-> "skip", table |-> "", where |-> <<>>, lock |-> ForUpdateLock, set |-> <<>>,
   join |-> <<>>, unless |-> <<>>, among |-> <<>>, rows |-> {}, parents |-> {}, newest |-> "", same |-> {},
   add |-> {}, bound |-> <<>>, refuse |-> FALSE, need |-> FALSE]

\* SELECT, and SELECT ... FOR UPDATE and FOR SHARE.
Select(t, where) == [Statement EXCEPT !.op = "select", !.table = t, !.where = where]
\* The same with JOIN t2 ON t2.id = t.via: the row of t2 must match as well.
\* With no `via', some row of t2 must.
SelectJoin(t, where, via, t2, where2) ==
  [Select(t, where) EXCEPT !.join = <<[via |-> via, table |-> t2, where |-> where2]>>]
LockRows(t, where, lock) ==
  [Statement EXCEPT !.op = "lock", !.table = t, !.where = where, !.lock = lock]
SelectForUpdate(t, where) == LockRows(t, where, ForUpdateLock)
SelectForShare(t, where) == LockRows(t, where, Share)

\* SELECT ... JOIN ... LIMIT 1 FOR UPDATE OF t SKIP LOCKED.
SelectSkipLocked(t, where, via, t2, where2) ==
  [SelectJoin(t, where, via, t2, where2) EXCEPT !.op = "lease"]

Update(t, where, set) ==
  [Statement EXCEPT !.op = "update", !.table = t, !.where = where, !.set = set,
                    !.lock = NoKeyUpdate]
\* SET f = LEAST(by, GREATEST(f, value)), for the fields f of bound.
Bounded(statement, bound) == [statement EXCEPT !.bound = bound]
Assigned(c, row) ==
  LET raised(f) == IF row[f] > c.set[f] THEN row[f] ELSE c.set[f]
      capped(f) == IF raised(f) < row[c.bound[f]] THEN raised(f) ELSE row[c.bound[f]]
  IN  [f \in DOMAIN c.bound |-> capped(f)] @@ c.set @@ row
Delete(t, where) == [Statement EXCEPT !.op = "delete", !.table = t, !.where = where]

\* WHERE NOT EXISTS: not the rows that a matching row of t2 names in `via'.
Unless(statement, t2, via, where2) ==
  [statement EXCEPT !.unless = <<[via |-> via, table |-> t2, where |-> where2]>>]

\* WHERE id IN (SELECT via FROM t2 ...): only the rows one names.
Among(statement, t2, via, where2) ==
  [statement EXCEPT !.among = <<[via |-> via, table |-> t2, where |-> where2]>>]

\* INSERT of some rows; the parents are the rows their foreign keys name.
InsertRows(t, rows, parents) ==
  [Statement EXCEPT !.op = "insert", !.table = t, !.rows = rows, !.parents = parents]
Insert(t, row, parents) == InsertRows(t, {row}, parents)

\* ON CONFLICT DO UPDATE, assigning the fields of `set', and DO NOTHING.  The
\* update may be for a row that is not newer and agrees in some fields, and it
\* may add to a count.
Upsert(t, row, set, parents) ==
  [Statement EXCEPT !.op = "upsert", !.table = t, !.rows = {row}, !.set = set,
                    !.parents = parents, !.lock = NoKeyUpdate]
InsertEachIfAbsent(t, rows, parents) ==
  [Statement EXCEPT !.op = "absent", !.table = t, !.rows = rows, !.parents = parents]
InsertIfAbsent(t, row, parents) == InsertEachIfAbsent(t, {row}, parents)

UpsertNewer(statement, newest, same, add) ==
  [statement EXCEPT !.newest = newest, !.same = same, !.add = add]
Conflict(c, row, old) == OnConflict(row, c.set, old, c.newest, c.same, c.add)

\* pg_advisory_xact_lock.
AdvisoryLock(key) == [Statement EXCEPT !.op = "advisory", !.table = key]

\* The function returns an error, and the transaction is rolled back.
RefuseIf(condition) == [Statement EXCEPT !.op = "refuse", !.refuse = condition]

\* An error unless the statement returned or wrote a row.
Must(statement) == [statement EXCEPT !.need = TRUE]
When(condition, statement) == IF condition THEN statement ELSE Statement

\* The answer to statement i, and the one row in it.
Answer(got, i) == IF i <= Len(got) THEN got[i] ELSE {}
TheRow(got, i) == CHOOSE row \in Answer(got, i) : TRUE

\* insertPostgreSQLAuditEvent.
Audit(c) == Insert("audit", AuditRow(c), Actor(c))
============================================================================
