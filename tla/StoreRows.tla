----------------------------- MODULE StoreRows -----------------------------
(***************************************************************************)
(* The database both stores keep: a record of tables, each a function from *)
(* the keys of its rows to the rows, which carry their key as `id'.  A     *)
(* store call is a record: `op' names the store function, `by' the request *)
(* that makes it, `actor' the user its audit event names ("" is NULL), and *)
(* the other fields are its arguments.  Times, hashes and texts appear as  *)
(* the request that wrote them.                                            *)
(***************************************************************************)
EXTENDS Naturals, Sequences, FiniteSets, Functions, TLC

\* The keys of the rows of table t of d whose fields f are all in where[f].
Found(d, t, where) ==
  {k \in DOMAIN d[t] : \A f \in DOMAIN where : d[t][k][f] \in where[f]}

\* The rows themselves.
Rows(d, t, where) == {d[t][k] : k \in Found(d, t, where)}

\* d with the row written, under its own key.
Put(d, t, row) == [d EXCEPT ![t] = (row.id :> row) @@ @]

PutRows(d, t, rows) ==
  [d EXCEPT ![t] = [k \in {r.id : r \in rows} |-> CHOOSE r \in rows : r.id = k] @@ @]

\* d with the fields of `set' assigned in the rows that match.
Updated(d, t, where, set) ==
  LET hit == Found(d, t, where) IN
    [d EXCEPT ![t] = [k \in DOMAIN @ |-> IF k \in hit THEN set @@ @[k] ELSE @[k]]]

\* d without the rows that match.
Deleted(d, t, where) == [d EXCEPT ![t] = Restrict(@, DOMAIN @ \ Found(d, t, where))]

\* ON CONFLICT DO UPDATE: the old row takes the fields of `set' when the new row
\* is not older in field `newest' and agrees with it in the fields `same'; the
\* fields `add' are counts that add up.
OnConflict(row, set, old, newest, same, add) ==
  LET newer == newest = "" \/ row[newest] >= old[newest]
      taken == IF newer THEN set @@ old ELSE old
  IN  IF \E f \in same : row[f] # old[f]
        THEN old
        ELSE [f \in DOMAIN old |-> IF f \in add THEN old[f] + set[f] ELSE taken[f]]
PutNewer(d, t, row, set, newest, same, add) ==
  Put(d, t, IF row.id \in DOMAIN d[t]
              THEN OnConflict(row, set, d[t][row.id], newest, same, add)
              ELSE row)
PutIfAbsent(d, t, row) == IF row.id \in DOMAIN d[t] THEN d ELSE Put(d, t, row)

\* What a call that commits, and a call that returns an error, leaves.
Done(d) == [ok |-> TRUE, db |-> d]
Refused(d) == [ok |-> FALSE, db |-> d]
Result(ok, d, after) == IF ok THEN Done(after) ELSE Refused(d)

\* An INSERT: a duplicate key or a missing parent row is an error.
Fits(d, t, row, parents) ==
  row.id \notin DOMAIN d[t] /\ \A p \in parents : p[2] \in DOMAIN d[p[1]]

\* The user an audit event names must exist.
Actor(c) == IF c.actor = "" THEN {} ELSE {<<"users", c.actor>>}

\* insertAuditEvent: one more audit row, in the caller's transaction.
AuditRow(c) == [id |-> c.by, age |-> "new"]
Audited(d, c) == Put(d, "audit", AuditRow(c))
============================================================================
