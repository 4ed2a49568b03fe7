-------------------------- MODULE EndpointIdentity --------------------------
(***************************************************************************)
(* The identity of endpoint agents: enrollment tokens, certificates and    *)
(* their renewal and revocation (internal/agentidentity, store/endpoint),  *)
(* the identity files of the agent (internal/agentapp), the heartbeat and  *)
(* the signed integrity snapshots of a check-in, and the alerts the server *)
(* derives from them.                                                      *)
(*                                                                         *)
(* A request has a handler on the server that runs on when its client has  *)
(* given up: a handler is a record of flights, and every store call is a   *)
(* step.  A handler reads the clock once, when it starts, and writes that  *)
(* time (at) in all its calls.  Certificate n is the one issued for the    *)
(* n-th generated key.                                                     *)
(***************************************************************************)
EXTENDS Integers, Sequences, FiniteSets

CONSTANTS
  Agent,            \* hosts that run an endpoint agent
  NoIdentity,       \* no row, no file, no certificate
  TokenLife,        \* enrollmentTokenLifetime
  CertLife,         \* the validity of an endpoint certificate
  RenewLead,        \* certificateRenewBefore
  MissedAfter,      \* EndpointHeartbeatSettings.MissedAfterMinutes
  StaleAfter,       \* EndpointHeartbeatSettings.StaleAfterMinutes
  Backdate,         \* how long ago a maintenance window may start
  WindowLimit,      \* how long a maintenance window may be
  MaxKeys,          \* a bound on generated keys
  MaxSequence,      \* a bound on check-ins of an agent
  Fingerprint,      \* fingerprints a host may have
  MaxFlights,       \* a bound on handlers that run at the same time
  LastTime          \* a bound on the clock

ASSUME IdentityAssumption ==
  /\ {TokenLife, CertLife, RenewLead, MissedAfter, StaleAfter} \subseteq Nat \ {0}
  /\ {Backdate, WindowLimit, MaxKeys, MaxSequence, MaxFlights, LastTime} \subseteq Nat
  /\ RenewLead < CertLife /\ MissedAfter < StaleAfter /\ NoIdentity \notin Nat

VARIABLES
  now,
  enrollment,   \* the row of agent_enrollment_tokens
  endpoints,    \* endpoints, by the certificate it was enrolled with
  integrity,    \* endpoint_integrity_snapshots
  events,       \* endpoint_integrity_events
  maintenance,  \* the endpoint_maintenance_windows row
  keys,         \* how many keys were generated
  flights,      \* handlers of requests that are still running
  host,         \* the agents and their files
  heard         \* history: when the server last received a check-in of an
                \* endpoint, or the request that enrolled it

identityVars == <<now, enrollment, endpoints, integrity, events, maintenance, keys, flights, host, heard>>

Key == 1..MaxKeys
File == {"key", "certificate"}

Endpoint == [serial : Key, active : BOOLEAN, expires : Nat, heartbeat : Nat]
Snapshot == [sequence : 1..MaxSequence, print : Fingerprint]
NoToken == [state |-> "absent", expires |-> 0]

\* The absence of a row is no row.
ASSUME NoRowAssumption == NoIdentity \notin Endpoint /\ NoIdentity \notin Snapshot

\* held: the certificate in memory; todo: files saveIdentity has not written.
HostState ==
  [pc : {"new", "enrolling", "saving", "stopped", "running", "renewing"},
   held : Key \cup {NoIdentity}, wanted : Key \cup {NoIdentity},
   files : [File -> Key \cup {NoIdentity}], todo : SUBSET File,
   sequence : 0..MaxSequence]
NewHost == [pc |-> "new", held |-> NoIdentity, wanted |-> NoIdentity,
            files |-> [f \in File |-> NoIdentity], todo |-> {}, sequence |-> 0]

IdentityInit ==
  /\ now = 0 /\ enrollment = NoToken /\ maintenance = NoIdentity /\ keys = 0 /\ flights = {}
  /\ endpoints = [k \in Key |-> NoIdentity] /\ integrity = [k \in Key |-> NoIdentity]
  /\ events = [k \in Key |-> <<>>] /\ host = [a \in Agent |-> NewHost]
  /\ heard = [k \in Key |-> 0]

serverSide == <<enrollment, endpoints, integrity, events, maintenance>>

Flies(f) == Cardinality(flights) < MaxFlights /\ flights' = flights \cup {f}
Lands(f) == flights' = flights \ {f}
Moves(f, step) == flights' = (flights \ {f}) \cup {[f EXCEPT !.step = step]}

-----------------------------------------------------------------------------
(***************************************************************************)
(* Enrollment.                                                             *)
(***************************************************************************)

\* used_at IS NULL AND expires_at > at
TokenOpen(at) == enrollment.state = "open" /\ enrollment.expires > at

CreateToken == enrollment' = [state |-> "open", expires |-> now + TokenLife]
CreateEnrollmentToken ==
  /\ enrollment.state = "absent" /\ CreateToken
  /\ UNCHANGED <<now, endpoints, integrity, events, maintenance, keys, flights, host, heard>>

\* newIdentityMaterial: the key of a request is new.
NewKey == keys < MaxKeys /\ keys' = keys + 1

Enroll(a) ==
  /\ host[a].pc = "new" /\ NewKey
  /\ host' = [host EXCEPT ![a].pc = "enrolling", ![a].wanted = keys']
  /\ Flies([kind |-> "enroll", agent |-> a, key |-> keys', step |-> "lookup",
            row |-> NoIdentity, sequence |-> 0, print |-> NoIdentity, at |-> now])
  /\ heard' = [heard EXCEPT ![keys'] = now]
  /\ UNCHANGED <<now, serverSide>>

\* AgentEnrollmentTokenName, before the certificate is issued.
TokenName(f) ==
  /\ f.kind = "enroll" /\ f.step = "lookup"
  /\ IF TokenOpen(f.at) THEN Moves(f, "consume") ELSE Lands(f)
  /\ UNCHANGED <<now, serverSide, keys, host, heard>>

\* Mutant: the lookup before is trusted.
ConsumeTokenUnchecked(f) ==
  /\ f.kind = "enroll" /\ f.step = "consume"
  /\ enrollment' = [enrollment EXCEPT !.state = "used"]
  /\ endpoints' = [endpoints EXCEPT ![f.key] =
       [serial |-> f.key, active |-> TRUE, expires |-> f.at + CertLife, heartbeat |-> f.at]]
  /\ Moves(f, "answer")
  /\ UNCHANGED <<now, integrity, events, maintenance, keys, host, heard>>

\* ConsumeAgentEnrollmentToken: the token is looked at once more.
ConsumeToken(f) ==
  /\ f.kind = "enroll" /\ f.step = "consume"
  /\ IF TokenOpen(f.at)
     THEN /\ enrollment' = [enrollment EXCEPT !.state = "used"]
          /\ endpoints' = [endpoints EXCEPT ![f.key] =
               [serial |-> f.key, active |-> TRUE, expires |-> f.at + CertLife, heartbeat |-> f.at]]
          /\ Moves(f, "answer")
     ELSE Lands(f) /\ UNCHANGED <<enrollment, endpoints>>
  /\ UNCHANGED <<now, integrity, events, maintenance, keys, host, heard>>

-----------------------------------------------------------------------------
(***************************************************************************)
(* The identity files.                                                     *)
(***************************************************************************)

\* An enrollment or a renewal is answered: saveIdentity starts.
Issued(a) ==
  /\ host[a].pc \in {"enrolling", "renewing"}
  /\ \E f \in flights :
       /\ f.kind \in {"enroll", "renew"} /\ f.step = "answer"
       /\ f.agent = a /\ f.key = host[a].wanted
       /\ Lands(f)
       /\ host' = [host EXCEPT ![a].pc = "saving", ![a].todo = File]
  /\ UNCHANGED <<now, serverSide, keys, heard>>

\* saveIdentity ranges over a map: one rename after the other, in any order.
Renamed(h, f) == [h EXCEPT !.todo = @ \ {f}, !.files[f] = h.wanted]
SaveFile(a, f) ==
  /\ host[a].pc = "saving" /\ f \in host[a].todo
  /\ host' = [host EXCEPT ![a] = Renamed(@, f)]
  /\ UNCHANGED <<now, serverSide, keys, flights, heard>>

\* renew swaps the certificate in memory; enroll exits.
Saved(a) ==
  /\ host[a].pc = "saving" /\ host[a].todo = {}
  /\ host' = [host EXCEPT ![a].pc = IF host[a].held = NoIdentity THEN "stopped" ELSE "running",
                          ![a].held = IF @ = NoIdentity THEN NoIdentity ELSE host[a].wanted,
                          ![a].wanted = NoIdentity]
  /\ UNCHANGED <<now, serverSide, keys, flights, heard>>

\* The request fails, is refused, or times out after 30 seconds.
GivesUp(a) ==
  /\ host[a].pc \in {"enrolling", "renewing"}
  /\ host' = [host EXCEPT ![a].pc = IF @ = "enrolling" THEN "new" ELSE "running",
                          ![a].wanted = NoIdentity]
  /\ UNCHANGED <<now, serverSide, keys, flights, heard>>

\* loadIdentity: the key and the certificate must be a pair.
LoadIdentity(a) ==
  LET files == host[a].files IN
  /\ host[a].pc = "stopped"
  /\ files["key"] # NoIdentity /\ files["key"] = files["certificate"]
  /\ host' = [host EXCEPT ![a].pc = "running", ![a].held = files["key"]]
  /\ UNCHANGED <<now, serverSide, keys, flights, heard>>

AgentStops(a) ==
  /\ host[a].pc \in {"saving", "running", "renewing"}
  /\ host' = [host EXCEPT ![a].pc = "stopped", ![a].held = NoIdentity,
                          ![a].wanted = NoIdentity, ![a].todo = {}]
  /\ UNCHANGED <<now, serverSide, keys, flights, heard>>

-----------------------------------------------------------------------------
(***************************************************************************)
(* Requests over mutual TLS.                                               *)
(***************************************************************************)

\* verifyConnection and endpointFromConnection: the row of the serial.
FromConnection(serial) ==
  {k \in Key : /\ endpoints[k] # NoIdentity
               /\ endpoints[k].serial = serial /\ endpoints[k].active /\ now < endpoints[k].expires}

NeedsRenewal(a) ==
  \E k \in FromConnection(host[a].held) : now + RenewLead >= endpoints[k].expires

Renew(a) ==
  /\ host[a].pc = "running" /\ NeedsRenewal(a) /\ NewKey
  /\ host' = [host EXCEPT ![a].pc = "renewing", ![a].wanted = keys']
  /\ \E k \in FromConnection(host[a].held) :
       Flies([kind |-> "renew", agent |-> a, key |-> keys', step |-> "issue",
              row |-> k, sequence |-> host[a].held, print |-> NoIdentity, at |-> now])
  /\ UNCHANGED <<now, serverSide, heard>>

\* RenewEndpointCertificate: only while the row still has the old serial.
RenewCertificate(f) ==
  LET row == endpoints[f.row] IN
  /\ f.kind = "renew" /\ f.step = "issue"
  /\ IF row.active /\ row.serial = f.sequence
     THEN /\ endpoints' = [endpoints EXCEPT ![f.row].serial = f.key, ![f.row].expires = f.at + CertLife]
          /\ Moves(f, "answer")
     ELSE Lands(f) /\ UNCHANGED endpoints
  /\ UNCHANGED <<now, enrollment, integrity, events, maintenance, keys, host, heard>>

RevokeEndpoint(k) == endpoints[k].active /\ endpoints' = [endpoints EXCEPT ![k].active = FALSE]
Revoke(k) ==
  /\ endpoints[k] # NoIdentity /\ RevokeEndpoint(k)
  /\ UNCHANGED <<now, enrollment, integrity, events, maintenance, keys, flights, host, heard>>

\* checkIn: the sequence is on disk before the request is sent.
NextSequence(a) == host[a].sequence < MaxSequence /\ host' = [host EXCEPT ![a].sequence = @ + 1]

CheckIn(a) ==
  /\ host[a].pc = "running" /\ NextSequence(a)
  /\ \E k \in FromConnection(host[a].held), print \in Fingerprint :
       /\ Flies([kind |-> "check-in", agent |-> a, key |-> host[a].held, step |-> "integrity",
                 row |-> k, sequence |-> host[a].sequence + 1, print |-> print, at |-> now])
       /\ heard' = [heard EXCEPT ![k] = now]
  /\ UNCHANGED <<now, serverSide, keys>>

\* Mutant: the sequence of the stored snapshot is not compared.
RecordSnapshotAnySequence(f) ==
  LET old == integrity[f.row] IN
  /\ f.kind = "check-in" /\ f.step = "integrity"
  /\ integrity' = [integrity EXCEPT ![f.row] = [sequence |-> f.sequence, print |-> f.print]]
  /\ events' = IF old = NoIdentity \/ old.print = f.print THEN events
               ELSE [events EXCEPT ![f.row] = Append(@, [before |-> old.print, after |-> f.print,
                                                          sequence |-> f.sequence])]
  /\ Moves(f, "heartbeat")
  /\ UNCHANGED <<now, enrollment, endpoints, maintenance, keys, host, heard>>

\* Mutant: the row is written whether the endpoint is active or not.
RecordSnapshotRevoked(f) ==
  LET old == integrity[f.row]
      newer == old = NoIdentity \/ old.sequence < f.sequence IN
  /\ f.kind = "check-in" /\ f.step = "integrity"
  /\ IF newer
     THEN /\ integrity' = [integrity EXCEPT ![f.row] = [sequence |-> f.sequence, print |-> f.print]]
          /\ Moves(f, "heartbeat")
     ELSE Lands(f) /\ UNCHANGED integrity
  /\ UNCHANGED <<now, enrollment, endpoints, events, maintenance, keys, host, heard>>

\* RecordEndpointIntegritySnapshot: a transaction; an older one is a replay.
RecordSnapshot(f) ==
  LET old == integrity[f.row]
      newer == IF old = NoIdentity THEN TRUE ELSE old.sequence < f.sequence
      changed == IF old = NoIdentity THEN FALSE ELSE old.print # f.print IN
  /\ f.kind = "check-in" /\ f.step = "integrity"
  /\ IF newer /\ endpoints[f.row].active
     THEN /\ integrity' = [integrity EXCEPT ![f.row] = [sequence |-> f.sequence, print |-> f.print]]
          /\ events' = IF changed
                       THEN [events EXCEPT ![f.row] = Append(@, [before |-> old.print,
                               after |-> f.print, sequence |-> f.sequence])]
                       ELSE events
          /\ Moves(f, "heartbeat")
     ELSE Lands(f) /\ UNCHANGED <<integrity, events>>
  /\ UNCHANGED <<now, enrollment, endpoints, maintenance, keys, host, heard>>

\* Mutant: the clock is read again.
RecordHeartbeatNow(f) ==
  /\ f.kind = "check-in" /\ f.step = "heartbeat"
  /\ IF endpoints[f.row].active
     THEN endpoints' = [endpoints EXCEPT ![f.row].heartbeat = now]
     ELSE UNCHANGED endpoints
  /\ Lands(f)
  /\ UNCHANGED <<now, enrollment, integrity, events, maintenance, keys, host, heard>>

\* RecordEndpointCheckIn: the time the handler started.
RecordHeartbeat(f) ==
  /\ f.kind = "check-in" /\ f.step = "heartbeat"
  /\ IF endpoints[f.row].active
     THEN endpoints' = [endpoints EXCEPT ![f.row].heartbeat = f.at]
     ELSE UNCHANGED endpoints
  /\ Lands(f)
  /\ UNCHANGED <<now, enrollment, integrity, events, maintenance, keys, host, heard>>

\* The request is lost, the database is unavailable, or the server stops.
HandlerFails(f) == Lands(f) /\ UNCHANGED <<now, serverSide, keys, host, heard>>

-----------------------------------------------------------------------------
(***************************************************************************)
(* Maintenance windows and alerts.                                         *)
(***************************************************************************)
ValidWindow(from, until) ==
  /\ now <= from + Backdate /\ from < until /\ now < until
  /\ until - from <= WindowLimit
CreateMaintenance(from, until) ==
  /\ maintenance = NoIdentity /\ ValidWindow(from, until)
  /\ \E k \in Key : endpoints[k] # NoIdentity
  /\ maintenance' = [from |-> from, until |-> until, canceled |-> FALSE]
  /\ UNCHANGED <<now, enrollment, endpoints, integrity, events, keys, flights, host, heard>>

CancelMaintenance ==
  /\ maintenance # NoIdentity /\ ~maintenance.canceled
  /\ maintenance' = [maintenance EXCEPT !.canceled = TRUE]
  /\ UNCHANGED <<now, enrollment, endpoints, integrity, events, keys, flights, host, heard>>

InMaintenance ==
  /\ maintenance # NoIdentity /\ ~maintenance.canceled
  /\ maintenance.from <= now /\ now < maintenance.until

\* enabled: EndpointHeartbeatSettings.Enabled, which an administrator sets;
\* relaySuppressed: HeartbeatAlertSuppression of RelayPolicies.
HeartbeatAlert(e, enabled, relaySuppressed) ==
  LET age == now - e.heartbeat IN
  IF ~enabled \/ age < MissedAfter THEN {}
  ELSE IF InMaintenance THEN {"heartbeat_suppressed_maintenance"}
  ELSE IF relaySuppressed THEN {"heartbeat_suppressed_upload_window"}
  ELSE IF age >= StaleAfter THEN {"agent_stale"} ELSE {"heartbeat_missed"}

\* endpointAlerts: the first two end the list.
Alerts(e, enabled, relaySuppressed) ==
  IF ~e.active THEN {"certificate_revoked"}
  ELSE IF now >= e.expires THEN {"certificate_expired"}
  ELSE HeartbeatAlert(e, enabled, relaySuppressed)
       \cup (IF now + RenewLead >= e.expires THEN {"certificate_expiring"} ELSE {})

TimePasses ==
  /\ now < LastTime /\ now' = now + 1
  /\ UNCHANGED <<serverSide, keys, flights, host, heard>>

IdentityNext ==
  \/ CreateEnrollmentToken \/ CancelMaintenance \/ TimePasses
  \/ \E from, until \in 0..LastTime : CreateMaintenance(from, until)
  \/ \E k \in Key : Revoke(k)
  \/ \E a \in Agent :
       \/ Enroll(a) \/ Issued(a) \/ Saved(a) \/ GivesUp(a) \/ LoadIdentity(a) \/ AgentStops(a)
       \/ Renew(a) \/ CheckIn(a)
       \/ \E f \in File : SaveFile(a, f)
  \/ \E f \in flights :
       \/ TokenName(f) \/ ConsumeToken(f) \/ RenewCertificate(f)
       \/ RecordSnapshot(f) \/ RecordHeartbeat(f) \/ HandlerFails(f)

IdentitySpec == IdentityInit /\ [][IdentityNext]_identityVars

-----------------------------------------------------------------------------
IdentityTypeOK ==
  /\ now \in 0..LastTime /\ keys \in 0..MaxKeys /\ host \in [Agent -> HostState]
  /\ enrollment \in [state : {"absent", "open", "used"}, expires : Nat]
  /\ endpoints \in [Key -> Endpoint \cup {NoIdentity}]
  /\ integrity \in [Key -> Snapshot \cup {NoIdentity}]
  /\ heard \in [Key -> 0..LastTime]

\* One enrollment token enrolls one endpoint, however many agents use it at
\* the same time, and no two endpoints answer to one certificate (Service.Enroll,
\* ConsumeAgentEnrollmentToken, endpointFromConnection).
EnrolledOnce ==
  /\ Cardinality({k \in Key : endpoints[k] # NoIdentity}) <= 1
  /\ \A k \in Key : Cardinality(FromConnection(k)) <= 1

\* The change events of an endpoint are an unbroken account of its history:
\* each starts where the one before ended, in the order of the signed
\* sequence, and the last one ends at the stored snapshot
\* (RecordEndpointIntegritySnapshot under handlers that overtake one another).
IntegrityChain ==
  \A k \in Key :
    LET log == events[k] IN
    /\ \A i \in 1..(Len(log) - 1) :
         log[i].after = log[i + 1].before /\ log[i].sequence < log[i + 1].sequence
    /\ log # <<>> => /\ log[Len(log)].after = integrity[k].print
                     /\ log[Len(log)].sequence <= integrity[k].sequence

\* Nothing that was in flight changes an endpoint after it was revoked: the
\* handlers of check-in and renewal check the endpoint before their store calls.
RevokedFrozen ==
  [][\A k \in Key : endpoints[k] # NoIdentity =>
       (~endpoints[k].active => endpoints'[k] = endpoints[k] /\ integrity'[k] = integrity[k])]_identityVars

\* No handler makes a silent agent look alive.  While heartbeat alerts are
\* enabled, an endpoint whose last check-in reached the server MissedAfter ago or
\* longer is shown as such, if only as suppressed, and as stale after StaleAfter,
\* whenever the handlers of its check-ins come to write, and though it may have been
\* renewed since (Handler, RecordEndpointCheckIn, endpointAlerts).
SilenceShows ==
  \A k \in Key, relaySuppressed \in BOOLEAN :
    LET shown == Alerts(endpoints[k], TRUE, relaySuppressed)
        silence == now - heard[k] IN
    endpoints[k] # NoIdentity /\ endpoints[k].active /\ now < endpoints[k].expires =>
      /\ silence >= MissedAfter =>
           \E signal \in {"heartbeat_suppressed_maintenance", "heartbeat_suppressed_upload_window",
                         "agent_stale", "heartbeat_missed"} : signal \in shown
      /\ silence >= StaleAfter /\ ~InMaintenance /\ ~relaySuppressed => "agent_stale" \in shown
=============================================================================
