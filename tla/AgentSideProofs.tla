-------------------------- MODULE AgentSideProofs ---------------------------
(***************************************************************************)
(* Endpoint identities and the relay, for any agents, keys, handlers,      *)
(* frames, uploaders, limits, migrations, restarts, routes and             *)
(* observations: the invariants of EndpointIdentity hold and a revoked     *)
(* endpoint stays as it is, the queue accounts for every frame, and        *)
(* failover between routes is right.                                       *)
(***************************************************************************)
EXTENDS EndpointIdentity, RelayQueue, RelayRoutes, TLAPS

-----------------------------------------------------------------------------
(***************************************************************************)
(* Enrollment, renewal, revocation and check-ins                           *)
(***************************************************************************)

Flight ==
  [kind : {"enroll", "renew", "check-in"}, agent : Agent, key : Key,
   step : {"lookup", "consume", "answer", "issue", "integrity", "heartbeat"},
   row : Key \cup {NoIdentity}, sequence : Nat, print : Fingerprint \cup {NoIdentity},
   at : 0..LastTime]
Event == [before : Fingerprint, after : Fingerprint, sequence : 1..MaxSequence]

\* A handler behind mutual TLS has found the row of an endpoint.
FlightOK(f) ==
  /\ f \in Flight
  /\ f.kind \in {"renew", "check-in"} => f.row \in Key /\ endpoints[f.row] # NoIdentity
  /\ f.kind = "check-in" => f.sequence \in 1..MaxSequence /\ f.print \in Fingerprint
FlightsInv == \A f \in flights : FlightOK(f)

\* While the token is not used there is no endpoint, and never a second one.
EnrolledInv ==
  /\ enrollment.state # "used" => \A k \in Key : endpoints[k] = NoIdentity
  /\ \A k, l \in Key : endpoints[k] # NoIdentity /\ endpoints[l] # NoIdentity => k = l

\* The log of an endpoint without a snapshot is empty.
ChainInv ==
  /\ events \in [Key -> Seq(Event)]
  /\ \A k \in Key : integrity[k] = NoIdentity => events[k] = <<>>
  /\ IntegrityChain

IdentityInv == IdentityTypeOK /\ FlightsInv /\ EnrolledInv /\ ChainInv

\* An empty server and new agents satisfy it.
LEMMA IdentityBegins == IdentityInit => IdentityInv
<1> SUFFICES ASSUME IdentityInit PROVE IdentityInv
  BY Zenon
<1>1. NewHost \in HostState
  BY IdentityAssumption DEF NewHost, HostState, File
<1>2. IdentityTypeOK
  BY <1>1, IdentityAssumption DEF IdentityInit, IdentityTypeOK, NoToken
<1>3. FlightsInv /\ EnrolledInv
  BY Zenon DEF IdentityInit, FlightsInv, EnrolledInv
<1>4. ChainInv
  BY DEF IdentityInit, ChainInv, IntegrityChain
<1> QED BY Zenon, <1>2, <1>3, <1>4 DEF IdentityInv

\* What starts, ends or moves a handler leaves the others as they are.
LEMMA FlightsMove ==
  ASSUME FlightsInv, endpoints' = endpoints, NEW f,
         \/ Flies(f) /\ FlightOK(f)
         \/ Lands(f)
         \/ f \in flights /\ \E step \in {"consume", "answer", "heartbeat"} : Moves(f, step)
  PROVE  FlightsInv'
<1>1. ASSUME NEW g, FlightOK(g) PROVE FlightOK(g)'
  BY Zenon, <1>1 DEF FlightOK
<1>2. CASE Flies(f) /\ FlightOK(f)
  BY Zenon, <1>1, <1>2 DEF Flies, FlightsInv
<1>3. CASE Lands(f)
  BY Zenon, <1>1, <1>3 DEF Lands, FlightsInv
<1>4. CASE f \in flights /\ \E step \in {"consume", "answer", "heartbeat"} : Moves(f, step)
  <2>1. PICK step \in {"consume", "answer", "heartbeat"} : Moves(f, step)
    BY Zenon, <1>4
  <2>2. FlightOK([f EXCEPT !.step = step])
    BY Zenon, <1>4 DEF FlightsInv, FlightOK, Flight
  <2> QED BY Zenon, <1>1, <2>1, <2>2 DEF Moves, FlightsInv
<1> QED BY Zenon, <1>2, <1>3, <1>4

\* A file renamed by saveIdentity leaves a well-formed host.
LEMMA FileSaved ==
  ASSUME NEW h \in HostState, NEW f \in File
  PROVE  Renamed(h, f) \in HostState
<1>1. [h.files EXCEPT ![f] = h.wanted] \in [File -> Key \cup {NoIdentity}]
  BY Zenon DEF HostState
<1> QED BY Zenon, <1>1 DEF HostState, Renamed

\* The steps of an agent that touch neither its requests nor the server.
LEMMA HostSteps ==
  ASSUME IdentityInv, NEW a \in Agent,
         Saved(a) \/ GivesUp(a) \/ LoadIdentity(a) \/ AgentStops(a) \/ \E f \in File : SaveFile(a, f)
  PROVE  IdentityInv'
<1> USE DEF IdentityInv
<1>1. UNCHANGED <<now, serverSide, keys, flights, heard>>
  BY Zenon DEF Saved, GivesUp, LoadIdentity, AgentStops, SaveFile
<1>2. FlightsInv' /\ EnrolledInv' /\ ChainInv'
  BY Zenon, <1>1 DEF serverSide, FlightsInv, FlightOK, EnrolledInv, ChainInv, IntegrityChain
<1>3. host[a] \in HostState
  BY Zenon DEF IdentityTypeOK
<1>4. host' \in [Agent -> HostState]
  <2>1. CASE Saved(a)
    BY Zenon, <2>1, <1>3 DEF IdentityTypeOK, Saved, HostState
  <2>2. CASE GivesUp(a)
    BY Zenon, <2>2, <1>3 DEF IdentityTypeOK, GivesUp, HostState
  <2>3. CASE LoadIdentity(a)
    BY Zenon, <2>3, <1>3 DEF IdentityTypeOK, LoadIdentity, HostState, File
  <2>4. CASE AgentStops(a)
    BY Zenon, <2>4, <1>3 DEF IdentityTypeOK, AgentStops, HostState
  <2>5. ASSUME NEW f \in File, SaveFile(a, f) PROVE host' \in [Agent -> HostState]
    BY Zenon, <1>3, <2>5, FileSaved DEF SaveFile, IdentityTypeOK
  <2> QED BY Zenon, <2>1, <2>2, <2>3, <2>4, <2>5
<1>5. IdentityTypeOK'
  BY Zenon, <1>1, <1>4 DEF IdentityTypeOK, serverSide
<1> QED BY Zenon, <1>2, <1>5

\* The requests of an agent and what it does with their answers: they leave the
\* server's rows alone.
LEMMA RequestSteps ==
  ASSUME IdentityInv, NEW a \in Agent, Enroll(a) \/ Issued(a) \/ Renew(a) \/ CheckIn(a)
  PROVE  IdentityInv'
<1> USE DEF IdentityInv
<1>1. UNCHANGED <<now, serverSide>>
  BY Zenon DEF Enroll, Issued, Renew, CheckIn
<1>2. EnrolledInv' /\ ChainInv'
  BY Zenon, <1>1 DEF serverSide, EnrolledInv, ChainInv, IntegrityChain
<1>3. host[a] \in HostState /\ keys \in 0..MaxKeys /\ MaxKeys \in Nat /\ MaxSequence \in Nat
  BY Zenon, IdentityAssumption DEF IdentityTypeOK
<1>4. ASSUME keys' \in 0..MaxKeys, host' \in [Agent -> HostState], heard' \in [Key -> 0..LastTime]
      PROVE  IdentityTypeOK'
  BY Zenon, <1>1, <1>4 DEF IdentityTypeOK, serverSide
<1>5. ASSUME NEW k \in FromConnection(host[a].held)
      PROVE  k \in Key /\ endpoints[k] # NoIdentity /\ host[a].held \in Key
  BY Zenon, <1>5, NoRowAssumption DEF FromConnection, IdentityTypeOK, Endpoint
<1>6. ASSUME NewKey PROVE keys' \in Key /\ keys' \in 0..MaxKeys
  BY <1>6, <1>3 DEF NewKey, Key
<1>7. CASE Enroll(a)
  <2>4. heard' \in [Key -> 0..LastTime]
    BY Zenon, <1>6, <1>7 DEF Enroll, IdentityTypeOK
  <2>1. IdentityTypeOK'
    BY Zenon, <1>3, <1>4, <1>6, <1>7, <2>4 DEF Enroll, IdentityTypeOK, HostState
  <2> DEFINE f == [kind |-> "enroll", agent |-> a, key |-> keys', step |-> "lookup",
                   row |-> NoIdentity, sequence |-> 0, print |-> NoIdentity, at |-> now]
  <2>2. FlightOK(f) /\ Flies(f)
    BY Zenon, <1>6, <1>7 DEF Enroll, FlightOK, Flight, IdentityTypeOK
  <2>3. FlightsInv'
    BY Zenon, <1>1, <2>2, FlightsMove DEF serverSide
  <2> QED BY Zenon, <1>2, <2>1, <2>3
<1>8. CASE Issued(a)
  <2>1. /\ keys' = keys /\ host' = [host EXCEPT ![a].pc = "saving", ![a].todo = File]
        /\ heard' = heard
    BY Zenon, <1>8 DEF Issued
  <2>3. IdentityTypeOK'
    BY Zenon, <1>3, <1>4, <2>1 DEF IdentityTypeOK, HostState
  <2>2. FlightsInv'
    BY Zenon, <1>1, <1>8, FlightsMove DEF Issued, serverSide
  <2> QED BY Zenon, <1>2, <2>2, <2>3
<1>9. CASE Renew(a)
  <2>1. IdentityTypeOK'
    BY Zenon, <1>3, <1>4, <1>6, <1>9 DEF Renew, IdentityTypeOK, HostState
  <2>2. PICK k \in FromConnection(host[a].held) :
          Flies([kind |-> "renew", agent |-> a, key |-> keys', step |-> "issue",
                 row |-> k, sequence |-> host[a].held, print |-> NoIdentity, at |-> now])
    BY Zenon, <1>9 DEF Renew
  <2> DEFINE f == [kind |-> "renew", agent |-> a, key |-> keys', step |-> "issue",
                   row |-> k, sequence |-> host[a].held, print |-> NoIdentity, at |-> now]
  <2>3. host[a].held \in Nat
    BY <1>3, <1>5, <2>2 DEF Key
  <2>4. FlightOK(f)
    BY Zenon, <1>5, <1>6, <1>9, <2>2, <2>3 DEF Renew, FlightOK, Flight, IdentityTypeOK
  <2>5. FlightsInv'
    BY Zenon, <1>1, <2>2, <2>4, FlightsMove DEF serverSide
  <2> QED BY Zenon, <1>2, <2>1, <2>5
<1>10. CASE CheckIn(a)
  <2>6. keys' = keys
    BY Zenon, <1>10 DEF CheckIn
  <2>7. host' = [host EXCEPT ![a].sequence = @ + 1] /\ host[a].sequence + 1 \in 0..MaxSequence
    BY <1>3, <1>10 DEF CheckIn, NextSequence, HostState
  <2>8. [host[a] EXCEPT !.sequence = @ + 1] \in HostState
    BY Zenon, <1>3, <2>7 DEF HostState
  <2>2. PICK k \in FromConnection(host[a].held), print \in Fingerprint :
          /\ Flies([kind |-> "check-in", agent |-> a, key |-> host[a].held, step |-> "integrity",
                    row |-> k, sequence |-> host[a].sequence + 1, print |-> print, at |-> now])
          /\ heard' = [heard EXCEPT ![k] = now]
    BY Zenon, <1>10 DEF CheckIn
  <2>9. heard' \in [Key -> 0..LastTime]
    BY Zenon, <1>5, <2>2 DEF IdentityTypeOK
  <2>1. IdentityTypeOK'
    BY Zenon, <1>3, <1>4, <2>6, <2>7, <2>8, <2>9 DEF IdentityTypeOK
  <2> DEFINE f == [kind |-> "check-in", agent |-> a, key |-> host[a].held, step |-> "integrity",
                   row |-> k, sequence |-> host[a].sequence + 1, print |-> print, at |-> now]
  <2>3. host[a].sequence + 1 \in 1..MaxSequence
    BY <1>3, <1>10 DEF CheckIn, NextSequence, HostState
  <2>4. FlightOK(f)
    BY <1>3, <1>5, <2>2, <2>3 DEF FlightOK, Flight, IdentityTypeOK
  <2>5. FlightsInv'
    BY Zenon, <1>1, <2>2, <2>4, FlightsMove DEF serverSide
  <2> QED BY Zenon, <1>2, <2>1, <2>5
<1> QED BY Zenon, <1>7, <1>8, <1>9, <1>10

\* An endpoint that is updated, not created: the handlers still find their rows.
LEMMA EndpointUpdated ==
  ASSUME IdentityInv, NEW k \in Key, endpoints[k] # NoIdentity, NEW e \in Endpoint,
         endpoints' = [endpoints EXCEPT ![k] = e], enrollment' = enrollment
  PROVE  /\ EnrolledInv' /\ endpoints' \in [Key -> Endpoint \cup {NoIdentity}]
         /\ \A f : FlightOK(f) => FlightOK(f)'
<1>1. \A l \in Key : endpoints'[l] # NoIdentity <=> endpoints[l] # NoIdentity
  BY Zenon, NoRowAssumption DEF IdentityInv, IdentityTypeOK
<1> QED BY Zenon, <1>1 DEF IdentityInv, IdentityTypeOK, EnrolledInv, FlightOK

\* The token, the clock and the maintenance window: no handler, no endpoint changes.
LEMMA AdminSteps ==
  ASSUME IdentityInv,
         \/ CreateEnrollmentToken \/ CancelMaintenance \/ TimePasses
         \/ \E from, until \in 0..LastTime : CreateMaintenance(from, until)
  PROVE  IdentityInv'
<1> USE DEF IdentityInv
<1>1. UNCHANGED <<endpoints, integrity, events, keys, flights, host, heard>>
  BY Zenon DEF CreateEnrollmentToken, CancelMaintenance, TimePasses, CreateMaintenance, serverSide
<1>2. FlightsInv' /\ ChainInv'
  BY Zenon, <1>1 DEF FlightsInv, FlightOK, ChainInv, IntegrityChain
<1>3. now' \in 0..LastTime
  BY IdentityAssumption
  DEF IdentityTypeOK, CreateEnrollmentToken, CancelMaintenance, TimePasses, CreateMaintenance
<1>4. \/ enrollment' = enrollment
      \/ enrollment.state = "absent" /\ enrollment' = [state |-> "open", expires |-> now + TokenLife]
  BY Zenon DEF CreateEnrollmentToken, CreateToken, CancelMaintenance, TimePasses, CreateMaintenance,
         serverSide
<1>5. now + TokenLife \in Nat
  BY IdentityAssumption DEF IdentityTypeOK
<1>6. IdentityTypeOK'
  BY <1>1, <1>3, <1>4, <1>5 DEF IdentityTypeOK
<1>7. EnrolledInv'
  BY Zenon, <1>1, <1>4 DEF EnrolledInv
<1> QED BY Zenon, <1>2, <1>6, <1>7

\* A revocation changes one flag.
LEMMA RevokeStep ==
  ASSUME IdentityInv, NEW k \in Key, Revoke(k)
  PROVE  IdentityInv'
<1> USE DEF IdentityInv
<1>1. endpoints[k] \in Endpoint /\ endpoints[k] # NoIdentity
  BY Zenon DEF IdentityTypeOK, Revoke
<1>2. [endpoints[k] EXCEPT !.active = FALSE] \in Endpoint
  BY Zenon, <1>1 DEF Endpoint
<1>3. endpoints' = [endpoints EXCEPT ![k] = [endpoints[k] EXCEPT !.active = FALSE]]
  BY Zenon DEF Revoke, RevokeEndpoint
<1>4. UNCHANGED <<now, enrollment, integrity, events, keys, flights, host, heard>>
  BY Zenon DEF Revoke
<1>5. /\ EnrolledInv' /\ endpoints' \in [Key -> Endpoint \cup {NoIdentity}]
      /\ \A f : FlightOK(f) => FlightOK(f)'
  BY Zenon, <1>1, <1>2, <1>3, <1>4, EndpointUpdated
<1>6. IdentityTypeOK' /\ FlightsInv' /\ ChainInv'
  BY Zenon, <1>4, <1>5 DEF IdentityTypeOK, FlightsInv, ChainInv, IntegrityChain
<1> QED BY Zenon, <1>5, <1>6

\* ConsumeAgentEnrollmentToken creates the first endpoint, and uses the token up.
LEMMA ConsumeStep ==
  ASSUME IdentityInv, NEW f \in flights, ConsumeToken(f)
  PROVE  IdentityInv'
<1> USE DEF IdentityInv
<1>1. UNCHANGED <<now, integrity, events, keys, host, heard>>
  BY Zenon DEF ConsumeToken
<1>2. ChainInv'
  BY Zenon, <1>1 DEF ChainInv, IntegrityChain
<1>3. CASE ~TokenOpen(f.at)
  <2>1. Lands(f) /\ UNCHANGED <<enrollment, endpoints>>
    BY Zenon, <1>3 DEF ConsumeToken
  <2>2. FlightsInv'
    BY Zenon, <2>1, FlightsMove
  <2> QED BY Zenon, <1>1, <1>2, <2>1, <2>2 DEF IdentityTypeOK, EnrolledInv
<1>4. CASE TokenOpen(f.at)
  <2> DEFINE e == [serial |-> f.key, active |-> TRUE, expires |-> f.at + CertLife, heartbeat |-> f.at]
  <2>1. /\ enrollment' = [enrollment EXCEPT !.state = "used"]
        /\ endpoints' = [endpoints EXCEPT ![f.key] = e] /\ Moves(f, "answer")
    BY Zenon, <1>4 DEF ConsumeToken
  <2>2. f.key \in Key /\ FlightOK(f) /\ f.kind = "enroll" /\ f.at \in 0..LastTime
    BY Zenon DEF FlightsInv, FlightOK, Flight, ConsumeToken
  <2>3. e \in Endpoint
    BY <2>2, IdentityAssumption DEF Endpoint, IdentityTypeOK
  <2> HIDE DEF e
  <2>4. \A k \in Key : endpoints[k] = NoIdentity
    BY Zenon, <1>4 DEF TokenOpen, EnrolledInv
  <2>5. IdentityTypeOK'
    BY Zenon, <1>1, <2>1, <2>2, <2>3 DEF IdentityTypeOK
  <2>6. EnrolledInv'
    BY Zenon, <2>1, <2>2, <2>4 DEF EnrolledInv, IdentityTypeOK
  <2>7. \A g \in flights : g.kind \notin {"renew", "check-in"}
    BY Zenon, <2>4 DEF FlightsInv, FlightOK
  <2>8. FlightsInv'
    <3>1. FlightOK([f EXCEPT !.step = "answer"])'
      BY Zenon, <2>2 DEF FlightOK, Flight
    <3>2. \A g \in flights : FlightOK(g)'
      BY Zenon, <2>7 DEF FlightsInv, FlightOK
    <3> QED BY Zenon, <2>1, <3>1, <3>2 DEF Moves, FlightsInv
  <2> QED BY Zenon, <1>2, <2>5, <2>6, <2>8
<1> QED BY Zenon, <1>3, <1>4

\* RenewEndpointCertificate gives the row its new serial.
LEMMA RenewStep ==
  ASSUME IdentityInv, NEW f \in flights, RenewCertificate(f)
  PROVE  IdentityInv'
<1> USE DEF IdentityInv
<1>1. UNCHANGED <<now, enrollment, integrity, events, keys, host, heard>>
  BY Zenon DEF RenewCertificate
<1>2. ChainInv'
  BY Zenon, <1>1 DEF ChainInv, IntegrityChain
<1>3. /\ FlightOK(f) /\ f.row \in Key /\ f.key \in Key /\ f.at \in 0..LastTime
      /\ endpoints[f.row] # NoIdentity
  BY Zenon DEF FlightsInv, FlightOK, Flight, RenewCertificate
<1>4. endpoints[f.row] \in Endpoint
  BY Zenon, <1>3 DEF IdentityTypeOK
<1>5. CASE endpoints' = endpoints /\ Lands(f)
  BY Zenon, <1>1, <1>2, <1>5, FlightsMove DEF IdentityTypeOK, EnrolledInv
<1>6. CASE ~(endpoints' = endpoints /\ Lands(f))
  <2> DEFINE e == [endpoints[f.row] EXCEPT !.serial = f.key, !.expires = f.at + CertLife]
  <2>1. endpoints' = [endpoints EXCEPT ![f.row] = e] /\ Moves(f, "answer")
    BY Zenon, <1>6 DEF RenewCertificate
  <2>6. f.at + CertLife \in Nat
    BY <1>3, IdentityAssumption
  <2>2. e \in Endpoint
    BY Zenon, <1>3, <1>4, <2>6 DEF Endpoint
  <2> HIDE DEF e
  <2>3. /\ EnrolledInv' /\ endpoints' \in [Key -> Endpoint \cup {NoIdentity}]
        /\ \A g : FlightOK(g) => FlightOK(g)'
    BY Zenon, <1>1, <1>3, <2>1, <2>2, EndpointUpdated
  <2>4. FlightOK([f EXCEPT !.step = "answer"])
    BY Zenon, <1>3 DEF FlightOK, Flight
  <2>5. FlightsInv'
    BY Zenon, <2>1, <2>3, <2>4 DEF Moves, FlightsInv
  <2> QED BY Zenon, <1>1, <1>2, <2>3, <2>5 DEF IdentityTypeOK
<1> QED BY Zenon, <1>5, <1>6

\* RecordEndpointCheckIn sets the time of the row, and the handler is done.
LEMMA HeartbeatStep ==
  ASSUME IdentityInv, NEW f \in flights, RecordHeartbeat(f)
  PROVE  IdentityInv'
<1> USE DEF IdentityInv
<1>1. UNCHANGED <<now, enrollment, integrity, events, keys, host, heard>> /\ Lands(f)
  BY Zenon DEF RecordHeartbeat
<1>2. ChainInv'
  BY Zenon, <1>1 DEF ChainInv, IntegrityChain
<1>3. f.row \in Key /\ endpoints[f.row] # NoIdentity /\ f.at \in 0..LastTime
  BY Zenon DEF FlightsInv, FlightOK, Flight, RecordHeartbeat
<1>4. endpoints[f.row] \in Endpoint
  BY Zenon, <1>3 DEF IdentityTypeOK
<1>5. CASE endpoints' = endpoints
  BY Zenon, <1>1, <1>2, <1>5, FlightsMove DEF IdentityTypeOK, EnrolledInv
<1>6. CASE endpoints' # endpoints
  <2> DEFINE e == [endpoints[f.row] EXCEPT !.heartbeat = f.at]
  <2>1. endpoints' = [endpoints EXCEPT ![f.row] = e]
    BY Zenon, <1>6 DEF RecordHeartbeat
  <2>2. e \in Endpoint
    BY <1>3, <1>4, IdentityAssumption DEF Endpoint
  <2> HIDE DEF e
  <2>3. /\ EnrolledInv' /\ endpoints' \in [Key -> Endpoint \cup {NoIdentity}]
        /\ \A g : FlightOK(g) => FlightOK(g)'
    BY Zenon, <1>1, <1>3, <2>1, <2>2, EndpointUpdated
  <2>4. FlightsInv'
    BY Zenon, <1>1, <2>3 DEF Lands, FlightsInv
  <2> QED BY Zenon, <1>1, <1>2, <2>3, <2>4 DEF IdentityTypeOK
<1> QED BY Zenon, <1>5, <1>6

\* The sequence numbers of logged events are numbers.
LEMMA LogEntries ==
  ASSUME NEW log \in Seq(Event), NEW i \in 1..Len(log)
  PROVE  log[i].sequence \in Nat
<1>1. log[i] \in Event
  OBVIOUS
<1> QED BY <1>1, IdentityAssumption DEF Event

\* RecordEndpointIntegritySnapshot: a newer snapshot extends the log where it ends.
LEMMA SnapshotStep ==
  ASSUME IdentityInv, NEW f \in flights, RecordSnapshot(f)
  PROVE  IdentityInv'
<1> USE DEF IdentityInv
<1> DEFINE k == f.row
           old == integrity[k]
           new == [sequence |-> f.sequence, print |-> f.print]
           event == [before |-> old.print, after |-> f.print, sequence |-> f.sequence]
<1>1. UNCHANGED <<now, enrollment, endpoints, keys, host, heard>>
  BY Zenon DEF RecordSnapshot
<1>2. EnrolledInv'
  BY Zenon, <1>1 DEF EnrolledInv
<1>3. /\ k \in Key /\ f.sequence \in 1..MaxSequence /\ f.print \in Fingerprint
  BY Zenon DEF FlightsInv, FlightOK, Flight, RecordSnapshot
<1>4. FlightsInv'
  BY Zenon, <1>1, FlightsMove DEF RecordSnapshot
<1>5. new \in Snapshot /\ new.sequence = f.sequence /\ new.print = f.print
  BY Zenon, <1>3 DEF Snapshot
<1>6. CASE UNCHANGED <<integrity, events>>
  BY Zenon, <1>1, <1>2, <1>4, <1>6 DEF IdentityTypeOK, ChainInv, IntegrityChain
<1>7. CASE ~UNCHANGED <<integrity, events>>
  <2>1. /\ integrity' = [integrity EXCEPT ![k] = new]
        /\ old # NoIdentity => old.sequence < f.sequence
        /\ events' = IF (IF old = NoIdentity THEN FALSE ELSE old.print # f.print)
                     THEN [events EXCEPT ![k] = Append(events[k], event)] ELSE events
    BY Zenon, <1>7 DEF RecordSnapshot
  <2> HIDE DEF new
  <2>2. IdentityTypeOK' /\ integrity'[k] = new /\ new # NoIdentity
        /\ \A l \in Key \ {k} : integrity'[l] = integrity[l]
    BY Zenon, <1>1, <1>3, <1>5, <2>1, NoRowAssumption DEF IdentityTypeOK
  <2>3. events[k] \in Seq(Event) /\ events \in [Key -> Seq(Event)] /\ (old = NoIdentity => events[k] = <<>>)
    BY Zenon, <1>3 DEF ChainInv
  <2>4. CASE old = NoIdentity
    <3>1. events' = events
      BY Zenon, <2>1, <2>4
    <3> QED BY Zenon, <1>2, <1>4, <2>2, <2>3, <2>4, <3>1 DEF ChainInv, IntegrityChain
  <2>5. CASE old # NoIdentity /\ old.print = f.print
    <3>1. events' = events /\ old \in Snapshot /\ old.sequence < new.sequence /\ old.print = new.print
      BY Zenon, <1>3, <1>5, <2>1, <2>5 DEF IdentityTypeOK
    <3>2. \A i \in 1..Len(events[k]) : events[k][i].sequence \in Nat
      BY Zenon, <2>3, LogEntries
    <3>3. old.sequence \in Nat /\ new.sequence \in Nat
      BY <1>5, <3>1 DEF Snapshot
    <3>4. IntegrityChain'
      <4> SUFFICES ASSUME NEW l \in Key
                   PROVE  LET log == events[l] IN
                          /\ \A i \in 1..(Len(log) - 1) :
                               log[i].after = log[i + 1].before /\ log[i].sequence < log[i + 1].sequence
                          /\ log # <<>> => /\ log[Len(log)].after = integrity'[l].print
                                           /\ log[Len(log)].sequence <= integrity'[l].sequence
        BY Zenon, <3>1 DEF IntegrityChain
      <4>1. CASE l # k
        BY Zenon, <2>2, <4>1 DEF ChainInv, IntegrityChain
      <4>2. CASE l = k
        BY <2>2, <2>3, <3>1, <3>2, <3>3, <4>2 DEF ChainInv, IntegrityChain
      <4> QED BY Zenon, <4>1, <4>2
    <3> QED BY Zenon, <1>2, <1>4, <2>2, <2>3, <3>1, <3>4 DEF ChainInv
  <2>6. CASE old # NoIdentity /\ old.print # f.print
    <3>1. old \in Snapshot /\ old.sequence < f.sequence
      BY Zenon, <1>3, <2>1, <2>6 DEF IdentityTypeOK
    <3>2. event \in Event /\ event.before = old.print /\ event.after = f.print
          /\ event.sequence = f.sequence
      BY Zenon, <1>3, <3>1 DEF Event, Snapshot
    <3> HIDE DEF event
    <3> DEFINE log == events[k]
    <3>3. events' = [events EXCEPT ![k] = Append(log, event)]
      BY Zenon, <2>1, <2>6
    <3>4. events' \in [Key -> Seq(Event)] /\ events'[k] = Append(log, event)
          /\ \A l \in Key \ {k} : events'[l] = events[l]
      BY <1>3, <2>3, <3>2, <3>3
    <3>5. \A i \in 1..Len(log) : log[i].sequence \in Nat
      BY Zenon, <2>3, LogEntries
    <3>6. old.sequence \in Nat /\ f.sequence \in Nat
      BY <1>3, <3>1 DEF Snapshot
    <3>7. /\ \A i \in 1..(Len(log) - 1) :
               log[i].after = log[i + 1].before /\ log[i].sequence < log[i + 1].sequence
          /\ log # <<>> => log[Len(log)].after = old.print /\ log[Len(log)].sequence <= old.sequence
      BY Zenon, <1>3 DEF ChainInv, IntegrityChain
    <3>8. \A i \in 1..(Len(Append(log, event)) - 1) :
            /\ Append(log, event)[i].after = Append(log, event)[i + 1].before
            /\ Append(log, event)[i].sequence < Append(log, event)[i + 1].sequence
      <4> SUFFICES ASSUME NEW i \in 1..Len(log)
                   PROVE  /\ Append(log, event)[i].after = Append(log, event)[i + 1].before
                          /\ Append(log, event)[i].sequence < Append(log, event)[i + 1].sequence
        BY <2>3
      <4>1. Append(log, event)[i] = log[i] /\ i \in 1..Len(log)
        BY <2>3
      <4>2. CASE i < Len(log)
        BY <2>3, <3>7, <4>1, <4>2
      <4>3. CASE i = Len(log)
        <5>1. Append(log, event)[i + 1] = event /\ log # <<>>
          BY <2>3, <4>3
        <5> QED BY <3>1, <3>2, <3>5, <3>6, <3>7, <4>1, <4>3, <5>1
      <4> QED BY <2>3, <4>2, <4>3
    <3>9. Append(log, event)[Len(Append(log, event))] = event
      BY <2>3
    <3>10. f.sequence <= f.sequence
      BY <3>6
    <3>11. IntegrityChain'
      <4> SUFFICES ASSUME NEW l \in Key
                   PROVE  LET now_log == events'[l] IN
                          /\ \A i \in 1..(Len(now_log) - 1) :
                               /\ now_log[i].after = now_log[i + 1].before
                               /\ now_log[i].sequence < now_log[i + 1].sequence
                          /\ now_log # <<>> => /\ now_log[Len(now_log)].after = integrity'[l].print
                                               /\ now_log[Len(now_log)].sequence <= integrity'[l].sequence
        BY Zenon DEF IntegrityChain
      <4>1. CASE l # k
        BY <2>2, <3>4, <4>1 DEF ChainInv, IntegrityChain
      <4>2. CASE l = k
        BY Zenon, <1>5, <2>2, <3>2, <3>4, <3>8, <3>9, <3>10, <4>2
      <4> QED BY Zenon, <4>1, <4>2
    <3> QED BY Zenon, <1>2, <1>4, <2>2, <3>4, <3>11 DEF ChainInv
  <2> QED BY Zenon, <2>4, <2>5, <2>6
<1> QED BY Zenon, <1>6, <1>7

\* The invariant is inductive.
LEMMA IdentityStep == IdentityInv /\ [IdentityNext]_identityVars => IdentityInv'
<1> SUFFICES ASSUME IdentityInv, [IdentityNext]_identityVars PROVE IdentityInv'
  BY Zenon
<1>1. CASE UNCHANGED identityVars
  BY Zenon, <1>1 DEF identityVars, IdentityInv, IdentityTypeOK, FlightsInv, FlightOK, EnrolledInv,
              ChainInv, IntegrityChain
<1>2. ASSUME NEW f \in flights, TokenName(f) \/ HandlerFails(f)
      PROVE  IdentityInv'
  <2>1. UNCHANGED <<now, serverSide, keys, host, heard>>
    BY Zenon, <1>2 DEF TokenName, HandlerFails
  <2>2. FlightsInv'
    BY Zenon, <1>2, <2>1, FlightsMove DEF TokenName, HandlerFails, IdentityInv, serverSide
  <2> QED BY Zenon, <2>1, <2>2 DEF serverSide, IdentityInv, IdentityTypeOK, EnrolledInv, ChainInv, IntegrityChain
<1>3. CASE IdentityNext
  BY Zenon, <1>2, <1>3, AdminSteps, RevokeStep, HostSteps, RequestSteps, ConsumeStep, RenewStep,
     SnapshotStep, HeartbeatStep DEF IdentityNext
<1> QED BY Zenon, <1>1, <1>3

INSTANCE FiniteSetTheorems

\* EnrolledOnce follows: the enrolled certificates are at most one.
LEMMA OneEnrolled == IdentityInv => EnrolledOnce
<1> SUFFICES ASSUME IdentityInv PROVE EnrolledOnce
  BY Zenon
<1>1. ASSUME NEW S, S \subseteq {k \in Key : endpoints[k] # NoIdentity}
      PROVE  Cardinality(S) <= 1
  <2>1. CASE S = {}
    BY <2>1, FS_EmptySet
  <2>2. CASE S # {}
    <3>1. PICK k \in S : TRUE
      BY Zenon, <2>2
    <3>2. S = {k}
      BY Zenon, <1>1, <3>1 DEF IdentityInv, EnrolledInv
    <3> QED BY <3>2, FS_Singleton
  <2> QED BY Zenon, <2>1, <2>2
<1>2. \A k \in Key : FromConnection(k) \subseteq {l \in Key : endpoints[l] # NoIdentity}
  BY Zenon DEF FromConnection
<1> QED BY Zenon, <1>1, <1>2 DEF EnrolledOnce

\* What a handler will write was heard, and so was what is written.
FlightHeard(f) ==
  /\ f.kind = "enroll" => f.at <= heard[f.key]
  /\ f.kind = "check-in" => f.at <= heard[f.row]
HeardInv ==
  /\ \A k \in Key : heard[k] <= now
  /\ \A k \in Key : endpoints[k] # NoIdentity => endpoints[k].heartbeat <= heard[k]
  /\ \A f \in flights : FlightHeard(f)

\* Later check-ins are heard later.
LEMMA HearsMore ==
  ASSUME IdentityInv, HeardInv, NEW k \in Key, heard' = [heard EXCEPT ![k] = now],
         NEW f, Flies(f), f.at = now, f.kind = "enroll" => f.key = k, f.kind = "check-in" => f.row = k,
         endpoints' = endpoints, now' = now
  PROVE  HeardInv'
<1>1. now \in Nat /\ heard \in [Key -> Nat] /\ now <= now
  BY IdentityAssumption DEF IdentityInv, IdentityTypeOK
<1>2. \A l \in Key : heard'[l] \in Nat /\ heard[l] <= heard'[l] /\ heard'[l] <= now
  BY <1>1 DEF HeardInv
<1>3. \A l \in Key : endpoints'[l] # NoIdentity => endpoints'[l].heartbeat <= heard'[l]
  <2> SUFFICES ASSUME NEW l \in Key, endpoints[l] # NoIdentity
               PROVE  endpoints[l].heartbeat <= heard'[l]
    BY Zenon
  <2>1. endpoints[l].heartbeat \in Nat
    BY DEF IdentityInv, IdentityTypeOK, Endpoint
  <2> QED BY <1>1, <1>2, <2>1 DEF HeardInv
<1>4. \A g \in flights : FlightHeard(g)'
  <2> SUFFICES ASSUME NEW g \in flights PROVE FlightHeard(g)'
    OBVIOUS
  <2>1. g.at \in 0..LastTime /\ g.key \in Key /\ (g.kind = "check-in" => g.row \in Key)
    BY Zenon DEF IdentityInv, FlightsInv, FlightOK, Flight
  <2> QED BY <1>1, <1>2, <2>1, IdentityAssumption DEF HeardInv, FlightHeard
<1>5. heard'[k] = now
  BY Zenon, <1>1
<1>6. FlightHeard(f)'
  BY Zenon, <1>1, <1>5 DEF FlightHeard
<1> QED BY Zenon, <1>2, <1>3, <1>4, <1>6 DEF HeardInv, Flies

\* A handler that goes on has its time and its row.
LEMMA MovesHeard ==
  ASSUME IdentityInv, HeardInv, heard' = heard, NEW f \in flights, NEW step,
         Moves(f, step) \/ Lands(f)
  PROVE  \A g \in flights' : FlightHeard(g)'
<1>1. f \in Flight /\ \A g \in flights : FlightHeard(g)'
  BY Zenon DEF IdentityInv, FlightsInv, FlightOK, HeardInv, FlightHeard
<1> DEFINE h == [f EXCEPT !.step = step]
<1>2. h.kind = f.kind /\ h.at = f.at /\ h.key = f.key /\ h.row = f.row
  BY <1>1 DEF Flight
<1> HIDE DEF h
<1>3. FlightHeard(h)'
  BY Zenon, <1>1, <1>2 DEF FlightHeard
<1> QED BY Zenon, <1>1, <1>3 DEF Moves, Lands, h

\* No step writes a heartbeat that was not heard.
LEMMA HeardStep ==
  ASSUME IdentityInv, HeardInv, [IdentityNext]_identityVars
  PROVE  HeardInv'
<1>1. ASSUME heard' = heard, now' = now, endpoints' = endpoints, \A g \in flights' : FlightHeard(g)'
      PROVE  HeardInv'
  BY Zenon, <1>1 DEF HeardInv
<1>2. ASSUME heard' = heard, flights' = flights PROVE \A g \in flights' : FlightHeard(g)'
  BY Zenon, <1>2 DEF HeardInv, FlightHeard
<1>3. CASE UNCHANGED identityVars
  BY Zenon, <1>1, <1>2, <1>3 DEF identityVars
<1>4. CASE CreateEnrollmentToken \/ CancelMaintenance
           \/ \E from, until \in 0..LastTime : CreateMaintenance(from, until)
  BY Zenon, <1>1, <1>2, <1>4 DEF CreateEnrollmentToken, CancelMaintenance, CreateMaintenance
<1>5. CASE TimePasses
  <2>1. UNCHANGED <<heard, flights, endpoints>>
    BY Zenon, <1>5 DEF TimePasses, serverSide
  <2>2. \A k \in Key : heard[k] <= now'
    BY <1>5, IdentityAssumption DEF TimePasses, HeardInv, IdentityInv, IdentityTypeOK
  <2> QED BY Zenon, <1>2, <2>1, <2>2 DEF HeardInv
<1>6. ASSUME NEW k \in Key, Revoke(k) PROVE HeardInv'
  <2>1. UNCHANGED <<heard, now, flights>> /\ endpoints' = [endpoints EXCEPT ![k].active = FALSE]
        /\ endpoints[k] # NoIdentity
    BY Zenon, <1>6 DEF Revoke, RevokeEndpoint
  <2>2. \A l \in Key : /\ endpoints'[l] # NoIdentity => endpoints[l] # NoIdentity
                       /\ endpoints'[l].heartbeat = endpoints[l].heartbeat
    BY <2>1 DEF IdentityInv, IdentityTypeOK, Endpoint
  <2> QED BY Zenon, <1>2, <2>1, <2>2 DEF HeardInv
<1>7. ASSUME NEW a \in Agent,
             Saved(a) \/ GivesUp(a) \/ LoadIdentity(a) \/ AgentStops(a) \/ \E f \in File : SaveFile(a, f)
      PROVE  HeardInv'
  BY Zenon, <1>1, <1>2, <1>7
  DEF Saved, GivesUp, LoadIdentity, AgentStops, SaveFile, serverSide
<1>8. ASSUME NEW a \in Agent, Enroll(a) PROVE HeardInv'
  <2> DEFINE f == [kind |-> "enroll", agent |-> a, key |-> keys', step |-> "lookup",
                   row |-> NoIdentity, sequence |-> 0, print |-> NoIdentity, at |-> now]
  <2>1. /\ Flies(f) /\ f.at = now /\ f.key = keys' /\ f.kind = "enroll"
        /\ heard' = [heard EXCEPT ![keys'] = now] /\ endpoints' = endpoints /\ now' = now
    BY Zenon, <1>8 DEF Enroll, serverSide
  <2>2. keys' \in Key
    BY <1>8, IdentityAssumption DEF Enroll, NewKey, Key, IdentityInv, IdentityTypeOK
  <2> HIDE DEF f
  <2> QED BY Zenon, <2>1, <2>2, HearsMore
<1>9. ASSUME NEW a \in Agent, CheckIn(a) PROVE HeardInv'
  <2>1. PICK k \in FromConnection(host[a].held), print \in Fingerprint :
          /\ Flies([kind |-> "check-in", agent |-> a, key |-> host[a].held, step |-> "integrity",
                    row |-> k, sequence |-> host[a].sequence + 1, print |-> print, at |-> now])
          /\ heard' = [heard EXCEPT ![k] = now]
    BY Zenon, <1>9 DEF CheckIn
  <2> DEFINE f == [kind |-> "check-in", agent |-> a, key |-> host[a].held, step |-> "integrity",
                   row |-> k, sequence |-> host[a].sequence + 1, print |-> print, at |-> now]
  <2>2. Flies(f) /\ f.at = now /\ f.row = k /\ f.kind = "check-in"
    BY Zenon, <2>1
  <2>3. k \in Key /\ endpoints' = endpoints /\ now' = now
    BY Zenon, <1>9, <2>1 DEF CheckIn, FromConnection, serverSide
  <2> HIDE DEF f
  <2> QED BY Zenon, <2>1, <2>2, <2>3, HearsMore
<1>10. ASSUME NEW a \in Agent, Renew(a) PROVE HeardInv'
  <2>4. PICK k \in FromConnection(host[a].held) :
          Flies([kind |-> "renew", agent |-> a, key |-> keys', step |-> "issue",
                 row |-> k, sequence |-> host[a].held, print |-> NoIdentity, at |-> now])
    BY Zenon, <1>10 DEF Renew
  <2>5. \E f : Flies(f) /\ f.kind = "renew"
    <3> WITNESS [kind |-> "renew", agent |-> a, key |-> keys', step |-> "issue",
                 row |-> k, sequence |-> host[a].held, print |-> NoIdentity, at |-> now]
    <3> QED BY Zenon, <2>4
  <2>1. PICK f : Flies(f) /\ f.kind = "renew"
    BY Zenon, <2>5
  <2>2. heard' = heard /\ endpoints' = endpoints /\ now' = now
    BY Zenon, <1>10 DEF Renew, serverSide
  <2>3. FlightHeard(f)'
    BY Zenon, <2>1 DEF FlightHeard
  <2> QED BY Zenon, <1>1, <2>1, <2>2, <2>3 DEF Flies, HeardInv, FlightHeard
<1>11. ASSUME NEW a \in Agent, Issued(a) PROVE HeardInv'
  <2>1. heard' = heard /\ endpoints' = endpoints /\ now' = now /\ flights' \subseteq flights
    BY Zenon, <1>11 DEF Issued, Lands, serverSide
  <2> QED BY Zenon, <1>1, <2>1 DEF HeardInv, FlightHeard
<1>12. ASSUME NEW f \in flights, TokenName(f) \/ RecordSnapshot(f) \/ HandlerFails(f) PROVE HeardInv'
  <2>1. heard' = heard /\ endpoints' = endpoints /\ now' = now
    BY Zenon, <1>12 DEF TokenName, RecordSnapshot, HandlerFails, serverSide
  <2>2. Moves(f, "consume") \/ Moves(f, "heartbeat") \/ Lands(f)
    BY Zenon, <1>12 DEF TokenName, RecordSnapshot, HandlerFails
  <2> QED BY Zenon, <1>1, <2>1, <2>2, MovesHeard
<1>13. ASSUME NEW f \in flights, ConsumeToken(f) PROVE HeardInv'
  <2>1. heard' = heard /\ now' = now /\ (Moves(f, "answer") \/ Lands(f))
    BY Zenon, <1>13 DEF ConsumeToken
  <2>2. \A g \in flights' : FlightHeard(g)'
    BY Zenon, <2>1, MovesHeard
  <2> DEFINE e == [serial |-> f.key, active |-> TRUE, expires |-> f.at + CertLife, heartbeat |-> f.at]
  <2>3. endpoints' = endpoints \/ endpoints' = [endpoints EXCEPT ![f.key] = e]
    BY Zenon, <1>13 DEF ConsumeToken
  <2>4. e.heartbeat <= heard[f.key]
    BY Zenon, <1>13 DEF ConsumeToken, HeardInv, FlightHeard
  <2> HIDE DEF e
  <2>5. \A k \in Key : endpoints'[k] # NoIdentity => endpoints'[k].heartbeat <= heard[k]
    BY Zenon, <2>3, <2>4 DEF HeardInv, IdentityInv, IdentityTypeOK
  <2> QED BY Zenon, <2>1, <2>2, <2>5 DEF HeardInv
<1>14. ASSUME NEW f \in flights, RenewCertificate(f) PROVE HeardInv'
  <2>1. heard' = heard /\ now' = now /\ (Moves(f, "answer") \/ Lands(f))
    BY Zenon, <1>14 DEF RenewCertificate
  <2>2. \A g \in flights' : FlightHeard(g)'
    BY Zenon, <2>1, MovesHeard
  <2>3. \/ endpoints' = endpoints
        \/ endpoints' = [endpoints EXCEPT ![f.row].serial = f.key, ![f.row].expires = f.at + CertLife]
    BY Zenon, <1>14 DEF RenewCertificate
  <2>6. f.row \in Key /\ endpoints[f.row] # NoIdentity
    BY Zenon, <1>14 DEF RenewCertificate, IdentityInv, FlightsInv, FlightOK
  <2>4. \A l \in Key : /\ endpoints'[l] # NoIdentity => endpoints[l] # NoIdentity
                       /\ endpoints'[l].heartbeat = endpoints[l].heartbeat
    BY <2>3, <2>6 DEF IdentityInv, IdentityTypeOK, Endpoint
  <2> QED BY Zenon, <2>1, <2>2, <2>4 DEF HeardInv
<1>15. ASSUME NEW f \in flights, RecordHeartbeat(f) PROVE HeardInv'
  <2>1. heard' = heard /\ now' = now /\ Lands(f)
    BY Zenon, <1>15 DEF RecordHeartbeat
  <2>2. \A g \in flights' : FlightHeard(g)'
    BY Zenon, <2>1, MovesHeard
  <2>3. /\ f.row \in Key /\ endpoints[f.row] # NoIdentity /\ f.at <= heard[f.row]
        /\ \/ endpoints' = endpoints
           \/ endpoints' = [endpoints EXCEPT ![f.row].heartbeat = f.at]
    BY Zenon, <1>15 DEF RecordHeartbeat, IdentityInv, FlightsInv, FlightOK, HeardInv, FlightHeard
  <2>4. \A l \in Key : endpoints'[l] # NoIdentity => endpoints'[l].heartbeat <= heard[l]
    BY <2>3 DEF HeardInv, IdentityInv, IdentityTypeOK, Endpoint
  <2> QED BY Zenon, <2>1, <2>2, <2>4 DEF HeardInv
<1> QED BY Zenon, <1>3, <1>4, <1>5, <1>6, <1>7, <1>8, <1>9, <1>10, <1>11, <1>12, <1>13, <1>14, <1>15
        DEF IdentityNext

\* What is silent for the server is at least as old in its row.
LEMMA SilenceSeen == IdentityInv /\ HeardInv => SilenceShows
<1> DEFINE signals == {"heartbeat_suppressed_maintenance", "heartbeat_suppressed_upload_window",
                       "agent_stale", "heartbeat_missed"}
<1> SUFFICES ASSUME IdentityInv, HeardInv, NEW k \in Key, NEW relaySuppressed \in BOOLEAN,
                    endpoints[k] # NoIdentity, endpoints[k].active, now < endpoints[k].expires
             PROVE  LET shown == Alerts(endpoints[k], TRUE, relaySuppressed)
                        silence == now - heard[k] IN
                    /\ silence >= MissedAfter => \E signal \in signals : signal \in shown
                    /\ silence >= StaleAfter /\ ~InMaintenance /\ ~relaySuppressed => "agent_stale" \in shown
  BY Zenon DEF SilenceShows
<1> DEFINE e == endpoints[k]
           alert == HeartbeatAlert(e, TRUE, relaySuppressed)
<1>1. e.expires \in Nat /\ e.heartbeat \in Nat /\ now \in Nat /\ heard[k] \in Nat
      /\ {MissedAfter, StaleAfter} \subseteq Nat /\ MissedAfter < StaleAfter
  BY IdentityAssumption DEF IdentityInv, IdentityTypeOK, Endpoint
<1>2. now - e.heartbeat >= now - heard[k]
  BY <1>1 DEF HeardInv
<1>3. alert \subseteq Alerts(e, TRUE, relaySuppressed)
  <2>1. ~(now >= e.expires)
    BY <1>1
  <2> QED BY Zenon, <2>1 DEF Alerts
<1>4. ASSUME now - heard[k] >= MissedAfter PROVE \E signal \in signals : signal \in alert
  <2>1. ~(now - e.heartbeat < MissedAfter)
    BY <1>1, <1>2, <1>4
  <2> QED BY Zenon, <2>1 DEF HeartbeatAlert
<1>5. ASSUME now - heard[k] >= StaleAfter, ~InMaintenance, ~relaySuppressed PROVE "agent_stale" \in alert
  <2>1. ~(now - e.heartbeat < MissedAfter) /\ now - e.heartbeat >= StaleAfter
    BY <1>1, <1>2, <1>5
  <2> QED BY Zenon, <1>5, <2>1 DEF HeartbeatAlert
<1> QED BY Zenon, <1>3, <1>4, <1>5

\* The invariant of the specification.
THEOREM IdentityInvariance == IdentitySpec => []IdentityInv
<1> QED BY IdentityBegins, IdentityStep, PTL DEF IdentitySpec

\* One enrollment token enrolls one endpoint, and no two answer to one certificate,
\* with any number of agents and handlers (ConsumeAgentEnrollmentToken).
THEOREM EnrollsOnce == IdentitySpec => []EnrolledOnce
<1> QED BY IdentityInvariance, OneEnrolled, PTL

\* The integrity events of an endpoint are one chain that ends at its snapshot, for
\* any number of check-ins that overtake one another (RecordEndpointIntegritySnapshot).
THEOREM ChainUnbroken == IdentitySpec => []IntegrityChain
<1>1. IdentityInv => IntegrityChain
  BY Zenon DEF IdentityInv, ChainInv
<1> QED BY <1>1, IdentityInvariance, PTL

\* No check-in makes an endpoint look more alive than it is, whenever its handler
\* writes: an agent that went silent is shown (RecordEndpointCheckIn, endpointAlerts).
THEOREM SilenceAlwaysShows == IdentitySpec => []SilenceShows
<1>1. IdentityInit => HeardInv
  BY DEF IdentityInit, HeardInv
<1> QED BY <1>1, IdentityInvariance, HeardStep, SilenceSeen, PTL DEF IdentitySpec

\* No handler changes a revoked endpoint or its snapshot.
THEOREM RevokedStaysFrozen == IdentitySpec => RevokedFrozen
<1> DEFINE Frozen == \A k \in Key : endpoints[k] # NoIdentity =>
             (~endpoints[k].active => endpoints'[k] = endpoints[k] /\ integrity'[k] = integrity[k])
<1>1. ASSUME IdentityInv, [IdentityNext]_identityVars PROVE Frozen \/ UNCHANGED identityVars
  <2> SUFFICES ASSUME IdentityNext, NEW k \in Key, endpoints[k] # NoIdentity, ~endpoints[k].active
               PROVE  endpoints'[k] = endpoints[k] /\ integrity'[k] = integrity[k]
    BY Zenon, <1>1
  <2>1. ASSUME NEW f \in flights, ConsumeToken(f)
        PROVE  endpoints' = endpoints /\ integrity' = integrity
    BY Zenon, <1>1, <2>1 DEF ConsumeToken, TokenOpen, IdentityInv, EnrolledInv
  <2>2. ASSUME NEW f \in flights, RenewCertificate(f) \/ RecordHeartbeat(f)
        PROVE  endpoints'[k] = endpoints[k] /\ integrity' = integrity
    <3>1. CASE f.row = k
      BY Zenon, <2>2, <3>1 DEF RenewCertificate, RecordHeartbeat
    <3>2. CASE f.row # k
      BY Zenon, <1>1, <2>2, <3>2 DEF RenewCertificate, RecordHeartbeat, IdentityInv, IdentityTypeOK
    <3> QED BY Zenon, <3>1, <3>2
  <2>3. ASSUME NEW f \in flights, RecordSnapshot(f)
        PROVE  endpoints' = endpoints /\ integrity'[k] = integrity[k]
    <3>1. CASE f.row = k
      BY Zenon, <2>3, <3>1 DEF RecordSnapshot
    <3>2. CASE f.row # k
      <4>1. endpoints' = endpoints
        BY Zenon, <2>3 DEF RecordSnapshot
      <4>2. \/ integrity' = integrity
            \/ integrity' = [integrity EXCEPT ![f.row] = [sequence |-> f.sequence, print |-> f.print]]
        BY Zenon, <2>3 DEF RecordSnapshot
      <4> QED BY Zenon, <1>1, <3>2, <4>1, <4>2 DEF IdentityInv, IdentityTypeOK
    <3> QED BY Zenon, <3>1, <3>2
  <2>4. ASSUME NEW l \in Key, Revoke(l)
        PROVE  endpoints'[k] = endpoints[k] /\ integrity' = integrity
    BY <2>4 DEF Revoke, RevokeEndpoint
  <2>5. ASSUME NEW f \in flights, TokenName(f) \/ HandlerFails(f)
        PROVE  endpoints' = endpoints /\ integrity' = integrity
    BY Zenon, <2>5 DEF TokenName, HandlerFails, serverSide
  <2>6. ASSUME NEW a \in Agent, Enroll(a) \/ Issued(a) \/ Saved(a) \/ GivesUp(a) \/ LoadIdentity(a)
               \/ AgentStops(a) \/ Renew(a) \/ CheckIn(a) \/ \E f \in File : SaveFile(a, f)
        PROVE  endpoints' = endpoints /\ integrity' = integrity
    BY Zenon, <2>6 DEF Enroll, Issued, Saved, GivesUp, LoadIdentity, AgentStops, Renew, CheckIn, SaveFile,
                serverSide
  <2>7. ASSUME \/ CreateEnrollmentToken \/ CancelMaintenance \/ TimePasses
               \/ \E from, until \in 0..LastTime : CreateMaintenance(from, until)
        PROVE  endpoints' = endpoints /\ integrity' = integrity
    BY Zenon, <2>7 DEF CreateEnrollmentToken, CancelMaintenance, TimePasses, CreateMaintenance, serverSide
  <2> QED BY Zenon, <2>1, <2>2, <2>3, <2>4, <2>5, <2>6, <2>7 DEF IdentityNext
<1>2. IdentitySpec => [][Frozen]_identityVars
  <2>1. IdentityInv /\ [IdentityNext]_identityVars => [Frozen]_identityVars
    BY Zenon, <1>1
  <2> QED BY <2>1, IdentityInvariance, PTL DEF IdentitySpec
<1> QED BY Zenon, <1>2 DEF RevokedFrozen

-----------------------------------------------------------------------------
(***************************************************************************)
(* The relay queue accounts for every frame, for any frames, uploaders,    *)
(* limits, leases, migrations and restarts.                                *)
(***************************************************************************)

RowsInv ==
  /\ file = [version |-> file.version, rows |-> file.rows] /\ file.version \in 1..3
  /\ Queued \subseteq Frame /\ IsFiniteSet(Queued) /\ file.rows \in [Queued -> Row]
StateInv ==
  /\ process \in {"down", "migrating", "up"}
  /\ deliveries \in [Uploader -> Frame \cup {Unclaimed}] /\ received \subseteq Frame
  /\ monitor \in [accepted : Nat, acknowledged : Nat, capacity : Nat, expired : Nat]
  /\ taken \in [frames : SUBSET Frame, found : Nat]
  /\ process # "up" => \A u \in Uploader : deliveries[u] = Unclaimed
\* Every row is counted, and a frame that is gone was purged.
CountInv ==
  process # "down" =>
    /\ ItemsUsed + monitor.acknowledged + monitor.expired = taken.found + monitor.accepted
    /\ taken.frames \subseteq Queued \cup received \/ monitor.expired > 0
\* The inductive invariant.
RelayInv == RowsInv /\ StateInv /\ CountInv

\* A frame of any kind has a priority.
LEMMA PriorityKnown == ASSUME NEW f \in Frame PROVE priorityForFrame(f) \in {100, 200, 300}
<1>1. Kind[f] \in {"integrity_alert", "tamper_alert", "agent_check_in", "server_reply", "agent_log_batch"}
  BY Zenon, RelayAssumption DEF MessageKind
<1> QED BY <1>1 DEF priorityForFrame

\* What INSERT writes is a row.
LEMMA NewRowIsRow ==
  ASSUME NEW n \in 1..MaxRowid, NEW age \in -Skew..Oldest, NEW p \in {0, 100, 200, 300}
  PROVE  NewRow(n, age, p) \in Row
BY RelayAssumption DEF NewRow, Row

\* What a claim or a release writes is a row.
LEMMA HeldIsRow ==
  ASSUME NEW row \in Row, NEW h \in Uploader \cup {Unclaimed}, NEW left \in 0..LeaseTime
  PROVE  Held(row, h, left) \in Row
<1>1. [row EXCEPT !.holder = h] \in Row
  BY DEF Row
<1>2. Held(row, h, left) = [[row EXCEPT !.holder = h] EXCEPT !.left = left]
  BY Zenon DEF Held, Row
<1>3. ASSUME NEW r \in Row PROVE [r EXCEPT !.left = left] \in Row
  BY DEF Row
<1> QED BY Zenon, <1>1, <1>2, <1>3

\* A queue file left by any release satisfies the invariant.
LEMMA RelayBegins == RelayInit => RelayInv
<1> SUFFICES ASSUME RelayInit PROVE RelayInv
  BY Zenon
<1>1. PICK version \in 1..3, fs \in {{}} \cup {{f} : f \in Frame} :
        file = [version |-> version, rows |-> [f \in fs |->
                  NewRow(1, 0, IF version = 1 THEN 0 ELSE priorityForFrame(f))]]
  BY Zenon DEF RelayInit
<1>2. fs \subseteq Frame /\ IsFiniteSet(fs)
  BY Zenon, <1>1, FS_EmptySet, FS_Singleton
<1>3. Queued = fs /\ file.version = version /\ file = [version |-> file.version, rows |-> file.rows]
  BY Zenon, <1>1 DEF Queued
<1>4. 0 \in -Skew..Oldest /\ 1 \in 1..MaxRowid
  BY RelayAssumption DEF Oldest
<1>5. \A f \in fs : NewRow(1, 0, IF version = 1 THEN 0 ELSE priorityForFrame(f)) \in Row
  BY <1>2, <1>4, PriorityKnown, NewRowIsRow
<1>6. RowsInv
  BY Zenon, <1>1, <1>2, <1>3, <1>5 DEF RowsInv, Queued
<1>7. StateInv /\ CountInv
  BY Zenon DEF RelayInit, StateInv, CountInv, FreshMonitor
<1> QED BY Zenon, <1>6, <1>7 DEF RelayInv

\* Opening the file counts what is in it; the migrations and the end of the process
\* neither add nor delete rows.
LEMMA ProcessSteps ==
  ASSUME RelayInv, OpenQueue \/ migrateDeliveryQueue \/ QueueOpened \/ RelayStops
  PROVE  RelayInv'
<1> USE DEF RelayInv
<1>1. ItemsUsed \in Nat
  BY Zenon, FS_CardinalityType DEF RowsInv, ItemsUsed
<1>2. CASE OpenQueue
  <2>1. RowsInv' /\ ItemsUsed' = ItemsUsed /\ Queued' = Queued
    BY Zenon, <1>2 DEF OpenQueue, RowsInv, Queued, ItemsUsed
  <2>2. StateInv'
    BY Zenon, <1>1, <1>2 DEF OpenQueue, StateInv, FreshMonitor, RowsInv
  <2>3. CountInv'
    BY <1>1, <1>2, <2>1 DEF OpenQueue, CountInv, FreshMonitor
  <2> QED BY Zenon, <2>1, <2>2, <2>3
<1>3. CASE migrateDeliveryQueue
  <2>1. file' = [version |-> 3, rows |-> file.rows]
    BY Zenon, <1>3 DEF migrateDeliveryQueue, RowsInv
  <2>2. Queued' = Queued /\ file'.rows = file.rows /\ file'.version = 3
    BY Zenon, <2>1 DEF Queued
  <2>3. RowsInv' /\ ItemsUsed' = ItemsUsed
    BY <2>1, <2>2 DEF RowsInv, ItemsUsed
  <2> QED BY Zenon, <1>3, <2>2, <2>3 DEF migrateDeliveryQueue, StateInv, CountInv
<1>4. CASE QueueOpened
  <2>1. RowsInv' /\ ItemsUsed' = ItemsUsed /\ Queued' = Queued
    BY Zenon, <1>4 DEF QueueOpened, RowsInv, Queued, ItemsUsed
  <2> QED BY Zenon, <1>4, <2>1 DEF QueueOpened, StateInv, CountInv
<1>5. CASE RelayStops
  <2>1. RowsInv'
    BY Zenon, <1>5 DEF RelayStops, RowsInv, Queued
  <2> QED BY Zenon, <1>5, <2>1 DEF RelayStops, StateInv, CountInv
<1> QED BY Zenon, <1>2, <1>3, <1>4, <1>5

\* A step that rewrites rows without adding or deleting one.
LEMMA RowsRewritten ==
  ASSUME RelayInv, NEW rows \in [Queued -> Row], NEW v \in 1..3,
         file' = [version |-> v, rows |-> rows], UNCHANGED <<process, monitor, received, taken>>
  PROVE  RowsInv' /\ CountInv'
<1> USE DEF RelayInv
<1>1. Queued' = Queued /\ ItemsUsed' = ItemsUsed /\ file'.rows = rows /\ file'.version = v
  BY Zenon DEF Queued, ItemsUsed
<1>2. RowsInv'
  BY Zenon, <1>1 DEF RowsInv
<1> QED BY Zenon, <1>1, <1>2 DEF CountInv

\* The first migration and the passing of time rewrite every row.
LEMMA RewriteSteps ==
  ASSUME RelayInv, migratePriorityQueue \/ RelayTimePasses
  PROVE  RelayInv'
<1> USE DEF RelayInv
<1>1. StateInv'
  BY Zenon DEF migratePriorityQueue, RelayTimePasses, StateInv
<1>2. CASE migratePriorityQueue
  <2> DEFINE rows == [f \in Queued |-> [file.rows[f] EXCEPT !.priority = priorityForFrame(f)]]
  <2>1. file' = [version |-> 2, rows |-> rows] /\ UNCHANGED <<process, monitor, received, taken>>
    BY Zenon, <1>2 DEF migratePriorityQueue
  <2>2. ASSUME NEW f \in Queued PROVE [file.rows[f] EXCEPT !.priority = priorityForFrame(f)] \in Row
    <3>1. file.rows[f] \in Row /\ priorityForFrame(f) \in {100, 200, 300}
      BY PriorityKnown DEF RowsInv
    <3> QED BY <3>1 DEF Row
  <2>3. rows \in [Queued -> Row]
    BY Zenon, <2>2
  <2> HIDE DEF rows
  <2>4. 2 \in 1..3
    OBVIOUS
  <2> QED BY Zenon, <1>1, <2>1, <2>3, <2>4, RowsRewritten
<1>3. CASE RelayTimePasses
  <2> DEFINE row(f) == [file.rows[f] EXCEPT !.age = IF @ < Oldest THEN @ + 1 ELSE @,
                                            !.left = IF @ > 0 THEN @ - 1 ELSE @]
             rows == [f \in Queued |-> row(f)]
  <2>1. UNCHANGED <<process, monitor, received, taken>> /\ file' = [file EXCEPT !.rows = rows]
    BY Zenon, <1>3 DEF RelayTimePasses
  <2>2. ASSUME NEW f \in Queued PROVE row(f) \in Row
    <3>1. file.rows[f] \in Row
      BY Zenon DEF RowsInv
    <3> DEFINE age == IF file.rows[f].age < Oldest THEN file.rows[f].age + 1 ELSE file.rows[f].age
               left == IF file.rows[f].left > 0 THEN file.rows[f].left - 1 ELSE file.rows[f].left
    <3>2. age \in -Skew..Oldest /\ left \in 0..LeaseTime
      BY <3>1, RelayAssumption DEF Row, Oldest
    <3>3. row(f) = Held([file.rows[f] EXCEPT !.age = age], file.rows[f].holder, left)
      BY Zenon, <3>1 DEF Held, Row
    <3> HIDE DEF age, left
    <3>4. [file.rows[f] EXCEPT !.age = age] \in Row /\ file.rows[f].holder \in Uploader \cup {Unclaimed}
      BY <3>1, <3>2 DEF Row
    <3> QED BY <3>2, <3>3, <3>4, HeldIsRow
  <2>3. rows \in [Queued -> Row]
    BY Zenon, <2>2
  <2> HIDE DEF rows
  <2>4. file' = [version |-> file.version, rows |-> rows] /\ file.version \in 1..3
    BY Zenon, <2>1 DEF RowsInv
  <2> QED BY Zenon, <1>1, <2>1, <2>3, <2>4, RowsRewritten
<1> QED BY Zenon, <1>2, <1>3

\* Claim and Release write the token and the lease of one row.
LEMMA LeaseSteps ==
  ASSUME RelayInv, NEW u \in Uploader, Claim(u) \/ Release(u)
  PROVE  RelayInv'
<1> USE DEF RelayInv
<1>1. ASSUME NEW f \in Queued, NEW h \in Uploader \cup {Unclaimed}, NEW left \in 0..LeaseTime,
             file' = [file EXCEPT !.rows[f] = Held(@, h, left)],
             UNCHANGED <<process, monitor, received, taken>>
      PROVE  RowsInv' /\ CountInv'
  <2> DEFINE row == Held(file.rows[f], h, left)
  <2>1. row \in Row
    BY Zenon, HeldIsRow DEF RowsInv
  <2> HIDE DEF row
  <2>2. [file.rows EXCEPT ![f] = row] \in [Queued -> Row]
    BY Zenon, <2>1 DEF RowsInv
  <2>3. file' = [version |-> file.version, rows |-> [file.rows EXCEPT ![f] = row]]
    BY Zenon, <1>1 DEF RowsInv, row
  <2> QED BY Zenon, <1>1, <2>2, <2>3, RowsRewritten DEF RowsInv
<1>2. CASE Claim(u)
  <2>1. PICK f \in Queued : /\ file' = [file EXCEPT !.rows[f] = Held(@, u, LeaseTime)]
                            /\ deliveries' = [deliveries EXCEPT ![u] = f]
    BY Zenon, <1>2 DEF Claim, Head1st
  <2>2. UNCHANGED <<process, monitor, received, taken>> /\ process = "up"
    BY Zenon, <1>2 DEF Claim
  <2>3. RowsInv' /\ CountInv'
    BY <1>1, <2>1, <2>2, RelayAssumption
  <2>4. StateInv'
    BY Zenon, <2>1, <2>2 DEF StateInv, RowsInv
  <2> QED BY Zenon, <2>3, <2>4
<1>3. CASE Release(u)
  <2>1. UNCHANGED <<process, monitor, received, taken>> /\ deliveries' = [deliveries EXCEPT ![u] = Unclaimed]
    BY Zenon, <1>3 DEF Release
  <2>2. StateInv'
    BY Zenon, <2>1 DEF StateInv
  <2>3. CASE HoldsToken(u)
    <3>1. deliveries[u] \in Queued /\ file' = [file EXCEPT !.rows[deliveries[u]] = Held(@, Unclaimed, 0)]
      BY Zenon, <1>3, <2>3 DEF Release, HoldsToken
    <3> QED BY <1>1, <2>1, <2>2, <3>1, RelayAssumption
  <2>4. CASE ~HoldsToken(u)
    <3>1. file' = file
      BY Zenon, <1>3, <2>4 DEF Release
    <3> QED BY Zenon, <2>1, <2>2, <3>1 DEF RowsInv, CountInv, Queued, ItemsUsed
  <2> QED BY Zenon, <2>3, <2>4
<1> QED BY Zenon, <1>2, <1>3

\* An upload that arrives.
LEMMA DeliverStep ==
  ASSUME RelayInv, NEW u \in Uploader, Deliver(u)
  PROVE  RelayInv'
<1>1. UNCHANGED <<file, process, monitor, deliveries, taken>> /\ received' = received \cup {deliveries[u]}
  BY Zenon DEF Deliver
<1>2. deliveries[u] \in Frame
  BY Zenon DEF Deliver, RelayInv, StateInv
<1>3. Queued' = Queued /\ ItemsUsed' = ItemsUsed
  BY Zenon, <1>1 DEF Queued, ItemsUsed
<1> QED BY Zenon, <1>1, <1>2, <1>3 DEF RelayInv, RowsInv, StateInv, CountInv

\* A step that deletes rows.
LEMMA RowsDeleted ==
  ASSUME RelayInv, NEW S, S \subseteq Queued, file' = [file EXCEPT !.rows = Restrict(@, S)]
  PROVE  /\ RowsInv' /\ Queued' = S /\ IsFiniteSet(Queued \ S)
         /\ ItemsUsed' = ItemsUsed - Cardinality(Queued \ S) /\ ItemsUsed \in Nat
         /\ Cardinality(Queued \ S) \in Nat
<1> USE DEF RelayInv
<1>1. file' = [version |-> file.version, rows |-> [f \in S |-> file.rows[f]]]
  BY Zenon DEF RowsInv, Restrict
<1>2. Queued' = S
  BY <1>1 DEF Queued
<1>3. IsFiniteSet(S) /\ IsFiniteSet(Queued \ S) /\ IsFiniteSet(Queued)
  BY Zenon, FS_Subset, FS_Difference DEF RowsInv
<1>4. RowsInv'
  BY <1>1, <1>2, <1>3 DEF RowsInv
<1>5. Cardinality(Queued \ S) = Cardinality(Queued) - Cardinality(Queued \cap S) /\ Queued \cap S = S
  BY Zenon, <1>3, FS_Difference
<1>6. Cardinality(S) \in Nat /\ Cardinality(Queued) \in Nat /\ Cardinality(Queued \ S) \in Nat
  BY Zenon, <1>3, FS_CardinalityType
<1>7. ItemsUsed' = Cardinality(S) /\ ItemsUsed = Cardinality(Queued)
  BY Zenon, <1>2 DEF ItemsUsed
<1> QED BY <1>2, <1>3, <1>4, <1>5, <1>6, <1>7

\* An acknowledgement deletes the row it holds and counts it; a late one does neither.
LEMMA AcknowledgeStep ==
  ASSUME RelayInv, NEW u \in Uploader, Acknowledge(u)
  PROVE  RelayInv'
<1> USE DEF RelayInv
<1>1. /\ UNCHANGED <<process, received, taken>> /\ deliveries' = [deliveries EXCEPT ![u] = Unclaimed]
      /\ deliveries[u] \in received /\ deliveries[u] # Unclaimed
  BY Zenon DEF Acknowledge
<1>2. process = "up"
  BY Zenon, <1>1 DEF StateInv
<1>3. CASE HoldsToken(u)
  <2> DEFINE f == deliveries[u]
             S == Queued \ {f}
  <2>1. /\ file' = [file EXCEPT !.rows = Restrict(@, S)]
        /\ monitor' = [monitor EXCEPT !.acknowledged = @ + 1] /\ f \in Queued
    BY Zenon, <1>3 DEF Acknowledge, HoldsToken
  <2>2. Queued \ S = {f} /\ Cardinality({f}) = 1 /\ S \subseteq Queued
    BY Zenon, <2>1, FS_Singleton
  <2> HIDE DEF S
  <2>3. RowsInv' /\ Queued' = S /\ ItemsUsed' = ItemsUsed - 1 /\ ItemsUsed \in Nat
    BY Zenon, <2>1, <2>2, RowsDeleted
  <2>4. StateInv'
    BY <1>1, <2>1 DEF StateInv
  <2>5. CountInv'
    <3>1. /\ monitor'.acknowledged = monitor.acknowledged + 1 /\ monitor'.expired = monitor.expired
          /\ monitor'.accepted = monitor.accepted
      BY Zenon, <2>1 DEF StateInv
    <3>2. /\ ItemsUsed + monitor.acknowledged + monitor.expired = taken.found + monitor.accepted
          /\ taken.frames \subseteq Queued \cup received \/ monitor.expired > 0
      BY Zenon, <1>2 DEF CountInv
    <3>3. monitor.acknowledged \in Nat /\ monitor.expired \in Nat
      BY Zenon DEF StateInv
    <3>4. Queued \cup received = Queued' \cup received'
      BY Zenon, <1>1, <2>3, <2>1 DEF S
    <3> QED BY <1>1, <2>3, <3>1, <3>2, <3>3, <3>4 DEF CountInv
  <2> QED BY Zenon, <2>3, <2>4, <2>5
<1>4. CASE ~HoldsToken(u)
  <2>1. UNCHANGED <<file, monitor>>
    BY Zenon, <1>4 DEF Acknowledge
  <2> QED BY Zenon, <1>1, <2>1 DEF RowsInv, StateInv, CountInv, Queued, ItemsUsed
<1> QED BY Zenon, <1>3, <1>4

\* PurgeExpired deletes what is too old and counts it.
LEMMA PurgeStep ==
  ASSUME RelayInv, PurgeExpired
  PROVE  RelayInv'
<1> USE DEF RelayInv
<1> DEFINE n == Cardinality(Queued \ Kept)
<1>1. /\ UNCHANGED <<process, deliveries, received, taken>> /\ process = "up"
      /\ file' = [file EXCEPT !.rows = Restrict(@, Kept)] /\ monitor' = [monitor EXCEPT !.expired = @ + n]
  BY Zenon DEF PurgeExpired
<1>2. Kept \subseteq Queued
  BY Zenon DEF Kept
<1>3. /\ RowsInv' /\ Queued' = Kept /\ ItemsUsed' = ItemsUsed - n /\ ItemsUsed \in Nat /\ n \in Nat
      /\ IsFiniteSet(Queued \ Kept)
  BY Zenon, <1>1, <1>2, RowsDeleted
<1>4. n = 0 => Queued \ Kept = {}
  BY Zenon, <1>3, FS_EmptySet
<1> HIDE DEF n
<1>5. StateInv'
  BY <1>1, <1>3 DEF StateInv
<1>6. /\ monitor'.acknowledged = monitor.acknowledged /\ monitor'.expired = monitor.expired + n
      /\ monitor'.accepted = monitor.accepted /\ monitor.acknowledged \in Nat /\ monitor.expired \in Nat
  BY Zenon, <1>1 DEF StateInv
<1>7. CountInv'
  BY <1>1, <1>3, <1>4, <1>6 DEF CountInv
<1> QED BY Zenon, <1>3, <1>5, <1>7

\* Enqueue inserts a row under a message_id that is not there, or counts a rejection.
LEMMA EnqueueStep ==
  ASSUME RelayInv, NEW f \in Frame, NEW age \in -(Skew + 1)..Oldest, Enqueue(f, age)
  PROVE  RelayInv'
<1> USE DEF RelayInv
<1>1. UNCHANGED <<process, deliveries, received>> /\ process = "up"
  BY Zenon DEF Enqueue
<1>2. CASE EnqueueResult(f, age) = "accepted"
  <2>1. PICK rowid \in NewRowid : file' = [file EXCEPT !.rows = [g \in Queued \cup {f} |->
          IF g = f THEN NewRow(rowid, age, priorityForFrame(f)) ELSE file.rows[g]]]
    BY Zenon, <1>2 DEF Enqueue
  <2>2. /\ monitor' = [monitor EXCEPT !.accepted = @ + 1] /\ taken' = [taken EXCEPT !.frames = @ \cup {f}]
    BY Zenon, <1>2 DEF Enqueue, RecordEnqueue
  <2>3. f \notin Queued /\ ValidateFrame(age)
    BY Zenon, <1>2 DEF EnqueueResult
  <2> DEFINE row == NewRow(rowid, age, priorityForFrame(f))
             rows == [g \in Queued \cup {f} |-> IF g = f THEN row ELSE file.rows[g]]
  <2>4. age \in -Skew..Oldest
    BY <2>3, RelayAssumption DEF ValidateFrame, Oldest
  <2>5. row \in Row
    BY <2>4, PriorityKnown, NewRowIsRow DEF NewRowid
  <2> HIDE DEF row
  <2>6. rows \in [Queued \cup {f} -> Row]
    BY Zenon, <2>5 DEF RowsInv
  <2>7. file' = [version |-> file.version, rows |-> rows]
    BY Zenon, <2>1 DEF RowsInv, row
  <2> HIDE DEF rows
  <2>8. Queued' = Queued \cup {f} /\ file'.rows = rows /\ file'.version = file.version
    BY Zenon, <2>6, <2>7 DEF Queued
  <2>9. IsFiniteSet(Queued \cup {f}) /\ Cardinality(Queued \cup {f}) = Cardinality(Queued) + 1
    BY Zenon, <2>3, FS_AddElement DEF RowsInv
  <2>10. RowsInv' /\ ItemsUsed' = ItemsUsed + 1 /\ ItemsUsed \in Nat
    BY Zenon, <2>6, <2>7, <2>8, <2>9, FS_CardinalityType DEF RowsInv, ItemsUsed
  <2>11. StateInv'
    BY <1>1, <2>2 DEF StateInv
  <2>12. CountInv'
    <3>1. /\ monitor'.acknowledged = monitor.acknowledged /\ monitor'.expired = monitor.expired
          /\ monitor'.accepted = monitor.accepted + 1 /\ monitor.accepted \in Nat
          /\ monitor.acknowledged \in Nat /\ monitor.expired \in Nat
          /\ taken'.frames = taken.frames \cup {f} /\ taken'.found = taken.found /\ taken.found \in Nat
      BY Zenon, <2>2 DEF StateInv
    <3>2. /\ ItemsUsed + monitor.acknowledged + monitor.expired = taken.found + monitor.accepted
          /\ taken.frames \subseteq Queued \cup received \/ monitor.expired > 0
      BY Zenon, <1>1 DEF CountInv
    <3> QED BY <1>1, <2>8, <2>10, <3>1, <3>2 DEF CountInv
  <2> QED BY Zenon, <2>10, <2>11, <2>12
<1>3. CASE EnqueueResult(f, age) # "accepted"
  <2>1. /\ UNCHANGED <<file, taken>>
        /\ monitor' = monitor \/ monitor' = [monitor EXCEPT !.capacity = @ + 1]
    BY Zenon, <1>3 DEF Enqueue, RecordEnqueue, EnqueueResult
  <2>2. RowsInv' /\ Queued' = Queued /\ ItemsUsed' = ItemsUsed
    BY Zenon, <2>1 DEF RowsInv, Queued, ItemsUsed
  <2>3. StateInv'
    BY <1>1, <2>1 DEF StateInv
  <2>4. CountInv'
    BY Zenon, <1>1, <2>1, <2>2 DEF CountInv, StateInv
  <2> QED BY Zenon, <2>2, <2>3, <2>4
<1> QED BY Zenon, <1>2, <1>3

\* The invariant is inductive.
LEMMA RelayStep == RelayInv /\ [RelayNext]_relayVars => RelayInv'
<1> SUFFICES ASSUME RelayInv, [RelayNext]_relayVars PROVE RelayInv'
  BY Zenon
<1>1. CASE UNCHANGED relayVars
  BY Zenon, <1>1 DEF relayVars, RelayInv, RowsInv, StateInv, CountInv, Queued, ItemsUsed
<1>2. CASE RelayNext
  BY Zenon, <1>2, ProcessSteps, RewriteSteps, LeaseSteps, DeliverStep, AcknowledgeStep, PurgeStep, EnqueueStep
  DEF RelayNext
<1> QED BY Zenon, <1>1, <1>2

\* The invariant of the specification.
THEOREM RelayInvariance == RelaySpec => []RelayInv
<1> QED BY RelayBegins, RelayStep, PTL DEF RelaySpec

\* The counters of the monitor and the rows of the file account for every frame, and
\* a frame that was purged shows in the relay's health (Acknowledge, PurgeExpired).
THEOREM FramesStayAccounted == RelaySpec => []FramesAccounted
<1>1. RelayInv => FramesAccounted
  <2>1. monitor.expired > 0 => classifyRelayHealth(0, 0) = "degraded"
    BY DEF classifyRelayHealth
  <2> QED BY Zenon, <2>1 DEF RelayInv, CountInv, FramesAccounted
<1> QED BY <1>1, RelayInvariance, PTL

\* PurgeExpired removes every frame on which Claim gives its error.
THEOREM PurgeAlwaysUnblocks == RelaySpec => []PurgeUnblocksClaim
<1>1. RelayInv => PurgeUnblocksClaim
  <2> SUFFICES ASSUME RelayInv, NEW f \in Queued, ~ValidateFrame(file.rows[f].age) PROVE f \notin Kept
    BY Zenon DEF PurgeUnblocksClaim, Head1st
  <2>1. file.rows[f].age \in -Skew..Oldest
    BY DEF RelayInv, RowsInv, Row
  <2> QED BY <2>1, RelayAssumption DEF ValidateFrame, Kept, validateQueueLimits, Oldest
<1> QED BY <1>1, RelayInvariance, PTL

-----------------------------------------------------------------------------
(***************************************************************************)
(* Failover between approved routes is right for any routes, any threshold *)
(* and any number of observations in a call.                               *)
(***************************************************************************)

\* A set of positions that is not empty has a first one, so the CHOOSE in Select,
\* which stands for the first turn of its loop that does not continue, has a value.
LEMMA FirstPosition ==
  ASSUME NEW T, T \subseteq Nat, T # {}
  PROVE  \E i \in T : \A j \in T : i <= j
<1> DEFINE R == OpToRel(<, Nat)
<1>1. PICK i \in T : \A j \in T : ~(<<j, i>> \in R)
  <2>1. IsWellFoundedOn(R, Nat)
    BY Zenon, NatLessThanWellFounded
  <2> HIDE DEF R
  <2> QED BY Zenon, <2>1, WFMin
<1>2. \A j \in T : ~(j < i)
  BY Zenon, <1>1 DEF OpToRel
<1> QED BY <1>2

\* The routes that are available were observed: NoRoute is none of them.
LEMMA AvailableKnown ==
  ASSUME NEW seen
  PROVE  availableRouteIDs(seen) \subseteq Approved \cup {Stranger}
BY Zenon DEF availableRouteIDs

\* The routes the loop of Select may take are approved and available.
LEMMA CandidatesApproved ==
  ASSUME NEW health, NEW i \in Candidates(health)
  PROVE  Routes[i] \in health \cap Approved /\ Routes[i] # active /\ i \in Nat
BY RoutesAssumption DEF Candidates, Approved, Range

\* When there is none, the active route is the only approved one available.
LEMMA NoCandidates ==
  ASSUME NEW health, Candidates(health) = {}
  PROVE  health \cap Approved \subseteq {active}
BY Zenon DEF Candidates, Approved, Range

Answer == [call : {"new", "select", "server"}, route : Approved \cup {NoRoute},
           previous : Approved \cup {NoRoute}, failures : 0..FailureThreshold,
           available : SUBSET (Approved \cup {Stranger})]

\* The inductive invariant: RoutesServed needs the types, among them that NoRoute
\* is never available and that failures stop at the threshold.
RoutesInv ==
  /\ active \in Approved \cup {NoRoute} /\ failures \in 0..FailureThreshold
  /\ answer \in Answer /\ RoutesServed

\* NewFailoverController starts with the invariant.
LEMMA RoutesBegin == RoutesInit => RoutesInv
BY RoutesAssumption DEF RoutesInit, RoutesInv, RoutesServed, Answer

\* Select keeps it: the active route goes on, no other is left, or the first other
\* available one takes over.
LEMMA SelectKeeps ==
  ASSUME RoutesInv, NEW seen, Select(seen)
  PROVE  RoutesInv'
<1> DEFINE health == availableRouteIDs(seen)
<1>1. health \subseteq Approved \cup {Stranger}
  BY Zenon, AvailableKnown
<1>2. /\ active \in Approved \cup {NoRoute} /\ failures \in 0..FailureThreshold
      /\ FailureThreshold \in Nat \ {0} /\ NoRoute \notin Approved \cup {Stranger}
  BY RoutesAssumption DEF RoutesInv
<1> HIDE DEF health
<1>3. CASE active # NoRoute /\ failures < FailureThreshold /\ active \in health
  <2>1. /\ UNCHANGED <<active, failures>>
        /\ answer' = [call |-> "select", route |-> active, previous |-> active,
                      failures |-> failures, available |-> health]
    BY Zenon, <1>3 DEF Select, Decided, health
  <2> QED BY Zenon, <1>1, <1>2, <1>3, <2>1 DEF RoutesInv, RoutesServed, Answer
<1>4. CASE /\ ~(active # NoRoute /\ failures < FailureThreshold /\ active \in health)
           /\ Candidates(health) = {}
  <2>1. /\ UNCHANGED <<active, failures>>
        /\ answer' = [call |-> "select", route |-> NoRoute, previous |-> active,
                      failures |-> failures, available |-> health]
    BY Zenon, <1>4 DEF Select, Decided, health
  <2>2. health \cap Approved \subseteq {active}
    BY Zenon, <1>4, NoCandidates
  <2> QED BY Zenon, <1>1, <1>2, <2>1, <2>2 DEF RoutesInv, RoutesServed, Answer
<1>5. CASE /\ ~(active # NoRoute /\ failures < FailureThreshold /\ active \in health)
           /\ Candidates(health) # {}
  <2> DEFINE first == CHOOSE i \in Candidates(health) : \A j \in Candidates(health) : i <= j
  <2>1. first \in Candidates(health)
    BY Zenon, <1>5, CandidatesApproved, FirstPosition
  <2>2. Routes[first] \in health \cap Approved /\ Routes[first] # active
    BY Zenon, <2>1, CandidatesApproved
  <2>3. /\ active' = Routes[first] /\ failures' = 0
        /\ answer' = [call |-> "select", route |-> Routes[first], previous |-> active,
                      failures |-> failures, available |-> health]
    BY Zenon, <1>5 DEF Select, Decided, health
  <2> HIDE DEF first
  <2>4. active \notin health \/ failures = FailureThreshold
    BY <1>1, <1>2, <1>5
  <2> QED BY <1>1, <1>2, <2>2, <2>3, <2>4 DEF RoutesInv, RoutesServed, Answer
<1> QED BY Zenon, <1>3, <1>4, <1>5

\* SelectApprovedRoute keeps it, whether it follows the server or refuses.
LEMMA ServerKeeps ==
  ASSUME RoutesInv, NEW route, NEW seen, SelectApprovedRoute(route, seen)
  PROVE  RoutesInv'
<1> DEFINE health == availableRouteIDs(seen)
<1>1. health \subseteq Approved \cup {Stranger}
  BY Zenon, AvailableKnown
<1>2. /\ active \in Approved \cup {NoRoute} /\ failures \in 0..FailureThreshold
      /\ FailureThreshold \in Nat \ {0} /\ NoRoute \notin Approved \cup {Stranger}
  BY RoutesAssumption DEF RoutesInv
<1> HIDE DEF health
<1>3. CASE route \in health \cap Approved
  <2>1. /\ active' = route /\ failures' = 0
        /\ answer' = [call |-> "server", route |-> route, previous |-> active,
                      failures |-> failures, available |-> health]
    BY Zenon, <1>3 DEF SelectApprovedRoute, Decided, health
  <2> QED BY <1>1, <1>2, <1>3, <2>1 DEF RoutesInv, RoutesServed, Answer
<1>4. CASE route \notin health \cap Approved
  <2>1. /\ UNCHANGED <<active, failures>>
        /\ answer' = [call |-> "server", route |-> NoRoute, previous |-> active,
                      failures |-> failures, available |-> health]
    BY Zenon, <1>4 DEF SelectApprovedRoute, Decided, health
  <2> QED BY Zenon, <1>1, <1>2, <2>1 DEF RoutesInv, RoutesServed, Answer
<1> QED BY Zenon, <1>3, <1>4

\* RecordDelivery keeps it: failures are counted up to the threshold.
LEMMA DeliveryKeeps ==
  ASSUME RoutesInv, NEW route, NEW succeeded, RecordDelivery(route, succeeded)
  PROVE  RoutesInv'
BY RoutesAssumption DEF RoutesInv, RoutesServed, RecordDelivery

(* Failover neither gives up early nor moves without a reason, for any     *)
(* approved routes, threshold and observations: what Select and            *)
(* SelectApprovedRoute of failover.go answer satisfies RoutesServed.       *)
THEOREM RoutesAreServed == RoutesSpec => []RoutesServed
<1>1. RoutesInv /\ [RoutesNext]_routeVars => RoutesInv'
  <2> SUFFICES ASSUME RoutesInv, [RoutesNext]_routeVars
               PROVE  RoutesInv'
    BY Zenon
  <2>1. CASE UNCHANGED routeVars
    BY Zenon, <2>1 DEF RoutesInv, RoutesServed, routeVars
  <2>2. ASSUME NEW seen \in Observations, Select(seen)
        PROVE  RoutesInv'
    BY Zenon, <2>2, SelectKeeps
  <2>3. ASSUME NEW seen \in Observations, NEW r \in Approved \cup {Stranger},
               SelectApprovedRoute(r, seen)
        PROVE  RoutesInv'
    BY Zenon, <2>3, ServerKeeps
  <2>4. ASSUME NEW r \in Approved, NEW ok \in BOOLEAN, RecordDelivery(r, ok)
        PROVE  RoutesInv'
    BY Zenon, <2>4, DeliveryKeeps
  <2> QED BY Zenon, <2>1, <2>2, <2>3, <2>4 DEF RoutesNext
<1>2. RoutesInv => RoutesServed
  BY Zenon DEF RoutesInv
<1> QED BY RoutesBegin, <1>1, <1>2, PTL DEF RoutesSpec
=============================================================================
