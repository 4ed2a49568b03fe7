----------------------------- MODULE FleetStore -----------------------------
(***************************************************************************)
(* The fleet functions of the SQLite store, each as what it does to the    *)
(* database: endpoints and their inventories, agent updates and modules,   *)
(* relays and their policies, coverage, maintenance and scanner workers.   *)
(* Like AccountStore it is the reference for the PostgreSQL store.         *)
(***************************************************************************)
EXTENDS StoreRows

\* The row of an endpoint, a relay or a worker that was not revoked.
Active(id) == [id |-> {id}, status |-> {"active"}]
ActiveRelay(endpoint) == [endpoint |-> {endpoint}, status |-> {"active"}]

\* The key of a row that belongs to two others.
Pair(a, b) == a \o "/" \o b

\* UPDATE of rows that must be there, with its audit event.
Changed(c, d, t, where, set) ==
  Result(Found(d, t, where) # {}, d, Audited(Updated(d, t, where, set), c))

\* INSERT of a row its user created, with its audit event.
Created(c, d, t, row) == Result(Fits(d, t, row, Actor(c)), d, Audited(Put(d, t, row), c))
----------------------------------------------------------------------------
\* Endpoints.
NewToken(c) == [id |-> c.token, used |-> ""]
Unspent(c) == [id |-> {c.token}, used |-> {""}]
CreateAgentEnrollmentToken(c, d) == Created(c, d, "tokens", NewToken(c))

NewEndpoint(c) ==
  [id |-> c.endpoint, status |-> "active", serial |-> c.by, os |-> "", seen |-> "",
   collectors |-> "", exclusions |-> "", asset |-> ""]
ConsumeAgentEnrollmentToken(c, d) ==
  Result(/\ Found(d, "tokens", Unspent(c)) # {}
         /\ Fits(d, "endpoints", NewEndpoint(c), {}),
         d,
         Audited(Put(Updated(d, "tokens", Unspent(c), [used |-> c.by]),
                     "endpoints", NewEndpoint(c)), c))

Serving(c) == [id |-> {c.endpoint}, serial |-> {c.serial}, status |-> {"active"}]
RenewEndpointCertificate(c, d) == Changed(c, d, "endpoints", Serving(c), [serial |-> c.by])
RevokeEndpoint(c, d) == Changed(c, d, "endpoints", Active(c.endpoint), [status |-> "revoked"])
SetEndpointCollectors(c, d) ==
  Changed(c, d, "endpoints", Active(c.endpoint), [collectors |-> c.by])
SetEndpointNetworkExclusions(c, d) ==
  Changed(c, d, "endpoints", Active(c.endpoint), [exclusions |-> c.by])
MarkEndpointSeen(c, d) ==
  Done(Updated(d, "endpoints", Active(c.endpoint), [seen |-> c.by]))

\* A check-in of the assigned version is what completes an assignment.
Reported(c, d) ==
  [id |-> {c.endpoint}, status |-> {"assigned", "offered"},
   release |-> Found(d, "releases", [version |-> {c.version}])]
RecordEndpointCheckIn(c, d) ==
  Result(Found(d, "endpoints", Active(c.endpoint)) # {}, d,
         Updated(Updated(d, "endpoints", Active(c.endpoint), [seen |-> c.by, os |-> c.os]),
                 "assignments", Reported(c, d), [status |-> "installed"]))

LinkEndpointAsset(c, d) ==
  Result(/\ Found(d, "endpoints", Active(c.endpoint)) # {}
         /\ c.asset \in DOMAIN d.assets,
         d, Audited(Updated(d, "endpoints", Active(c.endpoint), [asset |-> c.asset]), c))
----------------------------------------------------------------------------
\* Agent updates.
Release(c) == [id |-> c.release, version |-> c.version, os |-> c.os, status |-> "staged"]
CreateAgentUpdateRelease(c, d) == Created(c, d, "releases", Release(c))

InStatus(c, from) == [id |-> {c.release}, status |-> {from}]
TransitionAgentUpdate(c, d, from, to) ==
  Changed(c, d, "releases", InStatus(c, from), [status |-> to])
ApproveAgentUpdateRelease(c, d) == TransitionAgentUpdate(c, d, "staged", "approved")
RevokeAgentUpdateRelease(c, d) == TransitionAgentUpdate(c, d, "approved", "revoked")

Assignment(c) ==
  [id |-> c.endpoint, release |-> c.release, status |-> "assigned", offered |-> ""]
AssignAgentUpdate(c, d) ==
  Result(/\ Found(d, "endpoints", Active(c.endpoint)) # {}
         /\ d.endpoints[c.endpoint].os # ""
         /\ Found(d, "releases", InStatus(c, "approved")) # {}
         /\ d.endpoints[c.endpoint].os = d.releases[c.release].os,
         d, Audited(Put(d, "assignments", Assignment(c)), c))

\* offered_at keeps the time of the first offer.
Open(c) == [id |-> {c.endpoint}, status |-> {"assigned", "offered"}]
Offered(row, c) == [status |-> "offered", offered |-> IF row.offered = "" THEN c.by ELSE row.offered]
AgentUpdateOffer(c, d) ==
  LET row == d.assignments[c.endpoint]
      offer == /\ Found(d, "assignments", Open(c)) # {}
               /\ d.releases[row.release].status = "approved"
               /\ d.endpoints[c.endpoint].status = "active"
               /\ d.releases[row.release].os = d.endpoints[c.endpoint].os
  IN  Done(IF offer THEN Updated(d, "assignments", [id |-> {c.endpoint}], Offered(row, c)) ELSE d)
----------------------------------------------------------------------------
\* Agent modules.
Publisher(c) == [id |-> c.publisher, enabled |-> c.enabled]
SaveAgentModulePublisher(c, d) == Done(Audited(Put(d, "publishers", Publisher(c)), c))

Module(c) == [id |-> c.release, status |-> "staged"]
CreateAgentModuleRelease(c, d) == Created(c, d, "modules", Module(c))
TransitionAgentModuleRelease(c, d) ==
  Changed(c, d, "modules", InStatus(c, c.from), [status |-> c.to])

\* An active endpoint, or a group.
ValidateModuleAssignmentTarget(c) ==
  IF c.kind = "endpoint" THEN Active(c.target) ELSE [id |-> {c.target}]
TargetTable(c) == IF c.kind = "endpoint" THEN "endpoints" ELSE "groups"
ModuleAssignment(c) ==
  [id |-> Pair(c.release, c.target), release |-> c.release, target |-> c.target, ring |-> c.by]
SaveAgentModuleAssignment(c, d) ==
  Result(/\ Found(d, TargetTable(c), ValidateModuleAssignmentTarget(c)) # {}
         /\ Found(d, "modules", InStatus(c, "approved")) # {},
         d, Audited(Put(d, "rings", ModuleAssignment(c)), c))

\* One report per module of the endpoint.
ModuleHealth(c) == [id |-> Pair(c.endpoint, c.module), healthy |-> c.by]
RecordAgentModuleHealth(c, d) ==
  Result(c.endpoint \in DOMAIN d.endpoints, d, Put(d, "health", ModuleHealth(c)))

\* The one row of a settings table.
SetSetting(c, d, name) ==
  Done(Audited(Updated(d, "settings", [id |-> {name}], [value |-> c.by]), c))
SetAgentModulesEnabled(c, d) == SetSetting(c, d, "modules")
SetEndpointCoverageSettings(c, d) == SetSetting(c, d, "coverage")
SetEndpointHeartbeatSettings(c, d) == SetSetting(c, d, "heartbeat")
SetScannerWorkerDispatch(c, d) == SetSetting(c, d, "dispatch")
----------------------------------------------------------------------------
\* Relays, and the endpoints that report through them.
Relay(c) == [id |-> c.by, endpoint |-> c.relay, status |-> "active"]
PromoteEndpointRelay(c, d) ==
  Result(/\ Found(d, "endpoints", Active(c.relay)) # {}
         /\ Found(d, "relays", ActiveRelay(c.relay)) = {},
         d, Audited(Put(d, "relays", Relay(c)), c))

\* The second event, for the endpoints that lose their relay with it.
AlsoAuditRow(c) == [id |-> c.also, age |-> "new"]
Behind(c) == [relay |-> {c.relay}, status |-> {"active"}]
RevokeEndpointRelay(c, d) ==
  LET revoked == Updated(Updated(d, "relays", ActiveRelay(c.relay), [status |-> "revoked"]),
                         "downstreams", Behind(c), [status |-> "revoked"])
  IN  Result(Found(d, "relays", ActiveRelay(c.relay)) # {}, d,
             Audited(IF Found(d, "downstreams", Behind(c)) = {}
                       THEN revoked
                       ELSE Put(revoked, "audit", AlsoAuditRow(c)), c))

Downstream(c) ==
  [id |-> c.by, relay |-> c.relay, endpoint |-> c.endpoint, status |-> "active"]
AuthorizeRelayDownstream(c, d) ==
  Result(/\ c.relay # c.endpoint
         /\ Found(d, "relays", ActiveRelay(c.relay)) # {}
         /\ Found(d, "endpoints", Active(c.relay)) # {}
         /\ Found(d, "endpoints", Active(c.endpoint)) # {}
         /\ Found(d, "downstreams", ActiveRelay(c.endpoint)) = {},
         d, Audited(Put(d, "downstreams", Downstream(c)), c))

Reports(c) == [relay |-> {c.relay}, endpoint |-> {c.endpoint}, status |-> {"active"}]
RevokeRelayDownstream(c, d) == Changed(c, d, "downstreams", Reports(c), [status |-> "revoked"])

\* A window or a policy is for an endpoint, revoked or not, or for a group.
MaintenanceTargetExists(c) == [id |-> {c.target}]
ForTarget(c, d, t, row) ==
  Result(Found(d, TargetTable(c), MaintenanceTargetExists(c)) # {}, d, Audited(Put(d, t, row), c))

UploadWindow(c) == [id |-> c.window, target |-> c.target, value |-> c.by]
UpsertRelayUploadWindow(c, d) == ForTarget(c, d, "windows", UploadWindow(c))
DelayedPolicy(c) == [id |-> c.target, value |-> c.by]
UpsertDelayedHeartbeatPolicy(c, d) == ForTarget(c, d, "delayed", DelayedPolicy(c))
DeleteDelayedHeartbeatPolicy(c, d) ==
  Result(c.target \in DOMAIN d.delayed, d, Audited(Deleted(d, "delayed", [id |-> {c.target}]), c))

Maintenance(c) == [id |-> c.by, target |-> c.target, cancelled |-> ""]
CreateEndpointMaintenanceWindow(c, d) == ForTarget(c, d, "maintenance", Maintenance(c))
Cancellable(c) == [id |-> {c.window}, cancelled |-> {""}]
CancelEndpointMaintenanceWindow(c, d) ==
  Changed(c, d, "maintenance", Cancellable(c), [cancelled |-> c.by])

\* A policy keeps who created it; a caller that creates none finds no row.
DiscoveryPolicy(c) == [id |-> c.policy, created |-> c.created, updated |-> c.by]
SaveCoverageDiscoveryPolicy(c, d) ==
  LET known == c.policy \in DOMAIN d.discovery IN
    Result(known \/ c.created # "", d,
           Audited(IF known
                     THEN Updated(d, "discovery", [id |-> {c.policy}], [updated |-> c.by])
                     ELSE Put(d, "discovery", DiscoveryPolicy(c)), c))
----------------------------------------------------------------------------
\* Scanner workers.
CreateWorkerEnrollmentToken(c, d) == Created(c, d, "tokens", NewToken(c))
NewWorker(c) == [id |-> c.worker, status |-> "active", seen |-> "", dispatch |-> ""]
ConsumeWorkerEnrollmentToken(c, d) ==
  Result(/\ Found(d, "tokens", Unspent(c)) # {}
         /\ Fits(d, "workers", NewWorker(c), {}),
         d,
         Audited(Put(Updated(d, "tokens", Unspent(c), [used |-> c.by]), "workers", NewWorker(c)), c))
RecordScannerWorkerHeartbeat(c, d) ==
  Result(Found(d, "workers", Active(c.worker)) # {}, d,
         Updated(d, "workers", Active(c.worker), [seen |-> c.by]))
RevokeScannerWorker(c, d) == Changed(c, d, "workers", Active(c.worker), [status |-> "revoked"])
SetScannerWorkerDispatchForWorker(c, d) ==
  Changed(c, d, "workers", Active(c.worker), [dispatch |-> c.by])
----------------------------------------------------------------------------
\* Inventories: a header row and its items, replaced together.
Header(c) == [id |-> c.endpoint, at |-> c.by]
Item(c) == [id |-> Pair(c.endpoint, c.ordinal), endpoint |-> c.endpoint, what |-> c.what]
Of(endpoint) == [endpoint |-> {endpoint}]
Replaced(c, d, header, items) ==
  Put(Deleted(Put(d, header, Header(c)), items, Of(c.endpoint)), items, Item(c))
RecordInventory(c, d, after) == Result(Found(d, "endpoints", Active(c.endpoint)) # {}, d, after)

RecordEndpointOSInventory(c, d) == RecordInventory(c, d, Replaced(c, d, "os", "patches"))
RecordEndpointListeningInventory(c, d) ==
  RecordInventory(c, d, Replaced(c, d, "listening", "services"))
RecordEndpointPostureInventory(c, d) ==
  RecordInventory(c, d, Replaced(c, d, "posture", "evidence"))

\* The CVEs whose products are installed.
CVEMatch(endpoint, product, item) ==
  [id |-> Pair(endpoint, product.id), endpoint |-> endpoint, what |-> item.what]
CVEMatches(endpoint, software, products) ==
  {CVEMatch(endpoint, m[1], m[2]) :
     m \in {x \in products \X software : x[1].what = x[2].what}}
RefreshEndpointCVEMatches(c, d) ==
  Done(PutRows(Deleted(d, "cvematches", Of(c.endpoint)), "cvematches",
              CVEMatches(c.endpoint, Rows(d, "software", Of(c.endpoint)), Rows(d, "products", <<>>))))
RecordEndpointSoftwareInventory(c, d) ==
  RecordInventory(c, d, RefreshEndpointCVEMatches(c, Replaced(c, d, "installed", "software")).db)

\* The indicators that are enabled and in force, and the connections they name.
InForce == [enabled |-> {TRUE}, observed |-> {"past"}, expires |-> {"later"}]
IndicatorMatch(indicator, connection) ==
  [id |-> Pair(indicator.id, connection.id), endpoint |-> connection.endpoint]
IndicatorMatches(connections, indicators) ==
  {IndicatorMatch(m[1], m[2]) : m \in {x \in indicators \X connections : x[1].what = x[2].what}}
RefreshEndpointIndicatorMatches(endpoint, d) ==
  PutRows(Deleted(d, "indicatormatches", Of(endpoint)), "indicatormatches",
          IndicatorMatches(Rows(d, "connections", Of(endpoint)), Rows(d, "indicators", InForce)))
RecordEndpointNetworkInventory(c, d) ==
  RecordInventory(c, d,
    RefreshEndpointIndicatorMatches(c.endpoint, Replaced(c, d, "network", "connections")))

Indicator(c) ==
  [id |-> c.indicator, what |-> c.what, enabled |-> c.enabled, observed |-> c.observed,
   expires |-> "later"]
\* A changed indicator is compared with every network inventory.
RefreshAllIndicatorMatches(d) ==
  PutRows(Deleted(d, "indicatormatches", [endpoint |-> DOMAIN d.network]), "indicatormatches",
          IndicatorMatches(Rows(d, "connections", <<>>), Rows(d, "indicators", InForce)))
UpsertThreatIndicator(c, d) ==
  Done(Audited(RefreshAllIndicatorMatches(Put(d, "indicators", Indicator(c))), c))

\* The last snapshot of an endpoint's own files, and the changes it brought.
Snapshot(c) == [id |-> c.endpoint, sequence |-> c.sequence, hash |-> c.hash]
IntegrityEvent(c) == [id |-> Pair(c.endpoint, c.by), hash |-> c.hash]
RecordEndpointIntegritySnapshot(c, d) ==
  LET known == c.endpoint \in DOMAIN d.snapshots
      changed == known /\ d.snapshots[c.endpoint].hash # c.hash
  IN  Result(/\ Found(d, "endpoints", Active(c.endpoint)) # {}
             /\ known => c.sequence > d.snapshots[c.endpoint].sequence,
             d,
             Put(IF changed THEN Put(d, "changes", IntegrityEvent(c)) ELSE d,
                 "snapshots", Snapshot(c)))
----------------------------------------------------------------------------
\* The fleet function a call names.
FleetCall(c, d) ==
  CASE c.op = "CreateAgentEnrollmentToken" -> CreateAgentEnrollmentToken(c, d)
    [] c.op = "ConsumeAgentEnrollmentToken" -> ConsumeAgentEnrollmentToken(c, d)
    [] c.op = "RenewEndpointCertificate" -> RenewEndpointCertificate(c, d)
    [] c.op = "RevokeEndpoint" -> RevokeEndpoint(c, d)
    [] c.op = "SetEndpointCollectors" -> SetEndpointCollectors(c, d)
    [] c.op = "SetEndpointNetworkExclusions" -> SetEndpointNetworkExclusions(c, d)
    [] c.op = "MarkEndpointSeen" -> MarkEndpointSeen(c, d)
    [] c.op = "RecordEndpointCheckIn" -> RecordEndpointCheckIn(c, d)
    [] c.op = "LinkEndpointAsset" -> LinkEndpointAsset(c, d)
    [] c.op = "CreateAgentUpdateRelease" -> CreateAgentUpdateRelease(c, d)
    [] c.op = "ApproveAgentUpdateRelease" -> ApproveAgentUpdateRelease(c, d)
    [] c.op = "RevokeAgentUpdateRelease" -> RevokeAgentUpdateRelease(c, d)
    [] c.op = "AssignAgentUpdate" -> AssignAgentUpdate(c, d)
    [] c.op = "AgentUpdateOffer" -> AgentUpdateOffer(c, d)
    [] c.op = "SaveAgentModulePublisher" -> SaveAgentModulePublisher(c, d)
    [] c.op = "CreateAgentModuleRelease" -> CreateAgentModuleRelease(c, d)
    [] c.op = "TransitionAgentModuleRelease" -> TransitionAgentModuleRelease(c, d)
    [] c.op = "SaveAgentModuleAssignment" -> SaveAgentModuleAssignment(c, d)
    [] c.op = "RecordAgentModuleHealth" -> RecordAgentModuleHealth(c, d)
    [] c.op = "SetAgentModulesEnabled" -> SetAgentModulesEnabled(c, d)
    [] c.op = "SetEndpointCoverageSettings" -> SetEndpointCoverageSettings(c, d)
    [] c.op = "SetEndpointHeartbeatSettings" -> SetEndpointHeartbeatSettings(c, d)
    [] c.op = "SetScannerWorkerDispatch" -> SetScannerWorkerDispatch(c, d)
    [] c.op = "PromoteEndpointRelay" -> PromoteEndpointRelay(c, d)
    [] c.op = "RevokeEndpointRelay" -> RevokeEndpointRelay(c, d)
    [] c.op = "AuthorizeRelayDownstream" -> AuthorizeRelayDownstream(c, d)
    [] c.op = "RevokeRelayDownstream" -> RevokeRelayDownstream(c, d)
    [] c.op = "UpsertRelayUploadWindow" -> UpsertRelayUploadWindow(c, d)
    [] c.op = "UpsertDelayedHeartbeatPolicy" -> UpsertDelayedHeartbeatPolicy(c, d)
    [] c.op = "DeleteDelayedHeartbeatPolicy" -> DeleteDelayedHeartbeatPolicy(c, d)
    [] c.op = "CreateEndpointMaintenanceWindow" -> CreateEndpointMaintenanceWindow(c, d)
    [] c.op = "CancelEndpointMaintenanceWindow" -> CancelEndpointMaintenanceWindow(c, d)
    [] c.op = "SaveCoverageDiscoveryPolicy" -> SaveCoverageDiscoveryPolicy(c, d)
    [] c.op = "CreateWorkerEnrollmentToken" -> CreateWorkerEnrollmentToken(c, d)
    [] c.op = "ConsumeWorkerEnrollmentToken" -> ConsumeWorkerEnrollmentToken(c, d)
    [] c.op = "RecordScannerWorkerHeartbeat" -> RecordScannerWorkerHeartbeat(c, d)
    [] c.op = "RevokeScannerWorker" -> RevokeScannerWorker(c, d)
    [] c.op = "SetScannerWorkerDispatchForWorker" -> SetScannerWorkerDispatchForWorker(c, d)
    [] c.op = "RecordEndpointOSInventory" -> RecordEndpointOSInventory(c, d)
    [] c.op = "RecordEndpointListeningInventory" -> RecordEndpointListeningInventory(c, d)
    [] c.op = "RecordEndpointPostureInventory" -> RecordEndpointPostureInventory(c, d)
    [] c.op = "RefreshEndpointCVEMatches" -> RefreshEndpointCVEMatches(c, d)
    [] c.op = "RecordEndpointSoftwareInventory" -> RecordEndpointSoftwareInventory(c, d)
    [] c.op = "RecordEndpointNetworkInventory" -> RecordEndpointNetworkInventory(c, d)
    [] c.op = "UpsertThreatIndicator" -> UpsertThreatIndicator(c, d)
    [] c.op = "RecordEndpointIntegritySnapshot" -> RecordEndpointIntegritySnapshot(c, d)
============================================================================
