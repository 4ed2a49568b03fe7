--------------------------- MODULE PostgresFleet ---------------------------
(***************************************************************************)
(* The fleet functions of the PostgreSQL store: the statements of each, in *)
(* their order, with the rows each one locks.                              *)
(***************************************************************************)
EXTENDS FleetStore, SqlStatements, SequencesExt

\* updatePostgreSQLEndpoint and its like: one UPDATE that must find its row.
PgChanged(c, t, where, set) == <<Must(Update(t, where, set)), Audit(c)>>
PgCreated(c, t, row) == <<Insert(t, row, Actor(c)), Audit(c)>>

PgCreateAgentEnrollmentToken(c, got) == PgCreated(c, "tokens", NewToken(c))
PgConsumeAgentEnrollmentToken(c, got) ==
  <<Must(Update("tokens", Unspent(c), [used |-> c.by])),
    Insert("endpoints", NewEndpoint(c), {}),
    Audit(c)>>
PgRenewEndpointCertificate(c, got) == PgChanged(c, "endpoints", Serving(c), [serial |-> c.by])
PgRevokeEndpoint(c, got) ==
  PgChanged(c, "endpoints", Active(c.endpoint), [status |-> "revoked"])
PgSetEndpointCollectors(c, got) ==
  PgChanged(c, "endpoints", Active(c.endpoint), [collectors |-> c.by])
PgSetEndpointNetworkExclusions(c, got) ==
  PgChanged(c, "endpoints", Active(c.endpoint), [exclusions |-> c.by])
PgMarkEndpointSeen(c, got) == <<Update("endpoints", Active(c.endpoint), [seen |-> c.by])>>

PgRecordEndpointCheckIn(c, got) ==
  <<Must(Update("endpoints", Active(c.endpoint), [seen |-> c.by, os |-> c.os])),
    Select("releases", [version |-> {c.version}]),
    Update("assignments",
           [id |-> {c.endpoint}, status |-> {"assigned", "offered"},
            release |-> {row.id : row \in Answer(got, 2)}],
           [status |-> "installed"])>>

\* The foreign key of a new link is checked by the statement that sets it.
PgLinkEndpointAsset(c, got) ==
  <<Must(Update("endpoints", Active(c.endpoint), [asset |-> c.asset])),
    When(Answer(got, 1) # {} /\ TheRow(got, 1).asset # c.asset,
         Must(LockRows("assets", [id |-> {c.asset}], KeyShare))),
    Audit(c)>>
----------------------------------------------------------------------------
PgCreateAgentUpdateRelease(c, got) == PgCreated(c, "releases", Release(c))
PgTransitionAgentUpdate(c, from, to) ==
  PgChanged(c, "releases", InStatus(c, from), [status |-> to])
PgApproveAgentUpdateRelease(c, got) == PgTransitionAgentUpdate(c, "staged", "approved")
PgRevokeAgentUpdateRelease(c, got) == PgTransitionAgentUpdate(c, "approved", "revoked")

PgAssignAgentUpdate(c, got) ==
  <<Must(SelectForUpdate("endpoints", Active(c.endpoint))),
    RefuseIf(Answer(got, 1) # {} /\ TheRow(got, 1).os = ""),
    Must(SelectForShare("releases", InStatus(c, "approved"))),
    RefuseIf(Answer(got, 3) # {} /\ TheRow(got, 1).os # TheRow(got, 3).os),
    Upsert("assignments", Assignment(c), Assignment(c),
           {<<"endpoints", c.endpoint>>, <<"releases", c.release>>}),
    Audit(c)>>

\* One joined row, its assignment and its release locked FOR UPDATE.
PgAgentUpdateOffer(c, got) ==
  LET row == TheRow(got, 1)
      chosen == [release |-> {row.release}] @@ Open(c)
      approved == [id |-> {row.release}, status |-> {"approved"}]
      joined == /\ Answer(got, 1) # {} /\ Answer(got, 2) # {} /\ Answer(got, 3) # {}
                /\ TheRow(got, 2).os = TheRow(got, 3).os
  IN  <<Select("assignments", Open(c)),
        When(Answer(got, 1) # {}, Select("releases", approved)),
        Select("endpoints", Active(c.endpoint)),
        When(joined, SelectForUpdate("assignments", chosen)),
        When(joined, SelectForUpdate("releases", approved)),
        When(Answer(got, 4) # {} /\ Answer(got, 5) # {},
             Update("assignments", [id |-> {c.endpoint}], Offered(TheRow(got, 4), c)))>>
----------------------------------------------------------------------------
PgSaveAgentModulePublisher(c, got) ==
  <<Upsert("publishers", Publisher(c), Publisher(c), Actor(c)), Audit(c)>>
PgCreateAgentModuleRelease(c, got) == PgCreated(c, "modules", Module(c))
PgTransitionAgentModuleRelease(c, got) ==
  PgChanged(c, "modules", InStatus(c, c.from), [status |-> c.to])

PgValidateModuleAssignmentTarget(c) ==
  Must(Select(TargetTable(c), ValidateModuleAssignmentTarget(c)))
\* The target and the release are read without a lock.
PgSaveAgentModuleAssignment(c, got) ==
  <<PgValidateModuleAssignmentTarget(c),
    Must(Select("modules", InStatus(c, "approved"))),
    Upsert("rings", ModuleAssignment(c), [ring |-> c.by],
           {<<"modules", c.release>>} \cup Actor(c)),
    Audit(c)>>

PgRecordAgentModuleHealth(c, got) ==
  <<Upsert("health", ModuleHealth(c), ModuleHealth(c), {<<"endpoints", c.endpoint>>})>>

PgSetSetting(c, name) == PgChanged(c, "settings", [id |-> {name}], [value |-> c.by])
PgSetAgentModulesEnabled(c, got) == PgSetSetting(c, "modules")
PgSetEndpointCoverageSettings(c, got) == PgSetSetting(c, "coverage")
PgSetEndpointHeartbeatSettings(c, got) == PgSetSetting(c, "heartbeat")
PgSetScannerWorkerDispatch(c, got) == PgSetSetting(c, "dispatch")
----------------------------------------------------------------------------
\* The endpoint row stands for its authorizations: whoever changes them holds it.
LockEndpointStatus(id) == SelectForUpdate("endpoints", [id |-> {id}])

PgPromoteEndpointRelay(c, got) ==
  <<Must(LockEndpointStatus(c.relay)),
    RefuseIf(Answer(got, 1) # {} /\ TheRow(got, 1).status # "active"),
    Select("relays", ActiveRelay(c.relay)),
    RefuseIf(Answer(got, 3) # {}),
    Insert("relays", Relay(c), {<<"endpoints", c.relay>>}),
    Audit(c)>>

PgRevokeEndpointRelay(c, got) ==
  <<Must(LockEndpointStatus(c.relay)),
    Must(Update("relays", ActiveRelay(c.relay), [status |-> "revoked"])),
    Update("downstreams", Behind(c), [status |-> "revoked"]),
    When(Answer(got, 3) # {}, Insert("audit", AlsoAuditRow(c), Actor(c))),
    Audit(c)>>

\* A mutant: the relay's row first, whatever the ids.
LockEndpointStatusesAsGiven(c) ==
  <<LockEndpointStatus(c.relay), LockEndpointStatus(c.endpoint)>>

\* The two rows in the order of their ids, whichever of them is the relay.
LockEndpointStatuses(c) ==
  IF Rank(c.relay) < Rank(c.endpoint)
    THEN <<LockEndpointStatus(c.relay), LockEndpointStatus(c.endpoint)>>
    ELSE <<LockEndpointStatus(c.endpoint), LockEndpointStatus(c.relay)>>

PgAuthorizeRelayDownstream(c, got) ==
  LET rows == Answer(got, 2) \cup Answer(got, 3) IN
  <<RefuseIf(c.relay = c.endpoint)>> \o LockEndpointStatuses(c) \o
  <<RefuseIf(\E id \in {c.relay, c.endpoint} :
               ~\E row \in rows : row.id = id /\ row.status = "active"),
    Must(Select("relays", ActiveRelay(c.relay))),
    Select("downstreams", ActiveRelay(c.endpoint)),
    RefuseIf(Answer(got, 6) # {}),
    Insert("downstreams", Downstream(c), {<<"endpoints", c.relay>>, <<"endpoints", c.endpoint>>}),
    Audit(c)>>

PgRevokeRelayDownstream(c, got) ==
  LockEndpointStatuses(c) \o
  <<Must(Update("downstreams", Reports(c), [status |-> "revoked"])), Audit(c)>>
----------------------------------------------------------------------------
\* The target is read without a lock; no endpoint and no group is deleted.
PgForTarget(c, statement) ==
  <<Must(Select(TargetTable(c), MaintenanceTargetExists(c))), statement, Audit(c)>>
PgUpsertRelayUploadWindow(c, got) ==
  PgForTarget(c, Upsert("windows", UploadWindow(c), UploadWindow(c), {}))
PgUpsertDelayedHeartbeatPolicy(c, got) ==
  PgForTarget(c, Upsert("delayed", DelayedPolicy(c), DelayedPolicy(c), {}))
PgDeleteDelayedHeartbeatPolicy(c, got) ==
  <<Must(Delete("delayed", [id |-> {c.target}])), Audit(c)>>
PgCreateEndpointMaintenanceWindow(c, got) ==
  PgForTarget(c, Insert("maintenance", Maintenance(c), {}))
PgCancelEndpointMaintenanceWindow(c, got) ==
  PgChanged(c, "maintenance", Cancellable(c), [cancelled |-> c.by])

PgSaveCoverageDiscoveryPolicy(c, got) ==
  <<SelectForUpdate("discovery", [id |-> {c.policy}]),
    RefuseIf(Answer(got, 1) = {} /\ c.created = ""),
    IF Answer(got, 1) = {}
      THEN Insert("discovery", DiscoveryPolicy(c), {})
      ELSE Update("discovery", [id |-> {c.policy}], [updated |-> c.by]),
    Audit(c)>>
----------------------------------------------------------------------------
PgCreateWorkerEnrollmentToken(c, got) == PgCreated(c, "tokens", NewToken(c))
PgConsumeWorkerEnrollmentToken(c, got) ==
  <<Must(Update("tokens", Unspent(c), [used |-> c.by])),
    Insert("workers", NewWorker(c), {}),
    Audit(c)>>
PgRecordScannerWorkerHeartbeat(c, got) ==
  <<Must(Update("workers", Active(c.worker), [seen |-> c.by]))>>
PgRevokeScannerWorker(c, got) == PgChanged(c, "workers", Active(c.worker), [status |-> "revoked"])
PgSetScannerWorkerDispatchForWorker(c, got) ==
  PgChanged(c, "workers", Active(c.worker), [dispatch |-> c.by])
----------------------------------------------------------------------------
\* INSERT ... SELECT ... FROM endpoints WHERE status = 'active' ON CONFLICT DO
\* UPDATE: the header row orders the writers of one endpoint's inventory.
PgReplaced(c, header, items) ==
  LET endpoint == {<<"endpoints", c.endpoint>>} IN
    <<Must(Select("endpoints", Active(c.endpoint))),
      Upsert(header, Header(c), Header(c), endpoint),
      Delete(items, Of(c.endpoint)),
      Insert(items, Item(c), endpoint)>>
PgRecordEndpointOSInventory(c, got) == PgReplaced(c, "os", "patches")
PgRecordEndpointListeningInventory(c, got) == PgReplaced(c, "listening", "services")
PgRecordEndpointPostureInventory(c, got) == PgReplaced(c, "posture", "evidence")

\* The statements from position i on that replace the matches of an endpoint.
PgRefreshCVEMatches(c, got, i) ==
  LET matches == CVEMatches(c.endpoint, Answer(got, i + 1), Answer(got, i + 2)) IN
    <<Delete("cvematches", Of(c.endpoint)),
      Select("software", Of(c.endpoint)),
      Select("products", <<>>),
      InsertRows("cvematches", matches, {})>>
PgRefreshEndpointCVEMatches(c, got) == PgRefreshCVEMatches(c, got, 1)
PgRecordEndpointSoftwareInventory(c, got) ==
  PgReplaced(c, "installed", "software") \o PgRefreshCVEMatches(c, got, 5)

PgRefreshIndicatorMatches(endpoint, got, i) ==
  LET matches == IndicatorMatches(Answer(got, i + 1), Answer(got, i + 2)) IN
    <<Delete("indicatormatches", Of(endpoint)),
      Select("connections", Of(endpoint)),
      Select("indicators", InForce),
      InsertRows("indicatormatches", matches,
                 {<<"connections", row.id>> : row \in Answer(got, i + 1)})>>
PgRecordEndpointNetworkInventory(c, got) ==
  PgReplaced(c, "network", "connections") \o PgRefreshIndicatorMatches(c.endpoint, got, 5)
\* The endpoints one after the other, four statements each.
PgUpsertThreatIndicator(c, got) ==
  LET listed == SetToSortSeq(Answer(got, 2), LAMBDA x, y : Rank(x.id) < Rank(y.id)) IN
    <<Upsert("indicators", Indicator(c), Indicator(c), {}),
      Select("network", <<>>)>>
    \o FlattenSeq([n \in DOMAIN listed |->
                     PgRefreshIndicatorMatches(listed[n].id, got, 4 * n - 1)])
    \o <<Audit(c)>>

\* The endpoint row is locked before the last snapshot is read.
PgRecordEndpointIntegritySnapshot(c, got) ==
  LET known == Answer(got, 3) # {}
      last == TheRow(got, 3)
  IN  <<Must(LockEndpointStatus(c.endpoint)),
        RefuseIf(Answer(got, 1) # {} /\ TheRow(got, 1).status # "active"),
        Select("snapshots", [id |-> {c.endpoint}]),
        RefuseIf(known /\ c.sequence <= last.sequence),
        When(known /\ last.hash # c.hash,
             Insert("changes", IntegrityEvent(c), {<<"endpoints", c.endpoint>>})),
        Upsert("snapshots", Snapshot(c), Snapshot(c), {<<"endpoints", c.endpoint>>})>>
----------------------------------------------------------------------------
\* The fleet function a call names.
FleetProgram(c, got) ==
  CASE c.op = "CreateAgentEnrollmentToken" -> PgCreateAgentEnrollmentToken(c, got)
    [] c.op = "ConsumeAgentEnrollmentToken" -> PgConsumeAgentEnrollmentToken(c, got)
    [] c.op = "RenewEndpointCertificate" -> PgRenewEndpointCertificate(c, got)
    [] c.op = "RevokeEndpoint" -> PgRevokeEndpoint(c, got)
    [] c.op = "SetEndpointCollectors" -> PgSetEndpointCollectors(c, got)
    [] c.op = "SetEndpointNetworkExclusions" -> PgSetEndpointNetworkExclusions(c, got)
    [] c.op = "MarkEndpointSeen" -> PgMarkEndpointSeen(c, got)
    [] c.op = "RecordEndpointCheckIn" -> PgRecordEndpointCheckIn(c, got)
    [] c.op = "LinkEndpointAsset" -> PgLinkEndpointAsset(c, got)
    [] c.op = "CreateAgentUpdateRelease" -> PgCreateAgentUpdateRelease(c, got)
    [] c.op = "ApproveAgentUpdateRelease" -> PgApproveAgentUpdateRelease(c, got)
    [] c.op = "RevokeAgentUpdateRelease" -> PgRevokeAgentUpdateRelease(c, got)
    [] c.op = "AssignAgentUpdate" -> PgAssignAgentUpdate(c, got)
    [] c.op = "AgentUpdateOffer" -> PgAgentUpdateOffer(c, got)
    [] c.op = "SaveAgentModulePublisher" -> PgSaveAgentModulePublisher(c, got)
    [] c.op = "CreateAgentModuleRelease" -> PgCreateAgentModuleRelease(c, got)
    [] c.op = "TransitionAgentModuleRelease" -> PgTransitionAgentModuleRelease(c, got)
    [] c.op = "SaveAgentModuleAssignment" -> PgSaveAgentModuleAssignment(c, got)
    [] c.op = "RecordAgentModuleHealth" -> PgRecordAgentModuleHealth(c, got)
    [] c.op = "SetAgentModulesEnabled" -> PgSetAgentModulesEnabled(c, got)
    [] c.op = "SetEndpointCoverageSettings" -> PgSetEndpointCoverageSettings(c, got)
    [] c.op = "SetEndpointHeartbeatSettings" -> PgSetEndpointHeartbeatSettings(c, got)
    [] c.op = "SetScannerWorkerDispatch" -> PgSetScannerWorkerDispatch(c, got)
    [] c.op = "PromoteEndpointRelay" -> PgPromoteEndpointRelay(c, got)
    [] c.op = "RevokeEndpointRelay" -> PgRevokeEndpointRelay(c, got)
    [] c.op = "AuthorizeRelayDownstream" -> PgAuthorizeRelayDownstream(c, got)
    [] c.op = "RevokeRelayDownstream" -> PgRevokeRelayDownstream(c, got)
    [] c.op = "UpsertRelayUploadWindow" -> PgUpsertRelayUploadWindow(c, got)
    [] c.op = "UpsertDelayedHeartbeatPolicy" -> PgUpsertDelayedHeartbeatPolicy(c, got)
    [] c.op = "DeleteDelayedHeartbeatPolicy" -> PgDeleteDelayedHeartbeatPolicy(c, got)
    [] c.op = "CreateEndpointMaintenanceWindow" -> PgCreateEndpointMaintenanceWindow(c, got)
    [] c.op = "CancelEndpointMaintenanceWindow" -> PgCancelEndpointMaintenanceWindow(c, got)
    [] c.op = "SaveCoverageDiscoveryPolicy" -> PgSaveCoverageDiscoveryPolicy(c, got)
    [] c.op = "CreateWorkerEnrollmentToken" -> PgCreateWorkerEnrollmentToken(c, got)
    [] c.op = "ConsumeWorkerEnrollmentToken" -> PgConsumeWorkerEnrollmentToken(c, got)
    [] c.op = "RecordScannerWorkerHeartbeat" -> PgRecordScannerWorkerHeartbeat(c, got)
    [] c.op = "RevokeScannerWorker" -> PgRevokeScannerWorker(c, got)
    [] c.op = "SetScannerWorkerDispatchForWorker" -> PgSetScannerWorkerDispatchForWorker(c, got)
    [] c.op = "RecordEndpointOSInventory" -> PgRecordEndpointOSInventory(c, got)
    [] c.op = "RecordEndpointListeningInventory" -> PgRecordEndpointListeningInventory(c, got)
    [] c.op = "RecordEndpointPostureInventory" -> PgRecordEndpointPostureInventory(c, got)
    [] c.op = "RefreshEndpointCVEMatches" -> PgRefreshEndpointCVEMatches(c, got)
    [] c.op = "RecordEndpointSoftwareInventory" -> PgRecordEndpointSoftwareInventory(c, got)
    [] c.op = "RecordEndpointNetworkInventory" -> PgRecordEndpointNetworkInventory(c, got)
    [] c.op = "UpsertThreatIndicator" -> PgUpsertThreatIndicator(c, got)
    [] c.op = "RecordEndpointIntegritySnapshot" -> PgRecordEndpointIntegritySnapshot(c, got)
============================================================================
