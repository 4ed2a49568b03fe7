--------------------------- MODULE PostgresAssets ---------------------------
(***************************************************************************)
(* The scan, asset and reporting functions of the PostgreSQL store: the    *)
(* statements of each, in their order, with the rows each one locks.       *)
(***************************************************************************)
EXTENDS AssetStore, PostgresFleet

\* The two rows that go by ON DELETE CASCADE are deleted after their parents.
PgDeleteScans(statement, scans) ==
  <<statement, Delete("findings", [scan |-> scans]), Delete("exceptions", [scan |-> scans])>>

\* An observation waits for the others of its address, then of its name.
LockAssetIdentity(o) ==
  <<AdvisoryLock("address:" \o o.address), When(o.name # "", AdvisoryLock("name:" \o o.name))>>

\* The statements that project observation o, from position i on.
PgProjectObservationAsset(c, got, o, i) ==
  LET asset == CorrelatedAssetID(Answer(got, i + 2), Answer(got, i + 3), o)
      address == Upsert("addresses", AssetAddress(c, o, asset), AddressSeenAgain(c, o),
                        {<<"assets", asset>>})
  IN  LockAssetIdentity(o)
      \o <<Select("addresses", [id |-> {o.address}]),
           When(o.name # "", Select("names", [id |-> {o.name}])),
           UpsertNewer(Upsert("assets", NewAsset(c, o, asset), SeenAgain(c, o), {}), "seen", {}, {}),
           UpsertNewer(address, "seen", {"asset"}, {}),
           When(o.name # "", InsertIfAbsent("names", AssetName(o, asset), {<<"assets", asset>>}))>>

\* The statements that add it to the history of its service.
PgRecordAssetServiceObservation(c, got, o, i) ==
  LET asset == TheRow(got, i).asset
      known == Answer(got, i) # {}
      parent == {<<"assets", asset>>}
      increment == IF Answer(got, i + 1) = {} THEN 0 ELSE 1
      service == Upsert("services", Observed(c, o, asset, 1), Observed(c, o, asset, increment), parent)
  IN  <<Select("addresses", [id |-> {o.address}]),
        When(known, InsertIfAbsent("events", ServiceEvent(c, o, asset), parent)),
        When(known, UpsertNewer(service, "checked", {}, {"count"})),
        When(known, InsertIfAbsent("assetevidence", AssetEvidence(o, asset), parent))>>

PgProjectScanAssets(c, got, first) ==
  FlattenSeq([n \in DOMAIN c.observations |->
                PgProjectObservationAsset(c, got, c.observations[n], first + 7 * (n - 1))])
PgUpdateAssetServiceHistory(c, got, first) ==
  [n \in DOMAIN c.targets |-> Update("services", Looked(c, {c.targets[n]}), NotObserved(c))]
  \o FlattenSeq([n \in DOMAIN c.observations |->
       PgRecordAssetServiceObservation(c, got, c.observations[n], first + Len(c.targets) + 4 * (n - 1))])

PgSave(c, got) ==
  PgDeleteScans(Delete("scans", [id |-> {c.scan}]), {c.scan})
  \o <<Insert("scans", ScanRow(c), {}),
       InsertRows("findings", FindingRows(c), {<<"scans", c.scan>>})>>
  \o (IF c.status # "completed" THEN <<>>
      ELSE PgProjectScanAssets(c, got, 6)
           \o PgUpdateAssetServiceHistory(c, got, 6 + 7 * Len(c.observations)))

PgRecordAssetEvidence(c, got) ==
  <<InsertIfAbsent("assetevidence", [id |-> c.evidence, asset |-> c.asset], {<<"assets", c.asset>>})>>
----------------------------------------------------------------------------
PgUpdateAssetMetadata(c, got) == PgChanged(c, "assets", [id |-> {c.asset}], [owner |-> c.by])
PgUpdateAssetAgentEligibility(c, got) ==
  PgChanged(c, "assets", [id |-> {c.asset}], [eligible |-> c.by])
PgUpdateAssetLifecycle(c, got) ==
  PgChanged(c, "assets", [id |-> {c.asset}], [status |-> c.status])
PgUpdateAssetAgingSettings(c, got) == PgSetSetting(c, "aging")

\* The two assets are locked in the order of their ids.
LockMergeAssets(c) ==
  LET lock(id) == Must(SelectForUpdate("assets", [id |-> {id}])) IN
    IF Rank(c.survivor) < Rank(c.merged)
      THEN <<lock(c.survivor), lock(c.merged)>>
      ELSE <<lock(c.merged), lock(c.survivor)>>

\* INSERT ... SELECT ... ON CONFLICT DO NOTHING, then one UPDATE per table.
PgTransferAssetRelationships(c, got) ==
  LET moved(t) == Update(t, Owned(c), [asset |-> c.survivor])
      members == InsertRows("members", MovedMembers(c, Answer(got, 3)), {<<"assets", c.survivor>>})
  IN  <<Select("members", Owned(c)),
        [members EXCEPT !.op = "absent"],
        Delete("members", Owned(c)),
        moved("addresses"), moved("names"), moved("events"), moved("assetevidence"),
        moved("endpoints")>>

\* The services of the merged asset are read, and written to the survivor.
PgMergeAssetServices(c, got, i) ==
  LET moved == SetToSortSeq(Answer(got, i), LAMBDA x, y : Rank(x.id) < Rank(y.id))
      service(row) == Upsert("services", row, row, {<<"assets", c.survivor>>})
  IN  <<Select("services", Owned(c))>>
      \o [n \in DOMAIN moved |->
            UpsertNewer(service(MovedService(c, moved[n])), "checked", {}, {"count"})]
      \o <<Delete("services", Owned(c))>>

PgMergeAssets(c, got) ==
  LET known == Answer(got, 1) \cup Answer(got, 2)
      record(id) == CHOOSE row \in known : row.id = id
  IN  IF c.survivor = c.merged THEN <<RefuseIf(TRUE)>>
      ELSE LockMergeAssets(c) \o PgTransferAssetRelationships(c, got)
           \o PgMergeAssetServices(c, got, 11)
           \o <<Delete("assets", [id |-> {c.merged}]),
                When(Cardinality(known) = 2,
                     Update("assets", [id |-> {c.survivor}],
                            MergedAsset(c, record(c.survivor), record(c.merged)))),
                Audit(c)>>
----------------------------------------------------------------------------
PgUpsertAssetGroup(c, got) == <<Upsert("groups", AssetGroup(c), AssetGroup(c), {}), Audit(c)>>
PgAddAssetGroupMember(c, got) ==
  <<InsertIfAbsent("members", Member(c.group, c.asset),
                   {<<"groups", c.group>>, <<"assets", c.asset>>} \cup Actor(c)),
    Audit(c)>>
PgRemoveAssetGroupMember(c, got) ==
  <<Must(Delete("members", [id |-> {Pair(c.group, c.asset)}])), Audit(c)>>

PgUpsertReusableScanPolicy(c, got) ==
  <<Upsert("policies", ScanPolicy(c), ScanPolicy(c), {<<"scopes", c.scope>>}),
    Delete("policygroups", [policy |-> {c.policy}]),
    InsertRows("policygroups", PolicyGroups(c),
               {<<"policies", c.policy>>} \cup {<<"groups", g>> : g \in c.groups}),
    Audit(c)>>
PgUpdateReusablePolicySchedule(c, got) ==
  <<Update("policies", [id |-> {c.policy}], [next |-> c.by]), Audit(c)>>

\* INSERT ... SELECT ... WHERE NOT EXISTS.
PgEnsureDefaultScopePolicy(c, got) ==
  <<Select("scopes", <<>>), When(Answer(got, 1) = {}, Insert("scopes", Scope(c), {}))>>
PgUpsertScopePolicy(c, got) == <<Upsert("scopes", Scope(c), Scope(c), Actor(c)), Audit(c)>>
----------------------------------------------------------------------------
PgUpdateFindingWorkflow(c, got) ==
  <<When(c.assigned # "", Must(Select("users", Active(c.assigned)))),
    Must(Update("findings", [id |-> {c.finding}],
                [status |-> c.status, assigned |-> c.assigned])),
    Audit(c)>>

PgSaveFindingException(c, got) ==
  <<Must(SelectJoin("findings", [id |-> {c.finding}, scan |-> {c.scan}], "scan",
                    "scans", [status |-> {"completed"}])),
    Insert("exceptions", FindingException(c), {<<"findings", c.finding>>} \cup Actor(c)),
    Audit(c)>>
PgReviewFindingException(c, got) ==
  PgChanged(c, "exceptions", Pending(c), [status |-> c.status])
PgMarkExceptionReminded(c, got) ==
  <<Update("exceptions", [id |-> {c.exception}], [reminded |-> c.by])>>

PgSaveEvidenceRetentionSettings(c, got) ==
  PgChanged(c, "settings", [id |-> {"retention"}], [value |-> c.days])
\* One DELETE: which scans an exception holds is read when it begins.
PgPurgeExpiredEvidence(c, got) ==
  LET days == TheRow(got, 1).value
      scans == Delete("scans", IF Answer(got, 1) = {} THEN [id |-> {}] ELSE Expired(days, c))
  IN  <<Select("settings", [id |-> {"retention"}])>>
      \o PgDeleteScans(Unless(scans, "exceptions", "scan", Accepted),
                       {row.id : row \in Answer(got, 2)})

PgSaveSMTPSettings(c, got) ==
  LET smtp == [id |-> "smtp", value |-> c.by] IN
    <<Upsert("settings", smtp, smtp, {}),
      Delete("recipients", <<>>),
      InsertRows("recipients", SMTPRecipients(c), {<<"users", u>> : u \in c.recipients}),
      Audit(c)>>
PgMarkScanLongAlertSent(c, got) == <<InsertIfAbsent("alerts", LongAlert(c), {})>>
----------------------------------------------------------------------------
\* The asset function a call names.
AssetProgram(c, got) ==
  CASE c.op = "Save" -> PgSave(c, got)
    [] c.op = "RecordAssetEvidence" -> PgRecordAssetEvidence(c, got)
    [] c.op = "UpdateAssetMetadata" -> PgUpdateAssetMetadata(c, got)
    [] c.op = "UpdateAssetAgentEligibility" -> PgUpdateAssetAgentEligibility(c, got)
    [] c.op = "UpdateAssetLifecycle" -> PgUpdateAssetLifecycle(c, got)
    [] c.op = "UpdateAssetAgingSettings" -> PgUpdateAssetAgingSettings(c, got)
    [] c.op = "MergeAssets" -> PgMergeAssets(c, got)
    [] c.op = "UpsertAssetGroup" -> PgUpsertAssetGroup(c, got)
    [] c.op = "AddAssetGroupMember" -> PgAddAssetGroupMember(c, got)
    [] c.op = "RemoveAssetGroupMember" -> PgRemoveAssetGroupMember(c, got)
    [] c.op = "UpsertReusableScanPolicy" -> PgUpsertReusableScanPolicy(c, got)
    [] c.op = "UpdateReusablePolicySchedule" -> PgUpdateReusablePolicySchedule(c, got)
    [] c.op = "EnsureDefaultScopePolicy" -> PgEnsureDefaultScopePolicy(c, got)
    [] c.op = "UpsertScopePolicy" -> PgUpsertScopePolicy(c, got)
    [] c.op = "UpdateFindingWorkflow" -> PgUpdateFindingWorkflow(c, got)
    [] c.op = "SaveFindingException" -> PgSaveFindingException(c, got)
    [] c.op = "ReviewFindingException" -> PgReviewFindingException(c, got)
    [] c.op = "MarkExceptionReminded" -> PgMarkExceptionReminded(c, got)
    [] c.op = "SaveEvidenceRetentionSettings" -> PgSaveEvidenceRetentionSettings(c, got)
    [] c.op = "PurgeExpiredEvidence" -> PgPurgeExpiredEvidence(c, got)
    [] c.op = "SaveSMTPSettings" -> PgSaveSMTPSettings(c, got)
    [] c.op = "MarkScanLongAlertSent" -> PgMarkScanLongAlertSent(c, got)
============================================================================
