----------------------------- MODULE AssetStore -----------------------------
(***************************************************************************)
(* The scan, asset and reporting functions of the SQLite store, each as    *)
(* what it does to the database: a scan with its findings, the assets it   *)
(* is projected on, merges of assets, groups, scan policies, the workflow  *)
(* of findings, retention and notifications.  Times are numbers, the ports *)
(* of an address are one service.                                          *)
(***************************************************************************)
EXTENDS FleetStore, SequencesExt

\* DELETE FROM scans, with what goes by ON DELETE CASCADE.
WithoutScans(d, scans) ==
  Deleted(Deleted(Deleted(d, "scans", [id |-> scans]), "findings", [scan |-> scans]),
          "exceptions", [scan |-> scans])

ScanRow(c) ==
  [id |-> c.scan, status |-> c.status, by |-> c.by,
   completed |-> IF c.status = "completed" THEN c.at ELSE 0]
FindingRows(c) ==
  {[id |-> f, scan |-> c.scan, status |-> "open", assigned |-> ""] : f \in c.findings}
----------------------------------------------------------------------------
\* The asset an observation belongs to: by its address, then by its name.
AssetIDForAddress(address) == "asset:" \o address
CorrelatedAssetID(addresses, names, o) ==
  IF addresses # {} THEN (CHOOSE row \in addresses : TRUE).asset
  ELSE IF names # {} THEN (CHOOSE row \in names : TRUE).asset
  ELSE AssetIDForAddress(o.address)

NewAsset(c, o, asset) ==
  [id |-> asset, name |-> o.target, address |-> o.address, first |-> o.at, seen |-> o.at,
   scan |-> c.scan, owner |-> "", status |-> "active", eligible |-> ""]
SeenAgain(c, o) == [name |-> o.target, seen |-> o.at, scan |-> c.scan]
AssetAddress(c, o, asset) ==
  [id |-> o.address, asset |-> asset, first |-> o.at, seen |-> o.at, scan |-> c.scan]
AddressSeenAgain(c, o) == [seen |-> o.at, scan |-> c.scan]
AssetName(o, asset) == [id |-> o.name, asset |-> asset]

UpsertObservationAsset(c, d, o) ==
  LET asset == CorrelatedAssetID(Rows(d, "addresses", [id |-> {o.address}]),
                                 Rows(d, "names", [id |-> {o.name}]), o)
      seen == PutNewer(d, "assets", NewAsset(c, o, asset), SeenAgain(c, o), "seen", {}, {})
      placed == PutNewer(seen, "addresses", AssetAddress(c, o, asset), AddressSeenAgain(c, o),
                         "seen", {"asset"}, {})
  IN  IF o.name = "" THEN placed ELSE PutIfAbsent(placed, "names", AssetName(o, asset))

UpsertScanAssets(c, d) ==
  FoldLeft(LAMBDA so, o : UpsertObservationAsset(c, so, o), d, c.observations)
----------------------------------------------------------------------------
\* What a scan says of the services it looked for.
NotObserved(c) == [state |-> "not_observed", checked |-> c.at, scan |-> c.scan]
Looked(c, addresses) == [address |-> addresses, checked |-> 0 .. c.at]
ServiceEvent(c, o, asset) == [id |-> o.id, asset |-> asset, scan |-> c.scan]
AssetEvidence(o, asset) == [id |-> o.id, asset |-> asset]
Observed(c, o, asset, count) ==
  [id |-> Pair(asset, o.address), asset |-> asset, address |-> o.address, state |-> "observed",
   checked |-> c.at, scan |-> c.scan, count |-> count]

\* An observation counts once, however often its scan is saved.
RecordAssetServiceObservation(c, d, o) ==
  LET asset == d.addresses[o.address].asset
      increment == IF o.id \in DOMAIN d.events THEN 0 ELSE 1
      counted == PutNewer(PutIfAbsent(d, "events", ServiceEvent(c, o, asset)), "services",
                          Observed(c, o, asset, 1), Observed(c, o, asset, increment),
                          "checked", {}, {"count"})
  IN  PutIfAbsent(counted, "assetevidence", AssetEvidence(o, asset))

UpdateAssetServiceHistory(c, d) ==
  FoldLeft(LAMBDA so, o : RecordAssetServiceObservation(c, so, o),
           Updated(d, "services", Looked(c, Range(c.targets)), NotObserved(c)), c.observations)

\* Only a completed scan is projected.
Save(c, d) ==
  LET saved == PutRows(Put(WithoutScans(d, {c.scan}), "scans", ScanRow(c)), "findings", FindingRows(c))
  IN  Done(IF c.status = "completed"
             THEN UpdateAssetServiceHistory(c, UpsertScanAssets(c, saved))
             ELSE saved)

RecordAssetEvidence(c, d) ==
  Result(c.asset \in DOMAIN d.assets, d,
         PutIfAbsent(d, "assetevidence", [id |-> c.evidence, asset |-> c.asset]))
----------------------------------------------------------------------------
UpdateAssetMetadata(c, d) == Changed(c, d, "assets", [id |-> {c.asset}], [owner |-> c.by])
UpdateAssetAgentEligibility(c, d) ==
  Changed(c, d, "assets", [id |-> {c.asset}], [eligible |-> c.by])
UpdateAssetLifecycle(c, d) == Changed(c, d, "assets", [id |-> {c.asset}], [status |-> c.status])
UpdateAssetAgingSettings(c, d) == SetSetting(c, d, "aging")

\* c.from names, for each value the administrator chose, the asset it is from.
MergedAsset(c, survivor, merged) ==
  LET values == [f \in DOMAIN c.from |->
                   IF c.from[f] = c.survivor THEN survivor[f] ELSE merged[f]]
      later == IF merged.seen > survivor.seen THEN merged ELSE survivor
      first == IF merged.first < survivor.first THEN merged.first ELSE survivor.first
  IN  values @@ [first |-> first, seen |-> later.seen, scan |-> later.scan]

Member(group, asset) == [id |-> Pair(group, asset), group |-> group, asset |-> asset]
MovedMembers(c, members) == {Member(row.group, c.survivor) : row \in members}
Owned(c) == [asset |-> {c.merged}]
TransferAssetRelationships(c, d) ==
  LET absent == {row \in MovedMembers(c, Rows(d, "members", Owned(c))) : row.id \notin DOMAIN d.members}
      joined == Deleted(PutRows(d, "members", absent), "members", Owned(c))
      moved == [asset |-> c.survivor]
  IN  FoldLeft(LAMBDA so, t : Updated(so, t, Owned(c), moved), joined,
               <<"addresses", "names", "events", "assetevidence", "endpoints">>)

MovedService(c, row) == [row EXCEPT !.id = Pair(c.survivor, row.address), !.asset = c.survivor]
MergeAssetServices(c, d) ==
  LET moved == SetToSeq({MovedService(c, row) : row \in Rows(d, "services", Owned(c))}) IN
    Deleted(FoldLeft(LAMBDA so, row : PutNewer(so, "services", row, row, "checked", {}, {"count"}),
                     d, moved),
            "services", Owned(c))

MergeAssets(c, d) ==
  Result(c.survivor # c.merged /\ {c.survivor, c.merged} \subseteq DOMAIN d.assets, d,
         Audited(Updated(Deleted(MergeAssetServices(c, TransferAssetRelationships(c, d)),
                                 "assets", [id |-> {c.merged}]),
                         "assets", [id |-> {c.survivor}],
                         MergedAsset(c, d.assets[c.survivor], d.assets[c.merged])), c))
----------------------------------------------------------------------------
AssetGroup(c) == [id |-> c.group, by |-> c.by]
UpsertAssetGroup(c, d) == Done(Audited(Put(d, "groups", AssetGroup(c)), c))
AddAssetGroupMember(c, d) ==
  Result(c.group \in DOMAIN d.groups /\ c.asset \in DOMAIN d.assets, d,
         Audited(PutIfAbsent(d, "members", Member(c.group, c.asset)), c))
RemoveAssetGroupMember(c, d) ==
  Result(Pair(c.group, c.asset) \in DOMAIN d.members, d,
         Audited(Deleted(d, "members", [id |-> {Pair(c.group, c.asset)}]), c))

\* The groups of a policy are replaced with it.
ScanPolicy(c) == [id |-> c.policy, scope |-> c.scope, saved |-> c.by, next |-> c.by]
PolicyGroups(c) ==
  {[id |-> Pair(c.policy, g), policy |-> c.policy, group |-> g] : g \in c.groups}
UpsertReusableScanPolicy(c, d) ==
  Result(c.scope \in DOMAIN d.scopes /\ c.groups \subseteq DOMAIN d.groups, d,
         Audited(PutRows(Deleted(Put(d, "policies", ScanPolicy(c)), "policygroups", [policy |-> {c.policy}]),
                         "policygroups", PolicyGroups(c)), c))
UpdateReusablePolicySchedule(c, d) ==
  Done(Audited(Updated(d, "policies", [id |-> {c.policy}], [next |-> c.by]), c))

Scope(c) == [id |-> c.scope, by |-> c.by]
EnsureDefaultScopePolicy(c, d) ==
  Done(IF DOMAIN d.scopes = {} THEN Put(d, "scopes", Scope(c)) ELSE d)
UpsertScopePolicy(c, d) == Done(Audited(Put(d, "scopes", Scope(c)), c))
----------------------------------------------------------------------------
\* A finding is assigned to an active user only.
UpdateFindingWorkflow(c, d) ==
  Result(/\ c.assigned # "" => Found(d, "users", Active(c.assigned)) # {}
         /\ c.finding \in DOMAIN d.findings,
         d, Audited(Updated(d, "findings", [id |-> {c.finding}],
                            [status |-> c.status, assigned |-> c.assigned]), c))

\* An exception is requested for a finding of a completed scan.
FindingException(c) ==
  [id |-> c.exception, finding |-> c.finding, scan |-> c.scan, status |-> "pending", reminded |-> ""]
SaveFindingException(c, d) ==
  Result(/\ Found(d, "findings", [id |-> {c.finding}, scan |-> {c.scan}]) # {}
         /\ d.scans[c.scan].status = "completed"
         /\ Fits(d, "exceptions", FindingException(c), Actor(c)),
         d, Audited(Put(d, "exceptions", FindingException(c)), c))
Pending(c) == [id |-> {c.exception}, status |-> {"pending"}]
ReviewFindingException(c, d) == Changed(c, d, "exceptions", Pending(c), [status |-> c.status])
MarkExceptionReminded(c, d) ==
  Done(Updated(d, "exceptions", [id |-> {c.exception}], [reminded |-> c.by]))

\* Scans older than the retention go, unless an approved exception holds one.
SaveEvidenceRetentionSettings(c, d) ==
  Done(Audited(Updated(d, "settings", [id |-> {"retention"}], [value |-> c.days]), c))
Expired(days, c) == [completed |-> 1 .. (c.now - days - 1)]
Accepted == [status |-> {"approved"}]
PurgeExpiredEvidence(c, d) ==
  LET held == {row.scan : row \in Rows(d, "exceptions", Accepted)}
      expired == Found(d, "scans", Expired(d.settings["retention"].value, c))
  IN  Done(WithoutScans(d, expired \ held))

SMTPRecipients(c) == {[id |-> u] : u \in c.recipients}
SaveSMTPSettings(c, d) ==
  Result(c.recipients \subseteq DOMAIN d.users, d,
         Audited(PutRows([Put(d, "settings", [id |-> "smtp", value |-> c.by]) EXCEPT !.recipients = <<>>],
                         "recipients", SMTPRecipients(c)), c))
LongAlert(c) == [id |-> c.scan, sent |-> c.by]
MarkScanLongAlertSent(c, d) == Done(PutIfAbsent(d, "alerts", LongAlert(c)))
----------------------------------------------------------------------------
\* The asset function a call names.
AssetCall(c, d) ==
  CASE c.op = "Save" -> Save(c, d)
    [] c.op = "RecordAssetEvidence" -> RecordAssetEvidence(c, d)
    [] c.op = "UpdateAssetMetadata" -> UpdateAssetMetadata(c, d)
    [] c.op = "UpdateAssetAgentEligibility" -> UpdateAssetAgentEligibility(c, d)
    [] c.op = "UpdateAssetLifecycle" -> UpdateAssetLifecycle(c, d)
    [] c.op = "UpdateAssetAgingSettings" -> UpdateAssetAgingSettings(c, d)
    [] c.op = "MergeAssets" -> MergeAssets(c, d)
    [] c.op = "UpsertAssetGroup" -> UpsertAssetGroup(c, d)
    [] c.op = "AddAssetGroupMember" -> AddAssetGroupMember(c, d)
    [] c.op = "RemoveAssetGroupMember" -> RemoveAssetGroupMember(c, d)
    [] c.op = "UpsertReusableScanPolicy" -> UpsertReusableScanPolicy(c, d)
    [] c.op = "UpdateReusablePolicySchedule" -> UpdateReusablePolicySchedule(c, d)
    [] c.op = "EnsureDefaultScopePolicy" -> EnsureDefaultScopePolicy(c, d)
    [] c.op = "UpsertScopePolicy" -> UpsertScopePolicy(c, d)
    [] c.op = "UpdateFindingWorkflow" -> UpdateFindingWorkflow(c, d)
    [] c.op = "SaveFindingException" -> SaveFindingException(c, d)
    [] c.op = "ReviewFindingException" -> ReviewFindingException(c, d)
    [] c.op = "MarkExceptionReminded" -> MarkExceptionReminded(c, d)
    [] c.op = "SaveEvidenceRetentionSettings" -> SaveEvidenceRetentionSettings(c, d)
    [] c.op = "PurgeExpiredEvidence" -> PurgeExpiredEvidence(c, d)
    [] c.op = "SaveSMTPSettings" -> SaveSMTPSettings(c, d)
    [] c.op = "MarkScanLongAlertSent" -> MarkScanLongAlertSent(c, d)
============================================================================
