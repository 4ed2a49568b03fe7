------------------------- MODULE MCPostgresStore -------------------------
(***************************************************************************)
(* Every two calls of one area of the PostgreSQL store, made at the same   *)
(* time.  The rows of an area are those its functions touch, with one of   *)
(* everything that can be found, used up, expired or revoked.              *)
(***************************************************************************)
EXTENDS PostgresAccounts, PostgresJobs, PostgresSession

CONSTANT Excluded     \* the pairs of functions known not to be serializable

One(row) == row.id :> row
Text(id) == One([id |-> id, value |-> ""])
Call(s, area, name, actor) == [op |-> name, by |-> s, actor |-> actor, area |-> area]
New(s, kind) == kind \o s
MCKnownDeadlocks ==
  {{"UpdateUserAccess", name} : name \in {"DeleteSession", "RevokeUserSession", "RevokeOtherUserSessions"}}
  \cup {{"AgentUpdateOffer", "AssignAgentUpdate"}, {"LinkEndpointAsset", "MergeAssets"}, {"Save"}}
MCExcluded ==
  {{"RecordEndpointNetworkInventory", "UpsertThreatIndicator"}, {"UpsertThreatIndicator"},
   {"Save", "UpdateFindingWorkflow"}, {"Save", "MergeAssets"},
   {"PurgeExpiredEvidence", "ReviewFindingException"}, {"MergeAssets", "RemoveAssetGroupMember"},
   {"ReassignScannerWorkerJob", "RecordScannerWorkerEvidenceBatch"}}
MCNothing == {}
----------------------------------------------------------------------------
UserRow(id, role, local) ==
  One([id |-> id, role |-> role, status |-> "active", local |-> local, login |-> ""])
SessionRow(id) == One([id |-> id, user |-> "a", seen |-> "old", mfa |-> ""])
InvitationRow(id, email, kind) ==
  One([id |-> id, email |-> email, role |-> "viewer", kind |-> kind, accepted |-> ""])
AccountRows ==
  [users |-> UserRow("a", "administrator", TRUE) @@ UserRow("b", "administrator", TRUE)
             @@ UserRow("v", "viewer", FALSE),
   sessions |-> SessionRow("x") @@ SessionRow("y"),
   totp |-> One([id |-> "a", counter |-> 0]),
   codes |-> One([id |-> "code", user |-> "a", used |-> ""]),
   attempts |-> One([id |-> "k1", failures |-> 1, window |-> "open", blocked |-> 0]),
   ceremonies |-> One([id |-> "cer", kind |-> "login"]),
   passkeys |-> One([id |-> "pk", user |-> "a", count |-> 0]),
   providers |-> One([id |-> "p", mode |-> "jit", tested |-> TRUE, enabled |-> FALSE]),
   links |-> One([id |-> "linked", user |-> "v", login |-> ""]),
   invitations |-> InvitationRow("i1", "n", "local") @@ InvitationRow("i2", "m", "sso"),
   metadata |-> <<>>, audit |-> One([id |-> "old", age |-> "old"])]
NoAccounts == [t \in DOMAIN AccountRows |-> <<>>]

A(s, name, actor) == Call(s, "accounts", name, actor)
AccountCalls(s) ==
  {A(s, "UpdateUserAccess", by) @@ [user |-> u, role |-> r, status |-> st] :
     by \in {"a", "b"}, u \in {"a", "b", "v"}, r \in {"viewer", "administrator"},
     st \in {"active", "disabled"}}
  \cup {A(s, "CreateSession", u) @@ [session |-> New(s, "z"), user |-> u] : u \in {"a", "v"}}
  \cup {A(s, "RecordLoginFailure", "") @@ [key |-> k, threshold |-> 2] : k \in {"k1", "k2"}}
  \cup {A(s, "ConsumeTOTPCounter", "") @@ [user |-> "a", counter |-> n] : n \in 1 .. 2}
  \cup {A(s, "SetOIDCProviderEnabled", "a") @@ [provider |-> "p", enabled |-> b] : b \in BOOLEAN}
  \cup {A(s, "ResolveOIDCUser", "") @@ [subject |-> x, email |-> e, mode |-> m, role |-> "analyst"] :
          x \in {"fresh", "linked"}, e \in {"n", "m"}, m \in {"jit", "invite_only"}}
  \cup {A(s, name, "a") : name \in {"SaveAuthenticationPolicy", "AppendAuditEvent"}}
  \cup {A(s, "CreateInvitation", "a") @@ [invitation |-> "i3", email |-> "n", role |-> "viewer", kind |-> "local"],
        A(s, "AcceptLocalInvitation", "") @@ [invitation |-> "i1", user |-> "n", role |-> "viewer", code |-> New(s, "c")],
        A(s, "SessionUser", "") @@ [session |-> "x"],
        A(s, "DeleteSession", "a") @@ [session |-> "x"],
        A(s, "RevokeUserSession", "a") @@ [session |-> "y", user |-> "a"],
        A(s, "RevokeOtherUserSessions", "a") @@ [session |-> "x", sessions |-> {"x", "y", "zs1", "zs2"}, user |-> "a"],
        A(s, "UpdateSessionMFAVerifiedAt", "") @@ [session |-> "x", user |-> "a"],
        A(s, "ClearLoginFailures", "") @@ [keys |-> <<"k1", "k2">>],
        A(s, "ConsumeRecoveryCode", "a") @@ [user |-> "a", code |-> "code"],
        A(s, "CreateAuthenticationCeremony", "") @@ [ceremony |-> New(s, "c"), kind |-> "login"],
        A(s, "ConsumeAuthenticationCeremony", "") @@ [ceremony |-> "cer", kind |-> "login"],
        A(s, "CreateWebAuthnCredential", "") @@ [passkey |-> New(s, "c"), user |-> "a"],
        A(s, "DeleteWebAuthnCredential", "") @@ [passkey |-> "pk", user |-> "a"],
        A(s, "UpdateWebAuthnCredential", "") @@ [passkey |-> "pk", user |-> "a", count |-> 1],
        A(s, "UpsertOIDCProvider", "a") @@ [provider |-> "p", mode |-> "jit"],
        A(s, "MarkOIDCProviderTested", "a") @@ [provider |-> "p"]}
BootstrapCalls(s) ==
  {A(s, "BootstrapAdministrator", "") @@ [user |-> u, code |-> New(s, "c")] : u \in {"a", "b"}}
AccountKeys ==
  <<"a", "b", "v", "n", "m", "x", "y", "zs1", "zs2", "code", "cs1", "cs2", "k1", "k2", "cer", "pk",
    "p", "linked", "fresh", "i1", "i2", "i3", "authentication", "old", "s1", "s2">>
----------------------------------------------------------------------------
EndpointRow(id) ==
  One([id |-> id, status |-> "active", serial |-> "old", os |-> "linux", seen |-> "",
       collectors |-> "", exclusions |-> "", asset |-> ""])
ReleaseRow(id, version, status) ==
  One([id |-> id, version |-> version, os |-> "linux", status |-> status])
FleetRows ==
  [users |-> One([id |-> "a"]), tokens |-> One([id |-> "t", used |-> ""]),
   endpoints |-> EndpointRow("e1") @@ EndpointRow("e2"),
   assets |-> One([id |-> "as"]), groups |-> One([id |-> "g"]),
   releases |-> ReleaseRow("r1", "v1", "approved") @@ ReleaseRow("r2", "v2", "approved")
                @@ ReleaseRow("r3", "v3", "staged"),
   assignments |-> One([id |-> "e1", release |-> "r1", status |-> "assigned", offered |-> ""]),
   publishers |-> One([id |-> "pub", enabled |-> TRUE]),
   modules |-> One([id |-> "r1", status |-> "approved"]) @@ One([id |-> "r3", status |-> "staged"]),
   rings |-> <<>>, health |-> <<>>,
   settings |-> Text("modules") @@ Text("coverage") @@ Text("heartbeat") @@ Text("dispatch"),
   relays |-> One([id |-> "rl", endpoint |-> "e1", status |-> "active"]), downstreams |-> <<>>,
   windows |-> <<>>, delayed |-> Text("e1"),
   maintenance |-> One([id |-> "mw", target |-> "e1", cancelled |-> ""]), discovery |-> <<>>,
   workers |-> One([id |-> "w", status |-> "active", seen |-> "", dispatch |-> ""]),
   os |-> <<>>, patches |-> <<>>, listening |-> <<>>, services |-> <<>>, posture |-> <<>>,
   evidence |-> <<>>, installed |-> <<>>, software |-> <<>>,
   products |-> One([id |-> "cve", what |-> "app"]), cvematches |-> <<>>,
   network |-> One([id |-> "e2", at |-> ""]),
   connections |-> One([id |-> "e2/o", endpoint |-> "e2", what |-> "bad"]),
   indicators |-> One([id |-> "in", what |-> "bad", enabled |-> TRUE, observed |-> "past", expires |-> "later"]),
   indicatormatches |-> One([id |-> "in/e2/o", endpoint |-> "e2"]),
   snapshots |-> One([id |-> "e1", sequence |-> 1, hash |-> "h1"]), changes |-> <<>>, audit |-> <<>>]

F(s, name) == Call(s, "fleet", name, "a")
OfEndpoint(s, names) == {F(s, name) @@ [endpoint |-> "e1"] : name \in names}
Revocations(s) == {F(s, "RevokeEndpoint") @@ [endpoint |-> e] : e \in {"e1", "e2"}}
Target(kind) == IF kind = "endpoint" THEN "e1" ELSE "g"
RelayCalls(s) ==
  {F(s, "PromoteEndpointRelay") @@ [relay |-> e] : e \in {"e1", "e2"}}
  \cup {F(s, "RevokeEndpointRelay") @@ [relay |-> e, also |-> New(s, "x")] : e \in {"e1", "e2"}}
  \cup {F(s, "AuthorizeRelayDownstream") @@ [relay |-> e, endpoint |-> f] :
          e \in {"e1", "e2"}, f \in {"e1", "e2"}}
  \cup {F(s, "RevokeRelayDownstream") @@ [relay |-> "e1", endpoint |-> "e2"]}
PolicyCalls(s) ==
  {F(s, name) @@ [kind |-> k, target |-> Target(k), window |-> "mw"] :
     name \in {"UpsertRelayUploadWindow", "UpsertDelayedHeartbeatPolicy", "CreateEndpointMaintenanceWindow"},
     k \in {"endpoint", "group"}}
  \cup {F(s, "DeleteDelayedHeartbeatPolicy") @@ [target |-> "e1"],
        F(s, "CancelEndpointMaintenanceWindow") @@ [window |-> "mw"]}
  \cup {F(s, "SaveCoverageDiscoveryPolicy") @@ [policy |-> "dp", created |-> x] : x \in {"", s}}
  \cup {F(s, name) : name \in {"SetAgentModulesEnabled", "SetEndpointCoverageSettings",
                               "SetEndpointHeartbeatSettings", "SetScannerWorkerDispatch"}}
EndpointCalls(s) ==
  OfEndpoint(s, {"SetEndpointCollectors", "SetEndpointNetworkExclusions", "MarkEndpointSeen",
                 "AgentUpdateOffer"})
  \cup {F(s, "CreateAgentEnrollmentToken") @@ [token |-> New(s, "t")],
        F(s, "ConsumeAgentEnrollmentToken") @@ [token |-> "t", endpoint |-> New(s, "e")],
        F(s, "RenewEndpointCertificate") @@ [endpoint |-> "e1", serial |-> "old"],
        F(s, "LinkEndpointAsset") @@ [endpoint |-> "e1", asset |-> "as"],
        F(s, "CreateAgentUpdateRelease") @@ [release |-> New(s, "r"), version |-> "v4", os |-> "linux"],
        F(s, "ApproveAgentUpdateRelease") @@ [release |-> "r3"]}
  \cup {F(s, "RecordEndpointCheckIn") @@ [endpoint |-> "e1", os |-> o, version |-> "v1"] :
          o \in {"linux", "windows"}}
  \cup {F(s, "RevokeAgentUpdateRelease") @@ [release |-> r] : r \in {"r1", "r3"}}
  \cup {F(s, "AssignAgentUpdate") @@ [endpoint |-> "e1", release |-> r] : r \in {"r1", "r2", "r3"}}
ModuleCalls(s) ==
  {F(s, "SaveAgentModulePublisher") @@ [publisher |-> "pub", enabled |-> b] : b \in BOOLEAN}
  \cup {F(s, "CreateAgentModuleRelease") @@ [release |-> New(s, "r")],
        F(s, "TransitionAgentModuleRelease") @@ [release |-> "r3", from |-> "staged", to |-> "approved"],
        F(s, "TransitionAgentModuleRelease") @@ [release |-> "r1", from |-> "approved", to |-> "revoked"],
        F(s, "RecordAgentModuleHealth") @@ [endpoint |-> "e1", module |-> "m"]}
  \cup {F(s, "SaveAgentModuleAssignment") @@ [release |-> "r1", kind |-> k, target |-> Target(k)] :
          k \in {"endpoint", "group"}}
WorkerCalls(s) ==
  {F(s, name) @@ [worker |-> "w"] :
     name \in {"RecordScannerWorkerHeartbeat", "RevokeScannerWorker", "SetScannerWorkerDispatchForWorker"}}
  \cup {F(s, "CreateWorkerEnrollmentToken") @@ [token |-> New(s, "t")],
        F(s, "ConsumeWorkerEnrollmentToken") @@ [token |-> "t", worker |-> New(s, "w")]}
InventoryCalls(s) ==
  {F(s, r[1]) @@ [endpoint |-> "e1", ordinal |-> "o", what |-> r[2]] :
     r \in {<<"RecordEndpointOSInventory", "app">>, <<"RecordEndpointListeningInventory", "app">>,
            <<"RecordEndpointPostureInventory", "app">>, <<"RecordEndpointSoftwareInventory", "app">>,
            <<"RecordEndpointSoftwareInventory", "lib">>, <<"RecordEndpointNetworkInventory", "bad">>,
            <<"RecordEndpointNetworkInventory", "good">>}}
  \cup OfEndpoint(s, {"RefreshEndpointCVEMatches"})
  \cup {F(s, "UpsertThreatIndicator") @@ [indicator |-> i, what |-> "good", enabled |-> TRUE, observed |-> "past"] :
          i \in {"in", "in2"}}
  \cup {F(s, "RecordEndpointIntegritySnapshot") @@ [endpoint |-> e, sequence |-> n, hash |-> "h2"] :
          e \in {"e1", "e2"}, n \in 1 .. 2}
FleetKeys ==
  <<"t", "e1", "e2", "es1", "es2", "as", "g", "r1", "r2", "r3", "rs1", "rs2", "pub", "modules",
    "coverage", "heartbeat", "dispatch", "rl", "mw", "dp", "w", "ws1", "ws2", "cve", "in", "in2",
    "e1/o", "e2/o", "in/e1/o", "in/e2/o", "in2/e1/o", "in2/e2/o", "e1/cve", "e2/cve", "ts1", "ts2",
    "xs1", "xs2", "r1/e1", "r1/g", "e1/m", "e1/s1", "e1/s2">>
----------------------------------------------------------------------------
AssetRow(id, address) ==
  One([id |-> id, name |-> "n", address |-> address, first |-> 1, seen |-> 1, scan |-> "old",
       owner |-> "", status |-> "active", eligible |-> ""])
AddressRow(id, asset) == One([id |-> id, asset |-> asset, first |-> 1, seen |-> 1, scan |-> "old"])
ServiceRow(asset, address) ==
  One([id |-> Pair(asset, address), asset |-> asset, address |-> address, state |-> "observed",
       checked |-> 1, scan |-> "old", count |-> 1])
AssetRows ==
  [users |-> One([id |-> "a", status |-> "active"]),
   endpoints |-> One([id |-> "e1", status |-> "active", asset |-> "B"]),
   assets |-> AssetRow("A", "10.1") @@ AssetRow("B", "10.2"), groups |-> One([id |-> "g", by |-> ""]),
   addresses |-> AddressRow("10.1", "A") @@ AddressRow("10.2", "B"),
   names |-> One([id |-> "n.x", asset |-> "A"]),
   services |-> ServiceRow("A", "10.1") @@ ServiceRow("B", "10.2"),
   events |-> One([id |-> "o1", asset |-> "B", scan |-> "old"]),
   assetevidence |-> One([id |-> "o1", asset |-> "B"]),
   members |-> One([id |-> "g/B", group |-> "g", asset |-> "B"]),
   scans |-> One([id |-> "old", status |-> "completed", by |-> "", completed |-> 1])
             @@ One([id |-> "run", status |-> "running", by |-> "", completed |-> 0]),
   findings |-> One([id |-> "f1", scan |-> "old", status |-> "open", assigned |-> ""])
                @@ One([id |-> "f2", scan |-> "run", status |-> "open", assigned |-> ""]),
   exceptions |-> One([id |-> "x1", finding |-> "f1", scan |-> "old", status |-> "pending", reminded |-> ""]),
   policies |-> One([id |-> "p", scope |-> "sc", saved |-> "", next |-> ""]),
   policygroups |-> One([id |-> "p/g", policy |-> "p", group |-> "g"]),
   scopes |-> One([id |-> "sc", by |-> ""]), recipients |-> One([id |-> "a"]), alerts |-> <<>>,
   settings |-> Text("aging") @@ One([id |-> "retention", value |-> 5]), audit |-> <<>>]

S(s, name) == Call(s, "assets", name, "a")
At(s) == IF s = "s1" THEN 2 ELSE 3
Observation(id, address, name, at) ==
  [id |-> id, address |-> address, target |-> IF name = "" THEN address ELSE name, name |-> name, at |-> at]
Saved(s, scan, status, targets, observations, findings) ==
  S(s, "Save") @@ [scan |-> scan, status |-> status, targets |-> targets,
                   observations |-> observations, findings |-> findings, at |-> At(s)]
Progress(s) == Saved(s, "run", "running", <<"10.1">>, <<>>, {"f2"})
\* A scan that finds an address at one place or another, or two of them.
SaveCalls(s) ==
  LET seen(address, name) == Observation(New(s, "o"), address, name, At(s))
      done(target, observations) == Saved(s, New(s, "run"), "completed", <<target>>, observations, {})
      other == Observation(New(s, "q"), "10.1", "", At(s))
      both == IF s = "s1" THEN <<seen("10.2", ""), other>> ELSE <<other, seen("10.2", "")>>
  IN  {done("10.2", <<>>), done("10.2", <<seen("10.2", "n.x")>>), done("10.3", <<seen("10.3", "n.x")>>),
       done("10.3", <<seen("10.3", "")>>), done("10.1", <<Observation("o1", "10.2", "", 1)>>),
       done("10.2", both), Progress(s)}
Merge(s, survivor, merged) ==
  S(s, "MergeAssets") @@ [survivor |-> survivor, merged |-> merged,
                          from |-> [name |-> "B", address |-> "B", owner |-> "A", status |-> "A"]]
AssetCalls(s) ==
  {S(s, name) @@ [asset |-> "B", status |-> "retired"] :
     name \in {"UpdateAssetMetadata", "UpdateAssetAgentEligibility", "UpdateAssetLifecycle"}}
  \cup {Merge(s, "A", "B"), Merge(s, "B", "A"), S(s, "UpdateAssetAgingSettings"),
        S(s, "RecordAssetEvidence") @@ [asset |-> "B", evidence |-> New(s, "ev")],
        S(s, "UpsertAssetGroup") @@ [group |-> "g"],
        S(s, "UpdateReusablePolicySchedule") @@ [policy |-> "p"],
        S(s, "UpsertScopePolicy") @@ [scope |-> "sc"],
        S(s, "EnsureDefaultScopePolicy") @@ [scope |-> "sc"]}
  \cup {S(s, name) @@ [group |-> "g", asset |-> x] :
          name \in {"AddAssetGroupMember", "RemoveAssetGroupMember"}, x \in {"A", "B"}}
  \cup {F(s, "LinkEndpointAsset") @@ [endpoint |-> "e1", asset |-> x] : x \in {"A", "B"}}
  \cup {S(s, "UpsertReusableScanPolicy") @@ [policy |-> "p", scope |-> "sc", groups |-> g] :
          g \in {{}, {"g"}}}
ReportCalls(s) ==
  {S(s, "UpdateFindingWorkflow") @@ [finding |-> f, assigned |-> u, status |-> "resolved"] :
     f \in {"f1", "f2"}, u \in {"", "a"}}
  \cup {S(s, "SaveFindingException") @@ [exception |-> New(s, "x"), finding |-> r[1], scan |-> r[2]] :
          r \in {<<"f1", "old">>, <<"f2", "run">>}}
  \cup {S(s, "ReviewFindingException") @@ [exception |-> "x1", status |-> r] :
          r \in {"approved", "rejected"}}
  \cup {S(s, "SaveSMTPSettings") @@ [recipients |-> r] : r \in {{}, {"a"}}}
  \cup {S(s, "MarkExceptionReminded") @@ [exception |-> "x1"],
        S(s, "SaveEvidenceRetentionSettings") @@ [days |-> 9],
        S(s, "PurgeExpiredEvidence") @@ [now |-> 10],
        S(s, "MarkScanLongAlertSent") @@ [scan |-> "run"],
        Progress(s), Saved(s, "run", "completed", <<"10.1">>, <<>>, {"f2"})}
AssetKeys ==
  <<"A", "B", "10.1", "10.2", "10.3", "asset:10.3", "n.x", "A/10.1", "A/10.2", "A/10.3", "B/10.1",
    "B/10.2", "B/10.3", "asset:10.3/10.3", "o1", "os1", "os2", "qs1", "qs2", "g/A", "g/B", "run",
    "runs1", "runs2", "f1", "f2", "x1", "p/g", "sc", "aging", "retention", "smtp", "evs1", "evs2">>
----------------------------------------------------------------------------
\* One job is leased, once or for the last time, and has sent nothing or all its
\* evidence; another waits.
WorkerRow(id) == One([id |-> id, status |-> "active", seen |-> "", dispatch |-> "on"])
StoredJob(id, status, token, lease, attempt, created) ==
  One([id |-> id, worker |-> "w1", scan |-> "sc", status |-> status, envelope |-> "", token |-> token,
       lease |-> lease, expires |-> 5, attempt |-> attempt, checks |-> 1, result |-> "",
       outcome |-> "", created |-> created, resume |-> 0])
FirstAssignment(job) == One([id |-> Pair(job, "1"), job |-> job, n |-> 1, worker |-> "w1"])
JobRows(attempt, final) ==
  [workers |-> WorkerRow("w1") @@ WorkerRow("w2"),
   jobs |-> StoredJob("j1", "leased", "tok", 2, attempt, 1) @@ StoredJob("j2", "pending", "", 0, 0, 2),
   jobassignments |-> FirstAssignment("j1") @@ FirstAssignment("j2"),
   batches |-> IF final
                 THEN One([id |-> "b0", job |-> "j1", worker |-> "w1", sequence |-> 1, final |-> TRUE])
                 ELSE <<>>,
   checkpoints |-> IF final THEN One([id |-> "j1/c", job |-> "j1", batch |-> "b0"]) ELSE <<>>,
   letters |-> <<>>, scans |-> One([id |-> "sc", status |-> "queued", by |-> "", completed |-> 0]),
   settings |-> One([id |-> "dispatch", value |-> "on"]), users |-> One([id |-> "a"]), audit |-> <<>>]

J(s, name, job) == Call(s, "jobs", name, "a") @@ [job |-> job]
JobCalls(s) ==
  {J(s, "CreateScannerWorkerJob", j) @@
     [worker |-> "w1", scan |-> "sc", expires |-> 5, checks |-> 1, now |-> 3] : j \in {"j1", "j3"}}
  \cup {J(s, "LeaseScannerWorkerJob", "") @@ [worker |-> w, token |-> s, now |-> t, until |-> t + 1] :
          w \in {"w1", "w2"}, t \in {1, 2, 5}}
  \cup {J(s, "RenewScannerWorkerJobLease", "j1") @@
          [worker |-> "w1", token |-> "tok", now |-> 1, until |-> u] : u \in {3, 6}}
  \cup {J(s, "RecordScannerWorkerEvidenceBatch", "j1") @@
          [worker |-> "w1", scan |-> "sc", batch |-> b, sequence |-> q, final |-> TRUE, check |-> "c", now |-> 1] :
          b \in {New(s, "b"), "bs1"}, q \in 1 .. 2}
  \cup {J(s, "CompleteScannerWorkerJob", "j1") @@
          [worker |-> "w1", token |-> "tok", result |-> r, outcome |-> o, now |-> 1] :
          r \in {"r", s}, o \in {"succeeded", "failed"}}
  \cup {J(s, "ScannerWorkerJobResumeCandidate", "j1") @@ [now |-> 2]}
  \cup {J(s, "ReassignScannerWorkerJob", "j1") @@
          [previous |-> "w1", worker |-> "w2", sequence |-> q, completed |-> q - 1, now |-> 2] :
          q \in 1 .. 2}
  \cup {F(s, "SetScannerWorkerDispatch")}
JobKeys ==
  <<"w1", "w2", "j1", "j2", "j3", "j1/1", "j1/2", "j2/1", "j2/2", "j3/1", "b0", "bs1", "bs2", "j1/c">>
\* A job at its last lease is quarantined from a reading nothing locks, so a call
\* that changes it meanwhile is not serializable with the quarantine.
Quarantines(c) == c.op = "LeaseScannerWorkerJob" /\ c.now > 1 /\ c.worker = "w1"
----------------------------------------------------------------------------
StoreProgram(c, got) ==
  CASE c.area = "accounts" -> AccountProgram(c, got)
    [] c.area = "fleet" -> FleetProgram(c, got)
    [] c.area = "assets" -> AssetProgram(c, got)
    [] c.area = "jobs" -> JobProgram(c, got)
StoreCall(c, d) ==
  CASE c.area = "accounts" -> AccountCall(c, d)
    [] c.area = "fleet" -> FleetCall(c, d)
    [] c.area = "assets" -> AssetCall(c, d)
    [] c.area = "jobs" -> JobCall(c, d)
StoreKeys == AccountKeys \o FleetKeys \o AssetKeys \o JobKeys

\* The sessions are alike: of two different functions one goes to the first.
Begins(rows, calls(_)) ==
  \E a \in calls("s1") : \E b \in calls("s2") :
    /\ {a.op, b.op} \notin Excluded
    /\ a.op = CHOOSE op \in {a.op, b.op} : TRUE
    /\ StoreInit(rows, [s \in Session |-> IF s = "s1" THEN a ELSE b])
MCStoreInit ==
  \/ Begins(AccountRows, AccountCalls)
  \/ Begins(NoAccounts, BootstrapCalls)
  \/ Begins(FleetRows, LAMBDA s : RelayCalls(s) \cup Revocations(s))
  \/ Begins(FleetRows, LAMBDA s : PolicyCalls(s) \cup Revocations(s))
  \/ Begins(FleetRows, LAMBDA s : EndpointCalls(s) \cup Revocations(s))
  \/ Begins(FleetRows, LAMBDA s : ModuleCalls(s) \cup Revocations(s))
  \/ Begins(FleetRows, WorkerCalls)
  \/ Begins(FleetRows, LAMBDA s : InventoryCalls(s) \cup Revocations(s))
  \/ Begins(AssetRows, LAMBDA s : SaveCalls(s) \cup AssetCalls(s))
  \/ Begins(AssetRows, ReportCalls)
  \/ \E attempt \in {1, 3}, final \in BOOLEAN :
       Begins(JobRows(attempt, final), LAMBDA s : {c \in JobCalls(s) : attempt = 3 => ~Quarantines(c)})
MCStoreSpec == MCStoreInit /\ [][StoreNext]_sqlVars
----------------------------------------------------------------------------
\* A worker that sends evidence just before its lease lapses, and the request
\* that reassigns its job just after.
MCHandoverInit ==
  \E final \in BOOLEAN :
    Begins(JobRows(1, final),
           LAMBDA s : {c \in JobCalls(s) : c.op \in {"ReassignScannerWorkerJob",
                                                     "RecordScannerWorkerEvidenceBatch"}})
MCHandoverSpec == MCHandoverInit /\ [][StoreNext]_sqlVars

\* "The reassignment is atomic": a job that waits for its next worker resumes
\* right after the evidence the store has of it.  ReassignScannerWorkerJob
\* counts the evidence before it locks the job.
HandoverExact ==
  \A k \in DOMAIN db.jobs :
    LET job == db.jobs[k] IN
      job.status = "pending" /\ job.resume > 0 =>
        job.resume = LastSequence(Rows(db, "batches", [job |-> {k}])) + 1
==========================================================================
