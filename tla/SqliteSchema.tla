---------------------------- MODULE SqliteSchema ----------------------------
(***************************************************************************)
(* The schema migrations of the SQLite store, in the order migrate applies *)
(* them: the tables a migration creates and the columns it adds to older   *)
(* tables, with the tables their foreign keys name.  Types, defaults and   *)
(* checks of columns are left out; a row a migration inserts is the table  *)
(* it seeds, an index or a trigger the table it uses.                      *)
(***************************************************************************)
EXTENDS Sequences

Table(name, columns, parents) ==
  [op |-> "create", table |-> name, columns |-> columns, parents |-> parents]
Added(name, columns, parents) ==
  [op |-> "add", table |-> name, columns |-> columns, parents |-> parents]
Seeded(tables) == [op |-> "seed", table |-> "", columns |-> {}, parents |-> tables]
Uses(tables) == [op |-> "use", table |-> "", columns |-> {}, parents |-> tables]

\* 1
applyMigrationOne == <<
  Table("scans", {"id", "name", "status", "error", "total_checks", "done_checks", "created_at",
      "started_at", "completed_at"}, {}),
  Table("scan_targets", {"scan_id", "ordinal", "name", "address"}, {"scans"}),
  Table("scan_ports", {"scan_id", "ordinal", "port"}, {"scans"}),
  Table("service_observations", {"id", "scan_id", "ordinal", "target", "address", "port",
      "protocol", "product", "version", "confidence", "evidence", "observed_at"}, {"scans"}),
  Table("observation_metadata", {"observation_id", "key", "value"}, {"service_observations"}),
  Table("findings", {"id", "scan_id", "ordinal", "check_id", "target", "address", "port",
      "service", "severity", "title", "evidence", "remediation", "observed_at"}, {"scans"}),
  Table("app_metadata", {"key", "value"}, {})>>

\* 2
applyMigrationTwo == <<
  Table("cves", {"id", "description", "published_at", "modified_at", "cvss_score", "cvss_vector",
      "severity", "known_exploited", "source_url"}, {}),
  Table("cve_products", {"cve_id", "ordinal", "cpe23", "part", "vendor", "product", "version",
      "version_start_including", "version_start_excluding", "version_end_including",
      "version_end_excluding", "vulnerable"}, {"cves"}),
  Table("cve_references", {"cve_id", "ordinal", "url", "source"}, {"cves"}),
  Table("cve_matches", {"scan_id", "observation_id", "cve_id", "ordinal", "target", "address",
      "port", "product", "version", "confidence", "evidence", "matched_at"}, {"cves", "scans",
      "service_observations"}),
  Table("feed_sync_status", {"source", "status", "last_started", "last_success", "records",
      "error"}, {})>>

\* 3
applyIdentityMigration == <<
  Table("users", {"id", "email", "display_name", "role", "status", "password_hash",
      "mfa_required", "created_at", "updated_at", "last_login_at"}, {}),
  Table("invitations", {"id", "email", "role", "token_hash", "invited_by", "expires_at",
      "accepted_at", "created_at"}, {"users"}),
  Table("sessions", {"id_hash", "user_id", "created_at", "expires_at", "last_seen_at",
      "mfa_verified_at", "source_ip", "user_agent_hash"}, {"users"}),
  Table("login_attempts", {"key_hash", "failures", "window_started_at", "blocked_until"}, {}),
  Table("totp_credentials", {"user_id", "secret_ciphertext", "created_at", "verified_at",
      "last_counter"}, {"users"}),
  Table("recovery_codes", {"user_id", "code_hash", "used_at", "created_at"}, {"users"}),
  Table("webauthn_credentials", {"credential_id", "user_id", "public_key", "attestation_type",
      "transports", "sign_count", "backup_eligible", "backup_state", "name", "created_at",
      "last_used_at"}, {"users"}),
  Table("authentication_ceremonies", {"id_hash", "user_id", "kind", "state_ciphertext",
      "expires_at", "created_at"}, {"users"}),
  Table("oidc_providers", {"id", "name", "issuer_url", "client_id", "client_secret_ciphertext",
      "provisioning_mode", "allowed_tenant_id", "allowed_email_domains", "allowed_groups",
      "role_mappings", "default_role", "enabled", "created_at", "updated_at"}, {}),
  Table("external_identities", {"provider_id", "subject", "user_id", "tenant_id", "email",
      "created_at", "last_login_at"}, {"oidc_providers", "users"}),
  Table("audit_events", {"id", "occurred_at", "actor_id", "action", "severity", "target_type",
      "target_id", "source_ip", "details"}, {"users"}),
  Table("scope_policies", {"id", "name", "allowed_cidrs", "allowed_ports", "max_targets",
      "enabled", "created_by", "created_at", "updated_at"}, {"users"})>>

\* 4
applySessionControlsMigration == <<
  Added("sessions", {"public_id"}, {})>>

\* 5
applyWebAuthnCredentialMigration == <<
  Added("webauthn_credentials", {"credential_ciphertext"}, {})>>

\* 6
applyInvitationControlsMigration == <<
  Added("invitations", {"identity_kind"}, {})>>

\* 7
applyOIDCControlsMigration == <<
  Added("oidc_providers", {"redirect_url", "tested_at"}, {})>>

\* 8
applyScopePolicyControlsMigration == <<
  Added("scope_policies", {"max_concurrent"}, {}),
  Added("scans", {"scope_policy_id", "max_concurrent"}, {})>>

\* 9
applyEndpointIdentityMigration == <<
  Table("agent_enrollment_tokens", {"id", "name", "token_hash", "created_by", "created_at",
      "expires_at", "used_at"}, {"users"}),
  Table("endpoints", {"id", "name", "status", "certificate_serial", "certificate_pem",
      "enrolled_at", "expires_at", "last_seen_at"}, {})>>

\* 10
applyEndpointLifecycleMigration == <<
  Added("endpoints", {"renewed_at", "revoked_at", "revocation_reason"}, {})>>

\* 11
applyAssetInventoryMigration == <<
  Table("assets", {"id", "name", "address", "first_seen", "last_seen", "last_scan_id"}, {})>>

\* 12
applyAssetCorrelationMigration == <<
  Table("asset_addresses", {"asset_id", "address", "first_seen", "last_seen", "last_scan_id"},
      {"assets"}),
  Table("asset_names", {"asset_id", "name", "normalized_name"}, {"assets"}),
  Seeded({"asset_addresses"}),
  Uses({"assets"})>>

\* 13
applyAssetMetadataMigration == <<
  Added("assets", {"owner", "environment", "classification"}, {})>>

\* 14
applyAssetGroupPolicyMigration == <<
  Table("asset_groups", {"id", "name", "description", "created_at", "updated_at"}, {}),
  Table("asset_group_members", {"group_id", "asset_id", "added_at", "added_by"}, {"asset_groups",
      "assets", "users"}),
  Table("reusable_scan_policies", {"id", "name", "scope_policy_id", "ports", "enabled",
      "created_at", "updated_at"}, {"scope_policies"}),
  Table("reusable_scan_policy_groups", {"scan_policy_id", "group_id", "ordinal"}, {"asset_groups",
      "reusable_scan_policies"}),
  Added("scans", {"scan_policy_id"}, {}),
  Added("scan_targets", {"group_ids"}, {})>>

\* 15
applyResumableScanMigration == <<
  Added("scans", {"active_seconds", "window_end"}, {}),
  Table("scan_checkpoints", {"scan_id", "address", "port", "completed_at"}, {"scans"})>>

\* 16
applyPolicyScheduleMigration == <<
  Added("reusable_scan_policies", {"schedule_kind", "schedule_expression", "schedule_timezone",
      "window_start", "window_end", "run_missed", "long_run_alert_seconds", "next_run_at",
      "last_scheduled_at"}, {}),
  Added("scans", {"long_alert_sent"}, {})>>

\* 17
applyNotificationMigration == <<
  Table("smtp_settings", {"id", "enabled", "host", "port", "username", "password_ciphertext",
      "from_address", "tls_mode"}, {}),
  Table("smtp_recipients", {"user_id"}, {"users"}),
  Table("scan_long_alerts", {"scan_id", "sent_at"}, {})>>

\* 18
applyAssetServiceHistoryMigration == <<
  Table("asset_services", {"asset_id", "address", "port", "protocol", "product", "version",
      "confidence", "state", "first_seen", "last_seen", "last_checked", "last_scan_id",
      "observation_count"}, {"assets"}),
  Table("asset_service_events", {"observation_id", "asset_id", "scan_id", "address", "port",
      "protocol", "product", "version", "confidence", "observed_at", "finding_ids", "cve_ids"},
      {"assets"})>>

\* 19
applyEvidenceProvenanceMigration == <<
  Added("asset_service_events", {"source_type", "source_id"}, {}),
  Table("asset_evidence", {"id", "asset_id", "source_type", "source_id", "record_type",
      "record_id", "scan_id", "address", "summary", "collected_at"}, {"assets"}),
  Seeded({"asset_evidence"})>>

\* 20
applyAssetLifecycleMigration == <<
  Added("assets", {"lifecycle_status", "retired_at", "retired_by", "retirement_reason"}, {}),
  Table("asset_aging_settings", {"singleton", "stale_after_days"}, {}),
  Seeded({"asset_aging_settings"})>>

\* 21
applyRateLimitMigration == <<
  Added("reusable_scan_policies", {"rate_limit_per_second"}, {}),
  Added("scans", {"rate_limit_per_second"}, {})>>

\* 22
applyScannerWorkerIdentityMigration == <<
  Table("scanner_worker_enrollment_tokens", {"id", "name", "token_hash", "allowed_cidrs",
      "allowed_ports", "max_concurrent", "rate_limit_per_second", "created_by", "created_at",
      "expires_at", "used_at"}, {"users"}),
  Table("scanner_workers", {"id", "name", "status", "certificate_serial", "certificate_pem",
      "allowed_cidrs", "allowed_ports", "max_concurrent", "rate_limit_per_second",
      "enrolled_at", "expires_at", "last_seen_at", "revoked_at", "revocation_reason"}, {})>>

\* 23
applyScannerWorkerHeartbeatMigration == <<
  Added("scanner_workers", {"software_version", "operating_system", "architecture",
      "capabilities", "available_concurrency", "health", "health_message"}, {})>>

\* 24
applyScannerWorkerJobMigration == <<
  Table("scanner_worker_jobs", {"id", "worker_id", "scan_id", "status", "signed_envelope",
      "issued_at", "expires_at", "created_at"}, {"scanner_workers"})>>

\* 25
applyScannerWorkerJobLeaseMigration == <<
  Added("scanner_worker_jobs", {"lease_token_hash", "lease_expires_at", "lease_attempt"}, {})>>

\* 26
applyScannerWorkerResultMigration == <<
  Added("scanner_worker_jobs", {"result_id", "result_outcome", "completed_at"}, {})>>

\* 27
applyScannerWorkerEvidenceMigration == <<
  Table("scanner_worker_evidence_batches", {"batch_id", "job_id", "worker_id", "scan_id",
      "sequence", "final", "certificate_serial", "signed_envelope", "collected_at",
      "received_at"}, {"scanner_worker_jobs", "scanner_workers"})>>

\* 28
applyScannerWorkerCheckpointMigration == <<
  Table("scanner_worker_job_checkpoints", {"job_id", "worker_id", "scan_id", "address", "port",
      "completed_at", "batch_id"}, {"scanner_worker_evidence_batches", "scanner_worker_jobs",
      "scanner_workers"})>>

\* 29
applyScannerWorkerSiteMigration == <<
  Added("scanner_worker_enrollment_tokens", {"site_id"}, {}),
  Added("scanner_workers", {"site_id"}, {})>>

\* 30
applyScannerWorkerReassignmentMigration == <<
  Table("scanner_worker_job_assignments", {"job_id", "attempt", "worker_id", "signed_envelope",
      "assigned_at", "reason"}, {"scanner_worker_jobs", "scanner_workers"}),
  Seeded({"scanner_worker_job_assignments"}),
  Uses({"scanner_worker_jobs"})>>

\* 31
applyScannerWorkerDispatchMigration == <<
  Added("scanner_workers", {"dispatch_enabled"}, {}),
  Table("scanner_worker_dispatch_settings", {"id", "enabled"}, {}),
  Seeded({"scanner_worker_dispatch_settings"})>>

\* 32
applyScanPolicyExecutionMigration == <<
  Added("reusable_scan_policies", {"execution_mode", "worker_site_id"}, {})>>

\* 33
applyScannerWorkerDeadLetterMigration == <<
  Table("scanner_worker_job_dead_letters", {"job_id", "scan_id", "worker_id", "failure_count",
      "reason", "quarantined_at"}, {"scanner_worker_jobs", "scanner_workers"})>>

\* 34
applyCheckCatalogMigration == <<
  Table("check_publishers", {"key_id", "name", "public_key", "status", "added_at", "revoked_at"},
      {}),
  Table("declarative_check_versions", {"check_id", "version", "kind", "key_id", "envelope_json",
      "status", "imported_at", "activated_at"}, {"check_publishers"})>>

\* 35
applyIntrusiveCheckPolicyMigration == <<
  Table("intrusive_check_policy", {"id", "enabled", "allowed_check_ids_json", "updated_at"}, {}),
  Seeded({"intrusive_check_policy"})>>

\* 36
applyFindingWorkflowMigration == <<
  Added("findings", {"status", "assigned_to", "workflow_updated_at"}, {})>>

\* 37
applyReportingMigration == <<
  Table("finding_exceptions", {"id", "finding_id", "reason", "status", "requested_by",
      "approved_by", "created_at", "expires_at", "reminder_days", "last_reminder_at"},
      {"findings", "users"}),
  Table("evidence_retention_settings", {"id", "retention_days", "updated_at"}, {}),
  Seeded({"evidence_retention_settings"})>>

\* 38
applyEndpointCollectorPolicyMigration == <<
  Added("endpoints", {"allowed_collectors"}, {})>>

\* 39
applyAgentUpdateCatalogMigration == <<
  Table("agent_update_releases", {"id", "version", "operating_system", "architecture",
      "artifact_sha256", "artifact_size", "signing_key_id", "envelope", "status", "created_by",
      "created_at", "approved_by", "approved_at", "revoked_by", "revoked_at",
      "revocation_reason"}, {"users"})>>

\* 40
applyAgentUpdateAssignmentMigration == <<
  Added("endpoints", {"software_version", "operating_system", "architecture"}, {}),
  Table("agent_update_assignments", {"endpoint_id", "release_id", "status", "assigned_by",
      "assigned_at", "offered_at", "installed_at"}, {"agent_update_releases", "endpoints",
      "users"})>>

\* 41
applyAgentModuleMigration == <<
  Added("endpoints", {"asset_id"}, {"assets"}),
  Table("agent_module_publishers", {"key_id", "name", "public_key", "enabled", "created_by",
      "created_at"}, {"users"}),
  Table("agent_module_releases", {"id", "module_id", "version", "manifest", "envelope", "status",
      "created_by", "created_at", "approved_by", "approved_at", "revoked_by", "revoked_at",
      "revocation_reason"}, {"users"}),
  Table("agent_module_assignments", {"id", "release_id", "target_type", "target_id",
      "ring_percent", "enabled", "created_by", "created_at"}, {"agent_module_releases",
      "users"}),
  Table("agent_module_health", {"endpoint_id", "module_id", "version", "healthy", "crash_count",
      "error", "observed_at"}, {"endpoints"}),
  Table("agent_module_settings", {"singleton", "enabled"}, {}),
  Seeded({"agent_module_settings"})>>

\* 42
applyEndpointOSInventoryMigration == <<
  Table("endpoint_os_inventory", {"endpoint_id", "family", "name", "version", "build", "kernel",
      "architecture", "collected_at", "received_at"}, {"endpoints"}),
  Table("endpoint_os_patches", {"endpoint_id", "patch_id", "description", "installed_at"},
      {"endpoints"})>>

\* 43
applyEndpointSoftwareInventoryMigration == <<
  Table("endpoint_software_inventory", {"endpoint_id", "collected_at", "received_at"},
      {"endpoints"}),
  Table("endpoint_installed_software", {"endpoint_id", "ordinal", "name", "version", "publisher",
      "architecture", "source"}, {"endpoints"})>>

\* 44
applyEndpointListeningInventoryMigration == <<
  Table("endpoint_listening_inventory", {"endpoint_id", "collected_at", "received_at"},
      {"endpoints"}),
  Table("endpoint_listening_services", {"endpoint_id", "ordinal", "protocol", "address", "port",
      "process_id", "process_name", "executable"}, {"endpoints"})>>

\* 45
applyEndpointPostureMigration == <<
  Table("endpoint_posture_inventory", {"endpoint_id", "collected_at", "received_at"},
      {"endpoints"}),
  Table("endpoint_posture_evidence", {"endpoint_id", "evidence_id", "title", "status", "detail"},
      {"endpoints"})>>

\* 46
applyEndpointCVEMigration == <<
  Table("endpoint_cve_matches", {"endpoint_id", "cve_id", "product", "version", "package_source",
      "confidence", "evidence", "matched_at"}, {"cves", "endpoints"})>>

\* 47
applyEndpointNetworkMigration == <<
  Table("endpoint_network_inventory", {"endpoint_id", "collected_at", "received_at"},
      {"endpoints"}),
  Table("endpoint_network_connections", {"endpoint_id", "ordinal", "protocol", "local_address",
      "local_port", "remote_address", "remote_port", "process_id", "process_name", "direction"},
      {"endpoints"})>>

\* 48
applyEndpointNetworkProcessMigration == <<
  Added("endpoint_network_connections", {"executable"}, {})>>

\* 49
applyEndpointNetworkContextMigration == <<
  Added("endpoint_network_connections", {"remote_hostname", "hostname_source", "tls_server_name"},
      {})>>

\* 50
applyThreatIndicatorMigration == <<
  Table("threat_indicators", {"id", "type", "value", "source", "confidence", "observed_at",
      "expires_at", "enabled", "created_by", "created_at", "updated_at"}, {}),
  Table("endpoint_indicator_matches", {"endpoint_id", "indicator_id", "connection_ordinal",
      "matched_at"}, {"endpoints", "threat_indicators"})>>

\* 51
applyEndpointNetworkExclusionMigration == <<
  Added("endpoints", {"network_telemetry_exclusions"}, {})>>

\* 52
applyEndpointCoverageMigration == <<
  Table("endpoint_coverage_settings", {"singleton", "enabled", "updated_by", "updated_at"}, {}),
  Seeded({"endpoint_coverage_settings"})>>

\* 53
applyCoverageDiscoveryPolicyMigration == <<
  Table("coverage_discovery_policies", {"id", "name", "cidrs", "enabled", "created_by",
      "created_at", "updated_by", "updated_at"}, {})>>

\* 54
applyAssetAgentEligibilityMigration == <<
  Added("assets", {"agent_eligibility", "agent_eligibility_reason",
      "agent_eligibility_updated_by", "agent_eligibility_updated_at"}, {})>>

\* 55
applyEndpointHeartbeatSettingsMigration == <<
  Table("endpoint_heartbeat_settings", {"singleton", "enabled", "missed_after_minutes",
      "stale_after_minutes", "updated_by", "updated_at"}, {}),
  Seeded({"endpoint_heartbeat_settings"})>>

\* 56
applyEndpointIntegrityMigration == <<
  Table("endpoint_integrity_snapshots", {"endpoint_id", "executable_sha256",
      "configuration_sha256", "identity_sha256", "observed_at", "received_at"}, {"endpoints"}),
  Table("endpoint_integrity_events", {"id", "endpoint_id", "component", "previous_sha256",
      "current_sha256", "observed_at", "received_at"}, {"endpoints"})>>

\* 57
applyEndpointIntegritySequenceMigration == <<
  Added("endpoint_integrity_snapshots", {"sequence", "signature"}, {}),
  Added("endpoint_integrity_events", {"sequence", "signature"}, {})>>

\* 58
applyEndpointMaintenanceMigration == <<
  Table("endpoint_maintenance_windows", {"id", "name", "target_type", "target_id", "starts_at",
      "ends_at", "reason", "created_by", "created_at", "cancelled_by", "cancelled_at"}, {})>>

\* 59
applyEndpointRelayAuthorizationMigration == <<
  Table("endpoint_relay_authorizations", {"id", "endpoint_id", "status", "promotion_reason",
      "promoted_by", "promoted_at", "revocation_reason", "revoked_by", "revoked_at"},
      {"endpoints"})>>

\* 60
applyRelayDownstreamAuthorizationMigration == <<
  Table("relay_downstream_authorizations", {"id", "relay_endpoint_id", "downstream_endpoint_id",
      "status", "authorization_reason", "authorized_by", "authorized_at", "revocation_reason",
      "revoked_by", "revoked_at"}, {"endpoints"})>>

\* 61
applyRelayUploadWindowMigration == <<
  Table("relay_upload_windows", {"id", "name", "target_type", "target_id", "timezone",
      "days_json", "start_minute", "end_minute", "enabled", "reason", "created_by",
      "created_at", "updated_by", "updated_at"}, {})>>

\* 62
applyDelayedHeartbeatPolicyMigration == <<
  Table("delayed_heartbeat_policies", {"target_type", "target_id", "allow_delayed_heartbeats",
      "reason", "updated_by", "updated_at"}, {})>>

\* 63
applyEndpointHeartbeatTimestampMigration == <<
  Added("endpoints", {"last_heartbeat_generated_at", "last_heartbeat_received_at"}, {})>>

\* 64
applyDelayedHeartbeatGraceMigration == <<
  Added("delayed_heartbeat_policies", {"post_window_grace_minutes"}, {})>>

\* 65
applyOrganizationBoundaryMigration == <<
  Table("installation_organization", {"singleton", "id", "name", "created_at"}, {}),
  Seeded({"installation_organization"})>>

\* 66
applyOrganizationScopePolicyMigration == <<
  Added("scope_policies", {"organization_id"}, {}),
  Uses({"installation_organization"})>>

\* migrate: the migrations in the order of their versions.
ScanAndAssetMigrations == <<
  applyMigrationOne, applyMigrationTwo, applyIdentityMigration, applySessionControlsMigration,
  applyWebAuthnCredentialMigration, applyInvitationControlsMigration,
  applyOIDCControlsMigration, applyScopePolicyControlsMigration, applyEndpointIdentityMigration,
  applyEndpointLifecycleMigration, applyAssetInventoryMigration, applyAssetCorrelationMigration,
  applyAssetMetadataMigration, applyAssetGroupPolicyMigration, applyResumableScanMigration,
  applyPolicyScheduleMigration, applyNotificationMigration, applyAssetServiceHistoryMigration,
  applyEvidenceProvenanceMigration, applyAssetLifecycleMigration, applyRateLimitMigration>>
WorkerMigrations == <<
  applyScannerWorkerIdentityMigration, applyScannerWorkerHeartbeatMigration,
  applyScannerWorkerJobMigration, applyScannerWorkerJobLeaseMigration,
  applyScannerWorkerResultMigration, applyScannerWorkerEvidenceMigration,
  applyScannerWorkerCheckpointMigration, applyScannerWorkerSiteMigration,
  applyScannerWorkerReassignmentMigration, applyScannerWorkerDispatchMigration,
  applyScanPolicyExecutionMigration, applyScannerWorkerDeadLetterMigration,
  applyCheckCatalogMigration, applyIntrusiveCheckPolicyMigration, applyFindingWorkflowMigration,
  applyReportingMigration>>
EndpointMigrations == <<
  applyEndpointCollectorPolicyMigration, applyAgentUpdateCatalogMigration,
  applyAgentUpdateAssignmentMigration, applyAgentModuleMigration,
  applyEndpointOSInventoryMigration, applyEndpointSoftwareInventoryMigration,
  applyEndpointListeningInventoryMigration, applyEndpointPostureMigration,
  applyEndpointCVEMigration, applyEndpointNetworkMigration,
  applyEndpointNetworkProcessMigration, applyEndpointNetworkContextMigration,
  applyThreatIndicatorMigration, applyEndpointNetworkExclusionMigration,
  applyEndpointCoverageMigration, applyCoverageDiscoveryPolicyMigration,
  applyAssetAgentEligibilityMigration, applyEndpointHeartbeatSettingsMigration,
  applyEndpointIntegrityMigration, applyEndpointIntegritySequenceMigration,
  applyEndpointMaintenanceMigration, applyEndpointRelayAuthorizationMigration,
  applyRelayDownstreamAuthorizationMigration, applyRelayUploadWindowMigration,
  applyDelayedHeartbeatPolicyMigration, applyEndpointHeartbeatTimestampMigration,
  applyDelayedHeartbeatGraceMigration, applyOrganizationBoundaryMigration,
  applyOrganizationScopePolicyMigration>>
SqliteMigrations == ScanAndAssetMigrations \o WorkerMigrations \o EndpointMigrations
=============================================================================
