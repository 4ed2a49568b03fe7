--------------------------- MODULE PostgresSchema ---------------------------
(***************************************************************************)
(* The schema migrations of the PostgreSQL store: the tables a migration   *)
(* creates, the columns a row must give and those it may leave out         *)
(* because they are nullable or have a default, and the tables their       *)
(* foreign keys name.                                                      *)
(***************************************************************************)
EXTENDS Sequences

PgTable(name, required, optional, parents) ==
  [op |-> "create", table |-> name, required |-> required, optional |-> optional,
   parents |-> parents]
PgAdded(name, required, optional, parents) ==
  [op |-> "add", table |-> name, required |-> required, optional |-> optional,
   parents |-> parents]
PgSeeded(tables) ==
  [op |-> "seed", table |-> "", required |-> {}, optional |-> {}, parents |-> tables]
PgUses(tables) == [op |-> "use", table |-> "", required |-> {}, optional |-> {}, parents |-> tables]

\* 1
foundation == <<
  PgTable("installation_organization", {"id", "name", "created_at"}, {"singleton"}, {}),
  PgSeeded({"installation_organization"})>>

\* 2
migratePostgreSQLScopePolicies == <<
  PgTable("scope_policies", {"id", "organization_id", "name", "allowed_cidrs", "allowed_ports",
      "max_targets", "max_concurrent", "created_at", "updated_at"}, {"enabled", "created_by"},
      {"installation_organization"})>>

\* 3
migratePostgreSQLIdentityAudit == <<
  PgTable("users", {"id", "email", "display_name", "role", "status", "created_at", "updated_at"},
      {"password_hash", "mfa_required", "last_login_at"}, {}),
  PgTable("audit_events", {"id", "occurred_at", "action", "severity"}, {"actor_id", "target_type",
      "target_id", "source_ip", "details"}, {"users"}),
  PgAdded("scope_policies", {}, {}, {"users"})>>

\* 4
migratePostgreSQLAuthenticationSchema == <<
  PgTable("invitations", {"id", "email", "role", "token_hash", "invited_by", "expires_at",
      "created_at"}, {"accepted_at", "identity_kind"}, {"users"}),
  PgTable("sessions", {"id_hash", "public_id", "user_id", "created_at", "expires_at",
      "last_seen_at"}, {"mfa_verified_at", "source_ip", "user_agent_hash"}, {"users"}),
  PgTable("login_attempts", {"key_hash", "window_started_at"}, {"failures", "blocked_until"}, {}),
  PgTable("totp_credentials", {"user_id", "secret_ciphertext", "created_at", "verified_at"},
      {"last_counter"}, {"users"}),
  PgTable("recovery_codes", {"user_id", "code_hash", "created_at"}, {"used_at"}, {"users"}),
  PgTable("webauthn_credentials", {"credential_id", "user_id", "public_key", "name",
      "created_at"}, {"credential_ciphertext", "attestation_type", "transports", "sign_count",
      "backup_eligible", "backup_state", "last_used_at"}, {"users"}),
  PgTable("authentication_ceremonies", {"id_hash", "kind", "state_ciphertext", "expires_at",
      "created_at"}, {"user_id"}, {"users"}),
  PgTable("oidc_providers", {"id", "name", "issuer_url", "client_id", "client_secret_ciphertext",
      "provisioning_mode", "created_at", "updated_at"}, {"allowed_tenant_id",
      "allowed_email_domains", "allowed_groups", "role_mappings", "default_role", "enabled",
      "redirect_url", "tested_at"}, {}),
  PgTable("external_identities", {"provider_id", "subject", "user_id", "email", "created_at"},
      {"tenant_id", "last_login_at"}, {"oidc_providers", "users"}),
  PgTable("app_metadata", {"key", "value"}, {}, {})>>

\* 5
migratePostgreSQLAuditRetention == <<>>

\* 6
migratePostgreSQLNotifications == <<
  PgTable("smtp_settings", {"id", "enabled", "host", "port", "username", "from_address",
      "tls_mode"}, {"password_ciphertext"}, {}),
  PgTable("smtp_recipients", {"user_id"}, {}, {"users"}),
  PgTable("scan_long_alerts", {"scan_id", "sent_at"}, {}, {})>>

\* 7
migratePostgreSQLScanFoundation == <<
  PgTable("scans", {"id", "name", "status", "created_at"}, {"error", "total_checks",
      "done_checks", "started_at", "completed_at", "scope_policy_id", "max_concurrent",
      "scan_policy_id", "active_seconds", "window_end", "long_alert_sent",
      "rate_limit_per_second"}, {}),
  PgTable("scan_targets", {"scan_id", "ordinal", "name", "address"}, {"group_ids"}, {"scans"}),
  PgTable("scan_ports", {"scan_id", "ordinal", "port"}, {}, {"scans"}),
  PgTable("service_observations", {"id", "scan_id", "ordinal", "target", "address", "port",
      "protocol", "confidence", "evidence", "observed_at"}, {"product", "version"}, {"scans"}),
  PgTable("observation_metadata", {"observation_id", "key", "value"}, {},
      {"service_observations"}),
  PgTable("findings", {"id", "scan_id", "ordinal", "check_id", "target", "address", "port",
      "service", "severity", "title", "evidence", "remediation", "observed_at"}, {"status",
      "assigned_to", "workflow_updated_at"}, {"scans"}),
  PgTable("scan_checkpoints", {"scan_id", "address", "port", "completed_at"}, {}, {"scans"})>>

\* 8
migratePostgreSQLIntelligence == <<
  PgTable("cves", {"id", "description", "published_at", "modified_at", "severity", "source_url"},
      {"cvss_score", "cvss_vector", "known_exploited"}, {}),
  PgTable("cve_products", {"cve_id", "ordinal", "cpe23", "part", "vendor", "product",
      "vulnerable"}, {"version", "version_start_including", "version_start_excluding",
      "version_end_including", "version_end_excluding"}, {"cves"}),
  PgTable("cve_references", {"cve_id", "ordinal", "url"}, {"source"}, {"cves"}),
  PgTable("cve_matches", {"scan_id", "observation_id", "cve_id", "ordinal", "target", "address",
      "port", "product", "version", "confidence", "evidence", "matched_at"}, {}, {"cves",
      "scans", "service_observations"}),
  PgTable("feed_sync_status", {"source", "status"}, {"last_started", "last_success", "records",
      "error"}, {})>>

\* 9
migratePostgreSQLAssetFoundation == <<
  PgTable("assets", {"id", "name", "address", "first_seen", "last_seen", "last_scan_id"},
      {"owner", "environment", "classification", "lifecycle_status", "retired_at", "retired_by",
      "retirement_reason", "agent_eligibility", "agent_eligibility_reason",
      "agent_eligibility_updated_by", "agent_eligibility_updated_at"}, {}),
  PgTable("asset_addresses", {"asset_id", "address", "first_seen", "last_seen", "last_scan_id"},
      {}, {"assets"}),
  PgTable("asset_names", {"asset_id", "name", "normalized_name"}, {}, {"assets"}),
  PgTable("asset_services", {"asset_id", "address", "port", "protocol", "confidence", "state",
      "first_seen", "last_seen", "last_checked", "last_scan_id", "observation_count"},
      {"product", "version"}, {"assets"}),
  PgTable("asset_service_events", {"observation_id", "asset_id", "scan_id", "address", "port",
      "protocol", "confidence", "observed_at"}, {"product", "version", "finding_ids", "cve_ids",
      "source_type", "source_id"}, {"assets"}),
  PgTable("asset_evidence", {"id", "asset_id", "source_type", "source_id", "record_type",
      "record_id", "summary", "collected_at"}, {"scan_id", "address"}, {"assets"}),
  PgTable("asset_aging_settings", {"singleton", "stale_after_days"}, {}, {}),
  PgSeeded({"asset_aging_settings"})>>

\* 10
migratePostgreSQLAssetGroups == <<
  PgTable("asset_groups", {"id", "name", "created_at", "updated_at"}, {"description"}, {}),
  PgTable("asset_group_members", {"group_id", "asset_id", "added_at", "added_by"}, {},
      {"asset_groups", "assets", "users"}),
  PgTable("reusable_scan_policies", {"id", "name", "scope_policy_id", "ports", "created_at",
      "updated_at"}, {"enabled", "schedule_kind", "schedule_expression", "schedule_timezone",
      "window_start", "window_end", "run_missed", "long_run_alert_seconds", "next_run_at",
      "last_scheduled_at", "rate_limit_per_second", "execution_mode", "worker_site_id"},
      {"scope_policies"}),
  PgTable("reusable_scan_policy_groups", {"scan_policy_id", "group_id", "ordinal"}, {},
      {"asset_groups", "reusable_scan_policies"})>>

\* 11
migratePostgreSQLReporting == <<
  PgTable("finding_exceptions", {"id", "finding_id", "reason", "status", "requested_by",
      "created_at"}, {"approved_by", "expires_at", "reminder_days", "last_reminder_at"},
      {"findings", "users"}),
  PgTable("evidence_retention_settings", {"id", "retention_days", "updated_at"}, {}, {}),
  PgSeeded({"evidence_retention_settings"}),
  PgUses({"findings"})>>

\* 12
migratePostgreSQLEndpointFoundation == <<
  PgTable("agent_enrollment_tokens", {"id", "name", "token_hash", "created_by", "created_at",
      "expires_at"}, {"used_at"}, {"users"}),
  PgTable("endpoints", {"id", "name", "status", "certificate_serial", "certificate_pem",
      "enrolled_at", "expires_at"}, {"last_seen_at", "last_heartbeat_generated_at",
      "last_heartbeat_received_at", "renewed_at", "revoked_at", "revocation_reason",
      "allowed_collectors", "network_telemetry_exclusions", "software_version",
      "operating_system", "architecture", "asset_id"}, {"assets"})>>

\* 13
migratePostgreSQLEndpointInventory == <<
  PgTable("endpoint_os_inventory", {"endpoint_id", "family", "name", "version", "build", "kernel",
      "architecture", "collected_at", "received_at"}, {}, {"endpoints"}),
  PgTable("endpoint_os_patches", {"endpoint_id", "patch_id", "description"}, {"installed_at"},
      {"endpoints"}),
  PgTable("endpoint_software_inventory", {"endpoint_id", "collected_at", "received_at"}, {},
      {"endpoints"}),
  PgTable("endpoint_installed_software", {"endpoint_id", "ordinal", "name", "version",
      "publisher", "architecture", "source"}, {}, {"endpoints"}),
  PgTable("endpoint_cve_matches", {"endpoint_id", "cve_id", "product", "version",
      "package_source", "confidence", "evidence", "matched_at"}, {}, {"cves", "endpoints"})>>

\* 14
migratePostgreSQLEndpointListeningPosture == <<
  PgTable("endpoint_listening_inventory", {"endpoint_id", "collected_at", "received_at"}, {},
      {"endpoints"}),
  PgTable("endpoint_listening_services", {"endpoint_id", "ordinal", "protocol", "address", "port",
      "process_id", "process_name", "executable"}, {}, {"endpoints"}),
  PgTable("endpoint_posture_inventory", {"endpoint_id", "collected_at", "received_at"}, {},
      {"endpoints"}),
  PgTable("endpoint_posture_evidence", {"endpoint_id", "evidence_id", "title", "status",
      "detail"}, {}, {"endpoints"})>>

\* 15
migratePostgreSQLEndpointNetwork == <<
  PgTable("endpoint_network_inventory", {"endpoint_id", "collected_at", "received_at"}, {},
      {"endpoints"}),
  PgTable("endpoint_network_connections", {"endpoint_id", "ordinal", "protocol", "local_address",
      "local_port", "remote_address", "remote_port", "process_id", "process_name", "direction"},
      {"executable", "remote_hostname", "hostname_source", "tls_server_name"}, {"endpoints"}),
  PgTable("threat_indicators", {"id", "type", "value", "source", "confidence", "observed_at",
      "expires_at", "enabled", "created_by", "created_at", "updated_at"}, {}, {}),
  PgTable("endpoint_indicator_matches", {"endpoint_id", "indicator_id", "connection_ordinal",
      "matched_at"}, {}, {"endpoint_network_connections", "threat_indicators"})>>

\* 16
migratePostgreSQLEndpointIntegrity == <<
  PgTable("endpoint_integrity_snapshots", {"endpoint_id", "executable_sha256",
      "configuration_sha256", "identity_sha256", "observed_at", "received_at"}, {"sequence",
      "signature"}, {"endpoints"}),
  PgTable("endpoint_integrity_events", {"id", "endpoint_id", "component", "previous_sha256",
      "current_sha256", "observed_at", "received_at"}, {"sequence", "signature"}, {"endpoints"})>>

\* 17
migratePostgreSQLAgentUpdates == <<
  PgTable("agent_update_releases", {"id", "version", "operating_system", "architecture",
      "artifact_sha256", "artifact_size", "signing_key_id", "envelope", "status", "created_by",
      "created_at"}, {"approved_by", "approved_at", "revoked_by", "revoked_at",
      "revocation_reason"}, {"users"}),
  PgTable("agent_update_assignments", {"endpoint_id", "release_id", "status", "assigned_by",
      "assigned_at"}, {"offered_at", "installed_at"}, {"agent_update_releases", "endpoints",
      "users"})>>

\* 18
migratePostgreSQLScannerWorkers == <<
  PgTable("scanner_worker_enrollment_tokens", {"id", "name", "token_hash", "allowed_cidrs",
      "allowed_ports", "max_concurrent", "rate_limit_per_second", "created_by", "created_at",
      "expires_at"}, {"site_id", "used_at"}, {"users"}),
  PgTable("scanner_workers", {"id", "name", "status", "certificate_serial", "certificate_pem",
      "allowed_cidrs", "allowed_ports", "max_concurrent", "rate_limit_per_second",
      "enrolled_at", "expires_at"}, {"site_id", "last_seen_at", "revoked_at",
      "revocation_reason", "software_version", "operating_system", "architecture",
      "capabilities", "available_concurrency", "health", "health_message", "dispatch_enabled"},
      {}),
  PgTable("scanner_worker_dispatch_settings", {"enabled"}, {"singleton"}, {}),
  PgTable("scanner_worker_jobs", {"id", "worker_id", "scan_id", "status", "signed_envelope",
      "issued_at", "expires_at", "created_at"}, {"lease_token_hash", "lease_expires_at",
      "lease_attempt", "result_id", "result_outcome", "completed_at"}, {"scanner_workers"}),
  PgTable("scanner_worker_evidence_batches", {"batch_id", "job_id", "worker_id", "scan_id",
      "sequence", "final", "certificate_serial", "signed_envelope", "collected_at",
      "received_at"}, {}, {"scanner_worker_jobs", "scanner_workers"}),
  PgTable("scanner_worker_job_checkpoints", {"job_id", "worker_id", "scan_id", "address", "port",
      "completed_at", "batch_id"}, {}, {"scanner_worker_evidence_batches",
      "scanner_worker_jobs", "scanner_workers"}),
  PgTable("scanner_worker_job_assignments", {"job_id", "attempt", "worker_id", "signed_envelope",
      "assigned_at", "reason"}, {}, {"scanner_worker_jobs", "scanner_workers"}),
  PgTable("scanner_worker_job_dead_letters", {"job_id", "scan_id", "worker_id", "failure_count",
      "reason", "quarantined_at"}, {}, {"scanner_worker_jobs", "scanner_workers"}),
  PgSeeded({"scanner_worker_dispatch_settings"})>>

\* 19
migratePostgreSQLAgentModules == <<
  PgAdded("endpoints", {}, {"asset_id"}, {"assets"}),
  PgTable("agent_module_publishers", {"key_id", "name", "public_key", "enabled", "created_by",
      "created_at"}, {}, {"users"}),
  PgTable("agent_module_releases", {"id", "module_id", "version", "manifest", "envelope",
      "status", "created_by", "created_at"}, {"approved_by", "approved_at", "revoked_by",
      "revoked_at", "revocation_reason"}, {"users"}),
  PgTable("agent_module_assignments", {"id", "release_id", "target_type", "target_id",
      "ring_percent", "enabled", "created_by", "created_at"}, {}, {"agent_module_releases",
      "users"}),
  PgTable("agent_module_health", {"endpoint_id", "module_id", "version", "healthy", "crash_count",
      "observed_at"}, {"error"}, {"endpoints"}),
  PgTable("agent_module_settings", {"enabled"}, {"singleton"}, {}),
  PgSeeded({"agent_module_settings"})>>

\* 20
migratePostgreSQLRelayPolicies == <<
  PgTable("endpoint_relay_authorizations", {"id", "endpoint_id", "status", "promotion_reason",
      "promoted_by", "promoted_at"}, {"revocation_reason", "revoked_by", "revoked_at"},
      {"endpoints"}),
  PgTable("relay_downstream_authorizations", {"id", "relay_endpoint_id", "downstream_endpoint_id",
      "status", "authorization_reason", "authorized_by", "authorized_at"}, {"revocation_reason",
      "revoked_by", "revoked_at"}, {"endpoints"}),
  PgTable("relay_upload_windows", {"id", "name", "target_type", "target_id", "timezone",
      "days_json", "start_minute", "end_minute", "enabled", "reason", "created_by",
      "created_at", "updated_by", "updated_at"}, {}, {}),
  PgTable("delayed_heartbeat_policies", {"target_type", "target_id", "allow_delayed_heartbeats",
      "reason", "updated_by", "updated_at"}, {"post_window_grace_minutes"}, {})>>

\* 21
migratePostgreSQLEndpointMaintenance == <<
  PgTable("endpoint_maintenance_windows", {"id", "name", "target_type", "target_id", "starts_at",
      "ends_at", "reason", "created_by", "created_at"}, {"cancelled_by", "cancelled_at"}, {})>>

\* 22
migratePostgreSQLEndpointCoverage == <<
  PgTable("endpoint_coverage_settings", {"enabled"}, {"singleton", "updated_by", "updated_at"},
      {}),
  PgTable("coverage_discovery_policies", {"id", "name", "cidrs", "enabled", "created_by",
      "created_at", "updated_by", "updated_at"}, {}, {}),
  PgSeeded({"endpoint_coverage_settings"})>>

\* 23
migratePostgreSQLEndpointHeartbeatSettings == <<
  PgTable("endpoint_heartbeat_settings", {"enabled", "missed_after_minutes",
      "stale_after_minutes"}, {"singleton", "updated_by", "updated_at"}, {}),
  PgSeeded({"endpoint_heartbeat_settings"})>>

\* 24
migratePostgreSQLCheckCatalog == <<
  PgTable("check_publishers", {"key_id", "name", "public_key", "status", "added_at"},
      {"revoked_at"}, {}),
  PgTable("declarative_check_versions", {"check_id", "version", "kind", "key_id", "envelope_json",
      "status", "imported_at"}, {"activated_at"}, {"check_publishers"}),
  PgTable("intrusive_check_policy", {"id", "enabled", "allowed_check_ids_json", "updated_at"}, {},
      {}),
  PgSeeded({"intrusive_check_policy"})>>

\* InitializePostgreSQLTransaction: the migrations and their versions.
PostgresMigrations == <<
  foundation, migratePostgreSQLScopePolicies, migratePostgreSQLIdentityAudit,
  migratePostgreSQLAuthenticationSchema, migratePostgreSQLAuditRetention,
  migratePostgreSQLNotifications, migratePostgreSQLScanFoundation,
  migratePostgreSQLIntelligence, migratePostgreSQLAssetFoundation, migratePostgreSQLAssetGroups,
  migratePostgreSQLReporting, migratePostgreSQLEndpointFoundation,
  migratePostgreSQLEndpointInventory, migratePostgreSQLEndpointListeningPosture,
  migratePostgreSQLEndpointNetwork, migratePostgreSQLEndpointIntegrity,
  migratePostgreSQLAgentUpdates, migratePostgreSQLScannerWorkers, migratePostgreSQLAgentModules,
  migratePostgreSQLRelayPolicies, migratePostgreSQLEndpointMaintenance,
  migratePostgreSQLEndpointCoverage, migratePostgreSQLEndpointHeartbeatSettings,
  migratePostgreSQLCheckCatalog>>
=============================================================================
