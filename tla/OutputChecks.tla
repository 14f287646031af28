---------------------------- MODULE OutputChecks -----------------------------
(***************************************************************************)
(* The checks of isvtest that read nothing but the JSON of a step: what    *)
(* each asks of it, in order.  A list of errors that is collected first    *)
(* and reported together is written as if the first one ended the check:   *)
(* the verdict is the same.                                                *)
(***************************************************************************)
EXTENDS CheckOps

\* step_output["skipped"] is True, or one of the step's own skip flags.
Skippable == SkippedIf("skipped")

------------------------------------------------------------------------------
(* network.py                                                              *)

NetworkProvisionedCheck == Output("NetworkProvisionedCheck", <<Field("network_id")>>)
VpcCrudCheck == Output("VpcCrudCheck",
  Required(<<"create_vpc", "read_vpc", "update_tags", "update_dns", "delete_vpc">>))
\* A script that reports no az_distribution fails here unless require_multi_az is off.
SubnetConfigCheck == Check("SubnetConfigCheck",
  <<Part(<<Field("tests"), Number("min_subnets")>>),
    Part(<<Switch("require_multi_az", [on |-> "go", off |-> "next"]), Number("az_count")>>),
    Part(<<Any("tests")>>)>>, "passed")
VpcIsolationCheck == Output("VpcIsolationCheck",
  Required(<<"no_peering", "no_cross_routes_a", "no_cross_routes_b">>) \o <<Any("sg_isolation")>>)
SgCrudCheck == Output("SgCrudCheck",
  Required(<<"create_vpc", "create_sg", "read_sg", "update_sg_add_rule", "update_sg_modify_rule",
              "update_sg_remove_rule", "delete_sg", "verify_deleted">>))
SecurityBlockingCheck == Output("SecurityBlockingCheck",
  Required(<<"sg_default_deny_inbound", "sg_allows_specific_ssh", "sg_denies_vpc_icmp",
              "nacl_explicit_deny", "sg_restricted_egress">>))
NetworkConnectivityCheck == Output("NetworkConnectivityCheck",
  <<Field("instances"), Value("address"), Any("tests")>>)
TrafficFlowCheck == Output("TrafficFlowCheck",
  Required(<<"traffic_allowed", "traffic_blocked", "internet_icmp", "internet_http">>))

\* The sub-tests of the VPC's addressing: DHCP options, the CIDRs of the
\* subnets (each inside the VPC, none overlapping, enough addresses), and the
\* way public addresses are assigned, which two of the three modes take on trust.
DhcpOptionsConfigured == Part(<<Look("dhcp_options", [good |-> "go", none |-> "flunk", odd |-> "raise"]),
                                Look("domain_name_servers", [good |-> "ok", none |-> "flunk"])>>)
SubnetCidrValid == Part(<<Look("cidr", [good |-> "go", bad |-> "flunk", none |-> "flunk"]),
                          Look("subnets", [good |-> "ok", bad |-> "flunk", empty |-> "flunk", none |-> "flunk", odd |-> "raise"])>>)
AutoAssignIp == Part(<<Switch("auto_assign_ip_mode", [on |-> "go", off |-> "next", odd |-> "flunk"]),
                       Look("auto_assign_public_ip", [good |-> "ok", none |-> "flunk", empty |-> "flunk", odd |-> "raise"])>>)
VpcIpConfigCheck == Check("VpcIpConfigCheck",
  <<Part(<<Field("step_output")>>), DhcpOptionsConfigured, SubnetCidrValid, AutoAssignIp>>, "subtests")

SgScoping(name, tests) == Output(name, Required(tests))
\* Zero is evidence, null and blank are not.
SdnLogging(name, tests, evidence) == Output(name, Required(tests) \o Fields(evidence))
SdnHardwareFaultLoggingCheck == SdnLogging("SdnHardwareFaultLoggingCheck",
  <<"logging_endpoint_reachable", "fault_event_source_queryable", "log_destination_configured", "event_schema_valid">>,
  <<"log_destination", "recent_event_count">>)
SdnLatencyPerfLoggingCheck == SdnLogging("SdnLatencyPerfLoggingCheck",
  <<"metrics_endpoint_reachable", "performance_metric_present", "packet_metric_present", "samples_recent">>,
  <<"telemetry_namespace", "sample_window_seconds", "probe_resource_id">>)
SdnFilterAuditTrailCheck == SdnLogging("SdnFilterAuditTrailCheck",
  <<"audit_endpoint_reachable", "create_rule_logged", "modify_rule_logged", "delete_rule_logged",
   "audit_event_has_required_fields", "cleanup">>,
  <<"trail_id", "actor_field", "target_rule_id">>)
SgWorkloadScopingCheck == SgScoping("SgWorkloadScopingCheck",
  <<"create_sg", "apply_workload_rule", "workload_allowed", "other_workload_blocked", "cleanup">>)
SgNodeScopingCheck == SgScoping("SgNodeScopingCheck",
  <<"create_sg", "apply_node_rule", "target_node_allowed", "other_node_blocked", "cleanup">>)
SgSubnetScopingCheck == SgScoping("SgSubnetScopingCheck",
  <<"create_sg", "apply_subnet_rule", "subnet_allowed", "other_subnet_blocked", "cleanup">>)
SgServiceScopingCheck == SgScoping("SgServiceScopingCheck",
  <<"create_sg", "apply_service_rule", "service_endpoint_allowed", "other_endpoint_blocked", "cleanup">>)

\* A non-empty list of non-blank strings.
Strings(of) == Look(of, [good |-> "go", bad |-> "fail", none |-> "fail", empty |-> "fail"])
BackendSwitchFabricCheck == Output("BackendSwitchFabricCheck",
  Required(<<"node_resolved", "leaf_switch_ids_present", "spine_switch_ids_present", "core_switch_ids_present">>)
  \o <<Field("node_id"), Value("fabric"), Strings("leaf_switch_ids"), Strings("spine_switch_ids"),
       Strings("core_switch_ids")>>)
\* Unsupported is a skip, once the detection itself has passed.
NvlinkDomainCheck == Output("NvlinkDomainCheck",
  <<Field("node_id")>> \o Required(<<"node_resolved", "nvlink_support_detected">>)
  \o <<Switch("nvlink_supported", [on |-> "go", off |-> "skip", odd |-> "fail"])>>
  \o Required(<<"nvlink_domain_id_present">>) \o <<Field("nvlink_domain_id")>>)
ByoipCheck == Output("ByoipCheck",
  Required(<<"custom_cidr_create", "custom_cidr_verify", "standard_cidr_create", "no_conflict", "custom_cidr_subnet">>))
StablePrivateIpCheck == Output("StablePrivateIpCheck",
  Required(<<"create_instance", "record_ip", "stop_instance", "start_instance", "ip_unchanged">>))
\* The switch is only timed when the script says how long it took.
FloatingIpCheck == Output("FloatingIpCheck",
  Required(<<"allocate_eip", "associate_to_a", "verify_on_a", "reassociate_to_b", "verify_on_b", "verify_not_on_a">>)
  \o <<NumberIfAny("switch_seconds")>>)
LocalizedDnsCheck == Output("LocalizedDnsCheck",
  Required(<<"create_vpc_with_dns", "create_hosted_zone", "create_dns_record", "verify_dns_settings", "resolve_record">>))
VpcPeeringCheck == Output("VpcPeeringCheck",
  Required(<<"create_vpc_a", "create_vpc_b", "create_peering", "accept_peering", "add_routes", "peering_active">>))

NetworkChecks ==
  {NetworkProvisionedCheck, VpcCrudCheck, SubnetConfigCheck, VpcIsolationCheck, SgCrudCheck, SecurityBlockingCheck,
   NetworkConnectivityCheck, TrafficFlowCheck, VpcIpConfigCheck, SdnHardwareFaultLoggingCheck,
   SdnLatencyPerfLoggingCheck, SdnFilterAuditTrailCheck, SgWorkloadScopingCheck, SgNodeScopingCheck,
   SgSubnetScopingCheck, SgServiceScopingCheck, BackendSwitchFabricCheck, NvlinkDomainCheck, ByoipCheck,
   StablePrivateIpCheck, FloatingIpCheck, LocalizedDnsCheck, VpcPeeringCheck}

------------------------------------------------------------------------------
(* instance.py                                                             *)

Id == Field("instance_id")
InstanceStateCheck == Output("InstanceStateCheck", <<Id, Value("state")>>)
\* The confirmation is required, the uptime behind it is not.
InstanceRebootCheck == Output("InstanceRebootCheck",
  <<Id, Value("reboot_initiated"), Value("state"), Value("ssh_ready"), NumberIfAny("uptime_seconds"), Value("reboot_confirmed")>>)
InstancePowerCycleCheck == Output("InstancePowerCycleCheck",
  <<Id, Value("power_cycle_initiated"), Value("power_was_off"), Value("state"), Value("ssh_ready"),
    NumberIfAny("recovery_seconds")>>)
StableIdentifierCheck == Output("StableIdentifierCheck", <<Id, Setting("reference_id"), Value("instance_id")>>)
InstanceCreatedCheck == Output("InstanceCreatedCheck", <<Id>>)
InstanceStopCheck == Output("InstanceStopCheck", <<Id, Value("stop_initiated"), Value("state")>>)
InstanceStartCheck == Output("InstanceStartCheck", <<Id, Value("start_initiated"), Value("state"), Value("ssh_ready")>>)
InstanceTagCheck == Output("InstanceTagCheck", <<Id, Members("tags")>>)
\* Either of console_available and serial_access_enabled.
SerialConsoleCheck == Output("SerialConsoleCheck", <<Id, Value("access")>>)
SerialConsoleRetentionCheck == Output("SerialConsoleRetentionCheck",
  <<Id, Value("console_log_queryable"), Number("retention_days_configured"), Number("oldest_queryable_log_age_days"),
    Number("query_result_count"), Field("retention_evidence")>>)
\* No operation at all is no failed operation.
TopologyPlacementCheck == Output("TopologyPlacementCheck", <<Id, Value("placement_supported"), Any("operations")>>)
\* min_count is 1 in every suite; a target is only looked for when the script
\* says whether it has found it.
InstanceListCheck == Output("InstanceListCheck", <<Members("instances"), Bound("found_target")>>)

InstanceChecks ==
  {InstanceStateCheck, InstanceRebootCheck, InstancePowerCycleCheck, StableIdentifierCheck, InstanceCreatedCheck,
   InstanceStopCheck, InstanceStartCheck, InstanceTagCheck, SerialConsoleCheck, SerialConsoleRetentionCheck,
   TopologyPlacementCheck, InstanceListCheck}

------------------------------------------------------------------------------
(* security.py                                                             *)

BmcManagementNetworkCheck == Output("BmcManagementNetworkCheck",
  Required(<<"dedicated_management_network", "restricted_management_routes", "tenant_network_not_management",
              "management_acl_enforced">>))
BmcTenantIsolationCheck == Output("BmcTenantIsolationCheck",
  Required(<<"probe_bmc_from_tenant", "probe_ipmi_port", "probe_redfish_port", "reverse_path_check">>))
TenantIsolationCheck == Output("TenantIsolationCheck",
  <<Skippable, Field("tenant_a_id"), Field("tenant_b_id")>>
  \o Required(<<"network_isolated", "data_isolated", "compute_isolated", "storage_isolated">>))
BmcProtocolSecurityCheck == Output("BmcProtocolSecurityCheck",
  Required(<<"ipmi_disabled", "redfish_tls_enabled", "redfish_plain_http_disabled", "redfish_authentication_required",
              "redfish_authorization_enforced", "redfish_accounting_enabled">>))
BmcBastionAccessCheck == Output("BmcBastionAccessCheck",
  Required(<<"bastion_identifiable", "management_ingress_via_bastion_only", "no_direct_public_route", "bastion_hardened">>))
MfaEnforcedCheck == Output("MfaEnforcedCheck",
  Required(<<"root_mfa_enabled", "console_users_mfa", "api_mfa_policy", "cli_mfa_policy">>))
CentralizedKmsCheck == Output("CentralizedKmsCheck",
  Required(<<"kms_service_reachable", "kms_keys_present", "all_encrypted_resources_use_kms">>)
  \o <<Value("kms_keys_total"), Value("non_kms_resources"), Value("encrypted_resources_inspected")>>)
CertRotationCycleCheck == Output("CertRotationCycleCheck",
  <<Skippable>> \o Required(<<"cert_inventory_non_empty", "no_certs_out_of_policy", "rotation_evidence_present">>)
  \o <<Value("certs_inspected"), Value("rotation_window_days"), Value("out_of_policy")>>)
\* Either of two fields names the key, either of two the resource.
CustomerManagedKeyCheck == Output("CustomerManagedKeyCheck",
  Required(<<"customer_managed_key_available", "key_manager_is_customer", "encrypt_decrypt_roundtrip",
              "resource_encrypted_with_customer_key", "provider_managed_key_not_used">>)
              \o <<Field("key"), Field("resource")>>)
KmsEncryptionOptionCheck == Output("KmsEncryptionOptionCheck",
  <<Skippable>>
  \o Required(<<"provider_managed_key_available", "customer_managed_key_available", "both_options_supported">>)
  \o <<Field("provider_managed_key_id"), Field("customer_managed_key_id")>>)
ApiEndpointIsolationCheck == Output("ApiEndpointIsolationCheck",
  Required(<<"probe_api_from_public", "probe_mgmt_from_public", "verify_private_only", "dns_not_public">>))
ConsoleRbacCheck == Output("ConsoleRbacCheck",
  <<Id, Value("access_restricted"), Strings("restricted_actions")>>
  \o Required(<<"denied_principal_cannot_access_console", "allowed_principal_can_access_console",
              "allowed_principal_is_resource_scoped">>))
OidcUserAuthCheck == Output("OidcUserAuthCheck",
  <<Skippable>>
  \o Required(<<"valid_token_accepted", "bad_signature_rejected", "wrong_issuer_rejected", "wrong_audience_rejected",
              "expired_token_rejected", "missing_required_claim_rejected", "discovery_and_jwks_reachable">>)
              \o <<Field("issuer_url"), Field("audience"), Field("target_url"), Value("endpoints_tested")>>)
ShortLivedCredentialsCheck == Output("ShortLivedCredentialsCheck",
  <<Skippable>>
  \o Required(<<"node_credential_has_expiry", "node_credential_ttl_within_bound", "workload_credential_has_expiry",
              "workload_credential_ttl_within_bound">>)
              \o <<Value("max_ttl_seconds"), Value("node_credential_ttl_seconds"), Value("workload_credential_ttl_seconds")>>)
LeastPrivilegePolicyCheck == Output("LeastPrivilegePolicyCheck",
  <<Skippable>>
  \o Required(<<"policy_dimensions_user_based", "policy_dimensions_resource_based", "policy_dimensions_network_based",
              "policy_dimensions_allowed_action_succeeds">>)
              \o <<Field("test_identity"), Field("allowed_resource"), Field("allowed_source_cidr")>>)
MinimalRoleEnforcementCheck == Output("MinimalRoleEnforcementCheck",
  <<Skippable>>
  \o Required(<<"out_of_scope_compute_denied", "out_of_scope_storage_denied", "out_of_scope_network_denied">>)
  \o <<Field("test_identity")>>)
AuditLogEntryCheck == Output("AuditLogEntryCheck",
  <<Skippable, SkippedIf("audit_log_entry_skipped")>>
  \o Required(<<"audit_log_entry_found", "audit_log_event_name_matches", "audit_log_event_time_in_window",
              "audit_log_user_identity_present", "audit_log_source_ip_present", "audit_log_user_agent_matches",
              "audit_log_region_matches", "audit_log_event_source_matches">>))
AuditLogRetentionCheck == Output("AuditLogRetentionCheck",
  <<Skippable, SkippedIf("audit_log_retention_skipped")>>
  \o Required(<<"audit_log_trail_logging_enabled", "audit_log_retention_at_least_30_days">>))

SecurityChecks ==
  {BmcManagementNetworkCheck, BmcTenantIsolationCheck, TenantIsolationCheck, BmcProtocolSecurityCheck,
   BmcBastionAccessCheck, MfaEnforcedCheck, CentralizedKmsCheck, CertRotationCycleCheck, CustomerManagedKeyCheck,
   KmsEncryptionOptionCheck, ApiEndpointIsolationCheck, ConsoleRbacCheck, OidcUserAuthCheck,
   ShortLivedCredentialsCheck, LeastPrivilegePolicyCheck, MinimalRoleEnforcementCheck, AuditLogEntryCheck,
   AuditLogRetentionCheck}

------------------------------------------------------------------------------
(* iam.py, generic.py, cluster.py                                          *)

AccessKeyCreatedCheck == Output("AccessKeyCreatedCheck", <<Field("access_key_id"), Field("username")>>)
AccessKeyAuthenticatedCheck == Output("AccessKeyAuthenticatedCheck", <<Value("authenticated")>>)
AccessKeyDisabledCheck == Output("AccessKeyDisabledCheck", <<Value("status")>>)
AccessKeyRejectedCheck == Output("AccessKeyRejectedCheck", <<Value("rejected")>>)
ServiceAccountCredentialCheck == Output("ServiceAccountCredentialCheck",
  <<Value("authenticated"), Field("credential_type"), Field("identity")>>)
TenantCreatedCheck == Output("TenantCreatedCheck", <<Field("tenant_name"), Field("tenant_id")>>)
\* No found_target: any listing passes.
TenantListedCheck == Output("TenantListedCheck", <<Bound("found_target")>>)
TenantInfoCheck == Output("TenantInfoCheck", <<Field("tenant_name"), Field("tenant_id")>>)

\* The key has to be there, whatever its value.
FieldExistsCheck == Output("FieldExistsCheck", <<Setting("fields"), Field("fields")>>)
\* The first expectation that is configured decides; without one, the field's presence.
Expectation(of, on) == Part(<<Switch(of, [on |-> "go", off |-> "next"]), Look(of, on)>>)
FieldValueCheck == Check("FieldValueCheck",
  <<Part(<<Setting("field"), Field("field")>>),
    Expectation("expected", [good |-> "pass", bad |-> "fail"]),
    Expectation("contains", [good |-> "pass", bad |-> "fail"]),
    Expectation("range", [good |-> "pass", bad |-> "fail", none |-> "fail"])>>, "passed")
SchemaValidation == Output("SchemaValidation", <<Setting("schema"), ValidSetting("known schema"), Value("output")>>)
\* "success" if it is a boolean, "status" otherwise; a skipped step is a success.
StepSuccessCheck == Output("StepSuccessCheck",
  <<Look("success", [good |-> "pass", bad |-> "fail", none |-> "go"]), PassedIf("status skipped"), Value("status")>>)
\* Expected operations must all be there; without a list, whichever there are.
Operations(of) == Look(of, [good |-> "pass", bad |-> "fail", none |-> "fail", odd |-> "raise"])
CrudOperationsCheck == Check("CrudOperationsCheck",
  <<Part(<<Switch("operations", [on |-> "go", off |-> "next"]), Operations("expected operations")>>),
    Part(<<Look("operations", [good |-> "go", bad |-> "fail", none |-> "fail", empty |-> "go", odd |-> "raise"])>>)>>, "passed")

NodeCountCheck == Output("NodeCountCheck", <<Setting("expected"), Value("node_count")>>)
ClusterHealthCheck == Output("ClusterHealthCheck", <<Field("cluster_name"), Number("node_count")>>)
GpuOperatorInstalledCheck == Output("GpuOperatorInstalledCheck", <<Value("installed")>>)
\* A threshold of zero is no threshold; one of the two must be set (odd: only the second).
Metric(of) == Look(of, [good |-> "go", bad |-> "note", none |-> "note", odd |-> "raise"])
PerformanceCheck == Check("PerformanceCheck",
  <<Part(<<Switch("thresholds", [on |-> "go", odd |-> "next", off |-> "fail"]), Metric("bandwidth_gbps"),
           Switch("max_latency_ms", [on |-> "next", off |-> "done"])>>),
    Part(<<Metric("latency_ms")>>)>>, "noted")

OtherChecks ==
  {AccessKeyCreatedCheck, AccessKeyAuthenticatedCheck, AccessKeyDisabledCheck, AccessKeyRejectedCheck,
   ServiceAccountCredentialCheck, TenantCreatedCheck, TenantListedCheck, TenantInfoCheck, FieldExistsCheck,
   FieldValueCheck, SchemaValidation, StepSuccessCheck, CrudOperationsCheck, NodeCountCheck, ClusterHealthCheck,
   GpuOperatorInstalledCheck, PerformanceCheck}

OutputChecksAll == NetworkChecks \cup InstanceChecks \cup SecurityChecks \cup OtherChecks
==============================================================================
