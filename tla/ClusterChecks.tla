---------------------------- MODULE ClusterChecks ----------------------------
(***************************************************************************)
(* The checks of isvtest that ask a Kubernetes cluster, Slurm or the local *)
(* machine, and the workloads they run there.  What lives in a namespace   *)
(* of the check's own goes with it and is only looked at.  A loop over the *)
(* nodes, pods or components of one answer is one operation.               *)
(***************************************************************************)
EXTENDS CheckOps

\* A kubectl command that must succeed and say something; one whose list may
\* not be empty; a configuration that is there and valid.
Listed(of) == Look(of, [good |-> "go", none |-> "fail", empty |-> "fail"])
Config(of) == Switch(of, [on |-> "go", odd |-> "fail"])
PassedUnless(of) == Switch(of, [on |-> "go", off |-> "pass"])
Optional(of) == Switch(of, [on |-> "go", off |-> "next"])
\* An apply or a poll that ends the part with a failed sub-test.
Step(of) == Look(of, [good |-> "go", none |-> "flunk"])
Confirm(of) == Look(of, [good |-> "ok", none |-> "sub"])
Drop(of) == Close(of, [good |-> "go", none |-> "go"])

------------------------------------------------------------------------------
(* Nodes, pods and labels.                                                 *)

K8sNodeCountCheck == Output("K8sNodeCountCheck",
  <<Switch("count", [on |-> "go", off |-> "pass", odd |-> "fail"]), Value("count")>>)
\* A cluster without nodes passes, and so does every cluster when require_all_ready is off.
K8sNodeReadyCheck == Output("K8sNodeReadyCheck",
  <<Look("nodes", [good |-> "go", none |-> "fail", empty |-> "pass"]), Optional("require_all_ready"),
    Look("Ready", [good |-> "go", bad |-> "fail"])>>)
K8sExpectedNodesCheck == Output("K8sExpectedNodesCheck",
  <<PassedUnless("names"), Value("names"), Switch("allow_unexpected_nodes", [on |-> "next", off |-> "go"]),
    Look("unexpected", [good |-> "go", bad |-> "fail"])>>)
K8sPodHealthCheck == Output("K8sPodHealthCheck", <<Value("unhealthy pods")>>)
K8sNoPendingPodsCheck == Output("K8sNoPendingPodsCheck", <<Value("pending pods")>>)
K8sNoErrorPodsCheck == Output("K8sNoErrorPodsCheck", <<Value("pods in error")>>)
K8sGpuLabelsCheck == Output("K8sGpuLabelsCheck", <<Listed("labelled nodes")>>)
K8sGpuCapacityCheck == Output("K8sGpuCapacityCheck",
  <<Config("expected"), Listed("capacity"), Bound("expected_per_node"), Bound("expected_total")>>)
K8sGpuOperatorNamespaceCheck == Output("K8sGpuOperatorNamespaceCheck", <<Field("namespace")>>)
K8sGpuOperatorPodsCheck == Output("K8sGpuOperatorPodsCheck", <<Listed("running pods")>>)
K8sMigConfigCheck == Output("K8sMigConfigCheck",
  <<Field("nodes"), Bound("expected_labels"), Look("MIG nodes", [good |-> "pass", empty |-> "go"]),
    Switch("require_mig", [on |-> "fail", off |-> "skip"])>>)
\* A pool of no nodes is what expected_replicas = 0 asks for.
ReadyNodes == Look("ready nodes", [good |-> "go", none |-> "fail", empty |-> "go"])
K8sNodePoolCheck == Output("K8sNodePoolCheck",
  <<Config("selector, replicas, expectations"), ReadyNodes, Look("labels, taints and types", [good |-> "go", bad |-> "fail"])>>)
K8sDualStackNodeCheck == Check("K8sDualStackNodeCheck",
  <<Part(<<Config("require_dual_stack"), Look("nodes", [good |-> "go", none |-> "fail", empty |-> "pass"]),
           PassedUnless("both families"), Look("node families", [good |-> "ok", bad |-> "sub"])>>)>>, "subtests")

------------------------------------------------------------------------------
(* The API server.                                                         *)

K8sApiServerMetricsCheck == Output("K8sApiServerMetricsCheck",
  <<Config("expected_metrics"), Listed("/metrics"), Value("format"),
    Look("expected_metrics", [good |-> "go", bad |-> "fail", empty |-> "go"])>>)
K8sOidcIssuerCheck == Output("K8sOidcIssuerCheck",
  <<Config("required_fields"), Field("discovery"), Field("required_fields"), Value("issuer")>>)
\* The blocked probe must fail; any failure will do, but for a command that could not be run.
AclConfig == Switch("unauthorized_probe", [on |-> "go", off |-> "skip", odd |-> "fail"])
AuthorizedProbe == Field("authorized probe")
SameEndpoint == Bound("kubectl server")
UnauthorizedProbe == Look("unauthorized probe", [good |-> "go", bad |-> "fail", none |-> "go", odd |-> "fail"])
K8sApiNetworkAclCheck == Output("K8sApiNetworkAclCheck", <<AclConfig, AuthorizedProbe, SameEndpoint, UnauthorizedProbe>>)
\* Every component needs a pod or a command before the first log is read.
LogConfig == Config("mode, components, lines, commands")
ControlPlanePods == Field("control-plane pods")
LogPlan == Field("a path for each component")
ComponentLogs == Look("logs", [good |-> "go", bad |-> "note", none |-> "note"])
K8sControlPlaneLogsCheck == Check("K8sControlPlaneLogsCheck",
  <<Part(<<LogConfig, Optional("pods looked for"), ControlPlanePods>>), Part(<<LogPlan, ComponentLogs>>)>>, "noted")

------------------------------------------------------------------------------
(* nvidia-smi in a pod on each GPU node, in threads that are waited for.   *)

\* No answer about the nodes is set_failed, no nodes is nothing; then the
\* results of no pod at all are gone through.
GpuNodesOrNone == Look("GPU nodes", [good |-> "go", none |-> "mark", empty |-> "next"])
OnGpuNodes(name, first, ops, more) ==
  Finally(Check(name, <<Part(first \o <<GpuNodesOrNone>> \o ops)>> \o more, "noted"), <<Drop("smi pod")>>)
K8sNvidiaSmiCheck == OnGpuNodes("K8sNvidiaSmiCheck", <<>>,
  <<Open("smi pod", [good |-> "go", none |-> "miss"]), Look("nvidia-smi", [good |-> "go", bad |-> "note", none |-> "note"])>>, <<>>)
\* These two pass over a node whose pod failed.
K8sDriverVersionCheck == OnGpuNodes("K8sDriverVersionCheck", <<PassedUnless("driver_version")>>,
  <<Open("smi pod", [good |-> "go", none |-> "next"]), Look("driver_version", [good |-> "go", bad |-> "note", none |-> "go"])>>, <<>>)
K8sGpuPodAccessCheck == OnGpuNodes("K8sGpuPodAccessCheck", <<PassedUnless("gpu_count, total_gpu_count")>>,
  <<Open("smi pod", [good |-> "go", none |-> "next"]), Look("gpu_count", [good |-> "go", bad |-> "note", none |-> "go"])>>,
  <<Part(<<Optional("total_gpu_count"), Look("total_gpu_count", [good |-> "go", bad |-> "fail"])>>)>>)

------------------------------------------------------------------------------
(* k8s_storage.py, k8s_network_policy.py: in a namespace made for the      *)
(* check, and deleted without waiting if its creation was answered.        *)

OwnNamespace == Open("namespace", [good |-> "go", none |-> "fail"])
InNamespace(name, first, parts) ==
  Finally(Check(name, <<Part(first \o <<OwnNamespace>>)>> \o parts, "subtests"), <<Drop("namespace")>>)

Applied(of) == Step(of)
PodReady == Step("pod ready")
PvcBound == Confirm("claim bound")
StorageType(type) == Part(<<Switch(type, [on |-> "go", off |-> "skip_sub"]),
                            Look("storage class", [good |-> "ok", none |-> "flunk"]), Applied("claim"), Applied("pod"), PodReady, PvcBound>>)
K8sCsiStorageTypesCheck == InNamespace("K8sCsiStorageTypesCheck",
  <<PassedUnless("storage classes")>>, <<StorageType("block"), StorageType("shared-fs"), StorageType("nfs")>>)

\* The quota's usage counts once it is published, whatever it says; a claim
\* refused as forbidden counts as refused by the quota.
Quota == Part(<<Field("quota applied"), Look("quota published", [good |-> "ok", none |-> "fail"])>>)
PerPvcUsage == Part(<<Applied("claim"), Applied("pod"), PodReady, Step("claim bound"),
                      Look("capacity", [good |-> "go", none |-> "flunk"]), Look("usage", [good |-> "ok", bad |-> "ok", none |-> "flunk"])>>)
QuotaEnforcement == Part(<<Look("over-quota claim", [good |-> "ok", bad |-> "sub", none |-> "sub", odd |-> "ok"])>>)
PvUsageApi == <<Step("volume name"), Step("volume"), Look("volume fields", [good |-> "ok", bad |-> "sub"])>>
K8sCsiStorageQuotaApiCheck == InNamespace("K8sCsiStorageQuotaApiCheck",
  <<PassedUnless("storage_class")>>, <<Quota, PerPvcUsage, QuotaEnforcement, After({3}, PvUsageApi)>>)

\* Lists that cannot be parsed are empty.
CsiDrivers == Look("CSI drivers", [good |-> "go", none |-> "fail", empty |-> "pass"])
NotCrossNamespace == Look("secret namespaces", [good |-> "ok", bad |-> "sub", empty |-> "ok"])
NoSharedMarkers == Look("shared markers", [good |-> "ok", bad |-> "sub", none |-> "sub", empty |-> "ok"])
ControllerRbac == Look("secret grants", [good |-> "ok", bad |-> "sub", none |-> "sub", empty |-> "skip_sub"])
NodePluginVolumes == Look("node plugin volumes", [good |-> "ok", bad |-> "sub", empty |-> "skip_sub"])
K8sCsiTenantScopedCredentialsCheck == Check("K8sCsiTenantScopedCredentialsCheck",
  <<Part(<<CsiDrivers, Field("pods"), Field("volumes"), NotCrossNamespace, NoSharedMarkers>>),
    Part(<<ControllerRbac>>), Part(<<NodePluginVolumes>>)>>, "subtests")

\* The volume of the static part is named before it is applied, and deleted under that name.
Dynamic == Part(<<Applied("claim"), Applied("pod"), PodReady, Step("claim bound"), Step("volume driver"), Confirm("canary")>>)
Static == Part(<<Switch("static_pv", [on |-> "go", off |-> "skip_sub"]), Claim("volume", [good |-> "go", none |-> "flunk"]),
                 Applied("static claim"), Step("static claim bound"), Confirm("canary")>>)
K8sCsiProvisioningModesCheck == Finally(InNamespace("K8sCsiProvisioningModesCheck",
  <<PassedUnless("dynamic_storage_class")>>, <<Dynamic, Static>>), <<Drop("volume"), Drop("namespace")>>)

\* A denied probe passes however it failed, once the baseline has succeeded.
Denied(of) == Look(of, [good |-> "ok", bad |-> "sub", none |-> "ok"])
Family(family) == Part(<<Optional(family), Confirm("allow"), Denied("ingress-deny"), Optional("test_egress"),
                         Switch("other server", [on |-> "go", off |-> "skip_sub"]), Denied("egress-deny")>>)
K8sNetworkPolicyCheck == InNamespace("K8sNetworkPolicyCheck", <<>>,
  <<Part(<<Field("pods applied"), Field("pods ready"), Field("pod addresses"), Field("baseline"), Field("policies applied"),
           Look("policy enforced", [good |-> "go", bad |-> "fail", none |-> "go"])>>), Family("IPv4"), Family("IPv6")>>)

------------------------------------------------------------------------------
(* k8s_conformance.py and the workloads.                                   *)

\* One apply makes the namespace, the cluster role binding and the pod; if it
\* fails, nothing is cleaned up.  A run whose cases were all skipped passes.
ConformanceRun == <<Look("pod running", [good |-> "go", bad |-> "fail", none |-> "fail"]), Look("done", [good |-> "go", bad |-> "fail", none |-> "fail"])>>
Cases == Look("test cases", [good |-> "ok", bad |-> "fail", none |-> "fail", empty |-> "go"])
K8sCncfConformanceCheck == Finally(Output("K8sCncfConformanceCheck",
  <<Field("cluster"), Config("mode"), Field("version"), Open("manifest", [good |-> "go", none |-> "fail"])>>
  \o ConformanceRun \o <<Field("JUnit"), Cases>>),
  <<Switch("cleanup_namespace", [on |-> "go", off |-> "keep"]), Drop("manifest")>>)

\* No answer about the nodes is no GPU nodes, and no GPU nodes is a pass.
GpuNodes == Look("GPU nodes", [good |-> "go", none |-> "pass", empty |-> "pass"])
\* run_k8s_job: the Job is deleted when it has ended or its time is up.
Job == Open("job", [good |-> "go", none |-> "fail"])
JobEnds == Look("job", [good |-> "go", bad |-> "miss", none |-> "miss"])
NcclOutput == <<Field("NCCL output"), Bound("min_bus_bw_gbps")>>
K8sNcclWorkload == Check("K8sNcclWorkload",
  <<Part(<<GpuNodes, Look("GPU count", [good |-> "go", bad |-> "pass", none |-> "fail"]), Job, JobEnds>>), Part(<<Drop("job")>>),
    After({1}, NcclOutput)>>, "noted")
MpiJob == Open("MPIJob", [good |-> "go", none |-> "fail"])
LauncherEnds == Look("launcher", [good |-> "go", bad |-> "fail", none |-> "fail"])
K8sNcclMultiNodeWorkload == Finally(Output("K8sNcclMultiNodeWorkload",
  <<Look("MPI operator", [good |-> "go", none |-> "skip"]), GpuNodes, Look("two nodes", [good |-> "go", bad |-> "pass"]), MpiJob, LauncherEnds>>
  \o NcclOutput), <<Drop("MPIJob")>>)
\* The secrets and the model cache stay for the next run.
NgcSecrets == Open("secrets", [good |-> "go", none |-> "pass"])
ModelCache == Open("model cache", [good |-> "go", none |-> "fail"])
K8sNimInferenceWorkload == Keeps(Finally(Output("K8sNimInferenceWorkload",
  <<NgcSecrets, GpuNodes, ModelCache, Job, Look("job", [good |-> "go", bad |-> "fail", none |-> "fail"]),
    Look("inference log", [good |-> "go", bad |-> "fail", none |-> "fail"])>>), <<Drop("job")>>), {"secrets", "model cache"})
K8sGpuStressWorkload == Check("K8sGpuStressWorkload",
  <<Part(<<GpuNodes, Open("stress pod", [good |-> "go", none |-> "miss"]),
           Look("stress pod", [good |-> "go", bad |-> "note", none |-> "note"])>>), Part(<<Drop("stress pod")>>)>>, "noted")

\* The inference Job validates any answer to its request; metrics are optional.
Inference == <<Claim("inference job", [good |-> "go", none |-> "fail"]), Look("answer", [good |-> "go", bad |-> "go", none |-> "fail"])>>
Perf == <<Claim("perf job", [good |-> "go", none |-> "go"]), Look("metrics", [good |-> "go", none |-> "go"])>>
HelmPrerequisites == <<Look("helm", [good |-> "go", none |-> "skip"]), Switch("NGC_API_KEY", [on |-> "go", off |-> "skip"]),
  Delete("ngc-secret"), Open("ngc-secret", [good |-> "go", none |-> "fail"]), Delete("ngc-api"), Open("ngc-api", [good |-> "go", none |-> "fail"]),
  Look("GPU nodes", [good |-> "go", none |-> "skip", empty |-> "skip"])>>
HelmChart == Open("chart", [good |-> "go", none |-> "fail"])
HelmRelease == Claim("release", [good |-> "go", none |-> "fail"])
NimReady == Look("NIM ready", [good |-> "go", bad |-> "fail", none |-> "fail"])
K8sNimHelmWorkload == Keeps(Finally(
  Output("K8sNimHelmWorkload", HelmPrerequisites \o <<HelmChart, HelmRelease, NimReady>> \o Inference \o Perf),
  <<Drop("inference job"), Drop("perf job"), Switch("skip_cleanup", [on |-> "keep", off |-> "go"]), Drop("release"), Drop("chart")>>),
  {"ngc-secret", "ngc-api"})
K8sNimHelmWorkload_Reuse == Finally(Output("K8sNimHelmWorkload_Reuse", <<Field("service")>> \o Inference \o Perf),
  <<Drop("inference job"), Drop("perf job")>>)

------------------------------------------------------------------------------
(* Slurm and the local machine.                                            *)

SlurmGpuAllocation == Output("SlurmGpuAllocation", <<Config("num_gpus"), Value("GPUs allocated")>>)
SlurmJobSubmission == Output("SlurmJobSubmission", <<Listed("srun"), Value("GPUs")>>)
\* A node that skips the computation passes it.
NodeTest == Look("node test", [good |-> "go", bad |-> "note", none |-> "note", empty |-> "go"])
SlurmNodeJobExecution == Check("SlurmNodeJobExecution",
  <<Part(<<Setting("partition_name"), Look("nodes", [good |-> "go", none |-> "fail", empty |-> "skip"]), NodeTest>>)>>, "noted")
SlurmInfoAvailable == Output("SlurmInfoAvailable",
  <<Listed("sinfo"), Bound("expected_partitions"), Bound("min_partitions"), Bound("required_partitions")>>)
\* An absent partition is skipped when no nodes are expected of it.
SlurmPartition == Check("SlurmPartition",
  <<Part(<<Field("sinfo")>>),
    Part(<<Optional("partition_name"), Look("partition", [good |-> "go", none |-> "fail", empty |-> "skip"]), Bound("available"),
           Bound("expected_nodes"), Bound("min_nodes"), Look("required_nodes", [good |-> "pass", bad |-> "fail", none |-> "pass"])>>),
    Part(<<Look("GPU partitions", [good |-> "go", empty |-> "fail"])>>)>>, "passed")

BmCudaVersion == Output("BmCudaVersion", <<Field("nvidia-smi"), Value("CUDA version"), Bound("min_version")>>)
BmDriverInstalled == Output("BmDriverInstalled", <<Field("nvidia-smi")>>)
BmDriverVersion == Output("BmDriverVersion", <<Value("driver version"), Bound("min_version")>>)
BmGpuDetection == Output("BmGpuDetection", <<Listed("GPUs"), Bound("expected_count")>>)
BmGpuHealth == Output("BmGpuHealth", <<Listed("GPUs"), Config("max_temperature"), Look("metrics", [good |-> "go", bad |-> "fail"])>>)
BmGpuComputeCapability == Output("BmGpuComputeCapability", <<Value("compute capability"), Bound("min_capability")>>)

ClusterChecksAll ==
  {K8sNodeCountCheck, K8sNodeReadyCheck, K8sExpectedNodesCheck, K8sPodHealthCheck, K8sNoPendingPodsCheck, K8sNoErrorPodsCheck,
   K8sGpuLabelsCheck, K8sGpuCapacityCheck, K8sGpuOperatorNamespaceCheck, K8sGpuOperatorPodsCheck, K8sMigConfigCheck,
   K8sNodePoolCheck, K8sDualStackNodeCheck, K8sApiServerMetricsCheck, K8sOidcIssuerCheck, K8sApiNetworkAclCheck,
   K8sControlPlaneLogsCheck, K8sNvidiaSmiCheck, K8sDriverVersionCheck, K8sGpuPodAccessCheck, K8sCsiStorageTypesCheck,
   K8sCsiStorageQuotaApiCheck, K8sCsiTenantScopedCredentialsCheck, K8sCsiProvisioningModesCheck, K8sNetworkPolicyCheck,
   K8sCncfConformanceCheck, K8sNcclWorkload, K8sNcclMultiNodeWorkload, K8sNimInferenceWorkload, K8sGpuStressWorkload,
   K8sNimHelmWorkload, K8sNimHelmWorkload_Reuse, SlurmGpuAllocation, SlurmJobSubmission, SlurmNodeJobExecution,
   SlurmInfoAvailable, SlurmPartition, BmCudaVersion, BmDriverInstalled, BmDriverVersion, BmGpuDetection, BmGpuHealth,
   BmGpuComputeCapability}
==============================================================================
