----------------------------- MODULE MCCheckRun ------------------------------
EXTENDS CheckRun, OutputChecks, HostChecks, ClusterChecks

MCChecks == OutputChecksAll \cup HostChecksAll \cup ClusterChecksAll

\* Where the code does less than its other checks, by name: the runs show that
\* there is no other place.

\* Ends with set_passed whatever its sub-tests say.
MCLenient == {"ContainerRuntimeCheck"}

\* _run_ephemeral_pods calls set_failed when the GPU nodes cannot be listed and
\* returns no results, over which the caller finds nothing wrong.
MCOverriding == {"K8sNvidiaSmiCheck", "K8sDriverVersionCheck", "K8sGpuPodAccessCheck"}

\* Nothing was asked of the system; the list they go through was empty; the
\* nodes could not be listed; every sub-test was skipped.
Unasked == {"K8sNodeCountCheck", "K8sExpectedNodesCheck", "K8sDriverVersionCheck", "K8sGpuPodAccessCheck",
            "K8sCsiStorageTypesCheck", "K8sCsiStorageQuotaApiCheck", "K8sCsiProvisioningModesCheck",
            "StepSuccessCheck", "TenantListedCheck"}
NoMembers == {"K8sNodeReadyCheck", "K8sDualStackNodeCheck", "K8sCsiTenantScopedCredentialsCheck", "CrudOperationsCheck"}
NoNodes == {"K8sNvidiaSmiCheck", "K8sGpuStressWorkload", "K8sNcclWorkload", "K8sNimInferenceWorkload"}
MCVacuous == Unasked \cup NoMembers \cup NoNodes

\* Only docker decides; a benchmark that failed after it had printed its
\* result; a usage that is published but wrong; too few GPUs or nodes to test;
\* any answer of the model.
MCTolerated ==
  {<<"ContainerRuntimeCheck", "nvidia_docker">>, <<"ContainerRuntimeCheck", "ngc_login">>,
   <<"NcclCheck", "nccl run">>, <<"K8sCsiStorageQuotaApiCheck", "usage">>,
   <<"K8sNcclWorkload", "GPU count">>, <<"K8sNcclMultiNodeWorkload", "two nodes">>,
   <<"K8sNimHelmWorkload", "answer">>, <<"K8sNimHelmWorkload_Reuse", "answer">>}
==============================================================================
