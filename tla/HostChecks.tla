----------------------------- MODULE HostChecks ------------------------------
(***************************************************************************)
(* The checks of isvtest that look at a host over one SSH connection: the  *)
(* commands each runs, in order, and what it makes of their answers.  A    *)
(* loop over GPUs, ports or nodes of one answer is one operation.          *)
(***************************************************************************)
EXTENDS CheckOps

\* Host and key come from the configuration, the step's output or the
\* inventory (get_ssh_config); what connecting raises is caught by the check.
Connect == <<Setting("host and key"), Open("connection", [good |-> "go", odd |-> "raise"])>>
Hang == Close("connection", [good |-> "go"])
\* get_failed_subtests decides.
OverSsh(name, ops) == Check(name, <<Part(Connect \o ops)>>, "subtests")
HangUp(check) == Finally(check, <<Hang>>)
\* A value that is compared when an expectation is configured.
Compared(of, wanted) ==
  Part(<<Command(of), Switch(wanted, [on |-> "go", off |-> "next"]), Look(wanted, [good |-> "ok", bad |-> "flunk"])>>)

------------------------------------------------------------------------------
(* host.py: the machine.                                                   *)

ConnectivityCheck == HangUp(OverSsh("ConnectivityCheck", <<Probe("echo"), ProbeIfAny("uname"), Info("uptime")>>))

\* Without /etc/os-release there is no sub-test; an expected name then meets an unset variable.
OsCheck == HangUp(Check("OsCheck",
  <<Part(Connect \o <<Look("os-release", [good |-> "go", none |-> "next", odd |-> "raise"]), Probe("os_type")>>),
    Part(<<Info("kernel"), Switch("expected_os", [on |-> "go", off |-> "next"]),
           Look("os_name", [good |-> "go", bad |-> "fail", odd |-> "raise"])>>)>>, "subtests"))

CpuInfoCheck == OverSsh("CpuInfoCheck",
  <<Probe("cpu_count"), Probe("numa"), Probe("pci_nvidia"), Note("cpu_governor"), Hang>>)

\* A GPU whose node cannot be read fails; no answer at all about GPUs does not.
VcpuPinningCheck == OverSsh("VcpuPinningCheck",
  <<Must("nproc"), Probe("vcpu_count"), ProbeIfAny("vcpu_online"), Info("cpu_affinity"),
    Look("numa_topology", [good |-> "ok", bad |-> "sub", none |-> "ok", odd |-> "raise"]),
    ProbeIfAny("gpu_numa"), Hang>>)

PciBusCheck == OverSsh("PciBusCheck",
  <<Must("lspci"), Probe("pci_gpu_count"), ProbeIfAny("pcie_link"), Note("pcie_link"), Note("iommu_groups"),
    ProbeIfAny("gpu_bar"), Note("acs"), Hang>>)

\* The failures it remembers decide, not its sub-tests.  A libvirt that is not
\* installed passes whatever version is expected.
HostSoftwareCheck == Check("HostSoftwareCheck",
  <<Part(Connect), Compared("kernel_version", "expected_kernel"), Part(<<Info("kernel_build"), Info("kernel_modules")>>),
    Part(<<Look("libvirtd", [good |-> "go", none |-> "next", odd |-> "raise"]),
           Switch("expected_libvirt_version", [on |-> "go", off |-> "next"]),
           Look("libvirt", [good |-> "ok", bad |-> "flunk"])>>),
    Part(<<Note("qemu"), Note("kvm"), Info("virsh")>>), Compared("bios_vendor", "expected_bios_vendor"),
    Part(<<Note("bios_version"), Note("bios_date"), Note("system_product"), Note("boot_mode")>>),
    Part(<<Look("nvidia_driver", [good |-> "ok", bad |-> "flunk", none |-> "flunk", odd |-> "raise"])>>),
    Part(<<Info("cuda_version"), Info("nvidia_module"), Info("nvidia_persistence"), Hang>>)>>, "noted")

------------------------------------------------------------------------------
(* host.py: GPUs and what runs on them.                                    *)

\* Only nvidia-smi itself is required; the count is compared if it can be read.
GpuCheck == OverSsh("GpuCheck",
  <<Must("nvidia_smi"), ProbeIfAny("gpu_count"), Info("gpu_model"), Info("driver"), Info("gpu_memory"), Info("cuda"), Hang>>)
DriverCheck == OverSsh("DriverCheck", <<Probe("kernel"), Probe("nvidia_driver"), Probe("cuda_toolkit"), Hang>>)

\* docker with the NVIDIA runtime, or python on the host.
Runtime == Command("container_runtime")
\* The verdict of a workload is read from its output, not its exit code.
Marker(of) == Look(of, [good |-> "go", bad |-> "fail", none |-> "fail"])
GpuStressCheck == OverSsh("GpuStressCheck",
  <<Runtime, Command("gpu_stress"), Hang, Marker("gpu_stress"),
    Look("loops and GPUs", [good |-> "ok", bad |-> "sub", none |-> "sub"]), Bound("expected_gpus")>>)

\* Fewer than two GPUs pass; so does a run that failed after it had printed its
\* bandwidth, and one that says nothing of out-of-bounds values.
NcclCheck == OverSsh("NcclCheck",
  <<Must("docker"), Must("gpu_count"), Switch("two GPUs", [on |-> "go", off |-> "leave"]),
    Command("nccl run"), Hang, Look("nccl run", [good |-> "ok", bad |-> "ok", none |-> "fail"]),
    Look("avg_bus_bw", [good |-> "ok", bad |-> "fail", none |-> "sub"]), Bound("out of bounds values")>>)

\* A success whose details cannot be read passes without them.
TrainingCheck == OverSsh("TrainingCheck",
  <<Runtime, Must("gpu_count"), Command("training"), Hang, Marker("training"),
    Look("gradients and synchronisation", [good |-> "ok", bad |-> "sub", none |-> "go"]),
    Look("steps", [good |-> "ok", bad |-> "sub", none |-> "go"]), Bound("expected_gpus")>>)

\* No NVLink, no InfiniBand: skipped.  GPUs that cannot be parsed are none, and
\* none have an inactive link.
Fabric(of) == Look(of, [good |-> "go", none |-> "skip", odd |-> "raise"])
NvlinkCheck == HangUp(OverSsh("NvlinkCheck",
  <<Fabric("nvlink"), Look("links", [good |-> "ok", bad |-> "sub", empty |-> "go"]),
    Look("expected_gpus", [good |-> "go", bad |-> "sub", none |-> "go"]), Info("topology"),
    Look("inactive links", [good |-> "go", bad |-> "fail"])>>))
InfiniBandCheck == HangUp(OverSsh("InfiniBandCheck",
  <<Fabric("ibstat"), Look("ports", [good |-> "ok", bad |-> "sub", empty |-> "fail"]),
    Look("expected_ports", [good |-> "go", bad |-> "sub", none |-> "go"])>>))
EthernetCheck == OverSsh("EthernetCheck",
  <<Must("interfaces"), Probe("interfaces_up"), ProbeIfAny("expected_interfaces"), Info("addresses"), ProbeIfAny("ping"), Hang>>)

\* set_passed at the end whatever the sub-tests say; only docker is required.
ContainerRuntimeCheck == Check("ContainerRuntimeCheck",
  <<Part(Connect \o <<Look("docker", [good |-> "ok", bad |-> "quit", odd |-> "raise"]), Probe("nvidia_docker"),
                      Switch("ngc_api_key", [on |-> "go", off |-> "next"]), Probe("ngc_login")>>), Part(<<Hang>>)>>, "passed")
\* A host without cloud-init passes that part.
CloudInitCheck == OverSsh("CloudInitCheck",
  <<Look("cloud_init", [good |-> "ok", bad |-> "sub", none |-> "ok", odd |-> "raise"]), Probe("metadata_service"), Hang>>)

------------------------------------------------------------------------------
(* network.py and nim.py over SSH.                                         *)

\* The address is compared when the step's output has one.
DhcpIpManagementCheck == HangUp(OverSsh("DhcpIpManagementCheck",
  <<Probe("dhcp_lease_active"), ProbeIfAny("ip_matches_platform"), Probe("dhcp_options_correct")>>))

\* A deployment that was skipped or did not succeed.
NimDeployed == SkippedIf("not deployed")
Nim(name, ops) == Check(name, <<Part(<<NimDeployed>> \o Connect \o ops)>>, "subtests")
NimHealthCheck == Nim("NimHealthCheck", <<Probe("health_ready"), Hang>>)
\* The answer is parsed before the connection is closed.
Answer(of) == Look(of, [good |-> "go", bad |-> "quit", none |-> "quit", odd |-> "raise"])
NimInferenceCheck == Nim("NimInferenceCheck",
  <<Answer("model"), Answer("chat completion"), Answer("choices"), Probe("has_content"), Probe("finish_reason"),
    ProbeIfAny("tokens_generated"), Hang>>)
NimModelCheck == Nim("NimModelCheck", <<Answer("models"), Answer("has_models"), ProbeIfAny("expected_model"), Hang>>)

HostChecksAll ==
  {ConnectivityCheck, OsCheck, CpuInfoCheck, VcpuPinningCheck, PciBusCheck, HostSoftwareCheck, GpuCheck, DriverCheck,
   GpuStressCheck, NcclCheck, TrainingCheck, NvlinkCheck, InfiniBandCheck, EthernetCheck, ContainerRuntimeCheck,
   CloudInitCheck, DhcpIpManagementCheck, NimHealthCheck, NimInferenceCheck, NimModelCheck}
==============================================================================
