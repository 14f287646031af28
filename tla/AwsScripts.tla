----------------------------- MODULE AwsScripts ------------------------------
(***************************************************************************)
(* The scripts of the AWS provider and the suites its configurations make  *)
(* of them.  One definition per script: the calls of its main() in order,  *)
(* what each adds to the JSON result and how each failure is taken.        *)
(***************************************************************************)
EXTENDS ProviderOps

\* wait_for_ssh, on the public IP.
SshReady == Login("raise")
\* instance_status_ok.
AwaitUp == Await({"running"}, {"running"}, "raise")
\* wait_for_public_ip polls the description until it has an address.
PublicIp == <<Touch("instance"), Tell({"ip"})>>
\* get_default_vpc_and_subnets, and the offered zones before it.
DefaultVpc == Touch("vpc")
\* The newest image of the configured kind, by architecture and name filter.
GpuImage == Touch("image")
BareMetalImage == Touch("image")
\* The uptime is read over SSH, if it can be.
Uptime == Login("pass")

------------------------------------------------------------------------------
(* vm: one GPU instance.                                                   *)

\* Key pair and security group are looked up or made first, the id is noted
\* as soon as run_instances returns; except Exception keeps the result.
vm_launch == Script("launch_instance", AnyError, {"instance"},
  <<DefaultVpc, Adopt("key", {"key", "key_file"}), Adopt("sg", {}), Fill("sg"), Tell({"sg"}),
    GpuImage, Make("instance", {"instance"}),
    Await({"running"}, {}, "raise"), AwaitUp, Touch("instance"), Tell({"vpc", "ip"})>>)

\* AWS_VM_INSTANCE_ID: an instance of the user's is taken as it is.
vm_reuse == Script("launch_instance", AnyError, {"instance", "key_file"},
  <<Tell({"instance", "key_file"}), Touch("instance"), StartIf({"stopped"}), AwaitUp,
    Tell({"vpc", "ip", "key", "sg"})>>)

vm_list == Script("list_instances", {"client"}, {"instance"}, <<Touch("vpc")>>)
vm_describe == Script("describe_instance", AnyError, {"instance", "key_file"}, <<Touch("instance")>>)
vm_tags == Script("describe_tags", AnyError, {"instance"}, <<Touch("instance")>>)
serial_console == Script("serial_console", AnyError, {"instance"}, <<Touch("instance")>>)

\* Two IAM users, removed in a finally; what cannot be removed fails the step.
TestUsers == <<Make("denied_user", {"denied_user"}), Make("allowed_user", {"allowed_user"})>>
DropTestUsers == <<Drop("allowed_user", "error"), Drop("denied_user", "error")>>
vm_console_rbac == Finally(
  Script("console_rbac", AnyError, {"instance"},
    <<Touch("instance")>> \o TestUsers \o <<Check("instance"), Check("allowed_user")>>),
  DropTestUsers)

vm_stop == Script("stop_instance", AnyError, {"instance"},
  <<DoneIf({"stopped"}, {"stopped"}), Need({"running"}), Stop, Await({"stopped"}, {}, "raise"),
    Touch("instance"), Tell({"stopped"})>>)
vm_start == Script("start_instance", AnyError, {"instance", "key_file"},
  <<Need({"stopped"}), Start, AwaitUp>> \o PublicIp \o <<SshReady>>)
\* Confirmed by the boot time or by a smaller uptime than before.
vm_reboot == Script("reboot_instance", AnyError, {"instance", "key_file"},
  <<Need({"running"}), Uptime, Reboot, AwaitUp>> \o PublicIp \o <<SshReady, CompareUptime>>)

\* The container leaves with docker rm -f; a container of that name is removed first.
deploy_nim == Script("deploy_nim", AnyError, {"key_file"},
  <<MayEnd, SshReady, Try("container"), Make("container", {"container"}), Check("container")>>)
teardown_nim == Script("teardown_nim", AnyError, {}, <<SshReady, Sweep("container", "raise")>>)

\* What hangs on the instance is read from it before it goes.
vm_teardown == Teardown("teardown", {"client"},
  <<Find, Terminate({}), Await({"terminated"}, {}, "raise"),
    Drop("sg", "warn"), Drop("key", "warn"), Tell({"destroyed"})>>)

vm_tests ==
  <<Step(vm_list, "test", {<<1, "vpc">>, <<1, "instance">>}),
    Step(vm_tags, "test", {<<1, "instance">>}),
    Step(serial_console, "test", {<<1, "instance">>}),
    Step(vm_console_rbac, "test", {<<1, "instance">>}),
    Step(vm_stop, "test", {<<1, "instance">>}),
    Step(vm_start, "test", {<<1, "instance">>, <<1, "key_file">>}),
    Step(vm_reboot, "test", {<<1, "instance">>, <<1, "key_file">>, <<7, "ip">>}),
    Step(vm_describe, "test", {<<1, "instance">>, <<1, "key_file">>}),
    Step(deploy_nim, "test", {<<8, "ip">>, <<8, "key_file">>}),
    Step(teardown_nim, "teardown", {<<8, "ip">>, <<8, "key_file">>}),
    Step(vm_teardown, "teardown", {<<1, "instance">>})>>
vm_suite == <<Step(vm_launch, "setup", {})>> \o vm_tests
vm_reuse_suite == <<Step(vm_reuse, "setup", {})>> \o vm_tests

------------------------------------------------------------------------------
(* bare_metal: the same life with longer waits, and the hardware's own.    *)

bm_launch == Script("bm_launch_instance", AnyError, {"instance"},
  <<DefaultVpc, Adopt("key", {"key", "key_file"}), Adopt("sg", {}), Fill("sg"), Tell({"sg"}),
    BareMetalImage, Make("instance", {"instance"}),
    Await({"running"}, {}, "raise"), AwaitUp, Touch("instance"), Tell({"vpc", "ip"})>>)
\* No start, no security group in the result.
bm_reuse == Script("bm_launch_instance", AnyError, {"instance", "key_file"},
  <<Tell({"instance", "key_file"}), Touch("instance"), Tell({"vpc", "ip", "key"}), Need({"running"}),
    Tell({"running"})>>)
bm_describe == Script("bm_describe_instance", AnyError, {"instance", "key_file"}, <<Touch("instance")>>)
bm_tags == Script("bm_describe_tags", AnyError, {"instance"}, <<Touch("instance")>>)

\* The group's name is known before it exists; only a failed check removes it.
NewGroup == Make("group", {})
InstanceHasZone == Touch("instance")
GroupAvailable == Touch("group")
topology_placement == Rescued(
  Script("topology_placement", {"client"}, {"instance"},
    <<Tell({"group"}), NewGroup, InstanceHasZone, GroupAvailable, Drop("group", "raise")>>),
  {"client"}, <<Drop("group", "pass")>>)
verify_image == Script("verify_image_installed", {}, {"instance"}, <<Need({"running"}), Try("image")>>)
\* A launch template for a dry run, removed in a finally.
verify_config == Finally(
  Script("verify_config_installable", {"client"}, {"instance"},
    <<Touch("instance"), Make("template", {"template"}), Touch("template")>>),
  <<Drop("template", "pass")>>)

bm_stop == [vm_stop EXCEPT !.name = "bm_stop_instance"]
bm_start == [vm_start EXCEPT !.name = "bm_start_instance"]
BmUptime == Login("pass")
bm_reboot == Script("bm_reboot_instance", AnyError, {"instance", "key_file"},
  <<Need({"running"}), BmUptime, Reboot, AwaitUp>> \o PublicIp \o <<SshReady, CompareUptime>>)
power_cycle == Script("power_cycle_instance", AnyError, {"instance", "key_file"},
  <<Need({"running"}), Stop, Await({"stopped"}, {}, "raise"), Start, AwaitUp>> \o PublicIp \o
  <<SshReady>>)
\* An instance that is not found or takes too long is no reason to stop.
bm_teardown == Teardown("bm_teardown", {"client", "other"},
  <<Look, Terminate({}), Await({"terminated"}, {}, "warn"),
    Drop("sg", "warn"), Drop("key", "warn"), Tell({"destroyed"})>>)
bm_verify == Teardown("verify_terminated", {},
  <<Gone("instance"), Gone("sg"), Gone("key"), Tell({"verified"})>>)

bm_tests ==
  <<Step(vm_list, "test", {<<1, "vpc">>, <<1, "instance">>}),
    Step(bm_tags, "test", {<<1, "instance">>}),
    Step(topology_placement, "test", {<<1, "instance">>}),
    Step(serial_console, "test", {<<1, "instance">>}),
    Step(verify_image, "test", {<<1, "instance">>}),
    Step(verify_config, "test", {<<1, "instance">>}),
    Step(bm_stop, "test", {<<1, "instance">>}),
    Step(bm_start, "test", {<<1, "instance">>, <<1, "key_file">>}),
    Step(bm_reboot, "test", {<<1, "instance">>, <<1, "key_file">>, <<9, "ip">>}),
    Step(power_cycle, "test", {<<1, "instance">>, <<1, "key_file">>}),
    Step(bm_describe, "test", {<<1, "instance">>, <<1, "key_file">>}),
    Step(deploy_nim, "test", {<<11, "ip">>, <<11, "key_file">>}),
    Step(teardown_nim, "teardown", {<<11, "ip">>, <<11, "key_file">>}),
    Step(bm_teardown, "teardown", {<<1, "instance">>}),
    Step(bm_verify, "teardown", {<<1, "instance">>, <<1, "sg">>, <<1, "key">>})>>
bm_suite == <<Step(bm_launch, "setup", {})>> \o bm_tests
bm_reuse_suite == <<Step(bm_reuse, "setup", {})>> \o bm_tests

\* Off by default (skip: true).  The root volume is swapped for one made from the
\* image's snapshot; the old one, a volume of its own once detached, goes last.
StockSnapshot == Touch("image")
reinstall == Script("reinstall_instance", AnyError, {"instance", "key_file"},
  <<Need({"running"}), Tell({"old_root"}), StockSnapshot, Stop, Await({"stopped"}, {}, "raise"),
    Make("old_root", {}), Make("new_root", {"new_root"}), Touch("new_root"), Start,
    Await({"running"}, {}, "raise"), AwaitUp>> \o PublicIp \o <<SshReady, Drop("old_root", "pass")>>)
reinstall_suite ==
  <<Step(bm_launch, "setup", {}),
    Step(reinstall, "test", {<<1, "instance">>, <<1, "key_file">>}),
    Step(bm_teardown, "teardown", {<<1, "instance">>})>>

------------------------------------------------------------------------------
(* image-registry: an image imported through a bucket, launched and removed. *)

\* Every failure prints an error alone; the bucket's and the image's names go with it.
Download == Touch("file")
VmImportRole == <<Touch("vmimport_role"), Touch("vmimport_role")>>
ToBucket == <<Make("bucket", {}), Touch("bucket")>>
\* The import task is polled for up to an hour; its end makes image and snapshots known at once.
Import == <<Touch("import"), Make("image", {"image"}), Make("snapshots", {"snapshots"})>>
upload_image == Script("upload_image", {}, {},
  <<Download>> \o VmImportRole \o ToBucket \o Import \o <<Tell({"bucket"})>>)
OwnImage == <<Touch("image"), Touch("image")>>
\* The copy's id reaches main once the copy is available.
CopyImage == <<Make("copy", {}), Touch("copy"), Tell({"copy"})>>
crud_image == Rescued(
  Script("crud_image", {"client"}, {"image"}, OwnImage \o CopyImage \o <<Drop("copy", "raise")>>),
  {"client"}, <<Drop("copy", "pass")>>)
\* A profile that cannot be made is left out, what was made of it is forgotten.
InstanceProfile ==
  <<TryMake("role", {}), Try("role"), TryMake("profile", {"profile", "role"}), Try("profile")>>
LaunchImage == Make("instance", {})
AwaitInstance ==
  <<Await({"running"}, {}, "raise"), Await({"running"}, {"running"}, "pass"), Touch("instance")>>
registry_launch == Script("registry_launch_instance", {}, {"profile", "role"},
  <<DefaultVpc, Adopt("key", {}), Adopt("sg", {}), Fill("sg")>> \o InstanceProfile \o
  <<LaunchImage>> \o AwaitInstance \o <<Tell({"instance", "key", "sg"})>>)
NewTemplate == Make("template", {"template"})
ReadTemplate == Touch("template")
UpdateTemplate == Touch("template")
crud_install_config == Rescued(
  Script("crud_install_config", {"client"}, {},
    <<NewTemplate, ReadTemplate, UpdateTemplate, Drop("template", "raise")>>),
  {"client"}, <<Drop("template", "pass")>>)
\* Each deletion answers for itself, but a snapshot or role-policy failure is only logged.
EndInstance == <<Kill("error"), Settle("raise")>>
DropImage == <<Drop("image", "error"), Drop("snapshots", "pass")>>
DropBucket == Drop("bucket", "error")
DropGroup == Drop("sg", "error")
DropProfile == <<Drop("profile", "error"), Drop("role", "error")>>
registry_teardown == Teardown("registry_teardown", {},
  EndInstance \o DropImage \o <<DropBucket, Drop("key", "error"), DropGroup>> \o DropProfile \o
  <<Tell({"destroyed"})>>)
registry_suite ==
  <<Step(upload_image, "setup", {}),
    Step(crud_image, "test", {<<1, "image">>}),
    Step(registry_launch, "test", {<<1, "image">>}),
    Step(crud_install_config, "test", {}),
    Step(registry_teardown, "teardown",
         {<<3, "instance">>, <<1, "image">>, <<1, "snapshots">>, <<1, "bucket">>, <<3, "key">>,
          <<3, "sg">>, <<3, "profile">>, <<3, "role">>})>>

------------------------------------------------------------------------------
(* network: a VPC for the tests that share one.                            *)

create_vpc == Script("create_vpc", {"client"}, {},
  <<Make("vpc", {"vpc"}), Touch("vpc"), Make("igw", {"igw"}), Fill("igw"), Touch("igw"), Make("subnets", {}),
    Touch("subnets"), Tell({"subnets"}), Make("rtb", {"rtb"}), Touch("rtb"), Make("sg", {"sg"}),
    Fill("sg")>>)
\* Each deletion is tried five times while "in use"; then the error is main's, and the rest stays.
network_teardown == Teardown("network_teardown", {"client"},
  <<Explore({"sg", "subnets", "rtb", "igw"}), Drop("sg", "raise"), Drop("subnets", "raise"),
    Drop("rtb", "raise"), Empty("igw"), Drop("igw", "raise"), Drop("vpc", "raise"), Tell({"destroyed"})>>)
network_suite ==
  <<Step(create_vpc, "setup", {}), Step(network_teardown, "teardown", {<<1, "vpc">>})>>

------------------------------------------------------------------------------
(* iam and control-plane: users, access keys, resource groups.             *)

create_user == Script("create_user", {}, {},
  <<Make("user", {}), Make("access_key", {}), Tell({"user", "access_key"})>>)
delete_user == Teardown("delete_user", {},
  <<Touch("user"), Tell({"access_key"}), Drop("access_key", "raise"), Touch("user"),
    Drop("user", "raise"), Tell({"destroyed"})>>)
test_credentials == Script("test_credentials", {}, {}, <<KeyWorks>>)
iam_suite ==
  <<Step(create_user, "setup", {}),
    Step(test_credentials, "test", {<<1, "access_key">>}),
    Step(delete_user, "teardown", {<<1, "user">>})>>

check_api == Script("check_api", AnyError, {}, <<Check("user"), Try("vpc")>>)
\* The user name is the script's own choice and always printed.
create_access_key == Script("create_access_key", {"client"}, {},
  <<Tell({"user"}), Make("user", {}), Make("access_key", {"access_key"})>>)
create_tenant == Script("create_tenant", {"client"}, {"tenant"}, <<Make("tenant", {"tenant"})>>)
test_access_key == Script("test_access_key", {"client"}, {}, <<KeyWorks>>)
disable_access_key == Script("disable_access_key", {"client"}, {}, <<Disable>>)
verify_key_rejected == Script("verify_key_rejected", AnyError, {}, <<KeyRefused>>)
get_tenant == Script("get_tenant", {"client"}, {}, <<Touch("tenant")>>)
list_tenants == Script("list_tenants", {"client"}, {}, <<Touch("tenant")>>)
delete_access_key == Teardown("delete_access_key", {"client"},
  <<Drop("access_key", "raise"), Drop("user", "raise"), Tell({"destroyed"})>>)
delete_tenant == Teardown("delete_tenant", {"client"},
  <<Drop("tenant", "raise"), Tell({"destroyed"})>>)
control_suite ==
  <<Step(check_api, "setup", {}),
    Step(create_access_key, "setup", {}),
    Step(create_tenant, "setup", {}),
    Step(test_access_key, "test", {<<2, "access_key">>}),
    Step(disable_access_key, "test", {<<2, "user">>, <<2, "access_key">>}),
    Step(verify_key_rejected, "test", {<<2, "access_key">>}),
    Step(list_tenants, "test", {<<3, "tenant">>}),
    Step(get_tenant, "test", {<<3, "tenant">>}),
    Step(delete_access_key, "teardown", {<<2, "user">>, <<2, "access_key">>}),
    Step(delete_tenant, "teardown", {<<3, "tenant">>})>>

------------------------------------------------------------------------------
(* security: the last step sweeps the account for what carries the tag.    *)

SweepInstances == <<Sweep("instance", "error"), Await({"terminated", "absent"}, {}, "error")>>
SweepVolumes == Sweep("volume", "count")
SweepVpcs == <<Sweep("sg", "count"), Sweep("subnets", "count"), Sweep("vpc", "count")>>
SweepKeys == Sweep("kms_key", "error")
SweepBuckets == Sweep("bucket", "count")
SweepUser == <<Sweep("access_key", "error"), Sweep("user", "error")>>
security_teardown == Teardown("security_teardown", {"client"},
  SweepInstances \o <<SweepVolumes>> \o SweepVpcs \o <<SweepKeys, SweepBuckets>> \o SweepUser \o
  <<Tell({"swept"})>>)
security_suite == <<Step(security_teardown, "teardown", {})>>
==============================================================================
