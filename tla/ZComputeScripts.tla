--------------------------- MODULE ZComputeScripts ---------------------------
(***************************************************************************)
(* The zCompute provider: the same suites against an EC2-compatible API    *)
(* without waiters, where a start may be shut off again by the host, keys  *)
(* and groups are taken over by name, and some operations do not exist.    *)
(***************************************************************************)
EXTENDS ProviderOps

AnyState == {"pending", "running", "stopping", "stopped", "shutting-down", "terminated"}

\* poll_instance_state; wait_for_ssh; wait_for_public_ip.
Poll(states, tells, fails) == Await(states, tells, fails)
ZSsh(fails) == Login(fails)
ZPublicIp == <<Touch("instance"), Tell({"ip"})>>
\* Drivers and packages, by commands over SSH; what fails is only noted.
Drivers == Login("pass")
Packages == Login("pass")
DefaultSubnet == Touch("subnets")
\* An address is allocated, then bound; the caller has its id after both.
Eip == <<Make("eip", {}), Touch("eip")>>

\* Nothing is noted before the end: an error leaves no id behind.
z_launch == Script("z_launch_instance", AnyError, {},
  <<DefaultSubnet, AdoptAny("key", {}), AdoptAny("sg", {}), Fill("sg"), Make("instance", {}),
    AwaitStarting({"running"}, {}, "raise")>> \o Eip \o
  <<ZSsh("pass"), Drivers, Packages, Tell({"instance", "ip", "key", "key_file", "vpc", "sg", "eip"})>>)
\* ZCOMPUTE_VM_INSTANCE_ID: returns before anything is printed.
Reused ==
  <<Touch("instance"), StartIf({"stopped"}), Poll({"running"}, {}, "raise"), Touch("instance")>>
z_reuse == Script("z_launch_instance", AnyError, {}, Reused \o <<EndSilently>>)

z_list == Script("z_list_instances", AnyError, {}, <<Touch("vpc")>>)
z_tags == Script("z_describe_tags", AnyError, {"instance"}, <<Touch("instance")>>)
z_serial == Script("z_serial_console", AnyError, {"instance"}, <<MayEnd, Touch("instance")>>)
z_console_rbac == Script("z_console_rbac", AnyError, {}, <<>>)
z_describe == Script("z_describe_instance", AnyError, {"instance"}, <<Need(AnyState), Tell({"ip", "key_file"})>>)

z_stop == Script("z_stop_instance", AnyError, {"instance"},
  <<DoneIf({"stopped"}, {"stopped"}), Need({"running", "pending"}), Stop,
    Poll({"stopped"}, {"stopped"}, "raise")>>)
\* Started up to four times; what counts is the state read last.
z_start == Script("z_start_instance", AnyError, {"instance", "key_file"},
  <<Need({"running", "stopped", "stopping"}), AwaitStarting({"running"}, {}, "pass")>> \o ZPublicIp \o
  <<ZSsh("pass"), Drivers, Need({"running"}), Tell({"running"})>>)
ZUptime == Login("pass")
\* The uptime printed before and after differs unless the clock stood still.
z_reboot == Script("z_reboot_instance", AnyError, {"instance", "ip", "key_file"},
  <<ZUptime, Reboot, Poll({"running"}, {}, "raise"), ZSsh("raise"), Drivers, CompareText>>)
\* The address, the group and the key are deleted if they can be.
z_teardown == Script("z_teardown", AnyError, {"instance"},
  <<Learn, Keep, Terminate({}), Poll({"terminated"}, {}, "raise"), Drop("eip", "pass"),
    Drop("sg", "pass"), Drop("key", "pass"), Tell({"terminated"})>>)

z_nim == Script("z_deploy_nim", AnyError, {"key_file"},
  <<MayEnd, Login("raise"), Try("container"), Make("container", {"container"}), Check("container")>>)
z_teardown_nim == Script("z_teardown_nim", AnyError, {}, <<Login("raise"), Sweep("container", "raise")>>)

z_vm_tests ==
  <<Step(z_list, "test", {<<1, "vpc">>, <<1, "instance">>}),
    Step(z_tags, "test", {<<1, "instance">>}),
    Continuing(Step(z_serial, "test", {<<1, "instance">>})),
    Continuing(Step(z_console_rbac, "test", {<<1, "instance">>})),
    Step(z_stop, "test", {<<1, "instance">>}),
    Step(z_start, "test", {<<1, "instance">>, <<1, "key_file">>}),
    Step(z_reboot, "test", {<<1, "instance">>, <<1, "key_file">>, <<7, "ip">>}),
    Step(z_describe, "test", {<<1, "instance">>, <<1, "key_file">>}),
    Step(z_nim, "test", {<<8, "ip">>, <<8, "key_file">>}),
    Step(z_teardown_nim, "teardown", {<<8, "ip">>, <<8, "key_file">>}),
    Step(z_teardown, "teardown", {<<1, "instance">>, <<1, "eip">>})>>
z_vm_suite == <<Step(z_launch, "setup", {})>> \o z_vm_tests
z_vm_reuse_suite == <<Step(z_reuse, "setup", {})>> \o z_vm_tests

------------------------------------------------------------------------------
(* network                                                                 *)

\* One subnet, noted when it has been read back.
z_create_vpc == Script("z_create_vpc", AnyError, {"vpc"},
  <<Make("vpc", {"vpc"}), Touch("vpc"), Touch("vpc"), Try("vpc"), Make("igw", {"igw"}), Fill("igw"),
    Touch("igw"), Make("subnets", {}), Touch("subnets"), Try("subnets"), Touch("subnets"), Tell({"subnets"}),
    Make("rtb", {"rtb"}), Touch("rtb"), Make("sg", {"sg"}), Fill("sg"), Touch("vpc")>>)
\* The AWS script, run through ssl_wrapper.
z_network_teardown == Teardown("network_teardown", {"client"},
  <<Explore({"sg", "subnets", "rtb", "igw"}), Drop("sg", "raise"), Drop("subnets", "raise"),
    Drop("rtb", "raise"), Empty("igw"), Drop("igw", "raise"), Drop("vpc", "raise"), Tell({"destroyed"})>>)
z_vpc_crud == Finally(
  Script("z_vpc_crud", AnyError, {},
    <<Make("vpc", {}), Touch("vpc"), Touch("vpc"), Tell({"vpc"}), Check("vpc"), Check("vpc"), Check("vpc"),
      Drop("vpc", "error"), Check("vpc")>>),
  <<Drop("vpc", "shrug")>>)
\* Run by hand between runs: everything that carries the tag, whoever is using it.
z_cleanup == Script("cleanup_stale_resources", {}, {},
  <<Sweep("instance", "raise"), Await({"terminated", "shutting-down", "absent"}, {}, "pass"),
    Sweep("eip", "pass"), Sweep("sg", "pass"),
    Sweep("subnets", "pass"), Sweep("rtb", "pass"), Empty("igw"), Sweep("igw", "pass"), Sweep("vpc", "pass")>>)

z_cleanup_suite == <<Step(z_cleanup, "setup", {})>>
z_network_suite == <<Step(z_create_vpc, "setup", {}), Step(z_network_teardown, "teardown", {<<1, "vpc">>})>>

------------------------------------------------------------------------------
(* iam and control-plane                                                   *)

z_create_user == Script("z_create_user", {"client"}, {"user"},
  <<Tell({"user"}), Make("user", {}), Make("access_key", {"access_key"})>>)
z_delete_user == Teardown("z_delete_user", {"client"},
  <<Touch("user"), Tell({"access_key"}), Drop("access_key", "raise"), Drop("user", "raise"), Tell({"destroyed"})>>)
z_test_credentials == Script("z_test_credentials", {}, {}, <<KeyWorks>>)
z_iam_suite ==
  <<Step(z_create_user, "setup", {}),
    Step(z_test_credentials, "test", {<<1, "access_key">>}),
    Step(z_delete_user, "teardown", {<<1, "user">>})>>

z_check_api == Script("z_check_api", AnyError, {}, <<Check("user"), Try("user"), Try("vpc")>>)
z_create_access_key == Script("z_create_access_key", {"client"}, {"user"},
  <<Tell({"user"}), Make("user", {}), Make("access_key", {"access_key"})>>)
\* A group of users stands for a tenant; its name is the script's own choice.
z_create_tenant == Script("z_create_tenant", {"client"}, {"tenant"}, <<Tell({"tenant"}), Make("tenant", {})>>)
z_test_access_key == Script("z_test_access_key", {"client"}, {}, <<KeyWorks>>)
\* Through the API, or through the symp command where the API lacks it.
z_disable == Script("z_disable_access_key", {"client"}, {}, <<Try("access_key"), Disable>>)
z_verify_key_rejected == Script("z_verify_key_rejected", AnyError, {}, <<KeyRefused>>)
z_get_tenant == Script("z_get_tenant", {"client"}, {"tenant"}, <<Touch("tenant")>>)
z_list_tenants == Script("z_list_tenants", {"client"}, {}, <<Touch("tenant")>>)
\* No --skip-destroy in this provider's configuration.
z_delete_access_key == Script("z_delete_access_key", {"client"}, {},
  <<Drop("access_key", "raise"), Drop("user", "raise"), Tell({"destroyed"})>>)
z_delete_tenant == Script("z_delete_tenant", {"client"}, {}, <<Drop("tenant", "raise"), Tell({"destroyed"})>>)
z_control_suite ==
  <<Step(z_check_api, "setup", {}),
    Step(z_create_access_key, "setup", {}),
    Step(z_create_tenant, "setup", {}),
    Step(z_test_access_key, "test", {<<2, "access_key">>}),
    Continuing(Step(z_disable, "test", {<<2, "user">>, <<2, "access_key">>})),
    Continuing(Step(z_verify_key_rejected, "test", {<<2, "access_key">>})),
    Step(z_list_tenants, "test", {<<3, "tenant">>}),
    Step(z_get_tenant, "test", {<<3, "tenant">>}),
    Step(z_delete_access_key, "teardown", {<<2, "user">>, <<2, "access_key">>}),
    Step(z_delete_tenant, "teardown", {<<3, "tenant">>})>>
==============================================================================
