--------------------------- MODULE MCProviderSuite ---------------------------
EXTENDS ProviderSuite, AwsScripts, AwsNetworkTests, ZComputeScripts

Absent == [r \in Resources |-> "absent"]
Nobody == [r \in Resources |-> "none"]
Account(states, owners) == [cloud |-> states, owner |-> owners]
Empty_ == Account(Absent, Nobody)
With(account, r, state, who) ==
  Account([account.cloud EXCEPT ![r] = state], [account.owner EXCEPT ![r] = who])

MCResources ==
  {"instance", "key", "sg", "container", "denied_user", "allowed_user", "group", "template", "old_root",
   "new_root", "volume", "role", "profile", "bucket", "image", "snapshots", "copy", "vpc", "igw", "subnets", "rtb",
   "user", "access_key", "tenant", "kms_key", "vpc_b", "peering", "zone", "eip"}

Groups == {<<"absent", "none">>, <<"present", "suite">>, <<"bare", "suite">>, <<"present", "foreign">>}
Keys == {<<"absent", "none">>, <<"present", "suite">>, <<"present", "foreign">>}
LaunchAccounts ==
  {With(Empty_, "sg", g[1], g[2]) : g \in Groups} \cup {With(Empty_, "key", k[1], k[2]) : k \in Keys}
OwnAccounts == {Empty_, With(Empty_, "sg", "bare", "suite")}
\* An instance a run with --skip-destroy has left, with its key and group.
Reuse == {With(With(With(Empty_, "instance", s, "suite"), "key", "present", "suite"), "sg", "present", "suite") :
            s \in {"running", "stopped"}}
\* What runs that were stopped in the middle have left, some of it not the suite's own.
Stale(names, instances, others) ==
  {Account([r \in Resources |-> IF r = "instance" THEN i ELSE IF r \in names THEN "present" ELSE "absent"],
           [r \in Resources |-> IF r \in others THEN "foreign" ELSE IF r \in names \cup {"instance"} THEN "suite" ELSE "none"]) :
     i \in instances}
Swept == {"volume", "sg", "subnets", "vpc", "kms_key", "bucket", "user", "access_key"}
StaleAws == Stale(Swept, {"absent", "running", "stopped"}, {}) \cup Stale(Swept, {"running"}, {"vpc", "sg", "user", "instance"})
Listed == {"eip", "sg", "subnets", "rtb", "igw", "vpc"}
StaleZ == Stale(Listed, {"absent", "running", "stopped"}, {}) \cup Stale(Listed, {"running"}, {"vpc", "igw", "eip"})

MCSuite(name, steps, accounts) == [name |-> name, steps |-> steps, accounts |-> accounts]
AwsSuites ==
  {MCSuite("vm", vm_suite, LaunchAccounts), MCSuite("vm_reuse", vm_reuse_suite, Reuse),
   MCSuite("bare_metal", bm_suite, {Empty_}), MCSuite("reinstall", reinstall_suite, {Empty_}),
   MCSuite("image_registry", registry_suite, OwnAccounts), MCSuite("network", network_suite, {Empty_}),
   MCSuite("iam", iam_suite, {Empty_}), MCSuite("control_plane", control_suite, {Empty_}),
   MCSuite("security", security_suite, StaleAws)}
ZSuites ==
  {MCSuite("z_vm", z_vm_suite, OwnAccounts),
   MCSuite("z_network", z_network_suite, {Empty_}),
   MCSuite("z_vpc_crud", <<Step(z_vpc_crud, "test", {})>>, {Empty_}),
   MCSuite("z_iam", z_iam_suite, {Empty_}), MCSuite("z_control_plane", z_control_suite, {Empty_}),
   MCSuite("z_cleanup", z_cleanup_suite, StaleZ)}
TestSuites == {MCSuite(t.name, <<Step(t, "test", {})>>, {Empty_}) : t \in NetworkTests}
Reuses == {MCSuite("bm_reuse", bm_reuse_suite, Reuse), MCSuite("z_vm_reuse", z_vm_reuse_suite, Reuse)}
Partial == {s \in TestSuites : s.name \in {"vpc_isolation", "vpc_peering"}}
AllSuites == AwsSuites \cup ZSuites \cup TestSuites \cup Reuses
==============================================================================
