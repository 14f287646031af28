--------------------------- MODULE AwsNetworkTests ---------------------------
(***************************************************************************)
(* Network tests that bring their own VPC and remove it in a finally: what *)
(* each creates, from where on the finally knows it, and how the cleanup   *)
(* takes its own failures.  They share the test phase of the network suite *)
(* but no resource, so each is a suite of its own here.                    *)
(***************************************************************************)
EXTENDS ProviderOps

\* common/vpc.py create_test_vpc and its callers: the id reaches the caller's
\* variable only after the tags and the waiter have succeeded.
TestVpc(r) == <<Make(r, {}), Touch(r), Touch(r), Tell({r})>>
\* A read or an update whose failure is a failed sub-test.
Sub(r) == Check(r)

vpc_crud == Finally(
  Script("vpc_crud", {"client", "other"}, {},
    <<Make("vpc", {}), Touch("vpc"), Tell({"vpc"}), Sub("vpc"), Sub("vpc"), Sub("vpc"),
      Drop("vpc", "error"), Sub("vpc"), Forget({"vpc"})>>),
  <<Drop("vpc", "shrug")>>)

vpc_isolation == Finally(
  Script("vpc_isolation", {"client", "other"}, {},
    TestVpc("vpc") \o TestVpc("vpc_b") \o <<Sub("vpc"), Sub("vpc_b")>>),
  <<Drop("vpc", "shrug"), Drop("vpc_b", "shrug")>>)

\* The VPC is left alone when its group could not be deleted; both count.
sg_crud == Finally(
  Script("sg_crud", {"client", "other"}, {},
    TestVpc("vpc") \o <<Make("sg", {}), Touch("sg"), Tell({"sg"}), Sub("sg"), Sub("sg"), Drop("sg", "error")>>),
  <<Drop("sg", "count"), Drop("vpc", "count")>>)

vpc_peering == Finally(
  Script("vpc_peering", {"client", "other"}, {},
    TestVpc("vpc") \o TestVpc("vpc_b") \o
    <<Make("peering", {}), Touch("peering"), Tell({"peering"}), Touch("peering"), Sub("peering")>>),
  <<Drop("peering", "shrug"), Drop("vpc", "shrug"), Drop("vpc_b", "shrug")>>)

dns_test == Finally(
  Script("dns_test", {"client", "other"}, {},
    TestVpc("vpc") \o <<Make("zone", {"zone"}), Sub("zone"), Sub("vpc"), Sub("zone")>>),
  <<Try("zone"), Drop("zone", "pass"), Drop("vpc", "shrug")>>)

\* The private address survives a stop and a start.
stable_ip == Finally(
  Script("stable_ip", {"client", "other"}, {},
    TestVpc("vpc") \o
    <<Make("subnets", {"subnets"}), Make("sg", {"sg"}), Make("instance", {}), Await({"running"}, {}, "raise"),
      Tell({"instance"}), Touch("instance"), Stop, Await({"stopped"}, {}, "raise"), Start,
      Await({"running"}, {}, "raise"), Sub("instance")>>),
  <<Kill("shrug"), Settle("pass"), Drop("sg", "shrug"), Drop("subnets", "shrug"), Drop("vpc", "shrug")>>)

\* The waiter in this finally raises an error its except clause does not name.
floating_ip == Finally(
  Script("floating_ip", {"client", "other"}, {},
    TestVpc("vpc") \o
    <<Make("igw", {"igw"}), Fill("igw"), Make("subnets", {"subnets"}), Make("rtb", {"rtb"}), Touch("rtb"),
      Make("sg", {"sg"}), Make("instance", {"instance"}), Await({"running"}, {}, "raise"),
      Make("eip", {"eip"}), Touch("eip"), Sub("eip")>>),
  <<Kill("pass"), Settle("raise"), Drop("eip", "pass"), Drop("sg", "pass"), Drop("rtb", "pass"),
    Drop("subnets", "pass"), Empty("igw"), Drop("igw", "pass"), Drop("vpc", "shrug")>>)

NetworkTests == {vpc_crud, vpc_isolation, sg_crud, vpc_peering, dns_test, stable_ip, floating_ip}
==============================================================================
