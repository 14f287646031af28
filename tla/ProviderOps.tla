----------------------------- MODULE ProviderOps -----------------------------
(***************************************************************************)
(* The vocabulary the provider scripts are written in: what a script does  *)
(* to the account, one operation per call or decision, in the order of its *)
(* main().  ProviderSuite gives the operations their meaning.              *)
(*                                                                         *)
(* An operation is [do, res, states, tells, fails]: what it does, to which *)
(* resource, the instance states it waits for or accepts, what it adds to  *)
(* the JSON result (a resource's own name stands for its id), and what the *)
(* script makes of its failure:                                            *)
(*   raise   the exception leaves main's body                              *)
(*   warn    a refusal is caught; the result names the resource            *)
(*   error   caught; the script goes on and fails at its end               *)
(*   pass    a refusal is caught and not reported                          *)
(*   shrug   any failure is caught and not reported (delete_with_retry)    *)
(*   count   the same, and the script goes on and fails at its end         *)
(***************************************************************************)
EXTENDS Naturals, Sequences

LOCAL Op(do, res, states, tells, fails) ==
  [do |-> do, res |-> res, states |-> states, tells |-> tells, fails |-> fails]

\* Create r; the result has what it tells as soon as the call returns.
Make(r, tells) == Op("make", r, {}, tells, "raise")
\* Create r under a fixed name, or take over the one of that name when it was
\* made by this suite and is complete (common/ec2.py).
Adopt(r, tells) == Op("adopt", r, {}, tells, "raise")
\* The same without asking who made it.
AdoptAny(r, tells) == Op("adopt_any", r, {}, tells, "raise")
\* A call on r or on something that hangs on it: it may fail and changes nothing that is modelled.
Touch(r) == Op("touch", r, {}, {}, "raise")
Try(r) == Op("touch", r, {}, {}, "pass")
Check(r) == Op("touch", r, {}, {}, "error")
\* The same, left out of the result when the call is refused.
TryMake(r, tells) == Op("make", r, {}, tells, "pass")
\* r is made complete (the rule of a security group, a gateway attached), or incomplete again.
Fill(r) == Op("fill", r, {}, {}, "raise")
Empty(r) == Op("empty", r, {}, {}, "pass")
Drop(r, fails) == Op("drop", r, {}, {}, fails)
\* List what hangs on the network: complete gateways, everything else in any state.
Explore(found) == Op("explore", "vpc", found, {}, "raise")

\* Describe the instance: go on, end well or fail by its state.
Need(states) == Op("need", "instance", states, {}, "raise")
DoneIf(states, tells) == Op("done_if", "instance", states, tells, "raise")
\* Describe the instance to learn what hangs on it; if it does not exist the
\* script fails (Learn), ends well (Find) or goes on with nothing learnt (Look).
Learn == Op("learn", "instance", {}, {}, "raise")
Find == Op("find", "instance", {}, {}, "raise")
Look == Op("look", "instance", {}, {}, "raise")
StartIf(states) == Op("start_if", "instance", states, {}, "raise")
Start == Op("start", "instance", {}, {}, "raise")
Stop == Op("stop", "instance", {}, {}, "raise")
Reboot == Op("reboot", "instance", {}, {}, "raise")
Terminate(tells) == Op("terminate", "instance", {}, tells, "raise")
Kill(fails) == Op("terminate", "instance", {}, {}, fails)
\* Wait for the end of an instance the script has terminated; a refused
\* termination leaves the same try block, and there is no wait.
Settle(fails) == Op("await_known", "instance", {"terminated"}, {}, fails)
\* Poll until the instance is in one of the states, or time runs out.
Await(states, tells, fails) == Op("await", "instance", states, tells, fails)
\* The address, a login: possible on a running instance only.
Login(fails) == Op("login", "instance", {"running"}, {}, fails)
\* The same, starting the instance again whenever it has stopped.
AwaitStarting(states, tells, fails) == Op("await_starting", "instance", states, tells, fails)
\* The verdict drawn from the uptime before and after a reboot.
CompareUptime == Op("compare", "instance", {"running"}, {"rebooted"}, "raise")
CompareText == Op("compare_text", "instance", {"running"}, {"uptime_differs"}, "raise")
\* The key works, or is refused (retried a few times).
KeyWorks == Op("key_works", "access_key", {}, {"authenticated"}, "raise")
KeyRefused == Op("key_refused", "access_key", {}, {"rejected"}, "raise")
Disable == Op("disable", "access_key", {}, {"inactive"}, "raise")
\* r must be gone (or, for an instance, on its way).
Gone(r) == Op("gone", r, {}, {}, "error")
Tell(tells) == Op("tell", "instance", {}, tells, "raise")
Forget(tells) == Op("forget", "instance", {}, tells, "raise")
\* Success without a call: what the step needs is not configured or not offered.
MayEnd == Op("may_end", "instance", {}, {}, "raise")
\* Success, and nothing is printed.
EndSilently == Op("end_silently", "instance", {}, {}, "raise")
\* --skip-destroy: success here, with nothing deleted.
Keep == Op("keep", "instance", {}, {"kept"}, "raise")
\* Delete r if it is there, found by the suite's tag or by a fixed name.
Sweep(r, fails) == Op("sweep", r, {}, {}, fails)

\* A script: its operations; after which kinds of error ("client": the call was
\* refused; "other": a waiter, a lost answer) the JSON still has what was told;
\* which fields the JSON always has (a missing value is printed as null); after
\* which kinds of error it first runs its own cleanup, the rescue, and whether
\* that runs on the normal way out too (a finally).
Script(name, keeps, fields, ops) ==
  [name |-> name, keeps |-> keeps, fields |-> fields, ops |-> ops,
   rescues |-> {}, rescue |-> <<>>, always |-> FALSE]
Rescued(script, kinds, ops) == [script EXCEPT !.rescues = kinds, !.rescue = ops]
Finally(script, ops) ==
  [script EXCEPT !.rescues = {"client", "other"}, !.rescue = ops, !.always = TRUE]
Teardown(name, keeps, ops) == Script(name, keeps, {}, <<Keep>> \o ops)
AnyError == {"client", "other"}

\* A step of a suite: the script, its phase, and what its arguments read
\* from the outputs of earlier steps; whether its failure ends the phase.
Step(script, phase, refs) ==
  [script |-> script, phase |-> phase, refs |-> refs, continues |-> FALSE]
Continuing(step) == [step EXCEPT !.continues = TRUE]
==============================================================================
