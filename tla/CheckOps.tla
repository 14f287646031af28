------------------------------ MODULE CheckOps ------------------------------
(***************************************************************************)
(* The vocabulary the validation checks are written in: what run() of a    *)
(* check looks at, in its order, and what it makes of what it finds.       *)
(* CheckRun gives it its meaning.                                          *)
(*                                                                         *)
(* A look finds one of                                                     *)
(*   good   what the check is there to confirm                             *)
(*   bad    something that contradicts it                                  *)
(*   none   nothing: no such field, a command that failed, a time-out      *)
(*   empty  a collection without members                                   *)
(*   odd    nothing usable: an exception (a wrong type, a lost connection) *)
(* and reacts to it:                                                       *)
(*   go     on to the next operation, without a word                       *)
(*   ok     a passed sub-test, and on                                      *)
(*   sub    a failed sub-test, and on                                      *)
(*   skip_sub  a skipped sub-test, and on to the next part                 *)
(*   note   a failure remembered in a local variable, and on               *)
(*   flunk  a failed sub-test, remembered, and on to the next part         *)
(*   miss   a failure remembered, and on to the next part                  *)
(*   mark   set_failed without leaving run(), and on to the next part      *)
(*   next, done  on to the next part, past all the parts                   *)
(*   fail, pass, skip, raise   set_failed, set_passed, pytest.skip or an   *)
(*          exception: the end of run()                                    *)
(*   quit, leave   set_failed, set_passed after closing the connection     *)
(*   keep   in a finally: everything is left in place on purpose           *)
(***************************************************************************)
EXTENDS Naturals, Sequences

LOCAL Op(do, of, on) == [do |-> do, of |-> of, on |-> on]

\* A look at the system, or at the output of a step that describes it.
Look(of, on) == Op("look", of, on)
\* A value that decides how to go on and shows nothing of the system: the
\* configuration, an environment variable, a skip flag of the step.
Switch(of, on) == Op("switch", of, on)
\* Something opened or made, known to the check once the call has succeeded,
\* or before it, when its deletion does not depend on the answer; closed or
\* deleted if it is known; deleted whoever has made it.
Open(of, on) == Op("open", of, on)
Claim(of, on) == Op("claim", of, on)
Close(of, on) == Op("close", of, on)
Delete(of) == Op("delete", of, [good |-> "go", none |-> "go"])

------------------------------------------------------------------------------
(* Fields of a step's output.                                              *)

\* Any non-empty value will do.
Field(of) == Look(of, [good |-> "go", none |-> "fail"])
\* A value of the right kind, in range, equal to what is expected.
Value(of) == Look(of, [good |-> "go", bad |-> "fail", none |-> "fail"])
\* Looked at when it is there.
Bound(of) == Look(of, [good |-> "go", bad |-> "fail", none |-> "go"])
\* Compared without a look at its type.
Number(of) == Look(of, [good |-> "go", bad |-> "fail", none |-> "fail", odd |-> "raise"])
NumberIfAny(of) == Look(of, [good |-> "go", bad |-> "fail", none |-> "go", odd |-> "raise"])
Fields(names) == [i \in DOMAIN names |-> Field(names[i])]
\* A collection that may not be empty; one whose members, if any, must be good.
Members(of) == Look(of, [good |-> "go", bad |-> "fail", none |-> "fail", empty |-> "fail", odd |-> "raise"])
Any(of) == Look(of, [good |-> "go", bad |-> "fail", none |-> "go", empty |-> "go", odd |-> "raise"])
\* The sub-tests a script reports under "tests": every one that is named must
\* be there and have passed.
Required(names) == [i \in DOMAIN names |-> Members(names[i])]
\* A required setting; a valid one, if any; a flag that ends the check with a skip or a pass.
Setting(of) == Switch(of, [on |-> "go", off |-> "fail"])
ValidSetting(of) == Switch(of, [on |-> "go", off |-> "fail", odd |-> "fail"])
SkippedIf(of) == Switch(of, [off |-> "go", on |-> "skip"])
PassedIf(of) == Switch(of, [off |-> "go", on |-> "pass"])

------------------------------------------------------------------------------
(* Commands on a host.                                                     *)

\* Its sub-test passes or fails by what the command says; only when it
\* succeeds; it passes whenever the command succeeds; it passes in any case.
Probe(of) == Look(of, [good |-> "ok", bad |-> "sub", none |-> "sub", odd |-> "raise"])
ProbeIfAny(of) == Look(of, [good |-> "ok", bad |-> "sub", none |-> "go", odd |-> "raise"])
Info(of) == Look(of, [good |-> "ok", none |-> "go", odd |-> "raise"])
Note(of) == Look(of, [good |-> "ok", none |-> "ok", odd |-> "raise"])
\* Without it the check ends, the connection closed first.
Must(of) == Look(of, [good |-> "ok", none |-> "quit", odd |-> "raise"])
\* Run for what later operations make of it.
Command(of) == Look(of, [good |-> "go", none |-> "go", odd |-> "raise"])

------------------------------------------------------------------------------
(* Checks.                                                                 *)

\* A part of a check: operations that a failure may cut short, and the parts
\* that must have gone through to their end for it to run at all.
Part(ops) == [ops |-> ops, needs |-> {}]
After(parts, ops) == [ops |-> ops, needs |-> parts]

\* A check: its parts, what decides at the end (nothing, the failures noted,
\* the failed sub-tests), what its finally does, and what it leaves behind for
\* the checks after it.
Check(name, parts, rule) == [name |-> name, parts |-> parts, rule |-> rule, finally |-> <<>>, keeps |-> {}]
Finally(check, ops) == [check EXCEPT !.finally = ops]
Keeps(check, objects) == [check EXCEPT !.keeps = objects]
Output(name, ops) == Check(name, <<Part(ops)>>, "passed")
==============================================================================
