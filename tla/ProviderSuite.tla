---------------------------- MODULE ProviderSuite ----------------------------
(***************************************************************************)
(* A provider's suite: the scripts isvctl runs as steps, phase by phase,   *)
(* against a cloud account, and what they leave there.  The scripts are    *)
(* data (ProviderOps); this module says what each operation may do: a call *)
(* succeeds, is refused, or takes effect although its answer is lost; a    *)
(* wait ends or runs out; the step may be killed by its timeout at any     *)
(* point.  Between operations the instance moves on its own.               *)
(*                                                                         *)
(* The cloud is external: its states are those the scripts read.  The      *)
(* phases follow the step executor (a failed step ends its phase, later    *)
(* phases but teardown are skipped, teardown goes on after a failed step,  *)
(* a step whose arguments read a value no output has is not run).          *)
(***************************************************************************)
EXTENDS ProviderOps, FiniteSets

CONSTANTS Suites,     \* the suites: [name, steps, accounts]
          Resources   \* the names of the resources the scripts speak of

VARIABLES suite, skip,             \* the suite that runs, --skip-destroy
          cloud, owner,            \* state of each resource; who made it
          rebooting, booted,       \* a reboot is due; booted since it was asked for
          died,                    \* the instance ended instead of starting
          at, mode, op,            \* the step, its stage, its next operation
          told, learnt,            \* the result, what a describe showed
          err, faulty,             \* the exception, an error that was caught
          status, outs,            \* how each step ended, its JSON
          warned,                  \* resources a result says were not deleted
          missed                   \* resources whose failed deletion nobody reports

cloudVars  == <<cloud, owner, rebooting, booted, died>>
scriptVars == <<told, learnt, err, faulty>>
suiteVars  == <<suite, skip>>
stepVars   == <<at, status, outs>>
noted      == <<warned, missed>>
vars == <<suiteVars, cloudVars, scriptVars, stepVars, mode, op, noted>>

IsGone(r) ==
  \/ cloud[r] = "absent"
  \/ r \in {"instance", "container"} /\ cloud["instance"] \in {"absent", "shutting-down", "terminated"}

Steps  == DOMAIN suite.steps
Current == suite.steps[at].script
Ops == IF mode = "rescue" THEN Current.rescue ELSE Current.ops
Now == Ops[op]
Busy == mode \in {"run", "rescue"}
AtOp(kinds) == Busy /\ op <= Len(Ops) /\ Now.do \in kinds

\* What EC2 and IAM refuse to delete while something still uses it.
Users(r) ==
  CASE r = "sg" -> {"instance"}
    [] r = "subnets" -> {"instance"}
    [] r = "vpc" -> {"subnets", "sg", "igw", "rtb"}
    [] r = "rtb" -> {"subnets"}
    [] r = "role" -> {"profile"}
    [] r = "user" -> {"access_key"}
    [] OTHER -> {}
\* A security group is in use until the instance is terminated, a gateway while attached.
InUse(r) ==
  \/ r = "igw" /\ cloud[r] = "present"
  \/ \E u \in Users(r) \cap Resources :
       IF u = "instance" THEN cloud[u] \notin {"absent", "terminated"} ELSE cloud[u] \notin {"absent", "unattached"}

\* The ids the script can name: its own, its arguments', those it has read.
Given == {ref[2] : ref \in {q \in suite.steps[at].refs : q[2] \in outs[q[1]].told}}
Knows(r) == r \in told \cup learnt \cup Given

NoJson == [printed |-> FALSE, told |-> {}]
Json(tokens) == [printed |-> TRUE, told |-> tokens]

Init ==
  /\ suite \in Suites /\ skip \in BOOLEAN
  /\ \E account \in suite.accounts : cloud = account.cloud /\ owner = account.owner
  /\ rebooting = FALSE /\ booted = TRUE /\ died = FALSE
  /\ at = 1 /\ mode = "idle" /\ op = 1
  /\ told = {} /\ learnt = {} /\ err = "none" /\ faulty = FALSE
  /\ status = [i \in DOMAIN suite.steps |-> "open"]
  /\ outs = [i \in DOMAIN suite.steps |-> NoJson]
  /\ warned = {} /\ missed = {}

------------------------------------------------------------------------------
(* The step executor.                                                      *)

Phase(i) == suite.steps[i].phase
Failed(i) == status[i] \in {"failed", "killed", "norender"}

Skipped_Teardown(i) ==  \* mutant: a failure leaves out the teardown as well
  \E j \in Steps : /\ j < i /\ Failed(j)
                    /\ Phase(j) = Phase(i) => ~suite.steps[j].continues
\* A failed step ends its phase and the later ones; teardown is best effort.
Skipped(i) ==
  /\ Phase(i) # "teardown"
  /\ \E j \in Steps : /\ j < i /\ Failed(j)
                      /\ Phase(j) = Phase(i) => ~suite.steps[j].continues

Renders_Told(i) ==  \* mutant: a null field is taken for a missing one
  \A ref \in suite.steps[i].refs : outs[ref[1]].printed /\ ref[2] \in outs[ref[1]].told
\* A field the JSON has renders even when it is null; without JSON nothing does.
Renders(i) ==
  \A ref \in suite.steps[i].refs :
     /\ outs[ref[1]].printed
     /\ ref[2] \in outs[ref[1]].told \cup suite.steps[ref[1]].script.fields

NextStep_Retry(how, json) ==  \* mutant: a step that timed out is tried again
  /\ status' = [status EXCEPT ![at] = how]
  /\ outs' = [outs EXCEPT ![at] = json]
  /\ at' = IF how = "killed" THEN at ELSE at + 1
  /\ mode' = "idle" /\ op' = 1
  /\ told' = {} /\ learnt' = {} /\ err' = "none" /\ faulty' = FALSE
NextStep(how, json) ==
  /\ status' = [status EXCEPT ![at] = how]
  /\ outs' = [outs EXCEPT ![at] = json]
  /\ at' = at + 1
  /\ mode' = "idle" /\ op' = 1
  /\ told' = {} /\ learnt' = {} /\ err' = "none" /\ faulty' = FALSE

SkipStep ==
  /\ mode = "idle" /\ at \in Steps /\ Skipped(at)
  /\ NextStep("skipped", NoJson)
  /\ UNCHANGED <<suiteVars, cloudVars, noted>>

StepWithoutInputs ==
  /\ mode = "idle" /\ at \in Steps /\ ~Skipped(at) /\ ~Renders(at)
  /\ NextStep("norender", NoJson)
  /\ UNCHANGED <<suiteVars, cloudVars, noted>>

StartScript ==
  /\ mode = "idle" /\ at \in Steps /\ ~Skipped(at) /\ Renders(at)
  /\ mode' = "run"
  /\ UNCHANGED <<suiteVars, cloudVars, scriptVars, stepVars, op, noted>>

\* subprocess timeout: nothing of what the script would have printed is left.
KillStep ==
  /\ Busy
  /\ NextStep("killed", NoJson)
  /\ UNCHANGED <<suiteVars, cloudVars, noted>>

------------------------------------------------------------------------------
(* How a script goes on.                                                   *)

Advance_Twice(tells) ==  \* mutant: an operation is passed over
  /\ op' = op + 2 /\ told' = told \cup tells
  /\ UNCHANGED <<stepVars, mode, learnt, err, faulty>>
Advance(tells) ==
  /\ op' = op + 1 /\ told' = told \cup tells
  /\ UNCHANGED <<stepVars, mode, learnt, err, faulty>>

\* return 0 or 1 with the result as it is.
Leave(how, tells) == NextStep(how, Json(told \cup tells))

\* Main's own handler takes the exception and prints; where a refused deletion
\* is a warning, no handler takes anything else.
Printing(kind) == mode = "run" /\ kind \in Current.keeps /\ (Now.fails = "warn" => kind = "client")
\* An exception of some kind: through the rescue, or straight to the exit.
Raise(kind) ==
  IF mode = "run" /\ kind \in Current.rescues
  THEN /\ mode' = "rescue" /\ op' = 1 /\ err' = kind
       /\ UNCHANGED <<stepVars, told, learnt, faulty>>
  ELSE NextStep("failed", IF Printing(kind) THEN Json(told) ELSE NoJson)

\* A fault the script catches itself and answers for at its end.
Faulty(wrong) ==
  /\ op' = op + 1 /\ faulty' = (faulty \/ wrong)
  /\ UNCHANGED <<stepVars, mode, told, learnt, err>>

Ending == {"drop", "sweep", "terminate"}
Unreported(modes) ==
  missed' = IF Now.do \in Ending /\ Now.fails \in modes THEN missed \cup {Now.res} ELSE missed

\* A refused call, as the operation's own handler treats it.
Refused ==
  /\ CASE Now.fails = "raise"              -> Raise("client")
       [] Now.fails \in {"error", "count"} -> Faulty(TRUE)
       [] OTHER                            -> Advance({})
  /\ warned' = IF Now.fails = "warn" THEN warned \cup {Now.res} ELSE warned
  /\ Unreported({"pass", "shrug"})

\* No answer: only delete_with_retry and a bare except take that too.
Unanswered ==
  /\ CASE Now.fails = "shrug" -> Advance({})
       [] Now.fails = "count" -> Faulty(TRUE)
       [] OTHER               -> Raise("other")
  /\ Unreported({"shrug"})
  /\ UNCHANGED warned

EndScript ==
  /\ Busy /\ op > Len(Ops)
  /\ IF mode = "run" /\ Current.always
     THEN mode' = "rescue" /\ op' = 1 /\ UNCHANGED <<stepVars, scriptVars>>
     ELSE IF err = "none" THEN Leave(IF faulty THEN "failed" ELSE "ok", {})
     ELSE NextStep("failed", IF err \in Current.keeps THEN Json(told) ELSE NoJson)
  /\ UNCHANGED <<suiteVars, cloudVars, noted>>

Changes == {"make", "adopt", "adopt_any", "touch", "fill", "empty", "drop", "sweep", "start",
            "start_if", "stop", "reboot", "terminate", "disable"}
Reads == {"need", "done_if", "learn", "find", "look", "explore", "gone"}

\* No id to delete, nothing to add: the script makes no call.
NoCall ==
  \/ AtOp({"drop", "terminate"}) /\ ~Knows(Now.res)
  \/ AtOp({"await_known"}) /\ ~(Knows("instance") /\ IsGone("instance"))
  \/ AtOp({"make"}) /\ Now.res = "profile" /\ cloud["role"] = "absent"
  \/ AtOp({"fill"}) /\ (cloud[Now.res] = "present" \/ owner[Now.res] # "run")
  \/ AtOp({"empty"}) /\ (cloud[Now.res] # "present" \/ owner[Now.res] = "foreign")
  \/ AtOp({"sweep"}) /\ (IsGone(Now.res) \/ owner[Now.res] = "foreign")
Calling == AtOp(Changes \cup Reads) /\ ~NoCall

PassOver ==
  /\ NoCall
  /\ Advance({})
  /\ UNCHANGED <<suiteVars, cloudVars, noted>>

\* Any call may be refused (throttled, denied) without effect.
CallRefused ==
  /\ Calling /\ Refused
  /\ UNCHANGED <<suiteVars, cloudVars>>

\* Any call may end without an answer.
CallUnanswered ==
  /\ Calling /\ Unanswered
  /\ UNCHANGED <<suiteVars, cloudVars>>

------------------------------------------------------------------------------
(* Calls that change the account.                                          *)

SetCloud(r, state) == cloud' = [cloud EXCEPT ![r] = state] /\ UNCHANGED <<owner, rebooting, booted, died>>
New(r) == CASE r = "instance" -> "pending" [] r = "sg" -> "bare" [] r = "igw" -> "unattached" [] OTHER -> "present"
Create(r) ==
  /\ cloud' = [cloud EXCEPT ![r] = New(r)]
  /\ owner' = [owner EXCEPT ![r] = "run"]
  /\ UNCHANGED <<rebooting, booted, died>>

\* create_key_pair and create_security_group of the AWS scripts keep to the
\* suite's own tag; a key whose file is gone is replaced.
AdoptKey ==
  \/ cloud["key"] = "absent" /\ Create("key")
  \/ cloud["key"] = "present" /\ owner["key"] # "foreign" /\ (UNCHANGED cloudVars \/ Create("key"))
AdoptGroup_Any ==  \* mutant: the tag is not looked at
  \/ cloud["sg"] = "absent" /\ Create("sg")
  \/ cloud["sg"] = "present" /\ UNCHANGED cloudVars
AdoptGroup ==
  \/ cloud["sg"] = "absent" /\ Create("sg")
  \/ cloud["sg"] = "present" /\ owner["sg"] # "foreign" /\ UNCHANGED cloudVars

\* The zCompute ones ask for the name only.
TakeOverKey == Create("key") \/ (cloud["key"] # "absent" /\ UNCHANGED cloudVars)
TakeOverGroup == IF cloud["sg"] = "absent" THEN Create("sg") ELSE UNCHANGED cloudVars

\* What the call does when the cloud accepts it.
Effect ==
  LET r == Now.res IN
  CASE Now.do = "make"      -> Create(r)
    [] Now.do = "adopt"     -> IF r = "key" THEN AdoptKey ELSE AdoptGroup
    [] Now.do = "adopt_any" -> IF r = "key" THEN TakeOverKey ELSE TakeOverGroup
    [] Now.do = "touch"     -> UNCHANGED cloudVars
    [] Now.do = "fill"      -> SetCloud(r, "present")
    [] Now.do = "drop"      -> ~InUse(r) /\ SetCloud(r, "absent")
    [] Now.do = "empty"     -> SetCloud(r, "unattached")
    [] Now.do = "sweep"     -> IF r = "instance" THEN SetCloud(r, "shutting-down") ELSE ~InUse(r) /\ SetCloud(r, "absent")
    [] Now.do = "start_if"  -> IF cloud[r] \in Now.states THEN SetCloud(r, "pending") ELSE UNCHANGED cloudVars
    [] Now.do = "start"     -> cloud[r] = "stopped" /\ SetCloud(r, "pending")
    [] Now.do = "stop"      -> cloud[r] = "running" /\ SetCloud(r, "stopping")
    [] Now.do = "terminate" -> /\ cloud[r] # "absent"
                                /\ IF IsGone(r) THEN UNCHANGED cloudVars ELSE SetCloud(r, "shutting-down")
    [] Now.do = "disable"   -> SetCloud(r, "inactive")
    [] OTHER                -> FALSE

CallDone ==
  /\ Calling /\ Effect /\ Advance(Now.tells)
  /\ UNCHANGED <<suiteVars, noted>>

\* The call took effect, the script saw an exception.
CallLost ==
  /\ Calling /\ Effect /\ Unanswered
  /\ UNCHANGED suiteVars

\* A reboot is requested now and happens later.
CallReboot ==
  /\ AtOp({"reboot"}) /\ cloud["instance"] = "running"
  /\ rebooting' = TRUE /\ booted' = FALSE /\ op' = op + 1
  /\ UNCHANGED <<suiteVars, cloud, owner, died, stepVars, mode, told, learnt, err, faulty, noted>>

ExploreNetwork ==
  /\ AtOp({"explore"}) /\ cloud["vpc"] # "absent"
  /\ learnt' = {r \in Now.states : cloud[r] \notin {"absent", "unattached"}}
  /\ op' = op + 1
  /\ UNCHANGED <<suiteVars, cloudVars, stepVars, mode, told, err, faulty, noted>>

------------------------------------------------------------------------------
(* Reading the instance.                                                   *)

InstanceState == cloud["instance"]
Described(kinds) == AtOp(kinds) /\ Knows("instance") /\ InstanceState # "absent"

\* An id that is null or unknown to the account is an error of the call.
DescribeNothing ==
  /\ AtOp({"need", "done_if", "learn", "find", "look"})
  /\ ~(Knows("instance") /\ InstanceState # "absent")
  /\ CASE Knows("instance") /\ Now.do = "find" -> Leave("ok", {})
       [] Knows("instance") /\ Now.do = "look" -> Advance({})
       [] OTHER                                -> Raise("client")
  /\ UNCHANGED <<suiteVars, cloudVars, noted>>

NeedState ==
  /\ Described({"need"})
  /\ IF InstanceState \in Now.states THEN Advance({}) ELSE Leave("failed", {})
  /\ UNCHANGED <<suiteVars, cloudVars, noted>>

DoneInState ==
  /\ Described({"done_if"})
  /\ IF InstanceState \in Now.states THEN Leave("ok", Now.tells) ELSE Advance({})
  /\ UNCHANGED <<suiteVars, cloudVars, noted>>

\* A terminated instance shows no security groups any more.
LearnFromInstance ==
  /\ Described({"learn", "find", "look"})
  /\ learnt' = IF InstanceState = "terminated" THEN {"key"} ELSE {"sg", "key"}
  /\ op' = op + 1
  /\ UNCHANGED <<suiteVars, cloudVars, stepVars, mode, told, err, faulty, noted>>

Waits == {"await", "await_known", "await_starting"}
Waiting == AtOp(Waits) /\ ~NoCall

AwaitState ==
  /\ Waiting /\ InstanceState \in Now.states
  /\ Advance(Now.tells)
  /\ UNCHANGED <<suiteVars, cloudVars, noted>>

AwaitTimesOut_Ignored ==  \* mutant: nobody looks at how the wait ended
  /\ Waiting /\ InstanceState \notin Now.states
  /\ IF Now.fails = "error" THEN Faulty(TRUE) ELSE Advance({})
  /\ warned' = IF Now.fails = "warn" THEN warned \cup {"instance"} ELSE warned
  /\ UNCHANGED <<suiteVars, cloudVars, missed>>
\* The waiter gives up, or meets a state it cannot leave.
AwaitTimesOut ==
  /\ Waiting /\ InstanceState \notin Now.states
  /\ CASE Now.fails = "raise" -> Raise("other")
       [] Now.fails = "error" -> Faulty(TRUE)
       [] OTHER               -> Advance({})
  /\ warned' = IF Now.fails = "warn" THEN warned \cup {"instance"} ELSE warned
  /\ UNCHANGED <<suiteVars, cloudVars, missed>>

\* A launch that the host shut off again is started again (zCompute).
RestartStopped ==
  /\ AtOp({"await_starting"}) /\ InstanceState = "stopped"
  /\ SetCloud("instance", "pending")
  /\ UNCHANGED <<suiteVars, scriptVars, stepVars, mode, op, noted>>

LoginDone ==
  /\ AtOp({"login"}) /\ InstanceState = "running" /\ cloud["sg"] # "bare" /\ Advance(Now.tells)
  /\ UNCHANGED <<suiteVars, cloudVars, noted>>

LoginFails ==
  /\ AtOp({"login"})
  /\ IF Now.fails = "raise" THEN Leave("failed", {}) ELSE Advance({})
  /\ UNCHANGED <<suiteVars, cloudVars, noted>>

\* The boot time is after the request exactly if the reboot has happened
\* (compare); the printed uptimes differ in any case (compare_text).
CompareBoots ==
  /\ AtOp({"compare", "compare_text"})
  /\ \/ /\ InstanceState = "running"
        /\ IF Now.do = "compare_text" \/ booted THEN Advance(Now.tells) ELSE Leave("failed", {})
     \/ Leave("failed", {})
  /\ UNCHANGED <<suiteVars, cloudVars, noted>>

\* What must be gone is still there.
CheckGone ==
  /\ AtOp({"gone"}) /\ Faulty(Knows(Now.res) /\ ~IsGone(Now.res))
  /\ UNCHANGED <<suiteVars, cloudVars, noted>>

------------------------------------------------------------------------------
(* Access keys, and plain notes.                                           *)

KeyAccepted ==
  /\ AtOp({"key_works", "key_refused"}) /\ cloud["access_key"] = "present"
  /\ Advance(IF Now.do = "key_works" THEN Now.tells ELSE {})
  /\ UNCHANGED <<suiteVars, cloudVars, noted>>

\* A new key may not work yet, and a disabled one may still be accepted
\* elsewhere; a refusal of any other cause has the same error class.
KeyRejected ==
  /\ AtOp({"key_works", "key_refused"})
  /\ IF Now.do = "key_works" THEN Leave("failed", {}) ELSE Advance(Now.tells)
  /\ UNCHANGED <<suiteVars, cloudVars, noted>>

TellResult ==
  /\ \/ AtOp({"tell", "may_end"}) /\ Advance(Now.tells)
     \/ AtOp({"keep"}) /\ ~skip /\ Advance({})
     \/ /\ AtOp({"forget"}) /\ told' = told \ Now.tells /\ op' = op + 1
        /\ UNCHANGED <<stepVars, mode, learnt, err, faulty>>
  /\ UNCHANGED <<suiteVars, cloudVars, noted>>

EndEarly ==
  /\ \/ AtOp({"may_end"}) /\ Leave("ok", {})
     \/ AtOp({"keep"}) /\ skip /\ Leave("ok", Now.tells)
     \/ AtOp({"end_silently"}) /\ NextStep("ok", NoJson)
  /\ UNCHANGED <<suiteVars, cloudVars, noted>>

------------------------------------------------------------------------------
(* The cloud.                                                              *)

Becomes(state) == cloud' = [cloud EXCEPT !["instance"] = state] /\ UNCHANGED <<owner, rebooting>>

InstanceMoves ==
  /\ \/ InstanceState = "pending" /\ Becomes("running") /\ booted' = TRUE
     \/ InstanceState = "pending" /\ Becomes("terminated") /\ UNCHANGED booted
     \/ InstanceState = "pending" /\ Becomes("stopped") /\ UNCHANGED booted
     \/ InstanceState = "stopping" /\ Becomes("stopped") /\ UNCHANGED booted
     \/ InstanceState = "shutting-down" /\ Becomes("terminated") /\ UNCHANGED booted
     \/ InstanceState = "terminated" /\ Becomes("absent") /\ UNCHANGED booted
  /\ died' = (died \/ (InstanceState = "pending" /\ cloud'["instance"] = "terminated"))
  /\ UNCHANGED <<suiteVars, scriptVars, stepVars, mode, op, noted>>

InstanceReboots ==
  /\ rebooting /\ rebooting' = FALSE
  /\ booted' = (booted \/ InstanceState = "running")
  /\ UNCHANGED <<suiteVars, cloud, owner, died, scriptVars, stepVars, mode, op, noted>>

Ended == at > Len(suite.steps) /\ UNCHANGED vars

Executor == SkipStep \/ StepWithoutInputs \/ StartScript \/ KillStep \/ EndScript
Operation ==
  \/ PassOver \/ CallDone \/ CallLost \/ CallRefused \/ CallUnanswered \/ CallReboot
  \/ ExploreNetwork \/ DescribeNothing \/ NeedState \/ DoneInState \/ LearnFromInstance
  \/ AwaitState \/ AwaitTimesOut \/ LoginDone \/ LoginFails \/ CompareBoots \/ CheckGone
  \/ KeyAccepted \/ KeyRejected \/ TellResult \/ EndEarly
Cloud == InstanceMoves \/ InstanceReboots

Next == Executor \/ Operation \/ RestartStopped \/ Cloud \/ Ended

\* Every call and wait of a script is bounded, and so is the step; the cloud
\* owes nothing.
Fairness == WF_vars(Executor \/ Operation)

Spec == Init /\ [][Next]_vars /\ Fairness

------------------------------------------------------------------------------
(* What is asked of the suites.                                            *)

States == {"absent", "unattached", "bare", "present", "inactive", "pending", "running",
           "stopping", "stopped", "shutting-down", "terminated"}
Owners == {"none", "run", "suite", "foreign"}
OpsOf(script) == {script.ops[k] : k \in DOMAIN script.ops} \cup {script.rescue[k] : k \in DOMAIN script.rescue}
Scripts(s) == {s.steps[i].script : i \in DOMAIN s.steps}
Exits == {"done_if", "find", "may_end", "keep", "end_silently"}

\* Operations are such as ProviderOps makes them, arguments read earlier steps,
\* a cleanup has no way out of its own.
WellMade(o) ==
  /\ o.do = "touch" \/ o.res \in Resources
  /\ o.fails \in {"raise", "warn", "error", "pass", "shrug", "count"}
  /\ o.fails = "warn" => o.res \in Resources
  /\ o.do = "explore" => o.states \subseteq Resources
  /\ o.do = "adopt" => o.res \in {"key", "sg"} /\ o.fails = "raise"
  /\ o.do = "adopt_any" => o.res \in {"key", "sg"}
  /\ o.do \in {"fill", "empty"} => o.res \in {"sg", "igw"}
  /\ o.do \in {"start_if", "start", "stop", "terminate", "await_starting"} => o.res = "instance"
  /\ o.do = "start_if" => o.states = {"stopped"}
  /\ o.do = "disable" => o.res = "access_key" /\ o.fails = "raise"
  /\ o.do = "gone" => o.fails = "error"
Sound(script) ==
  /\ Len(script.ops) \in Nat /\ DOMAIN script.ops = 1..Len(script.ops)
  /\ Len(script.rescue) \in Nat /\ DOMAIN script.rescue = 1..Len(script.rescue)
  /\ \A o \in OpsOf(script) : WellMade(o)
  /\ \A k \in DOMAIN script.rescue : script.rescue[k].do \notin Exits
ASSUME SuitesAssumption ==
  /\ {"instance", "key", "sg"} \subseteq Resources
  /\ \A s \in Suites :
       /\ Len(s.steps) \in Nat /\ DOMAIN s.steps = 1..Len(s.steps)
       /\ \A a \in s.accounts : a.cloud \in [Resources -> States] /\ a.owner \in [Resources -> Owners]
       /\ \A i \in DOMAIN s.steps : Sound(s.steps[i].script) /\ \A ref \in s.steps[i].refs : ref[1] \in 1..(i - 1)

\* What belongs to somebody else is there and at rest.  It is named or changed
\* without a look at its tag only behind an adoption, which fails; so is an
\* instance made, from which its group and key could be learnt.
Learning == {"learn", "find", "look"}
Names(o, r) == r \in o.tells \/ (o.do = "explore" /\ r \in o.states)
Disturbs(o, r) ==
  \/ Names(o, r)
  \/ o.res = r /\ o.do \in {"make", "adopt_any", "start_if", "start", "stop", "disable", "await_starting"}
  \/ r \in {"sg", "key"} /\ o.do = "make" /\ o.res = "instance"
Adopts(o, r) == o.do = "adopt" /\ o.res = r
Aloof(s, r) ==
  \A c \in Scripts(s) :
    /\ \A k \in DOMAIN c.ops : Disturbs(c.ops[k], r) => \E j \in 1..k : Adopts(c.ops[j], r)
    /\ \A k \in DOMAIN c.rescue : ~Disturbs(c.rescue[k], r)
Learns(s) == \E c \in Scripts(s) : \E o \in OpsOf(c) : o.do \in Learning
ASSUME ForeignAssumption ==
  \A s \in Suites : \A a \in s.accounts : \A r \in Resources : a.owner[r] = "foreign" =>
    /\ a.cloud[r] # "absent" /\ (r = "instance" => a.cloud[r] \in {"running", "stopped"})
    /\ Aloof(s, r)
    /\ r \in {"sg", "key"} => a.cloud["instance"] = "absent" \/ ~Learns(s)

\* Whatever a step reads, the script it reads from has always printed when it
\* ends well.
Tells(o, token) ==
  /\ token \in o.tells
  /\ o.do = "tell" \/ (o.do \in {"make", "adopt", "adopt_any"} /\ o.fails = "raise" /\ o.res # "profile")
ToldBefore(c, k, token) == \E j \in 1..(k - 1) : Tells(c.ops[j], token)
\* What a cleanup forgets may count as forgotten before it starts.
Forgotten(c, k, token) ==
  \/ \E j \in 1..(k - 1) : c.ops[j].do = "forget" /\ token \in c.ops[j].tells
  \/ \E j \in DOMAIN c.rescue : c.rescue[j].do = "forget" /\ token \in c.rescue[j].tells
Promised(c, token) ==
  /\ \A o \in OpsOf(c) : o.do # "end_silently"
  /\ \/ token \in c.fields
     \/ /\ \A o \in OpsOf(c) : o.do = "forget" => token \notin o.tells
        /\ \A k \in DOMAIN c.ops : c.ops[k].do \in Exits => ToldBefore(c, k, token)
        /\ ToldBefore(c, Len(c.ops) + 1, token)
Incomplete == {"bm_reuse", "z_vm_reuse"}
ASSUME InputsAssumption ==
  \A s \in Suites : s.name \in Incomplete \/
    \A i \in DOMAIN s.steps : \A ref \in s.steps[i].refs : Promised(s.steps[ref[1]].script, ref[2])

\* What a script without a cleanup claims it has seen before it says so, and it
\* leaves it so; what was given to a teardown to delete is not learnt afterwards.
Plain(c) == c.rescue = <<>> /\ c.rescues = {} /\ ~c.always
Still(o, r) == o.res # r \/ o.do \notin (Changes \ {"touch", "reboot"}) \cup {"await_starting"}
Shows(o, state) == o.states = {state} /\ o.do \in {"need", "await"} /\ o.fails = "raise"
StillFrom(c, k, r) == \A m \in (k + 1)..Len(c.ops) : Still(c.ops[m], r)
Confirmed(c, k, state) == \E j \in 1..k : Shows(c.ops[j], state) /\ StillFrom(c, j, "instance")
Removals == {"drop", "gone", "terminate"}
Clearing == Removals \cup Learning \cup {"keep", "explore", "empty", "await", "await_known", "touch", "tell"}
Clears(c) ==
  \A k \in DOMAIN c.ops :
    /\ c.ops[k].do \in Clearing
    /\ \A m \in 1..(k - 1) : c.ops[m].do \in Removals =>
         ~Names(c.ops[k], c.ops[m].res) /\ c.ops[k].do \notin Learning
\* A snapshot that could not be deleted is logged, and no reason to fail.
Logged == {"snapshots"}
Answers(o) == o.do \in Removals /\ o.fails \in {"pass", "shrug"} => o.res \in Logged
Claims(c, token) == \E o \in OpsOf(c) : token \in o.tells
Vouched(c, k, token) ==
  LET o == c.ops[k] IN
  CASE token \in {"stopped", "running"} -> (o.do = "done_if" /\ o.states = {token}) \/ Confirmed(c, k, token)
    [] token = "rebooted" -> o.do = "compare" /\ \A m \in (k + 1)..Len(c.ops) : c.ops[m].do # "reboot"
    [] token = "inactive" -> o.do = "disable" /\ StillFrom(c, k, "access_key")
    [] token = "destroyed" -> /\ o.do = "tell" /\ k = Len(c.ops) /\ Clears(c)
                              /\ \A m \in DOMAIN c.ops : Answers(c.ops[m])
    [] token = "verified" -> /\ o.do = "tell" /\ k = Len(c.ops) /\ Clears(c)
                             /\ \A m \in DOMAIN c.ops : c.ops[m].do \notin {"drop", "terminate"}
ASSUME ClaimsAssumption ==
  \A s \in Suites : \A c \in Scripts(s) :
    \A token \in {"stopped", "running", "rebooted", "inactive", "verified", "destroyed"} :
      Claims(c, token) =>
        Plain(c) /\ \A k \in DOMAIN c.ops : token \in c.ops[k].tells => Vouched(c, k, token)

\* r, what keeps it in use, and what keeps that in use.
Chain(r) == LET near == {r} \cup Users(r) IN near \cup UNION {Users(u) : u \in near}
Makers == {"make", "adopt", "adopt_any", "fill"}
Deletions == Ending \cup {"empty"}
\* The script makes or removes r, or what keeps it in use.
Touches(c, r) == \E o \in OpsOf(c) : o.do \in Makers \cup Deletions /\ o.res \in Chain(r)

\* Whatever a suite makes or takes over, an operation of one of its steps
\* removes for good: nothing after it brings r back, no good way out of the
\* script leads around it but --skip-destroy and the find of an instance that
\* does not exist, the step is not left out once r was made, and it has the id.
Claiming == {"make", "adopt", "adopt_any"}
Does(o, kinds, r) == o.do \in kinds /\ o.res = r
Revives(o, r) == Does(o, Claiming \cup {"fill", "disable"}, r) \/ (r = "container" /\ Does(o, {"make"}, "instance"))
\* Only step j makes or takes over r; nobody does when there is no step j.
OnlyIn(s, r, j) ==
  /\ \A a \in s.accounts : a.owner[r] = "none"
  /\ \A i \in DOMAIN s.steps \ {j} : \A o \in OpsOf(s.steps[i].script) : ~Does(o, Claiming, r)
\* No operation of these kinds on r before operation k of step i.
Spared(s, i, k, kinds, r) ==
  /\ \A j \in 1..(i - 1) : \A o \in OpsOf(s.steps[j].script) : ~Does(o, kinds, r)
  /\ \A m \in 1..(k - 1) : ~Does(s.steps[i].script.ops[m], kinds, r)
\* The id of r is in the output of a step whenever that step has printed, ended
\* well, and made r: it is required there, told before anything else, or told
\* by the call that makes r (a role by the one that makes its profile).
Forgets(c, r) == \E o \in OpsOf(c) : o.do = "forget" /\ r \in o.tells
HandsOver(s, j, r) ==
  LET c == s.steps[j].script IN
  \/ r \notin c.fields
  \/ Plain(c) /\ ~Forgets(c, r) /\ 1 \in DOMAIN c.ops /\ c.ops[1].do = "tell" /\ r \in c.ops[1].tells
  \/ \E q \in {r} \cup Users(r) :
       /\ q \in Resources /\ (q = r \/ r = "role") /\ OnlyIn(s, q, j)
       /\ Plain(c) /\ ~Forgets(c, r) /\ Touches(c, r)
       /\ \A o \in OpsOf(c) : Does(o, Claiming, q) => o.do = "make" /\ o.fails \in {"raise", "pass"} /\ r \in o.tells
\* The instance is named only where it exists.
Traced(s) ==
  \/ \A a \in s.accounts : a.cloud["instance"] \notin {"absent", "shutting-down", "terminated"}
  \/ \A c \in Scripts(s) :
       /\ \A k \in DOMAIN c.ops : "instance" \in c.ops[k].tells =>
            \E j \in 1..k : Does(c.ops[j], {"make"}, "instance") /\ c.ops[j].fails = "raise"
       /\ \A k \in DOMAIN c.rescue : "instance" \notin c.rescue[k].tells
       /\ \A o \in OpsOf(c) : o.do = "explore" => "instance" \notin o.states
\* A gateway is attached by the script that makes it.
Completed(s, r) ==
  /\ \A a \in s.accounts : a.cloud[r] # "unattached"
  /\ r = "igw" => \A c \in Scripts(s) : (\E o \in OpsOf(c) : Does(o, {"make", "fill"}, r)) =>
       /\ Plain(c)
       /\ \A k \in DOMAIN c.ops :
            /\ c.ops[k].do \notin Exits
            /\ Does(c.ops[k], {"make"}, r) =>
                 \E m \in (k + 1)..Len(c.ops) : Does(c.ops[m], {"fill"}, r) /\ c.ops[m].fails = "raise"
\* Operation l of step i shows the script the id of r.
Reveals(s, i, l, r) ==
  LET c == s.steps[i].script IN
  /\ c.ops[l].fails = "raise"
  /\ \/ r \in {"sg", "key"} /\ c.ops[l].do \in Learning /\ Traced(s) /\ Spared(s, i, l, Ending, "instance")
     \/ /\ c.ops[l].do = "explore" /\ r \in c.ops[l].states /\ Completed(s, r) /\ Spared(s, i, l, {"empty"}, r)
        /\ \A o \in OpsOf(c) : ~Does(o, {"fill"}, r)
Shown(s, i, k, r) ==
  \E l \in 1..(k - 1) :
    /\ Reveals(s, i, l, r)
    /\ \A m \in (l + 1)..(k - 1) : LET o == s.steps[i].script.ops[m] IN
         o.do \notin Learning \cup {"explore"} /\ ~Revives(o, r)
Line(c, stage) == IF stage = "run" THEN c.ops ELSE c.rescue
\* The script can name r there, or finds it without its id.
AtHand(s, i, stage, k, r) ==
  LET c == s.steps[i].script
      past == IF stage = "run" THEN k ELSE Len(c.ops) + 1 IN
  \/ Line(c, stage)[k].do = "sweep"
  \/ ToldBefore(c, past, r) /\ ~Forgotten(c, past, r)
  \/ \E ref \in s.steps[i].refs : ref[2] = r /\ HandsOver(s, ref[1], r)
  \/ stage = "run" /\ Shown(s, i, k, r)
Removes(s, i, stage, k, r) ==
  LET c == s.steps[i].script IN
  /\ Does(Line(c, stage)[k], Ending, r) /\ (stage = "rescue" => c.always)
  /\ \A m \in (k + 1)..Len(Line(c, stage)) : ~Revives(Line(c, stage)[m], r)
  /\ stage = "run" => \A m \in DOMAIN c.rescue : ~Revives(c.rescue[m], r)
  /\ \A j \in (i + 1)..Len(s.steps) : \A o \in OpsOf(s.steps[j].script) : ~Revives(o, r)
  /\ \A m \in DOMAIN c.ops : c.ops[m].do \in Exits =>
       \/ c.ops[m].do = "keep"
       \/ c.ops[m].do = "find" /\ r \in {"instance", "sg", "key"} /\ Traced(s) /\ Spared(s, i, m, Ending, "instance")
  /\ s.steps[i].phase = "teardown" \/ i = 1 \/ OnlyIn(s, r, i)
  /\ AtHand(s, i, stage, k, r)
ASSUME RemovalAssumption ==
  \A s \in Suites : \A r \in Resources \ {"new_root"} :
    \/ OnlyIn(s, r, 0)
    \/ \E i \in DOMAIN s.steps : \E stage \in {"run", "rescue"} :
         \E k \in DOMAIN Line(s.steps[i].script, stage) : Removes(s, i, stage, k, r)

------------------------------------------------------------------------------
(* Properties.                                                             *)

\* The types of the variables.
TypeOK ==
  /\ suite \in Suites /\ skip \in BOOLEAN
  /\ cloud \in [Resources -> States] /\ owner \in [Resources -> Owners]
  /\ rebooting \in BOOLEAN /\ booted \in BOOLEAN /\ died \in BOOLEAN
  /\ at \in 1..Len(suite.steps) + 1 /\ mode \in {"idle", "run", "rescue"}
  /\ Busy => at \in Steps /\ op \in 1..Len(Ops) + 1
  /\ learnt \subseteq Resources /\ err \in {"none", "client", "other"} /\ faulty \in BOOLEAN
  /\ status \in [Steps -> {"open", "ok", "failed", "killed", "norender", "skipped"}]
  /\ DOMAIN outs = Steps
  /\ warned \subseteq Resources /\ missed \subseteq Resources

AllOps(i) == OpsOf(suite.steps[i].script)
\* Step i makes or removes r, or what keeps it in use, and did not end well.
Interrupted(i, r) ==
  /\ status[i] \notin {"ok", "skipped"}
  /\ Touches(suite.steps[i].script, r)
\* Nobody's to delete: a root volume put in by reinstall_instance, a role whose
\* instance profile could not be made.
Unclaimed == {"new_root"} \cup {r \in {"role"} : owner["profile"] = "none"}

\* When a suite has ended, whatever it made or took over is gone again - unless
\* it was asked to keep it, a result names it as not deleted, a script passed
\* its failed deletion over, a step that makes or removes it, or what keeps it in use, did not end
\* well, or the instance through which it is found had ended on its own.  (The
\* ids the teardown steps need travel through the JSON of the others.)
LeftoversHaveCause ==
  at > Len(suite.steps) =>
    \A r \in Resources \ Unclaimed :
       owner[r] \in {"run", "suite"} /\ ~IsGone(r) =>
         \/ skip \/ r \in warned \cup missed
         \/ r \in {"sg", "key"} /\ died
         \/ \E i \in Steps : Interrupted(i, r)

\* A step is only ever left out for want of inputs after another step failed -
\* except where an instance is reused on bare metal or on zCompute: those
\* launches succeed without what later steps read.
InputsFromSuccess ==
  \A i \in Steps : status[i] = "norender" =>
    suite.name \in Incomplete \/ \E j \in Steps : j < i /\ status[j] # "ok"

\* What an account held before the suite, and the suite does not recognise as
\* its own, stays as it was.
ForeignUntouched ==
  [][\A r \in Resources : owner[r] = "foreign" => cloud'[r] = cloud[r] /\ owner'[r] = "foreign"]_vars

EndsWith(token) == Busy /\ mode' = "idle" /\ status'[at] = "ok" /\ token \in outs'[at].told
Targets == {o.res : o \in {q \in AllOps(at) : q.do \in {"drop", "gone", "terminate"} /\ q.res \in Resources}}

\* What the JSON of a successful step claims is true of the account when it is
\* printed: the instance is stopped, runs, has booted again since the request,
\* the key is disabled, and what a teardown was given is gone, or
\* the JSON says that it is not - a snapshot's failed deletion is only logged.
ClaimsAreTrue ==
  [][/\ EndsWith("stopped") => cloud["instance"] = "stopped"
     /\ EndsWith("running") => cloud["instance"] = "running"
     /\ EndsWith("rebooted") => booted
     /\ EndsWith("inactive") => cloud["access_key"] = "inactive"
     /\ EndsWith("verified") => \A r \in Targets : Knows(r) => IsGone(r)
     /\ EndsWith("destroyed") => \A r \in Targets : Knows(r) => IsGone(r) \/ r \in warned \cup (missed \cap Logged)]_vars

\* A cleanup that starts after a refused call knows everything the script made.
RescueKnowsAll ==
  [][mode = "run" /\ mode' = "rescue" /\ err' = "client" =>
       \A r \in Resources : owner[r] = "run" /\ ~IsGone(r) => r \in told]_vars

\* Every suite ends, whatever the cloud does.
SuiteEnds == <>(at > Len(suite.steps))
==============================================================================
