------------------------- MODULE ProviderSuiteProofs -------------------------
(***************************************************************************)
(* Theorems about ProviderSuite, for any suites, scripts and accounts that *)
(* meet its assumptions, whatever the cloud answers.                       *)
(***************************************************************************)
EXTENDS ProviderSuite, TLAPS

AtSome == Busy /\ op <= Len(Ops)
Kinds == {"client", "other"}

\* What a step of the system does to the script that runs: nothing, ...
Outside == UNCHANGED <<scriptVars, stepVars, mode, op>>
\* ... start it, ...
Begins == mode = "idle" /\ at \in Steps /\ Renders(at) /\ mode' = "run" /\ UNCHANGED <<scriptVars, stepVars, op>>
\* ... get it past an operation, ...
Passes ==
  /\ AtSome /\ op' = op + 1 /\ UNCHANGED <<stepVars, mode, err>>
  /\ told' \subseteq told \cup Now.tells
  /\ Now.do # "forget" => told \subseteq told'
  /\ \A t \in told \ told' : t \in Now.tells
  /\ faulty' \in BOOLEAN /\ (faulty => faulty')
  /\ \/ learnt' = learnt
     \/ Now.do \in Learning /\ learnt' \subseteq {"sg", "key"} /\ cloud["instance"] # "absent"
     \/ Now.do = "explore" /\ learnt' \subseteq Now.states
\* ... send it to its cleanup, ...
Rescues ==
  /\ mode = "run" /\ mode' = "rescue" /\ op' = 1 /\ UNCHANGED <<stepVars, told, learnt, faulty>>
  /\ \/ err' \in Kinds \cap Current.rescues
     \/ err' = err /\ op > Len(Ops) /\ Current.always
\* ... or end it.
EndsWell(json) ==
  /\ Busy
  /\ \/ op > Len(Ops) /\ err = "none" /\ ~faulty /\ (mode = "run" => ~Current.always) /\ json = Json(told)
     \/ AtOp({"done_if"}) /\ InstanceState \in Now.states /\ json = Json(told \cup Now.tells)
     \/ AtOp({"find"}) /\ Knows("instance") /\ InstanceState = "absent" /\ json = Json(told)
     \/ AtOp({"may_end"}) /\ json = Json(told)
     \/ AtOp({"keep"}) /\ skip /\ json = Json(told \cup Now.tells)
     \/ AtOp({"end_silently"}) /\ json = NoJson
Finishes(how, json) ==
  /\ NextStep(how, json) /\ at \in Steps
  /\ \/ json = NoJson /\ how \in {"failed", "killed", "norender", "skipped"}
     \/ Busy /\ json = Json(told) /\ how = "failed"
     \/ how = "ok" /\ EndsWell(json)
  /\ how = "norender" => mode = "idle" /\ ~Renders(at)
  /\ how = "skipped" => mode = "idle" /\ Skipped(at)

Resting == mode = "idle" => op = 1 /\ told = {} /\ learnt = {} /\ err = "none" /\ ~faulty

------------------------------------------------------------------------------
(* How a script goes on.                                                   *)

LEMMA ScriptFacts ==
  ASSUME TypeOK
  PROVE  /\ Len(suite.steps) \in Nat /\ Steps = 1..Len(suite.steps)
         /\ \A i \in Steps : suite.steps[i].script \in Scripts(suite) /\ Sound(suite.steps[i].script)
         /\ Busy => /\ at \in Steps /\ Current \in Scripts(suite) /\ Sound(Current)
                    /\ Len(Ops) \in Nat /\ DOMAIN Ops = 1..Len(Ops) /\ op \in 1..(Len(Ops) + 1)
         /\ AtSome => op \in 1..Len(Ops) /\ Now \in OpsOf(Current) /\ WellMade(Now)
<1>1. Len(suite.steps) \in Nat /\ Steps = 1..Len(suite.steps) /\ suite \in Suites
  BY SuitesAssumption DEF TypeOK, Steps
<1>2. \A i \in Steps : suite.steps[i].script \in Scripts(suite) /\ Sound(suite.steps[i].script)
  BY <1>1, SuitesAssumption DEF Steps, Scripts
<1>3. Busy => /\ at \in Steps /\ Current \in Scripts(suite) /\ Sound(Current) /\ op \in 1..(Len(Ops) + 1)
  BY <1>1, <1>2 DEF TypeOK, Current
<1>4. Busy => Len(Ops) \in Nat /\ DOMAIN Ops = 1..Len(Ops)
  BY <1>3 DEF Sound, Ops
<1>5. AtSome => op \in 1..Len(Ops)
  BY <1>3, <1>4 DEF AtSome
<1>6. AtSome => Now \in OpsOf(Current)
  BY <1>3, <1>4, <1>5 DEF AtSome, OpsOf, Now, Ops
<1>7. AtSome => WellMade(Now)
  BY <1>3, <1>6 DEF AtSome, Sound
<1> QED  BY <1>1, <1>2, <1>3, <1>4, <1>5, <1>6, <1>7

LEMMA Going ==
  ASSUME TypeOK, AtSome, NEW tells \in SUBSET Now.tells, NEW wrong \in BOOLEAN
  PROVE  Advance(tells) \/ Faulty(wrong) => Passes
BY DEF Advance, Faulty, Passes, stepVars, TypeOK

LEMMA Raising ==
  ASSUME TypeOK, Busy, NEW kind \in Kinds, Raise(kind)
  PROVE  Rescues \/ \E json : Finishes("failed", json)
<1>1. at \in Steps
  BY DEF TypeOK
<1>2. CASE mode = "run" /\ kind \in Current.rescues
  BY <1>2 DEF Raise, Rescues
<1>3. CASE ~(mode = "run" /\ kind \in Current.rescues)
  <2>1. CASE mode = "run" /\ kind \in Current.keeps
    BY <1>1, <1>3, <2>1 DEF Raise, Finishes
  <2>2. CASE ~(mode = "run" /\ kind \in Current.keeps)
    BY <1>1, <1>3, <2>2 DEF Raise, Finishes
  <2> QED  BY <2>1, <2>2
<1> QED  BY <1>2, <1>3

LEMMA Failing ==
  ASSUME TypeOK, Busy, Leave("failed", {})
  PROVE  \E json : Finishes("failed", json)
<1>1. NextStep("failed", Json(told)) /\ at \in Steps
  BY DEF Leave, TypeOK
<1> QED  BY <1>1 DEF Finishes

Flows == Outside \/ Begins \/ Passes \/ Rescues \/ \E how, json : Finishes(how, json)

LEMMA FlowCalls ==
  ASSUME TypeOK, PassOver \/ CallRefused \/ CallUnanswered \/ CallDone \/ CallLost
  PROVE  Flows
<1>1. AtSome
  BY DEF PassOver, CallRefused, CallUnanswered, CallDone, CallLost, Calling, NoCall, AtOp, AtSome
<1>2. Advance({}) \/ Advance(Now.tells) \/ Faulty(TRUE) => Passes
  BY <1>1, Going
<1>3. Raise("client") \/ Raise("other") => Flows
  BY <1>1, Raising DEF AtSome, Kinds, Flows
<1>4. Refused => Flows
  BY <1>2, <1>3 DEF Refused, Flows
<1>5. Unanswered => Flows
  BY <1>2, <1>3 DEF Unanswered, Flows
<1> QED  BY <1>2, <1>4, <1>5 DEF PassOver, CallRefused, CallUnanswered, CallDone, CallLost, Flows

LEMMA FlowReads ==
  ASSUME TypeOK, DescribeNothing \/ NeedState \/ DoneInState \/ LearnFromInstance \/ ExploreNetwork
  PROVE  Flows
<1>1. AtSome
  BY DEF DescribeNothing, NeedState, DoneInState, LearnFromInstance, ExploreNetwork, Described, AtOp, AtSome
<1>2. Advance({}) => Passes
  BY <1>1, Going
<1>3. Raise("client") \/ Leave("failed", {}) => Flows
  BY <1>1, Raising, Failing DEF AtSome, Kinds, Flows
<1>4. CASE DescribeNothing
  <2>1. CASE Knows("instance") /\ Now.do = "find" /\ Leave("ok", {})
    <3>1. AtOp({"find"}) /\ Knows("instance") /\ InstanceState = "absent" /\ NextStep("ok", Json(told)) /\ at \in Steps
      BY <1>1, <1>4, <2>1 DEF DescribeNothing, AtOp, AtSome, Leave, TypeOK
    <3>2. Finishes("ok", Json(told))
      BY <1>1, <3>1 DEF Finishes, EndsWell, AtSome
    <3> QED  BY <3>2 DEF Flows
  <2> QED  BY <1>2, <1>3, <1>4, <2>1 DEF DescribeNothing, Flows
<1>5. CASE NeedState
  BY <1>2, <1>3, <1>5 DEF NeedState, Flows
<1>6. CASE DoneInState
  <2>1. CASE InstanceState \in Now.states /\ Leave("ok", Now.tells)
    <3>1. AtOp({"done_if"}) /\ NextStep("ok", Json(told \cup Now.tells)) /\ at \in Steps
      BY <1>1, <1>6, <2>1 DEF DoneInState, Described, AtSome, Leave, TypeOK
    <3>2. Finishes("ok", Json(told \cup Now.tells))
      BY <1>1, <2>1, <3>1 DEF Finishes, EndsWell, AtSome
    <3> QED  BY <3>2 DEF Flows
  <2> QED  BY <1>2, <1>6, <2>1 DEF DoneInState, Flows
<1>7. CASE LearnFromInstance
  <2>1. Passes
    BY <1>1, <1>7 DEF LearnFromInstance, Described, InstanceState, AtOp, Passes, stepVars, Learning, TypeOK
  <2> QED  BY <2>1 DEF Flows
<1>8. CASE ExploreNetwork
  <2>1. Passes
    BY <1>1, <1>8 DEF ExploreNetwork, AtOp, Passes, stepVars, TypeOK
  <2> QED  BY <2>1 DEF Flows
<1> QED  BY <1>4, <1>5, <1>6, <1>7, <1>8

LEMMA FlowRest ==
  ASSUME TypeOK, \/ AwaitState \/ AwaitTimesOut \/ LoginDone \/ LoginFails \/ CompareBoots \/ CheckGone
                 \/ KeyAccepted \/ KeyRejected \/ TellResult \/ EndEarly \/ CallReboot
  PROVE  Flows
<1>1. AtSome
  BY DEF AwaitState, AwaitTimesOut, Waiting, LoginDone, LoginFails, CompareBoots, CheckGone, KeyAccepted, KeyRejected,
         TellResult, EndEarly, CallReboot, AtOp, AtSome
<1>2. \A tells \in SUBSET Now.tells : Advance(tells) => Passes
  BY <1>1, Going
<1>3. Raise("other") \/ Leave("failed", {}) => Flows
  BY <1>1, Raising, Failing DEF AtSome, Kinds, Flows
<1>4. \A wrong \in BOOLEAN : Faulty(wrong) => Passes
  BY <1>1, Going
<1>5. CASE AwaitState \/ AwaitTimesOut
  BY <1>2, <1>3, <1>4, <1>5 DEF AwaitState, AwaitTimesOut, Flows
<1>6. CASE LoginDone \/ LoginFails \/ CompareBoots
  BY <1>2, <1>3, <1>6 DEF LoginDone, LoginFails, CompareBoots, Flows
<1>7. CASE CheckGone
  BY <1>4, <1>7 DEF CheckGone, Flows
<1>8. CASE KeyAccepted \/ KeyRejected
  BY <1>2, <1>3, <1>8 DEF KeyAccepted, KeyRejected, Flows
<1>9. CASE TellResult
  <2>1. CASE Now.do = "forget" /\ told' = told \ Now.tells /\ op' = op + 1 /\ UNCHANGED <<stepVars, mode, learnt, err, faulty>>
    <3>1. Passes
      BY <1>1, <2>1 DEF Passes, stepVars, TypeOK
    <3> QED  BY <3>1 DEF Flows
  <2> QED  BY <1>2, <1>9, <2>1 DEF TellResult, AtOp, Flows
<1>10. CASE EndEarly
  <2>1. at \in Steps /\ Busy
    BY <1>1 DEF AtSome, TypeOK
  <2>2. CASE AtOp({"may_end"}) /\ Leave("ok", {})
    <3>1. AtOp({"may_end"}) /\ NextStep("ok", Json(told))
      BY <2>2 DEF Leave
    <3>2. Finishes("ok", Json(told))
      BY <2>1, <3>1 DEF Finishes, EndsWell
    <3> QED  BY <3>2 DEF Flows
  <2>3. CASE AtOp({"keep"}) /\ skip /\ Leave("ok", Now.tells)
    <3>1. Finishes("ok", Json(told \cup Now.tells))
      BY <2>1, <2>3 DEF Finishes, EndsWell, Leave
    <3> QED  BY <3>1 DEF Flows
  <2>4. CASE AtOp({"end_silently"}) /\ NextStep("ok", NoJson)
    <3>1. Finishes("ok", NoJson)
      BY <2>1, <2>4 DEF Finishes, EndsWell
    <3> QED  BY <3>1 DEF Flows
  <2> QED  BY <1>10, <2>2, <2>3, <2>4 DEF EndEarly
<1>11. CASE CallReboot
  <2>1. Passes
    BY <1>1, <1>11 DEF CallReboot, Passes, stepVars, TypeOK
  <2> QED  BY <2>1 DEF Flows
<1> QED  BY <1>5, <1>6, <1>7, <1>8, <1>9, <1>10, <1>11

LEMMA Flow == TypeOK /\ [Next]_vars => Flows
<1> SUFFICES ASSUME TypeOK, [Next]_vars PROVE Flows
  OBVIOUS
<1>1. CASE SkipStep \/ StepWithoutInputs \/ KillStep
  <2>1. at \in Steps
    BY <1>1 DEF SkipStep, StepWithoutInputs, KillStep, TypeOK
  <2>2. \E how \in {"skipped", "norender", "killed"} : Finishes(how, NoJson)
    BY <1>1, <2>1 DEF SkipStep, StepWithoutInputs, KillStep, Finishes
  <2> QED  BY <2>2 DEF Flows
<1>2. CASE StartScript
  BY <1>2 DEF StartScript, Begins, Flows
<1>3. CASE EndScript
  <2>1. Busy /\ at \in Steps /\ op > Len(Ops)
    BY <1>3 DEF EndScript, TypeOK
  <2>2. CASE mode = "run" /\ Current.always
    <3>1. Rescues
      BY <1>3, <2>1, <2>2 DEF EndScript, Rescues, scriptVars
    <3> QED  BY <3>1 DEF Flows
  <2>3. CASE ~(mode = "run" /\ Current.always) /\ err = "none"
    <3>1. NextStep(IF faulty THEN "failed" ELSE "ok", Json(told \cup {}))
      BY <1>3, <2>3 DEF EndScript, Leave
    <3>2. told \cup {} = told
      OBVIOUS
    <3>3. Finishes(IF faulty THEN "failed" ELSE "ok", Json(told))
      BY <2>1, <2>3, <3>1, <3>2 DEF Finishes, EndsWell
    <3> QED  BY <3>3 DEF Flows
  <2>4. CASE ~(mode = "run" /\ Current.always) /\ err # "none"
    <3>1. NextStep("failed", IF err \in Current.keeps THEN Json(told) ELSE NoJson)
      BY <1>3, <2>4 DEF EndScript
    <3>2. Finishes("failed", IF err \in Current.keeps THEN Json(told) ELSE NoJson)
      BY <2>1, <3>1 DEF Finishes
    <3> QED  BY <3>2 DEF Flows
  <2> QED  BY <2>2, <2>3, <2>4
<1>4. CASE Operation
  BY <1>4, FlowCalls, FlowReads, FlowRest DEF Operation
<1>5. CASE RestartStopped \/ Cloud \/ UNCHANGED vars
  BY <1>5 DEF RestartStopped, Cloud, InstanceMoves, InstanceReboots, vars, stepVars, scriptVars, Outside, Flows
<1> QED  BY <1>1, <1>2, <1>3, <1>4, <1>5 DEF Next, Executor, Ended

------------------------------------------------------------------------------
(* Types.                                                                  *)

Account ==
  /\ cloud \in [Resources -> States] /\ owner \in [Resources -> Owners]
  /\ rebooting \in BOOLEAN /\ booted \in BOOLEAN /\ died \in BOOLEAN

LEMMA EffectType ==
  ASSUME Account, Effect
  PROVE  Account'
<1>1. ASSUME NEW r, NEW state \in States, SetCloud(r, state) PROVE Account'
  BY <1>1 DEF SetCloud, Account
<1>2. ASSUME NEW r, Create(r) PROVE Account'
  <2>1. New(r) \in States /\ "run" \in Owners
    BY DEF New, States, Owners
  <2> QED  BY <1>2, <2>1 DEF Create, Account
<1>3. UNCHANGED cloudVars => Account'
  BY DEF cloudVars, Account
<1>4. {"present", "absent", "unattached", "shutting-down", "pending", "stopping", "inactive"} \subseteq States
  BY DEF States
<1>5. AdoptKey \/ AdoptGroup \/ TakeOverKey \/ TakeOverGroup => Account'
  BY <1>2, <1>3 DEF AdoptKey, AdoptGroup, TakeOverKey, TakeOverGroup
<1> QED  BY <1>1, <1>2, <1>3, <1>4, <1>5 DEF Effect

LEMMA AccountStep == Account /\ [Next]_vars => Account'
<1> SUFFICES ASSUME Account, [Next]_vars PROVE Account'
  OBVIOUS
<1>1. CASE UNCHANGED cloudVars
  BY <1>1 DEF cloudVars, Account
<1>2. CASE CallDone \/ CallLost
  BY <1>2, EffectType DEF CallDone, CallLost
<1>3. CASE CallReboot \/ InstanceReboots
  BY <1>3 DEF CallReboot, InstanceReboots, Account, suiteVars, stepVars, scriptVars
<1>4. CASE RestartStopped
  BY <1>4 DEF RestartStopped, SetCloud, Account, States
<1>5. CASE InstanceMoves
  <2>1. \A state \in States : Becomes(state) => cloud' \in [Resources -> States] /\ UNCHANGED <<owner, rebooting>>
    BY DEF Becomes, Account
  <2>2. {"running", "terminated", "stopped", "absent"} \subseteq States
    BY DEF States
  <2>3. cloud' \in [Resources -> States] /\ UNCHANGED <<owner, rebooting>> /\ booted' \in BOOLEAN
    BY <1>5, <2>1, <2>2 DEF InstanceMoves, Account
  <2>4. died' \in BOOLEAN
    BY <1>5 DEF InstanceMoves, Account
  <2> QED  BY <2>3, <2>4 DEF Account
<1> QED
  BY <1>1, <1>2, <1>3, <1>4, <1>5
  DEF Next, Executor, Operation, Cloud, Ended, vars, SkipStep, StepWithoutInputs, StartScript, KillStep, EndScript, PassOver,
      CallRefused, CallUnanswered, ExploreNetwork, DescribeNothing, NeedState, DoneInState, LearnFromInstance,
      AwaitState, AwaitTimesOut, LoginDone, LoginFails, CompareBoots, CheckGone, KeyAccepted, KeyRejected, TellResult, EndEarly

\* Nothing but what is deleted or waited for is reported or missed.
LEMMA NotedStep ==
  ASSUME TypeOK, [Next]_vars
  PROVE  /\ warned' \subseteq Resources /\ missed' \subseteq Resources
         /\ warned \subseteq warned' /\ missed \subseteq missed' /\ UNCHANGED suiteVars
<1>1. warned \subseteq Resources /\ missed \subseteq Resources /\ "instance" \in Resources
  BY SuitesAssumption DEF TypeOK
<1>2. ASSUME AtSome PROVE (Now.fails = "warn" => Now.res \in Resources) /\ (Now.do \in Ending => Now.res \in Resources)
  BY <1>2, ScriptFacts DEF WellMade, Ending
<1>3. CASE CallRefused
  <2>1. AtSome
    BY <1>3 DEF CallRefused, Calling, AtOp, AtSome
  <2> QED  BY <1>1, <1>2, <1>3, <2>1 DEF CallRefused, Refused, Unreported, suiteVars
<1>4. CASE CallUnanswered \/ CallLost
  <2>1. AtSome
    BY <1>4 DEF CallUnanswered, CallLost, Calling, AtOp, AtSome
  <2> QED  BY <1>1, <1>2, <1>4, <2>1 DEF CallUnanswered, CallLost, Unanswered, Unreported, suiteVars
<1>5. CASE AwaitTimesOut
  BY <1>1, <1>5 DEF AwaitTimesOut, suiteVars
<1>6. CASE UNCHANGED <<noted, suiteVars>>
  BY <1>1, <1>6 DEF noted
<1> QED
  BY <1>3, <1>4, <1>5, <1>6
  DEF Next, Executor, Operation, Cloud, Ended, vars, SkipStep, StepWithoutInputs, StartScript, KillStep, EndScript, PassOver,
      CallDone, ExploreNetwork, DescribeNothing, NeedState, DoneInState, LearnFromInstance, CallReboot, RestartStopped,
      AwaitState, LoginDone, LoginFails, CompareBoots, CheckGone, KeyAccepted, KeyRejected, TellResult, EndEarly,
      InstanceMoves, InstanceReboots

LEMMA TypeInit == Init => TypeOK /\ Resting
<1> SUFFICES ASSUME Init PROVE TypeOK /\ Resting
  OBVIOUS
<1>1. cloud \in [Resources -> States] /\ owner \in [Resources -> Owners]
  BY SuitesAssumption DEF Init
<1>2. Len(suite.steps) \in Nat
  BY SuitesAssumption DEF Init
<1>3. status \in [Steps -> {"open", "ok", "failed", "killed", "norender", "skipped"}] /\ DOMAIN outs = Steps
  BY DEF Init, Steps
<1>4. ~Busy /\ at \in 1..Len(suite.steps) + 1
  BY <1>2 DEF Init, Busy
<1> QED  BY <1>1, <1>3, <1>4 DEF Init, TypeOK, Resting

LEMMA TypeStep == TypeOK /\ Resting /\ [Next]_vars => TypeOK' /\ Resting'
<1> SUFFICES ASSUME TypeOK, Resting, [Next]_vars PROVE TypeOK' /\ Resting'
  OBVIOUS
<1>1. Account'
  BY AccountStep DEF TypeOK, Account
<1>2. suite' \in Suites /\ skip' \in BOOLEAN /\ warned' \subseteq Resources /\ missed' \subseteq Resources /\ suite' = suite
  BY NotedStep DEF TypeOK, suiteVars
<1>3. Steps' = Steps /\ Len(suite.steps) \in Nat /\ Steps = 1..Len(suite.steps)
  BY <1>2, ScriptFacts DEF Steps
<1> SUFFICES /\ at' \in 1..Len(suite.steps) + 1 /\ mode' \in {"idle", "run", "rescue"}
             /\ Busy' => at' \in Steps /\ op' \in 1..Len(Ops') + 1
             /\ learnt' \subseteq Resources /\ err' \in {"none", "client", "other"} /\ faulty' \in BOOLEAN
             /\ status' \in [Steps -> {"open", "ok", "failed", "killed", "norender", "skipped"}]
             /\ DOMAIN outs' = Steps
             /\ Resting'
  BY <1>1, <1>2, <1>3 DEF TypeOK, Account
<1>4. at' = at /\ mode' = mode => Ops' = Ops
  BY <1>2 DEF Ops, Current
<1>5. CASE Outside
  BY <1>4, <1>5 DEF Outside, scriptVars, stepVars, TypeOK, Resting, Busy
<1>6. CASE Begins
  <2>1. op' = 1 /\ at' = at /\ at \in Steps /\ mode' = "run"
    BY <1>6 DEF Begins, Resting, stepVars
  <2>2. Ops' = suite.steps[at].script.ops
    BY <1>2, <2>1 DEF Ops, Current
  <2>3. Len(Ops') \in Nat
    BY <2>1, <2>2, ScriptFacts DEF Sound
  <2> QED  BY <1>6, <2>1, <2>3 DEF Begins, scriptVars, stepVars, TypeOK, Resting
<1>7. CASE Passes
  <2>1. op \in 1..Len(Ops) /\ Len(Ops) \in Nat /\ Busy
    BY <1>7, ScriptFacts DEF Passes, AtSome
  <2>2. Ops' = Ops /\ Busy' /\ op' \in 1..Len(Ops) + 1
    BY <1>4, <1>7, <2>1 DEF Passes, stepVars, Busy
  <2>3. learnt' \subseteq Resources
    <3>1. Now.do = "explore" => Now.states \subseteq Resources
      BY <1>7, ScriptFacts DEF Passes, WellMade
    <3>2. {"sg", "key"} \subseteq Resources
      BY SuitesAssumption
    <3> QED  BY <1>7, <3>1, <3>2 DEF Passes, TypeOK
  <2> QED  BY <1>7, <2>1, <2>2, <2>3 DEF Passes, stepVars, TypeOK, Resting, Busy
<1>8. CASE Rescues
  <2>1. op' = 1 /\ at' = at /\ at \in Steps /\ mode' = "rescue"
    BY <1>8 DEF Rescues, stepVars, TypeOK, Busy
  <2>2. Ops' = suite.steps[at].script.rescue
    BY <1>2, <2>1 DEF Ops, Current
  <2>3. Len(Ops') \in Nat
    BY <2>1, <2>2, ScriptFacts DEF Sound
  <2> QED  BY <1>8, <2>1, <2>3 DEF Rescues, stepVars, TypeOK, Resting, Kinds
<1>9. CASE \E how, json : Finishes(how, json)
  <2>1. PICK how, json : Finishes(how, json)
    BY <1>9
  <2>2. at \in Steps /\ at' = at + 1 /\ mode' = "idle" /\ op' = 1 /\ told' = {} /\ learnt' = {} /\ err' = "none" /\ faulty' = FALSE
    BY <2>1 DEF Finishes, NextStep
  <2>3. status' \in [Steps -> {"open", "ok", "failed", "killed", "norender", "skipped"}]
    BY <2>1 DEF Finishes, NextStep, TypeOK
  <2>4. DOMAIN outs' = Steps
    BY <2>1 DEF Finishes, NextStep, TypeOK
  <2>5. at' \in 1..Len(suite.steps) + 1
    BY <1>3, <2>2
  <2>6. ~Busy' /\ Resting'
    BY <2>2 DEF Resting, Busy
  <2>7. learnt' \subseteq Resources /\ err' \in {"none", "client", "other"} /\ faulty' \in BOOLEAN /\ mode' \in {"idle", "run", "rescue"}
    BY <2>2
  <2> QED  BY <2>3, <2>4, <2>5, <2>6, <2>7
<1> QED  BY <1>5, <1>6, <1>7, <1>8, <1>9, Flow DEF Flows

------------------------------------------------------------------------------
(* What a step that ends well has told.                                    *)

\* What lies behind has been told.
ToldBehind ==
  /\ mode = "run" => \A token : ToldBefore(Current, op, token) => token \in told \/ Forgotten(Current, op, token)
  /\ mode = "rescue" /\ err = "none" =>
       \A token : ToldBefore(Current, Len(Current.ops) + 1, token) =>
         token \in told \/ Forgotten(Current, Len(Current.ops) + 1, token)
\* A script that has ended well has printed what it promises.
PromisesKept ==
  \A i \in Steps : status[i] = "ok" =>
    \A token : Promised(suite.steps[i].script, token) =>
      outs[i].printed /\ token \in outs[i].told \cup suite.steps[i].script.fields
Ahead == \A i \in Steps : i >= at => status[i] = "open"
InputsInv == ToldBehind /\ PromisesKept /\ Ahead /\ InputsFromSuccess

\* A script is passed on by its operation alone.
LEMMA Passing ==
  ASSUME TypeOK, [Next]_vars, Passes
  PROVE  Operation /\ (\A how, json : ~NextStep(how, json)) /\ (\A kind : ~Raise(kind))
<1>1. Busy /\ op \in 1..Len(Ops) /\ Len(Ops) \in Nat /\ op' = op + 1 /\ mode' = mode /\ mode \in {"run", "rescue"}
  BY ScriptFacts DEF Passes, AtSome, Busy
<1>2. ~Outside /\ (\A how, json : ~NextStep(how, json)) /\ (\A kind : ~Raise(kind))
  BY <1>1 DEF Outside, NextStep, Raise
<1>3. Operation
  BY <1>1, <1>2 DEF Next, Ended, Executor, SkipStep, StepWithoutInputs, StartScript, KillStep, EndScript, RestartStopped, Cloud,
                    InstanceMoves, InstanceReboots, Outside, vars, scriptVars, stepVars, Busy
<1> QED  BY <1>2, <1>3

\* No failure of a call that raises gets the script past it.
LEMMA PassCall ==
  ASSUME TypeOK, [Next]_vars, Passes, Now.do \in {"make", "adopt", "adopt_any", "disable"}, Now.fails = "raise", Now.res # "profile"
  PROVE  CallDone
<1>1. Operation /\ (\A how, json : ~NextStep(how, json)) /\ (\A kind : ~Raise(kind))
  BY Passing
<1>2. ~PassOver
  BY DEF PassOver, NoCall, AtOp
<1>3. ~CallRefused /\ ~CallUnanswered /\ ~CallLost
  BY <1>1 DEF Refused, Unanswered, CallRefused, CallUnanswered, CallLost
<1>4. ~(\/ CallReboot \/ ExploreNetwork \/ DescribeNothing \/ NeedState \/ DoneInState \/ LearnFromInstance
        \/ AwaitState \/ AwaitTimesOut \/ LoginDone \/ LoginFails \/ CompareBoots \/ CheckGone
        \/ KeyAccepted \/ KeyRejected \/ TellResult \/ EndEarly)
  BY DEF CallReboot, ExploreNetwork, DescribeNothing, NeedState, DoneInState, LearnFromInstance, Described, AwaitState,
         AwaitTimesOut, Waiting, Waits, LoginDone, LoginFails, CompareBoots, CheckGone, KeyAccepted, KeyRejected, TellResult,
         EndEarly, AtOp
<1> QED  BY <1>1, <1>2, <1>3, <1>4 DEF Operation

LEMMA PassTells ==
  ASSUME TypeOK, [Next]_vars, Passes, NEW token, Tells(Now, token)
  PROVE  token \in told'
<1>1. CASE Now.do # "tell"
  <2>1. CallDone
    BY <1>1, PassCall DEF Tells
  <2> QED  BY <2>1 DEF CallDone, Advance, Tells
<1>2. CASE Now.do = "tell"
  <2>1. ~(\/ PassOver \/ CallDone \/ CallLost \/ CallRefused \/ CallUnanswered)
    BY <1>2 DEF PassOver, NoCall, CallDone, CallLost, CallRefused, CallUnanswered, Calling, Changes, Reads, AtOp
  <2>2. ~(\/ CallReboot \/ ExploreNetwork \/ DescribeNothing \/ NeedState \/ DoneInState \/ LearnFromInstance
          \/ AwaitState \/ AwaitTimesOut \/ LoginDone \/ LoginFails \/ CompareBoots \/ CheckGone
          \/ KeyAccepted \/ KeyRejected \/ EndEarly)
    BY <1>2 DEF CallReboot, ExploreNetwork, DescribeNothing, NeedState, DoneInState, LearnFromInstance, Described, AwaitState,
           AwaitTimesOut, Waiting, Waits, LoginDone, LoginFails, CompareBoots, CheckGone, KeyAccepted, KeyRejected, EndEarly, AtOp
  <2>3. TellResult
    BY <2>1, <2>2, Passing DEF Operation
  <2> QED  BY <1>2, <2>3 DEF TellResult, AtOp, Advance, Tells
<1> QED  BY <1>1, <1>2

\* Where the script stands stays the script of the step.
LEMMA SameScript ==
  ASSUME TypeOK, [Next]_vars
  PROVE  /\ suite' = suite /\ skip' = skip /\ Steps' = Steps
         /\ at' = at => Current' = Current
         /\ at' = at /\ mode' = mode => Ops' = Ops
BY NotedStep DEF suiteVars, Current, Ops, Steps

LEMMA ToldBehindStep ==
  ASSUME TypeOK, Resting, ToldBehind, [Next]_vars
  PROVE  ToldBehind'
<1>1. at' = at => Current' = Current
  BY SameScript
<1>2. CASE Outside
  BY <1>1, <1>2 DEF Outside, scriptVars, stepVars, ToldBehind
<1>3. CASE Begins
  <2>1. op' = 1 /\ mode' = "run"
    BY <1>3 DEF Begins, Resting
  <2>2. \A token : ~ToldBefore(Current', 1, token)
    BY DEF ToldBefore
  <2> QED  BY <2>1, <2>2 DEF ToldBehind
<1>4. CASE Passes
  <2>1. op \in 1..Len(Ops) /\ Len(Ops) \in Nat /\ Busy /\ op' = op + 1 /\ mode' = mode /\ err' = err /\ Current' = Current
        /\ Now \in OpsOf(Current)
    BY <1>1, <1>4, ScriptFacts DEF Passes, AtSome, stepVars
  <2>2. \A token : token \in told => token \in told' \/ (Now.do = "forget" /\ token \in Now.tells)
    BY <1>4 DEF Passes
  <2>3. CASE mode = "run"
    <3> SUFFICES ASSUME NEW token, ToldBefore(Current, op + 1, token)
                 PROVE  token \in told' \/ Forgotten(Current, op + 1, token)
      BY <2>1, <2>3 DEF ToldBehind
    <3>1. PICK j \in 1..op : Tells(Current.ops[j], token)
      BY <2>1 DEF ToldBefore
    <3>2. CASE j = op
      <4>1. Tells(Now, token)
        BY <2>3, <3>1, <3>2 DEF Now, Ops
      <4> QED  BY <1>4, <4>1, PassTells
    <3>3. CASE j # op
      <4>1. j \in 1..(op - 1)
        BY <2>1, <3>3
      <4>2. ToldBefore(Current, op, token)
        BY <3>1, <4>1 DEF ToldBefore
      <4>3. token \in told \/ Forgotten(Current, op, token)
        BY <2>3, <4>2 DEF ToldBehind
      <4>4. 1..(op - 1) \subseteq 1..op /\ op \in 1..op /\ Now = Current.ops[op]
        BY <2>1, <2>3 DEF Now, Ops
      <4> QED  BY <2>1, <2>2, <4>3, <4>4 DEF Forgotten
    <3> QED  BY <3>2, <3>3
  <2>4. CASE mode = "rescue"
    <3>1. op \in DOMAIN Current.rescue /\ Now = Current.rescue[op]
      BY <1>4, <2>1, <2>4, ScriptFacts DEF Now, Ops
    <3>2. ASSUME NEW k, NEW token, token \in told PROVE token \in told' \/ Forgotten(Current, k, token)
      BY <2>2, <3>1, <3>2 DEF Forgotten
    <3> QED  BY <2>1, <2>4, <3>2 DEF ToldBehind
  <2> QED  BY <2>1, <2>3, <2>4 DEF Busy
<1>5. CASE Rescues
  <2>1. mode = "run" /\ mode' = "rescue" /\ told' = told /\ Current' = Current
    BY <1>1, <1>5 DEF Rescues, stepVars
  <2>2. CASE err' \in Kinds
    BY <2>1, <2>2 DEF Kinds, ToldBehind
  <2>3. CASE op > Len(Ops)
    <3>1. Len(Ops) \in Nat /\ op = Len(Current.ops) + 1
      BY <2>1, <2>3, ScriptFacts DEF Busy, Ops
    <3> QED  BY <2>1, <3>1 DEF ToldBehind
  <2> QED  BY <1>5, <2>2, <2>3 DEF Rescues
<1>6. CASE \E how, json : Finishes(how, json)
  BY <1>6 DEF Finishes, NextStep, ToldBehind
<1> QED  BY <1>2, <1>3, <1>4, <1>5, <1>6, Flow DEF Flows

\* A good end prints what was promised.
LEMMA EndsPromised ==
  ASSUME TypeOK, ToldBehind, NEW json, EndsWell(json), NEW token, Promised(Current, token)
  PROVE  json.printed /\ token \in json.told \cup Current.fields
<1>1. Busy /\ Len(Ops) \in Nat /\ op \in 1..(Len(Ops) + 1) /\ Sound(Current)
  BY ScriptFacts DEF EndsWell
<1>2. \A o \in OpsOf(Current) : o.do # "end_silently"
  BY DEF Promised
<1>3. \A tells : Json(tells).printed /\ Json(tells).told = tells
  BY DEF Json
<1>4. ~AtOp({"end_silently"})
  BY <1>2, ScriptFacts DEF AtOp, AtSome
<1>5. json.printed /\ told \subseteq json.told
  BY <1>3, <1>4 DEF EndsWell
<1>6. CASE token \in Current.fields
  BY <1>5, <1>6
<1>7. CASE /\ \A k \in 1..(Len(Current.ops) + 1) : ~Forgotten(Current, k, token)
           /\ ToldBefore(Current, Len(Current.ops) + 1, token)
           /\ \A k \in DOMAIN Current.ops : Current.ops[k].do \in Exits => ToldBefore(Current, k, token)
  <2>1. CASE op > Len(Ops) /\ mode = "run"
    <3>1. op = Len(Current.ops) + 1
      BY <1>1, <2>1 DEF Ops
    <3>2. op \in 1..(Len(Current.ops) + 1)
      BY <1>1, <3>1
    <3> QED  BY <1>5, <1>7, <2>1, <3>1, <3>2 DEF ToldBehind
  <2>2. CASE op > Len(Ops) /\ mode = "rescue" /\ err = "none"
    <3>1. Len(Current.ops) + 1 \in 1..(Len(Current.ops) + 1)
      BY <1>1 DEF Sound
    <3> QED  BY <1>5, <1>7, <2>2, <3>1 DEF ToldBehind
  <2>3. CASE AtOp({"done_if", "find", "may_end", "keep"})
    <3>1. op \in DOMAIN Ops /\ Now = Ops[op] /\ Now.do \in Exits
      BY <1>1, <2>3, ScriptFacts DEF AtOp, Now, Exits
    <3>2. mode = "run"
      BY <1>1, <3>1 DEF Sound, Ops, Busy
    <3>3. ToldBefore(Current, op, token)
      BY <1>7, <3>1, <3>2 DEF Ops
    <3>4. op \in 1..(Len(Current.ops) + 1)
      BY <1>1, <3>2 DEF Ops
    <3> QED  BY <1>5, <1>7, <3>2, <3>3, <3>4 DEF ToldBehind
  <2>4. \/ op > Len(Ops) /\ err = "none"
        \/ AtOp({"done_if", "find", "may_end", "keep"})
    BY <1>4 DEF EndsWell, AtOp
  <2> QED  BY <1>1, <2>1, <2>2, <2>3, <2>4 DEF Busy
<1>8. ASSUME NEW k \in 1..(Len(Current.ops) + 1), Forgotten(Current, k, token)
      PROVE  \E o \in OpsOf(Current) : o.do = "forget" /\ token \in o.tells
  <2>1. Len(Current.ops) \in Nat /\ DOMAIN Current.ops = 1..Len(Current.ops)
    BY <1>1 DEF Sound
  <2>2. 1..(k - 1) \subseteq DOMAIN Current.ops
    BY <2>1
  <2> QED  BY <1>8, <2>2 DEF Forgotten, OpsOf
<1>9. CASE /\ \A o \in OpsOf(Current) : o.do = "forget" => token \notin o.tells
           /\ ToldBefore(Current, Len(Current.ops) + 1, token)
           /\ \A k \in DOMAIN Current.ops : Current.ops[k].do \in Exits => ToldBefore(Current, k, token)
  <2>1. \A k \in 1..(Len(Current.ops) + 1) : ~Forgotten(Current, k, token)
    BY <1>8, <1>9
  <2> QED  BY <1>7, <1>9, <2>1
<1> QED  BY <1>6, <1>9 DEF Promised

LEMMA InputsStep ==
  ASSUME TypeOK, Resting, InputsInv, [Next]_vars
  PROVE  InputsInv'
<1>1. suite' = suite /\ Steps' = Steps /\ ToldBehind' /\ Len(suite.steps) \in Nat /\ Steps = 1..Len(suite.steps)
  BY SameScript, ToldBehindStep, ScriptFacts DEF InputsInv
<1>2. CASE UNCHANGED stepVars
  BY <1>1, <1>2 DEF stepVars, InputsInv, PromisesKept, Ahead, InputsFromSuccess
<1>3. CASE \E how, json : Finishes(how, json)
  <2>1. PICK how, json : Finishes(how, json)
    BY <1>3
  <2>2. /\ at \in Steps /\ at' = at + 1 /\ status \in [Steps -> {"open", "ok", "failed", "killed", "norender", "skipped"}]
        /\ status' = [status EXCEPT ![at] = how] /\ outs' = [outs EXCEPT ![at] = json] /\ DOMAIN outs = Steps
    BY <2>1 DEF Finishes, NextStep, TypeOK
  <2>3. Ahead'
    BY <1>1, <2>2 DEF InputsInv, Ahead
  <2>4. PromisesKept'
    <3> SUFFICES ASSUME NEW i \in Steps, status'[i] = "ok", NEW token, Promised(suite.steps[i].script, token)
                 PROVE  outs'[i].printed /\ token \in outs'[i].told \cup suite.steps[i].script.fields
      BY <1>1 DEF PromisesKept
    <3>1. CASE i = at
      <4>1. how = "ok" /\ outs'[i] = json /\ Current = suite.steps[i].script
        BY <2>2, <3>1 DEF Current
      <4>2. EndsWell(json)
        BY <2>1, <4>1 DEF Finishes
      <4> QED  BY <4>1, <4>2, EndsPromised DEF InputsInv
    <3>2. CASE i # at
      BY <2>2, <3>2 DEF InputsInv, PromisesKept
    <3> QED  BY <3>1, <3>2
  <2>5. InputsFromSuccess'
    <3> SUFFICES ASSUME NEW i \in Steps, status'[i] = "norender", suite.name \notin Incomplete
                 PROVE  \E j \in Steps : j < i /\ status'[j] # "ok"
      BY <1>1 DEF InputsFromSuccess
    <3>1. CASE i # at
      <4>1. status[i] = "norender"
        BY <2>2, <3>1
      <4>2. i < at
        BY <1>1, <2>2, <3>1, <4>1 DEF InputsInv, Ahead
      <4>3. PICK j \in Steps : j < i /\ status[j] # "ok"
        BY <4>1 DEF InputsInv, InputsFromSuccess
      <4>4. status'[j] = status[j]
        BY <1>1, <2>2, <4>2, <4>3
      <4> QED  BY <4>3, <4>4
    <3>2. CASE i = at
      <4>1. ~Renders(at)
        BY <2>1, <2>2, <3>2 DEF Finishes
      <4>2. PICK ref \in suite.steps[at].refs :
              ~(outs[ref[1]].printed /\ ref[2] \in outs[ref[1]].told \cup suite.steps[ref[1]].script.fields)
        BY <4>1 DEF Renders
      <4>3. Promised(suite.steps[ref[1]].script, ref[2]) /\ ref[1] \in 1..(at - 1)
        BY <2>2, <4>2, InputsAssumption, SuitesAssumption DEF TypeOK, Steps
      <4>4. ref[1] \in Steps /\ ref[1] < at /\ status[ref[1]] # "ok"
        <5>1. ref[1] \in Steps /\ ref[1] < at
          BY <1>1, <2>2, <4>3
        <5> QED  BY <4>2, <4>3, <5>1 DEF InputsInv, PromisesKept
      <4>5. status'[ref[1]] = status[ref[1]]
        BY <1>1, <2>2, <4>4
      <4> QED  BY <3>2, <4>4, <4>5
    <3> QED  BY <3>1, <3>2
  <2> QED  BY <1>1, <2>3, <2>4, <2>5 DEF InputsInv
<1> QED  BY <1>2, <1>3, Flow DEF Flows, Outside, Begins, Passes, Rescues, stepVars

------------------------------------------------------------------------------
(* What belongs to somebody else.                                          *)

\* It is there and at rest, the suite keeps away from it, nobody has named it,
\* and the script that runs is not past an adoption of it.
Kept ==
  \A r \in Resources : owner[r] = "foreign" =>
    /\ cloud[r] # "absent" /\ (r = "instance" => cloud[r] \in {"running", "stopped"})
    /\ Aloof(suite, r)
    /\ r \in {"sg", "key"} => cloud["instance"] = "absent" \/ ~Learns(suite)
    /\ r \notin told \cup learnt /\ \A i \in Steps : r \notin outs[i].told
    /\ mode = "run" => \A j \in 1..(op - 1) : ~Adopts(Ops[j], r)

\* A call changes the resource it is about.
LEMMA EffectOnly ==
  ASSUME TypeOK, AtSome, Effect, NEW r \in Resources
  PROVE  /\ r # Now.res => cloud'[r] = cloud[r] /\ owner'[r] = owner[r]
         /\ owner'[r] = owner[r] \/ owner'[r] = "run"
<1>1. WellMade(Now) /\ cloud \in [Resources -> States] /\ owner \in [Resources -> Owners]
  BY ScriptFacts DEF TypeOK
<1>2. CASE \E state : SetCloud(Now.res, state)
  <2>1. PICK state : SetCloud(Now.res, state)
    BY <1>2
  <2> QED  BY <1>1, <2>1 DEF SetCloud
<1>3. CASE Create(Now.res)
  BY <1>1, <1>3 DEF Create
<1>4. CASE UNCHANGED cloudVars
  BY <1>4 DEF cloudVars
<1>5. UNCHANGED cloudVars \/ Create(Now.res) \/ \E state : SetCloud(Now.res, state)
  <2>1. CASE Now.do = "adopt" \/ Now.do = "adopt_any"
    BY <1>1, <2>1 DEF Effect, WellMade, AdoptKey, AdoptGroup, TakeOverKey, TakeOverGroup
  <2>2. CASE Now.do # "adopt" /\ Now.do # "adopt_any"
    BY <2>2 DEF Effect
  <2> QED  BY <2>1, <2>2
<1> QED  BY <1>2, <1>3, <1>4, <1>5

\* Everything else that happens to the account.
LEMMA CloudStep ==
  ASSUME TypeOK, [Next]_vars
  PROVE  \/ UNCHANGED <<cloud, owner>>
         \/ AtSome /\ Calling /\ Effect /\ (CallDone \/ CallLost)
         \/ AtSome /\ Now.do = "await_starting" /\ InstanceState = "stopped" /\ SetCloud("instance", "pending")
         \/ \E state : /\ Becomes(state) /\ InstanceState \in {"pending", "stopping", "shutting-down", "terminated"}
                       /\ InstanceState \in {"shutting-down", "terminated"} => state \in {"terminated", "absent"}
                       /\ state \in {"running", "stopped", "terminated", "absent"}
                       /\ InstanceState \in {"pending", "stopping"} /\ state \in {"terminated", "absent"} => died'
<1>1. CASE CallDone \/ CallLost
  BY <1>1 DEF CallDone, CallLost, Calling, AtOp, AtSome
<1>2. CASE RestartStopped
  BY <1>2 DEF RestartStopped, AtOp, AtSome
<1>3. CASE InstanceMoves
  <2>1. cloud \in [Resources -> States] /\ "instance" \in Resources
    BY SuitesAssumption DEF TypeOK
  <2>2. \A state : Becomes(state) => cloud'["instance"] = state
    BY <2>1 DEF Becomes
  <2> QED  BY <1>3, <2>2 DEF InstanceMoves, InstanceState
<1> QED
  BY <1>1, <1>2, <1>3
  DEF Next, Executor, Operation, Cloud, Ended, vars, cloudVars, SkipStep, StepWithoutInputs, StartScript, KillStep, EndScript,
      PassOver, CallRefused, CallUnanswered, ExploreNetwork, DescribeNothing, NeedState, DoneInState,
      LearnFromInstance, CallReboot, AwaitState, AwaitTimesOut, LoginDone, LoginFails, CompareBoots, CheckGone, KeyAccepted,
      KeyRejected, TellResult, EndEarly, InstanceReboots

LEMMA Shielded ==
  ASSUME TypeOK, Kept, AtSome, NEW r \in Resources, owner[r] = "foreign"
  PROVE  ~Knows(r) /\ (Disturbs(Now, r) => Adopts(Now, r))
<1>1. /\ at \in Steps /\ Current \in Scripts(suite) /\ Sound(Current) /\ op \in 1..Len(Ops) /\ DOMAIN Ops = 1..Len(Ops)
      /\ Len(Ops) \in Nat /\ Len(suite.steps) \in Nat /\ Steps = 1..Len(suite.steps) /\ suite \in Suites
  BY ScriptFacts DEF AtSome, TypeOK
<1>2. \A ref \in suite.steps[at].refs : ref[1] \in Steps
  <2>1. \A ref \in suite.steps[at].refs : ref[1] \in 1..(at - 1)
    BY <1>1, SuitesAssumption DEF Steps
  <2> QED  BY <1>1, <2>1
<1>3. ~Knows(r)
  BY <1>2 DEF Kept, Knows, Given
<1>4. ASSUME Disturbs(Now, r) PROVE Adopts(Now, r)
  <2>1. Aloof(suite, r)
    BY DEF Kept
  <2>2. CASE mode = "run"
    <3>1. PICK j \in 1..op : Adopts(Ops[j], r)
      BY <1>1, <1>4, <2>1, <2>2 DEF Aloof, Now, Ops
    <3>2. j \notin 1..(op - 1)
      BY <2>2, <3>1 DEF Kept
    <3>3. j = op
      BY <1>1, <3>2
    <3> QED  BY <3>1, <3>3 DEF Now
  <2>3. CASE mode = "rescue"
    BY <1>1, <1>4, <2>1, <2>3 DEF Aloof, Now, Ops
  <2> QED  BY <2>2, <2>3 DEF AtSome, Busy
<1> QED  BY <1>3, <1>4

LEMMA Untouched ==
  ASSUME TypeOK, Kept, [Next]_vars, NEW r \in Resources, owner[r] = "foreign"
  PROVE  cloud'[r] = cloud[r] /\ owner'[r] = "foreign"
<1>1. /\ cloud \in [Resources -> States] /\ owner \in [Resources -> Owners]
      /\ cloud[r] # "absent" /\ (r = "instance" => cloud[r] \in {"running", "stopped"})
  BY DEF TypeOK, Kept
<1>2. CASE UNCHANGED <<cloud, owner>>
  BY <1>2
<1>3. CASE AtSome /\ Calling /\ Effect
  <2>1. CASE r # Now.res
    BY <1>3, <2>1, EffectOnly
  <2>2. CASE r = Now.res
    <3>1. ~Knows(r) /\ (Disturbs(Now, r) => Now.do = "adopt") /\ WellMade(Now)
      BY <1>3, Shielded, ScriptFacts DEF Adopts
    <3>2. Now.do \notin {"make", "adopt_any", "start_if", "start", "stop", "disable"}
      BY <2>2, <3>1 DEF Disturbs
    <3>3. ~NoCall
      BY <1>3 DEF Calling
    <3>4. Now.do \notin {"drop", "terminate", "fill", "empty", "sweep"}
      BY <1>3, <2>2, <3>1, <3>3 DEF NoCall, AtOp, AtSome
    <3>5. CASE Now.do = "adopt"
      BY <1>1, <1>3, <2>2, <3>1, <3>5 DEF Effect, AdoptKey, AdoptGroup, WellMade
    <3>6. CASE Now.do = "touch"
      BY <1>3, <3>6 DEF Effect, cloudVars
    <3> QED  BY <1>3, <3>2, <3>4, <3>5, <3>6 DEF Effect
  <2> QED  BY <2>1, <2>2
<1>4. CASE AtSome /\ Now.do = "await_starting" /\ SetCloud("instance", "pending")
  <2>1. Now.res = "instance" /\ ~Adopts(Now, r)
    BY <1>4, ScriptFacts DEF WellMade, Adopts
  <2>2. r # "instance"
    BY <1>4, <2>1, Shielded DEF Disturbs
  <2> QED  BY <1>1, <1>4, <2>2 DEF SetCloud
<1>5. CASE \E state : Becomes(state) /\ InstanceState \in {"pending", "stopping", "shutting-down", "terminated"}
  <2>1. r # "instance"
    BY <1>1, <1>5 DEF InstanceState
  <2> QED  BY <1>1, <1>5, <2>1 DEF Becomes
<1> QED  BY <1>2, <1>3, <1>4, <1>5, CloudStep

\* An instance comes to be only where one is made.
LEMMA StaysAbsent ==
  ASSUME TypeOK, [Next]_vars, cloud["instance"] = "absent", cloud'["instance"] # "absent"
  PROVE  AtSome /\ Now.do = "make" /\ Now.res = "instance"
<1>1. "instance" \in Resources /\ cloud \in [Resources -> States]
  BY SuitesAssumption DEF TypeOK
<1>2. AtSome /\ Calling /\ Effect
  BY CloudStep DEF InstanceState
<1>3. Now.res = "instance" /\ WellMade(Now) /\ IsGone("instance")
  BY <1>1, <1>2, EffectOnly, ScriptFacts DEF IsGone
<1>4. Now.do \notin {"adopt", "adopt_any", "fill", "empty", "disable"}
  BY <1>3 DEF WellMade
<1>5. Now.do # "sweep"
  BY <1>2, <1>3 DEF Calling, NoCall, AtOp, AtSome
<1>6. Now.do # "drop"
  BY <1>1, <1>2, <1>3 DEF Effect, SetCloud
<1>7. Now.do \notin {"touch", "terminate", "start", "stop", "start_if"}
  BY <1>2, <1>3 DEF Effect, cloudVars, WellMade
<1> QED  BY <1>2, <1>3, <1>4, <1>5, <1>6, <1>7 DEF Effect

LEMMA KeptStep == TypeOK /\ Resting /\ Kept /\ [Next]_vars => Kept'
<1> SUFFICES ASSUME TypeOK, Resting, Kept, [Next]_vars, NEW r \in Resources, owner'[r] = "foreign"
             PROVE  /\ cloud'[r] # "absent" /\ (r = "instance" => cloud'[r] \in {"running", "stopped"})
                    /\ Aloof(suite', r)
                    /\ r \in {"sg", "key"} => cloud'["instance"] = "absent" \/ ~Learns(suite')
                    /\ r \notin told' \cup learnt' /\ \A i \in Steps' : r \notin outs'[i].told
                    /\ mode' = "run" => \A j \in 1..(op' - 1) : ~Adopts(Ops'[j], r)
  BY DEF Kept
<1>1. /\ suite' = suite /\ Steps' = Steps /\ (at' = at /\ mode' = mode => Ops' = Ops)
  BY SameScript
<1>2. owner[r] = "foreign"
  <2>1. owner \in [Resources -> Owners]
    BY DEF TypeOK
  <2> QED  BY <2>1, CloudStep, EffectOnly DEF SetCloud, Becomes
<1>3. cloud'[r] = cloud[r]
  BY <1>2, Untouched
<1>4. /\ cloud[r] # "absent" /\ (r = "instance" => cloud[r] \in {"running", "stopped"}) /\ Aloof(suite, r)
      /\ r \in {"sg", "key"} => cloud["instance"] = "absent" \/ ~Learns(suite)
      /\ r \notin told \cup learnt /\ \A i \in Steps : r \notin outs[i].told
      /\ mode = "run" => \A j \in 1..(op - 1) : ~Adopts(Ops[j], r)
  BY <1>2 DEF Kept
<1>5. ASSUME AtSome, Disturbs(Now, r) PROVE Adopts(Now, r)
  BY <1>2, <1>5, Shielded
<1>6. r \in {"sg", "key"} => cloud'["instance"] = "absent" \/ ~Learns(suite)
  <2>1. ASSUME r \in {"sg", "key"}, cloud["instance"] = "absent" PROVE cloud'["instance"] = "absent"
    BY <1>5, <2>1, StaysAbsent DEF Disturbs, Adopts
  <2> QED  BY <1>4, <2>1
<1> SUFFICES /\ r \notin told' \cup learnt' /\ \A i \in Steps : r \notin outs'[i].told
             /\ mode' = "run" => \A j \in 1..(op' - 1) : ~Adopts(Ops'[j], r)
  BY <1>1, <1>3, <1>4, <1>6
<1>7. CASE Outside
  BY <1>1, <1>4, <1>7 DEF Outside, scriptVars, stepVars
<1>8. CASE Begins
  BY <1>4, <1>8 DEF Begins, Resting, scriptVars, stepVars
<1>9. CASE Passes
  <2>1. AtSome /\ op \in 1..Len(Ops) /\ Len(Ops) \in Nat /\ WellMade(Now) /\ Current \in Scripts(suite) /\ Now \in OpsOf(Current)
    BY <1>9, ScriptFacts DEF Passes, AtSome
  <2>2. ~Adopts(Now, r)
    <3> SUFFICES ASSUME Adopts(Now, r) PROVE FALSE
      OBVIOUS
    <3>1. CallDone
      BY <1>9, <2>1, PassCall DEF Adopts, WellMade
    <3>2. Now.res \in {"key", "sg"}
      BY <2>1 DEF Adopts, WellMade
    <3> QED  BY <1>2, <1>4, <3>1, <3>2 DEF CallDone, Effect, Adopts, AdoptKey, AdoptGroup
  <2>3. ~Names(Now, r)
    BY <1>5, <2>1, <2>2 DEF Disturbs
  <2>4. r \notin told'
    BY <1>4, <1>9, <2>3 DEF Passes, Names
  <2>5. r \notin learnt'
    <3>1. Now.do \in Learning => Learns(suite)
      BY <2>1 DEF Learns
    <3> QED  BY <1>4, <1>9, <2>3, <3>1 DEF Passes, Names
  <2>6. outs' = outs /\ op' = op + 1 /\ mode' = mode /\ Ops' = Ops
    BY <1>1, <1>9 DEF Passes, stepVars
  <2>7. ASSUME mode' = "run", NEW j \in 1..(op' - 1) PROVE ~Adopts(Ops'[j], r)
    <3>1. j = op \/ j \in 1..(op - 1)
      BY <2>1, <2>6
    <3> QED  BY <1>4, <2>2, <2>6, <2>7, <3>1 DEF Now
  <2> QED  BY <1>4, <2>4, <2>5, <2>6, <2>7
<1>10. CASE Rescues
  BY <1>4, <1>10 DEF Rescues, stepVars
<1>11. CASE \E how, json : Finishes(how, json)
  <2>1. PICK how, json : Finishes(how, json)
    BY <1>11
  <2>2. AtOp({"done_if", "keep"}) => r \notin Now.tells
    BY <1>5 DEF AtOp, AtSome, Disturbs, Names, Adopts
  <2>3. r \notin json.told
    BY <1>4, <2>1, <2>2 DEF Finishes, EndsWell, Json, NoJson, AtOp
  <2>4. \A i \in Steps : r \notin outs'[i].told
    BY <1>4, <2>1, <2>3 DEF Finishes, NextStep, TypeOK
  <2> QED  BY <2>1, <2>4 DEF Finishes, NextStep
<1> QED  BY <1>7, <1>8, <1>9, <1>10, <1>11, Flow DEF Flows

------------------------------------------------------------------------------
(* What a script claims.                                                   *)

ClaimTokens == {"stopped", "running", "rebooted", "inactive", "verified", "destroyed"}
\* Whatever has been told stands in an operation that lies behind.
Sourced ==
  Busy => \A t \in told :
    /\ Claims(Current, t)
    /\ mode = "run" => \E k \in 1..(op - 1) : t \in Current.ops[k].tells /\ Current.ops[k].do # "done_if"
\* A script without a cleanup does not enter one.
Straight == mode = "rescue" => ~Plain(Current)
\* What was seen of the instance and left alone is still so.
Seen ==
  mode = "run" =>
    \A state \in {"running", "stopped"} : \A j \in 1..(op - 1) :
      Shows(Current.ops[j], state) /\ StillFrom(Current, j, "instance") => cloud["instance"] = state
\* What is claimed of the reboot and of the key is so.
Borne ==
  /\ mode = "run" /\ "rebooted" \in told => booted
  /\ mode = "run" /\ "inactive" \in told => cloud["access_key"] = "inactive"
\* What a teardown has dealt with is gone, reported, or unknown to it; or its
\* deletion failed, where the script passes that over.
Overlooks(o) == o.fails \in {"pass", "shrug"}
Accounted(o) ==
  \/ faulty \/ ~Knows(o.res) \/ IsGone(o.res)
  \/ o.do # "gone" /\ (o.res \in warned \/ (o.res \in missed /\ Overlooks(o)))
Cleared ==
  mode = "run" /\ Clears(Current) =>
    \A m \in 1..(op - 1) : Current.ops[m].do \in Removals => Accounted(Current.ops[m])
ClaimsInv == Sourced /\ Straight /\ Seen /\ Borne /\ Cleared

\* Only a few operations tell anything when they are passed.
LEMMA PassQuiet ==
  ASSUME TypeOK, [Next]_vars, Passes, Now.do = "done_if"
  PROVE  told' = told
<1>1. Operation /\ (\A how, json : ~NextStep(how, json)) /\ (\A kind : ~Raise(kind))
  BY Passing
<1>2. ~(\/ PassOver \/ CallDone \/ CallLost \/ CallReboot \/ ExploreNetwork \/ NeedState \/ LearnFromInstance
        \/ AwaitState \/ AwaitTimesOut \/ LoginDone \/ LoginFails \/ CompareBoots \/ CheckGone
        \/ KeyAccepted \/ KeyRejected \/ TellResult \/ EndEarly)
  BY DEF PassOver, NoCall, CallDone, CallLost, Effect, CallReboot, ExploreNetwork, NeedState, LearnFromInstance,
         Described, AwaitState, AwaitTimesOut, Waiting, Waits, LoginDone, LoginFails, CompareBoots, CheckGone, KeyAccepted,
         KeyRejected, TellResult, EndEarly, AtOp
<1>3. Advance({}) \/ Faulty(TRUE) => told' = told
  BY DEF Advance, Faulty
<1>4. CASE CallRefused \/ CallUnanswered
  BY <1>1, <1>3, <1>4 DEF CallRefused, CallUnanswered, Refused, Unanswered
<1>5. CASE DescribeNothing \/ DoneInState
  BY <1>1, <1>3, <1>5 DEF DescribeNothing, DoneInState, Leave
<1> QED  BY <1>1, <1>2, <1>4, <1>5 DEF Operation

\* The step that passes an operation is one the operation is about.
LEMMA PassShown ==
  ASSUME TypeOK, [Next]_vars, Passes, NEW state, Shows(Now, state)
  PROVE  cloud["instance"] = state /\ cloud' = cloud
<1>1. Operation /\ (\A how, json : ~NextStep(how, json)) /\ (\A kind : ~Raise(kind))
  BY Passing
<1>2. ~(\/ PassOver \/ CallDone \/ CallLost \/ CallReboot \/ ExploreNetwork \/ DoneInState \/ LearnFromInstance
        \/ LoginDone \/ LoginFails \/ CompareBoots \/ CheckGone
        \/ KeyAccepted \/ KeyRejected \/ TellResult \/ EndEarly)
  BY DEF Shows, PassOver, NoCall, CallDone, CallLost, Effect, CallReboot, ExploreNetwork, DoneInState,
         LearnFromInstance, Described, LoginDone, LoginFails, CompareBoots, CheckGone, KeyAccepted, KeyRejected, TellResult,
         EndEarly, Calling, AtOp
<1>3. ~CallRefused /\ ~CallUnanswered /\ ~DescribeNothing /\ ~AwaitTimesOut
  BY <1>1 DEF Shows, CallRefused, CallUnanswered, Refused, Unanswered, DescribeNothing, AwaitTimesOut
<1>4. CASE NeedState \/ AwaitState
  BY <1>1, <1>4 DEF NeedState, AwaitState, Leave, Shows, InstanceState, cloudVars
<1> QED  BY <1>1, <1>2, <1>3, <1>4 DEF Operation

\* A verdict on a reboot is passed with success only after the boot.
LEMMA PassCompared ==
  ASSUME TypeOK, [Next]_vars, Passes, Now.do = "compare"
  PROVE  booted /\ booted' = booted
<1>1. Operation /\ (\A how, json : ~NextStep(how, json)) /\ (\A kind : ~Raise(kind))
  BY Passing
<1>2. ~(\/ PassOver \/ CallDone \/ CallLost \/ CallRefused \/ CallUnanswered \/ CallReboot \/ ExploreNetwork
        \/ DescribeNothing \/ NeedState \/ DoneInState \/ LearnFromInstance \/ AwaitState \/ AwaitTimesOut \/ LoginDone
        \/ LoginFails \/ CheckGone \/ KeyAccepted \/ KeyRejected \/ TellResult \/ EndEarly)
  BY DEF PassOver, NoCall, CallDone, CallLost, CallRefused, CallUnanswered, Calling, Changes, Reads, CallReboot,
         ExploreNetwork, DescribeNothing, NeedState, DoneInState, LearnFromInstance, Described, AwaitState, AwaitTimesOut,
         Waiting, Waits, LoginDone, LoginFails, CheckGone, KeyAccepted, KeyRejected, TellResult, EndEarly, AtOp
<1>3. CompareBoots
  BY <1>1, <1>2 DEF Operation
<1> QED  BY <1>1, <1>3 DEF CompareBoots, Leave, cloudVars

LEMMA BootedStays ==
  ASSUME TypeOK, [Next]_vars, booted, AtSome => Now.do # "reboot"
  PROVE  booted'
<1>1. CASE UNCHANGED booted
  BY <1>1
<1>2. CASE CallDone \/ CallLost
  BY <1>2 DEF CallDone, CallLost, Effect, SetCloud, Create, cloudVars, AdoptKey, AdoptGroup, TakeOverKey, TakeOverGroup
<1>3. ~CallReboot
  BY DEF CallReboot, AtOp, AtSome
<1>4. CASE RestartStopped \/ InstanceMoves \/ InstanceReboots
  BY <1>4 DEF RestartStopped, InstanceMoves, InstanceReboots, SetCloud
<1> QED
  BY <1>1, <1>2, <1>3, <1>4
  DEF Next, Executor, Operation, Cloud, Ended, vars, cloudVars, SkipStep, StepWithoutInputs, StartScript, KillStep, EndScript,
      PassOver, CallRefused, CallUnanswered, ExploreNetwork, DescribeNothing, NeedState, DoneInState,
      LearnFromInstance, AwaitState, AwaitTimesOut, LoginDone, LoginFails, CompareBoots, CheckGone, KeyAccepted,
      KeyRejected, TellResult, EndEarly

\* What an operation leaves alone stays, and so does an instance at rest.
LEMMA StillKept ==
  ASSUME TypeOK, [Next]_vars, NEW r \in Resources, AtSome => Still(Now, r),
         r = "instance" => cloud[r] \in {"running", "stopped"}
  PROVE  cloud'[r] = cloud[r]
<1>1. cloud \in [Resources -> States]
  BY DEF TypeOK
<1>2. CASE UNCHANGED <<cloud, owner>>
  BY <1>2
<1>3. CASE AtSome /\ Calling /\ Effect
  <2>1. CASE r # Now.res
    BY <1>3, <2>1, EffectOnly
  <2>2. CASE r = Now.res
    <3>1. Now.do \notin Changes \ {"touch", "reboot"}
      BY <1>3, <2>2 DEF Still
    <3>2. CASE Now.do = "touch"
      BY <1>3, <3>2 DEF Effect, cloudVars
    <3> QED  BY <1>3, <3>1, <3>2 DEF Effect, Changes
  <2> QED  BY <2>1, <2>2
<1>4. CASE AtSome /\ Now.do = "await_starting" /\ SetCloud("instance", "pending")
  <2>1. r # "instance"
    BY <1>4, ScriptFacts DEF WellMade, Still
  <2> QED  BY <1>1, <1>4, <2>1 DEF SetCloud
<1>5. CASE \E state : Becomes(state) /\ InstanceState \in {"pending", "stopping", "shutting-down", "terminated"}
  <2>1. r # "instance"
    BY <1>5 DEF InstanceState
  <2> QED  BY <1>1, <1>5, <2>1 DEF Becomes
<1> QED  BY <1>2, <1>3, <1>4, <1>5, CloudStep

\* An instance on its way out does not come back, what is deleted stays so.
LEMMA GoneStays ==
  ASSUME TypeOK, [Next]_vars, NEW r \in Resources, IsGone(r), AtSome => Now.do \in Clearing
  PROVE  IsGone(r)'
<1>1. cloud \in [Resources -> States] /\ "instance" \in Resources
  BY SuitesAssumption DEF TypeOK
<1>2. ASSUME AtSome, Calling, Effect
      PROVE  Now.do \in {"drop", "terminate", "empty", "touch"} /\ WellMade(Now) /\ (Now.do = "empty" => cloud[Now.res] = "present")
  <2>1. Now.do \in {"drop", "terminate", "empty", "touch"}
    BY <1>2 DEF Effect, Clearing, Removals, Learning
  <2> QED  BY <1>2, <2>1, ScriptFacts DEF Calling, NoCall, AtOp, AtSome
<1>3. cloud[r] = "absent" => cloud'[r] = "absent"
  <2> SUFFICES ASSUME cloud[r] = "absent" PROVE cloud'[r] = "absent"
    OBVIOUS
  <2>1. CASE AtSome /\ Calling /\ Effect
    <3>1. CASE r # Now.res
      BY <2>1, <3>1, EffectOnly
    <3>2. CASE r = Now.res
      BY <1>1, <1>2, <2>1, <3>2 DEF Effect, SetCloud, cloudVars
    <3> QED  BY <3>1, <3>2
  <2>2. CASE AtSome /\ Now.do = "await_starting"
    BY <2>2 DEF Clearing, Removals, Learning
  <2>3. CASE \E state : Becomes(state) /\ InstanceState \in {"pending", "stopping", "shutting-down", "terminated"}
    BY <1>1, <2>3 DEF Becomes, InstanceState
  <2> QED  BY <2>1, <2>2, <2>3, CloudStep
<1>4. cloud["instance"] \in {"absent", "shutting-down", "terminated"} => cloud'["instance"] \in {"absent", "shutting-down", "terminated"}
  <2> SUFFICES ASSUME cloud["instance"] \in {"absent", "shutting-down", "terminated"}
               PROVE  cloud'["instance"] \in {"absent", "shutting-down", "terminated"}
    OBVIOUS
  <2>1. CASE AtSome /\ Calling /\ Effect
    <3>1. CASE "instance" # Now.res
      BY <1>1, <2>1, <3>1, EffectOnly
    <3>2. CASE "instance" = Now.res
      BY <1>1, <1>2, <2>1, <3>2 DEF Effect, SetCloud, cloudVars, WellMade
    <3> QED  BY <3>1, <3>2
  <2>2. CASE AtSome /\ Now.do = "await_starting"
    BY <2>2 DEF Clearing, Removals, Learning
  <2>3. CASE \E state : /\ Becomes(state) /\ InstanceState \in {"pending", "stopping", "shutting-down", "terminated"}
                        /\ InstanceState \in {"shutting-down", "terminated"} => state \in {"terminated", "absent"}
    BY <1>1, <2>3 DEF Becomes, InstanceState
  <2> QED  BY <2>1, <2>2, <2>3, CloudStep
<1> QED  BY <1>3, <1>4 DEF IsGone

\* A removal is passed when the resource is unknown, gone, or accounted for.
LEMMA PassRemoval ==
  ASSUME TypeOK, [Next]_vars, Passes, Now.do \in Removals, NEW r, r = Now.res
  PROVE  \/ faulty' \/ (~Knows(r) /\ told' = told /\ learnt' = learnt) \/ IsGone(r)'
         \/ Now.do # "gone" /\ (r \in warned' \/ (r \in missed' /\ Overlooks(Now)))
<1>1. Operation /\ (\A how, json : ~NextStep(how, json)) /\ (\A kind : ~Raise(kind))
  BY Passing
<1>2. /\ AtSome /\ WellMade(Now) /\ cloud \in [Resources -> States] /\ Now.res \in Resources
      /\ faulty \in BOOLEAN /\ Now.do \in {"drop", "gone", "terminate"}
  BY ScriptFacts DEF Passes, TypeOK, WellMade, Removals
<1>3. ~(\/ CallReboot \/ ExploreNetwork \/ DescribeNothing \/ NeedState \/ DoneInState \/ LearnFromInstance
        \/ AwaitState \/ AwaitTimesOut \/ LoginDone \/ LoginFails \/ CompareBoots \/ KeyAccepted \/ KeyRejected \/ TellResult
        \/ EndEarly)
  BY <1>2 DEF CallReboot, ExploreNetwork, DescribeNothing, NeedState, DoneInState, LearnFromInstance, Described, AwaitState,
         AwaitTimesOut, Waiting, Waits, LoginDone, LoginFails, CompareBoots, KeyAccepted, KeyRejected, TellResult,
         EndEarly, AtOp
<1>4. CASE PassOver
  BY <1>2, <1>4 DEF PassOver, NoCall, AtOp, Advance
<1>5. CASE CallDone
  BY <1>2, <1>5 DEF CallDone, Effect, SetCloud, IsGone, WellMade, cloudVars
<1>6. CASE CallRefused
  BY <1>1, <1>2, <1>6 DEF CallRefused, Refused, Faulty, Unreported, Ending, WellMade, Overlooks
<1>7. CASE CallUnanswered \/ CallLost
  BY <1>1, <1>2, <1>7 DEF CallUnanswered, CallLost, Unanswered, Faulty, Unreported, Ending, WellMade, Overlooks
<1>8. CASE CheckGone
  BY <1>2, <1>8 DEF CheckGone, Faulty, IsGone, cloudVars
<1> QED  BY <1>1, <1>3, <1>4, <1>5, <1>6, <1>7, <1>8 DEF Operation

LEMMA AccountedStays ==
  ASSUME TypeOK, [Next]_vars, Outside \/ Passes, NEW o, o.res \in Resources, Accounted(o),
         AtSome => Now.do \in Clearing \ Learning /\ ~Names(Now, o.res)
  PROVE  Accounted(o)'
<1>1. outs' = outs /\ suite' = suite /\ at' = at /\ warned \subseteq warned' /\ missed \subseteq missed' /\ (faulty => faulty')
  BY SameScript, NotedStep DEF Outside, Passes, stepVars, scriptVars
<1>2. o.res \in told' \cup learnt' => o.res \in told \cup learnt
  BY DEF Outside, Passes, scriptVars, Names
<1>3. Knows(o.res)' => Knows(o.res)
  BY <1>1, <1>2 DEF Knows, Given
<1>4. IsGone(o.res) => IsGone(o.res)'
  BY GoneStays
<1> QED  BY <1>1, <1>3, <1>4 DEF Accounted, Overlooks

\* In a script that runs, what has been told and what stands behind it.
LEMMA ClaimFacts ==
  ASSUME TypeOK, mode = "run"
  PROVE  /\ Ops = Current.ops /\ Len(Current.ops) \in Nat /\ DOMAIN Current.ops = 1..Len(Current.ops)
         /\ op \in 1..(Len(Current.ops) + 1) /\ \A k \in 1..Len(Current.ops) : WellMade(Current.ops[k])
         /\ \A token \in ClaimTokens : \A k \in 1..Len(Current.ops) :
              token \in Current.ops[k].tells => Plain(Current) /\ Vouched(Current, k, token)
<1>1. Busy /\ Current \in Scripts(suite) /\ Sound(Current) /\ Ops = Current.ops /\ op \in 1..(Len(Ops) + 1) /\ suite \in Suites
  BY ScriptFacts DEF Busy, Ops, TypeOK
<1>2. Len(Current.ops) \in Nat /\ DOMAIN Current.ops = 1..Len(Current.ops)
  BY <1>1 DEF Sound
<1>3. \A k \in 1..Len(Current.ops) : Current.ops[k] \in OpsOf(Current)
  BY <1>2 DEF OpsOf
<1>4. \A k \in 1..Len(Current.ops) : WellMade(Current.ops[k])
  BY <1>1, <1>3 DEF Sound
<1>5. ASSUME NEW token \in ClaimTokens, NEW k \in 1..Len(Current.ops), token \in Current.ops[k].tells
      PROVE  Plain(Current) /\ Vouched(Current, k, token)
  <2>1. Claims(Current, token) /\ k \in DOMAIN Current.ops
    BY <1>2, <1>3, <1>5 DEF Claims
  <2> QED  BY <1>1, <1>5, <2>1, ClaimsAssumption DEF ClaimTokens
<1> QED  BY <1>1, <1>2, <1>4, <1>5

LEMMA SourcedStep ==
  ASSUME TypeOK, Resting, Sourced, [Next]_vars
  PROVE  Sourced'
<1>1. at' = at => Current' = Current
  BY SameScript
<1>2. CASE Outside
  BY <1>1, <1>2 DEF Outside, scriptVars, stepVars, Sourced, Busy
<1>3. CASE Begins
  BY <1>3 DEF Begins, Resting, scriptVars, Sourced
<1>4. CASE Passes
  <2>1. /\ Busy /\ op \in 1..Len(Ops) /\ Len(Ops) \in Nat /\ op' = op + 1 /\ mode' = mode /\ Current' = Current
        /\ Now \in OpsOf(Current)
    BY <1>1, <1>4, ScriptFacts DEF Passes, AtSome, stepVars
  <2> SUFFICES ASSUME NEW t \in told'
               PROVE  /\ Claims(Current, t)
                      /\ mode = "run" => \E k \in 1..op : t \in Current.ops[k].tells /\ Current.ops[k].do # "done_if"
    BY <2>1 DEF Sourced
  <2>2. CASE t \in told
    <3>1. mode = "run" => \E k \in 1..(op - 1) : t \in Current.ops[k].tells /\ Current.ops[k].do # "done_if"
      BY <2>1, <2>2 DEF Sourced
    <3>2. 1..(op - 1) \subseteq 1..op
      BY <2>1
    <3> QED  BY <2>1, <2>2, <3>1, <3>2 DEF Sourced
  <2>3. CASE t \notin told
    <3>1. t \in Now.tells /\ Now.do # "done_if"
      BY <1>4, <2>3, PassQuiet DEF Passes
    <3>2. mode = "run" => Now = Current.ops[op]
      BY DEF Now, Ops
    <3> QED  BY <2>1, <3>1, <3>2 DEF Claims
  <2> QED  BY <2>2, <2>3
<1>5. CASE Rescues
  BY <1>1, <1>5 DEF Rescues, stepVars, Sourced, Busy
<1>6. CASE \E how, json : Finishes(how, json)
  BY <1>6 DEF Finishes, NextStep, Sourced
<1> QED  BY <1>2, <1>3, <1>4, <1>5, <1>6, Flow DEF Flows

LEMMA StraightStep ==
  ASSUME TypeOK, Straight, [Next]_vars
  PROVE  Straight'
<1>1. at' = at => Current' = Current
  BY SameScript
<1>2. CASE Rescues
  BY <1>1, <1>2 DEF Rescues, stepVars, Plain, Straight
<1>3. CASE Outside \/ Passes
  BY <1>1, <1>3 DEF Outside, Passes, stepVars, Straight
<1> QED  BY <1>2, <1>3, Flow DEF Flows, Begins, Finishes, NextStep, Straight

LEMMA SeenStep ==
  ASSUME TypeOK, Resting, Seen, [Next]_vars
  PROVE  Seen'
<1>1. at' = at => Current' = Current
  BY SameScript
<1> SUFFICES ASSUME mode' = "run", NEW state \in {"running", "stopped"}, NEW j \in 1..(op' - 1),
                    Shows(Current'.ops[j], state), StillFrom(Current', j, "instance")
             PROVE  cloud'["instance"] = state
  BY DEF Seen
<1>2. "instance" \in Resources
  BY SuitesAssumption
<1>3. ASSUME mode = "run", at' = at, NEW k \in 1..(op - 1), k = j PROVE cloud'["instance"] = state
  <2>1. cloud["instance"] = state
    BY <1>1, <1>3 DEF Seen
  <2>2. AtSome => Still(Now, "instance")
    <3>1. Ops = Current.ops /\ op \in 1..(Len(Ops) + 1) /\ Len(Ops) \in Nat
      BY <1>3, ClaimFacts
    <3>2. AtSome => op \in (k + 1)..Len(Current.ops)
      BY <1>3, <3>1 DEF AtSome
    <3> QED  BY <1>1, <1>3, <3>1, <3>2 DEF StillFrom, Now
  <2> QED  BY <1>2, <2>1, <2>2, StillKept
<1>4. CASE Outside
  BY <1>3, <1>4 DEF Outside, stepVars
<1>5. CASE Begins
  BY <1>5 DEF Begins, Resting
<1>6. CASE Passes
  <2>1. op \in 1..Len(Ops) /\ Len(Ops) \in Nat /\ op' = op + 1 /\ mode = "run" /\ at' = at /\ Ops = Current.ops
    BY <1>6, ScriptFacts DEF Passes, AtSome, stepVars, Ops
  <2>2. CASE j = op
    <3>1. Shows(Now, state)
      BY <1>1, <2>1, <2>2 DEF Now
    <3> QED  BY <1>6, <3>1, PassShown
  <2>3. CASE j # op
    <3>1. j \in 1..(op - 1)
      BY <2>1, <2>3
    <3> QED  BY <1>3, <2>1, <3>1
  <2> QED  BY <2>2, <2>3
<1> QED  BY <1>4, <1>5, <1>6, Flow DEF Flows, Rescues, Finishes, NextStep

LEMMA BorneStep ==
  ASSUME TypeOK, Resting, Sourced, Borne, [Next]_vars
  PROVE  Borne'
<1>1. at' = at => Current' = Current
  BY SameScript
<1>2. ASSUME mode = "run", NEW token \in told \cap ClaimTokens, AtSome
      PROVE  \E k \in 1..(op - 1) : Vouched(Current, k, token) /\ op \in (k + 1)..Len(Current.ops) /\ WellMade(Current.ops[k])
  <2>1. PICK k \in 1..(op - 1) : token \in Current.ops[k].tells
    BY <1>2 DEF Sourced, Busy
  <2>2. op \in 1..Len(Current.ops) /\ Len(Current.ops) \in Nat
    BY <1>2, ClaimFacts DEF AtSome
  <2>3. k \in 1..Len(Current.ops) /\ op \in (k + 1)..Len(Current.ops)
    BY <2>2
  <2> QED  BY <1>2, <2>1, <2>3, ClaimFacts
<1>3. mode = "run" => Ops = Current.ops /\ Now = Current.ops[op]
  BY DEF Ops, Now
<1>4. ASSUME mode = "run", "rebooted" \in told PROVE booted'
  <2>1. AtSome => Now.do # "reboot"
    BY <1>2, <1>3, <1>4 DEF Vouched, ClaimTokens
  <2> QED  BY <1>4, <2>1, BootedStays DEF Borne
<1>5. ASSUME mode = "run", "inactive" \in told PROVE cloud'["access_key"] = "inactive"
  <2>1. PICK k \in 1..(op - 1) : "inactive" \in Current.ops[k].tells
    BY <1>5 DEF Sourced, Busy
  <2>2. k \in 1..Len(Current.ops)
    BY <1>5, ClaimFacts
  <2>3. Vouched(Current, k, "inactive") /\ WellMade(Current.ops[k])
    BY <1>5, <2>1, <2>2, ClaimFacts DEF ClaimTokens
  <2>4. "access_key" \in Resources
    BY <2>3 DEF Vouched, WellMade
  <2>5. AtSome => Still(Now, "access_key")
    BY <1>2, <1>3, <1>5 DEF Vouched, ClaimTokens, StillFrom
  <2> QED  BY <1>5, <2>4, <2>5, StillKept DEF Borne
<1>6. CASE Outside
  BY <1>4, <1>5, <1>6 DEF Outside, scriptVars, Borne
<1>7. CASE Begins
  BY <1>7 DEF Begins, Resting, scriptVars, Borne
<1>8. CASE Passes
  <2>1. op \in 1..Len(Ops) /\ mode' = mode /\ told' \subseteq told \cup Now.tells
    BY <1>8, ScriptFacts DEF Passes, AtSome
  <2>2. ASSUME mode = "run", NEW token \in ClaimTokens, token \in Now.tells PROVE Vouched(Current, op, token) /\ WellMade(Now)
    BY <1>3, <2>1, <2>2, ClaimFacts
  <2>3. ASSUME mode = "run", "rebooted" \in Now.tells PROVE booted'
    <3>1. Now.do = "compare"
      BY <1>3, <2>2, <2>3 DEF Vouched, ClaimTokens
    <3> QED  BY <1>8, <3>1, PassCompared
  <2>4. ASSUME mode = "run", "inactive" \in Now.tells PROVE cloud'["access_key"] = "inactive"
    <3>1. Now.do = "disable" /\ Now.res = "access_key" /\ Now.fails = "raise" /\ "access_key" \in Resources
      BY <1>3, <2>2, <2>4 DEF Vouched, ClaimTokens, WellMade
    <3>2. CallDone
      BY <1>8, <3>1, PassCall
    <3> QED  BY <3>1, <3>2 DEF CallDone, Effect, SetCloud, TypeOK
  <2> QED  BY <1>4, <1>5, <2>1, <2>3, <2>4 DEF Borne
<1> QED  BY <1>6, <1>7, <1>8, Flow DEF Flows, Rescues, Finishes, NextStep, Borne

LEMMA ClearedStep ==
  ASSUME TypeOK, Resting, Cleared, [Next]_vars
  PROVE  Cleared'
<1>1. at' = at => Current' = Current
  BY SameScript
<1> SUFFICES ASSUME mode' = "run", Clears(Current'), NEW m \in 1..(op' - 1), NEW o, o = Current'.ops[m], o.do \in Removals
             PROVE  Accounted(o)'
  BY DEF Cleared
<1>2. ASSUME Outside \/ Passes, mode = "run", at' = at, m \in 1..(op - 1) PROVE Accounted(o)'
  <2>1. /\ Ops = Current.ops /\ Len(Ops) \in Nat /\ DOMAIN Ops = 1..Len(Ops) /\ op \in 1..(Len(Ops) + 1)
        /\ \A k \in 1..Len(Ops) : WellMade(Current.ops[k])
    BY <1>2, ClaimFacts
  <2>2. Accounted(o)
    BY <1>1, <1>2 DEF Cleared
  <2>3. o.res \in Resources
    BY <1>1, <1>2, <2>1 DEF WellMade, Removals
  <2>4. AtSome => Now.do \in Clearing \ Learning /\ ~Names(Now, o.res)
    BY <1>1, <1>2, <2>1 DEF AtSome, Now, Clears
  <2> QED  BY <1>2, <2>2, <2>3, <2>4, AccountedStays
<1>3. CASE Outside
  BY <1>2, <1>3 DEF Outside, stepVars
<1>4. CASE Begins
  BY <1>4 DEF Begins, Resting
<1>5. CASE Passes
  <2>1. op \in 1..Len(Ops) /\ Len(Ops) \in Nat /\ op' = op + 1 /\ mode = "run" /\ at' = at /\ Ops = Current.ops
        /\ outs' = outs /\ suite' = suite
    BY <1>5, ScriptFacts, SameScript DEF Passes, AtSome, stepVars, Ops
  <2>2. CASE m = op
    <3>1. o = Now
      BY <1>1, <2>1, <2>2 DEF Now
    <3>2. \/ faulty' \/ (~Knows(o.res) /\ told' = told /\ learnt' = learnt) \/ IsGone(o.res)'
          \/ o.do # "gone" /\ (o.res \in warned' \/ (o.res \in missed' /\ Overlooks(o)))
      BY <1>5, <3>1, PassRemoval
    <3>3. told' = told /\ learnt' = learnt => (Knows(o.res)' <=> Knows(o.res))
      BY <2>1 DEF Knows, Given
    <3> QED  BY <3>2, <3>3 DEF Accounted, Overlooks
  <2>3. CASE m # op
    <3>1. m \in 1..(op - 1)
      BY <2>1, <2>3
    <3> QED  BY <1>2, <1>5, <2>1, <3>1
  <2> QED  BY <2>2, <2>3
<1> QED  BY <1>3, <1>4, <1>5, Flow DEF Flows, Rescues, Finishes, NextStep

LEMMA ClaimsStep == TypeOK /\ Resting /\ ClaimsInv /\ [Next]_vars => ClaimsInv'
BY SourcedStep, StraightStep, SeenStep, BorneStep, ClearedStep DEF ClaimsInv

\* A claim that is printed with success has been told, or is made on the way out.
LEMMA Printed ==
  ASSUME TypeOK, ClaimsInv, [Next]_vars, NEW token \in ClaimTokens, EndsWith(token)
  PROVE  /\ mode = "run" /\ Plain(Current) /\ at \in Steps
         /\ \/ \E k \in 1..(op - 1) : /\ k \in 1..Len(Current.ops) /\ token \in told /\ Current.ops[k].do # "done_if"
                                      /\ Vouched(Current, k, token)
            \/ /\ AtSome /\ op \in 1..Len(Current.ops) /\ Now = Current.ops[op] /\ Vouched(Current, op, token)
               /\ Now.do = "keep" \/ (Now.do = "done_if" /\ InstanceState \in Now.states)
         /\ AtSome \/ (op = Len(Current.ops) + 1 /\ ~faulty)
<1>1. \E json : Finishes("ok", json) /\ token \in json.told
  <2>1. Busy /\ mode' = "idle" /\ status'[at] = "ok" /\ token \in outs'[at].told
    BY DEF EndsWith
  <2>2. PICK how, json : Finishes(how, json)
    BY <2>1, Flow DEF Flows, Outside, Begins, Passes, Rescues, Busy
  <2>3. status'[at] = how /\ outs'[at] = json
    BY <2>2 DEF Finishes, NextStep, TypeOK
  <2> QED  BY <2>1, <2>2, <2>3
<1>2. PICK json : EndsWell(json) /\ token \in json.told /\ at \in Steps
  BY <1>1 DEF Finishes
<1>3. \A tells : Json(tells).told = tells
  BY DEF Json
<1>4. \/ token \in told
      \/ AtOp({"keep", "done_if"}) /\ token \in Now.tells /\ (Now.do = "done_if" => InstanceState \in Now.states)
  BY <1>2, <1>3 DEF EndsWell, AtOp, NoJson
<1>5. Busy /\ Current \in Scripts(suite) /\ suite \in Suites
  BY <1>2, ScriptFacts DEF EndsWell, TypeOK
<1>6. Claims(Current, token)
  <2>1. CASE token \in told
    BY <1>5, <2>1 DEF ClaimsInv, Sourced
  <2>2. CASE AtOp({"keep", "done_if"}) /\ token \in Now.tells
    BY <2>2, ScriptFacts DEF AtOp, AtSome, Claims
  <2> QED  BY <1>4, <2>1, <2>2
<1>7. Plain(Current) /\ mode = "run"
  BY <1>5, <1>6, ClaimsAssumption DEF ClaimTokens, ClaimsInv, Straight, Busy
<1>8. Ops = Current.ops /\ Len(Current.ops) \in Nat /\ op \in 1..(Len(Current.ops) + 1)
  BY <1>7, ClaimFacts
<1>9. AtSome \/ (op = Len(Current.ops) + 1 /\ ~faulty)
  BY <1>2, <1>5, <1>8 DEF EndsWell, AtSome, AtOp
<1>10. CASE token \in told
  <2>1. PICK k \in 1..(op - 1) : token \in Current.ops[k].tells /\ Current.ops[k].do # "done_if"
    BY <1>5, <1>7, <1>10 DEF ClaimsInv, Sourced
  <2>2. k \in 1..Len(Current.ops)
    BY <1>8
  <2> QED  BY <1>2, <1>7, <1>9, <1>10, <2>1, <2>2, ClaimFacts
<1>11. CASE AtOp({"keep", "done_if"}) /\ token \in Now.tells /\ (Now.do = "done_if" => InstanceState \in Now.states)
  <2>1. AtSome /\ op \in 1..Len(Current.ops) /\ Now = Current.ops[op]
    BY <1>7, <1>8, <1>11 DEF AtOp, AtSome, Now
  <2> QED  BY <1>2, <1>7, <1>9, <1>11, <2>1, ClaimFacts DEF AtOp
<1> QED  BY <1>4, <1>10, <1>11

LEMMA ClaimsHold ==
  ASSUME TypeOK, ClaimsInv, [Next]_vars
  PROVE  /\ EndsWith("stopped") => cloud["instance"] = "stopped"
         /\ EndsWith("running") => cloud["instance"] = "running"
         /\ EndsWith("rebooted") => booted
         /\ EndsWith("inactive") => cloud["access_key"] = "inactive"
         /\ EndsWith("verified") => \A r \in Targets : Knows(r) => IsGone(r)
         /\ EndsWith("destroyed") => \A r \in Targets : Knows(r) => IsGone(r) \/ r \in warned \cup (missed \cap Logged)
<1>1. ASSUME NEW token \in {"stopped", "running"}, EndsWith(token) PROVE cloud["instance"] = token
  <2>1. ASSUME mode = "run", NEW k \in 1..op, k \in 1..Len(Current.ops), Confirmed(Current, k, token),
               k = op => Current.ops[k].do \notin {"need", "await"}
        PROVE  cloud["instance"] = token
    <3>1. PICK j \in 1..k : Shows(Current.ops[j], token) /\ StillFrom(Current, j, "instance")
      BY <2>1 DEF Confirmed
    <3>2. j \in 1..(op - 1)
      BY <2>1, <3>1, ClaimFacts DEF Shows
    <3> QED  BY <2>1, <3>1, <3>2 DEF ClaimsInv, Seen
  <2>2. mode = "run" /\ op \in Nat
    BY <1>1, Printed, ClaimFacts DEF ClaimTokens
  <2>3. CASE \E k \in 1..(op - 1) : /\ k \in 1..Len(Current.ops) /\ Current.ops[k].do # "done_if"
                                    /\ Vouched(Current, k, token)
    <3>1. PICK k \in 1..(op - 1) : k \in 1..Len(Current.ops) /\ Current.ops[k].do # "done_if" /\ Vouched(Current, k, token)
      BY <2>3
    <3>2. Confirmed(Current, k, token)
      BY <3>1 DEF Vouched
    <3>3. k \in 1..op /\ k # op
      BY <2>2
    <3> QED  BY <2>1, <2>2, <3>1, <3>2, <3>3
  <2>4. CASE /\ AtSome /\ op \in 1..Len(Current.ops) /\ Now = Current.ops[op] /\ Vouched(Current, op, token)
             /\ Now.do = "keep" \/ (Now.do = "done_if" /\ InstanceState \in Now.states)
    <3>1. CASE Now.do = "done_if" /\ Now.states = {token}
      BY <2>4, <3>1 DEF InstanceState
    <3>2. CASE ~(Now.do = "done_if" /\ Now.states = {token})
      <4>1. Confirmed(Current, op, token)
        BY <2>4, <3>2 DEF Vouched
      <4>2. op \in 1..op
        BY <2>4
      <4> QED  BY <2>1, <2>2, <2>4, <4>1, <4>2
    <3> QED  BY <3>1, <3>2
  <2> QED  BY <1>1, <2>3, <2>4, Printed DEF ClaimTokens
<1>2. ASSUME EndsWith("rebooted") PROVE booted
  <2>1. mode = "run" /\ "rebooted" \in told
    BY <1>2, Printed DEF ClaimTokens, Vouched
  <2> QED  BY <2>1 DEF ClaimsInv, Borne
<1>3. ASSUME EndsWith("inactive") PROVE cloud["access_key"] = "inactive"
  <2>1. mode = "run" /\ "inactive" \in told
    BY <1>3, Printed DEF ClaimTokens, Vouched
  <2> QED  BY <2>1 DEF ClaimsInv, Borne
<1>4. ASSUME NEW token \in {"verified", "destroyed"}, EndsWith(token), NEW r \in Targets, Knows(r)
      PROVE  /\ IsGone(r) \/ r \in warned \cup (missed \cap Logged)
             /\ token = "verified" => IsGone(r)
  <2>1. /\ mode = "run" /\ Plain(Current) /\ at \in Steps /\ (AtSome \/ (op = Len(Current.ops) + 1 /\ ~faulty))
        /\ Len(Current.ops) \in Nat /\ DOMAIN Current.ops = 1..Len(Current.ops) /\ op \in 1..(Len(Current.ops) + 1)
        /\ Ops = Current.ops
    BY <1>4, Printed, ClaimFacts DEF ClaimTokens
  <2>2. PICK k \in 1..op : k \in 1..Len(Current.ops) /\ Vouched(Current, k, token) /\ (k = op => Now = Current.ops[k] /\ Now.do \in {"keep", "done_if"})
    <3>1. 1..(op - 1) \subseteq 1..op /\ op \in 1..op /\ \A k \in 1..(op - 1) : k # op
      BY <2>1
    <3> QED  BY <1>4, <3>1, Printed DEF ClaimTokens
  <2>3. k = Len(Current.ops) /\ Current.ops[k].do = "tell" /\ Clears(Current)
        /\ (token = "verified" => \A m \in DOMAIN Current.ops : Current.ops[m].do \notin {"drop", "terminate"})
        /\ (token = "destroyed" => \A m \in DOMAIN Current.ops : Answers(Current.ops[m]))
    BY <1>4, <2>2 DEF Vouched
  <2>4. op = Len(Current.ops) + 1 /\ ~faulty
    BY <2>1, <2>2, <2>3 DEF AtSome
  <2>5. PICK o \in AllOps(at) : o.do \in Removals /\ o.res = r
    BY <1>4 DEF Targets, Removals
  <2>6. PICK m \in 1..Len(Current.ops) : o = Current.ops[m]
    <3>1. AllOps(at) = OpsOf(Current)
      BY DEF AllOps, Current
    <3>2. DOMAIN Current.rescue = {}
      BY <2>1 DEF Plain
    <3> QED  BY <2>1, <2>5, <3>1, <3>2 DEF OpsOf
  <2>7. Accounted(o)
    BY <2>1, <2>3, <2>4, <2>5, <2>6 DEF ClaimsInv, Cleared
  <2>8. o.do \in {"drop", "gone", "terminate"} /\ (token = "verified" => o.do = "gone")
    BY <2>1, <2>3, <2>5, <2>6 DEF Removals
  <2>9. token = "destroyed" /\ Overlooks(o) => r \in Logged
    BY <2>1, <2>3, <2>5, <2>6 DEF Answers, Overlooks
  <2> QED  BY <1>4, <2>4, <2>5, <2>7, <2>8, <2>9 DEF Accounted
<1> QED  BY <1>1, <1>2, <1>3, <1>4

------------------------------------------------------------------------------
(* What a suite leaves.                                                    *)

Past(stage, k) == err = "none" /\ ((mode = stage /\ op > k) \/ (stage = "run" /\ mode = "rescue"))
\* Done with: r was nobody's, or is gone.
Settled(r) == owner[r] \notin {"run", "suite"} \/ IsGone(r)
Spoilt(r) == \E j \in Steps : Failed(j) /\ Touches(suite.steps[j].script, r)
Orphan(r) ==
  r = "role" /\ "profile" \in Resources /\ owner["profile"] = "none" /\ \E j \in 1..(at - 1) : OnlyIn(suite, "profile", j)
Excused(r) == skip \/ r \in warned \cup missed \/ (r \in {"sg", "key"} /\ died) \/ Spoilt(r) \/ Orphan(r)

\* Nobody has r before the only step that makes it.
Reserved ==
  \A r \in Resources : \A j \in Nat : OnlyIn(suite, r, j) /\ owner[r] # "none" =>
    (j \in 1..(at - 1) /\ status[j] # "skipped") \/ (j = at /\ Busy)
\* A script runs with the arguments it reads.
Rendered == Busy => Renders(at)
\* What a step printed names what it made.
First(c, r) == Plain(c) /\ ~Forgets(c, r) /\ 1 \in DOMAIN c.ops /\ c.ops[1].do = "tell" /\ r \in c.ops[1].tells
Handed ==
  \A j \in Steps : \A r \in Resources :
    First(suite.steps[j].script, r) /\ outs[j].printed => r \in outs[j].told
TellingMake(o, q, r) == Does(o, Claiming, q) => o.do = "make" /\ o.fails \in {"raise", "pass"} /\ r \in o.tells
Announced ==
  \A j \in Steps : \A q, r \in Resources :
    /\ OnlyIn(suite, q, j) /\ Plain(suite.steps[j].script) /\ ~Forgets(suite.steps[j].script, r)
    /\ \A o \in OpsOf(suite.steps[j].script) : TellingMake(o, q, r)
    => /\ j < at => owner[q] = "none" \/ r \in outs[j].told \/ Failed(j) \/ ~outs[j].printed
       /\ j = at /\ Busy => owner[q] = "none" \/ r \in told
\* An instance that is known, and that nobody has ended, is there or has died.
StillSpared(kinds, r) ==
  /\ \A j \in 1..(at - 1) : \A o \in OpsOf(suite.steps[j].script) : ~Does(o, kinds, r)
  /\ mode = "run" => \A m \in 1..(op - 1) : ~Does(Ops[m], kinds, r)
  /\ mode = "rescue" => \A o \in OpsOf(Current) : ~Does(o, kinds, r)
OneExists == \A a \in suite.accounts : a.cloud["instance"] \notin {"absent", "shutting-down", "terminated"}
MakesOne(o) == Does(o, {"make"}, "instance") /\ o.fails = "raise"
Named ==
  \/ "instance" \in told \cup learnt \/ \E j \in Steps : "instance" \in outs[j].told
  \/ mode = "run" /\ \E j \in 1..(op - 1) : MakesOne(Ops[j])
Lively ==
  Traced(suite) /\ StillSpared(Ending, "instance") /\ (Named \/ OneExists) => ~IsGone("instance") \/ died
\* A gateway that is not attached is being attached, or its script has failed.
Fills(o, r) == Does(o, {"fill"}, r) /\ o.fails = "raise"
Attached ==
  \A r \in Resources : Completed(suite, r) /\ StillSpared({"empty"}, r) /\ cloud[r] = "unattached" =>
    /\ r = "igw" /\ owner[r] = "run"
    /\ Spoilt(r) \/ (mode = "run" /\ \E m \in op..Len(Ops) : Fills(Ops[m], r))
\* What a describe or a listing has shown is at hand, or nothing is left to do.
Revealed ==
  mode = "run" => \A r \in Resources : Shown(suite, at, op, r) => r \in learnt \/ Settled(r) \/ Excused(r)
\* A removal that lies behind has worked, or will be answered for.
Removed ==
  Busy => \A r \in Resources : \A stage \in {"run", "rescue"} : \A k \in DOMAIN Line(Current, stage) :
    Removes(suite, at, stage, k, r) /\ Past(stage, k) => Settled(r) \/ Excused(r) \/ faulty
Answered ==
  \A i \in 1..(at - 1) : \A r \in Resources : \A stage \in {"run", "rescue"} :
    \A k \in DOMAIN Line(suite.steps[i].script, stage) :
      Removes(suite, i, stage, k, r) => Settled(r) \/ Excused(r)

\* The steps that lie behind stay as they ended.
LEMMA StepOn ==
  ASSUME TypeOK, Ahead, [Next]_vars
  PROVE  /\ \/ at' = at /\ UNCHANGED stepVars
            \/ /\ at \in Steps /\ at' = at + 1 /\ mode' = "idle"
               /\ \E how, json : Finishes(how, json) /\ status'[at] = how /\ outs'[at] = json
         /\ \A j \in Steps \ {at} : status'[j] = status[j] /\ outs'[j] = outs[j]
         /\ \A j \in Steps : Failed(j) => j # at /\ Failed(j)'
<1>1. CASE UNCHANGED stepVars
  <2>1. \A j \in Steps : Failed(j) => j # at
    BY ScriptFacts DEF Ahead, Failed, TypeOK
  <2> QED  BY <1>1, <2>1 DEF stepVars, Failed
<1>2. CASE \E how, json : Finishes(how, json)
  <2>1. PICK how, json : Finishes(how, json)
    BY <1>2
  <2>2. /\ at \in Steps /\ at' = at + 1 /\ mode' = "idle" /\ status'[at] = how /\ outs'[at] = json
        /\ \A j \in Steps \ {at} : status'[j] = status[j] /\ outs'[j] = outs[j]
    BY <2>1 DEF Finishes, NextStep, TypeOK
  <2>3. \A j \in Steps : Failed(j) => j # at
    BY ScriptFacts DEF Ahead, Failed, TypeOK
  <2> QED  BY <2>1, <2>2, <2>3 DEF Failed
<1> QED  BY <1>1, <1>2, Flow DEF Flows, Outside, Begins, Passes, Rescues, stepVars

\* A call that takes effect moves the script on.
LEMMA Acts ==
  ASSUME TypeOK, CallDone \/ CallLost
  PROVE  /\ AtSome /\ ~Outside /\ at \in Steps /\ Now \in OpsOf(suite.steps[at].script) /\ Busy
         /\ op \in 1..Len(Ops) /\ DOMAIN Ops = 1..Len(Ops) /\ Len(Ops) \in Nat /\ at \in 1..Len(suite.steps)
<1>1. AtSome
  BY DEF CallDone, CallLost, Calling, AtOp, AtSome
<1>2. op \in 1..Len(Ops) /\ Len(Ops) \in Nat /\ at \in Nat /\ mode \in {"run", "rescue"}
  BY <1>1, ScriptFacts DEF AtSome, Busy
<1>3. ~Outside
  <2>1. op' = op + 1 \/ mode' # mode \/ at' = at + 1
    BY <1>2 DEF CallDone, CallLost, Unanswered, Advance, Faulty, Raise, NextStep
  <2> QED  BY <1>2, <2>1 DEF Outside, stepVars
<1> QED  BY <1>1, <1>2, <1>3, ScriptFacts DEF AtSome, Current

\* Only a claim on r changes whose it is.
LEMMA OwnerStays ==
  ASSUME TypeOK, [Next]_vars, NEW r \in Resources, CallDone \/ CallLost => ~Does(Now, Claiming, r)
  PROVE  owner'[r] = owner[r]
<1>1. CASE AtSome /\ Effect /\ (CallDone \/ CallLost)
  <2>1. CASE r # Now.res
    BY <1>1, <2>1, EffectOnly
  <2>2. CASE r = Now.res
    <3>1. Now.do \notin {"make", "adopt", "adopt_any"}
      BY <1>1, <2>2 DEF Does, Claiming
    <3> QED  BY <1>1, <3>1 DEF Effect, SetCloud, cloudVars
  <2> QED  BY <2>1, <2>2
<1> QED  BY <1>1, CloudStep DEF SetCloud, Becomes

\* What is gone, or was nobody's, stays so until it is made again.
LEMMA SettledStays ==
  ASSUME TypeOK, [Next]_vars, NEW r \in Resources, Settled(r), CallDone \/ CallLost => ~Revives(Now, r)
  PROVE  Settled(r)'
<1>1. cloud \in [Resources -> States] /\ "instance" \in Resources /\ (AtSome => WellMade(Now))
  BY SuitesAssumption, ScriptFacts DEF TypeOK
<1>2. owner'[r] = owner[r]
  BY OwnerStays DEF Revives, Does
<1>3. ASSUME cloud[r] = "absent" PROVE cloud'[r] = "absent"
  <2>1. CASE AtSome /\ Calling /\ Effect /\ (CallDone \/ CallLost)
    <3>1. CASE r # Now.res
      BY <1>3, <2>1, <3>1, EffectOnly
    <3>2. CASE r = Now.res
      <4>1. Now.do \notin {"make", "adopt", "adopt_any", "fill", "disable"}
        BY <2>1, <3>2 DEF Revives, Does, Claiming
      <4>2. Now.do \notin {"empty", "sweep"}
        BY <1>3, <2>1, <3>2 DEF Calling, NoCall, AtOp, AtSome, IsGone
      <4>3. CASE Now.do = "start_if"
        BY <1>1, <1>3, <2>1, <3>2, <4>3 DEF Effect, cloudVars, WellMade
      <4> QED  BY <1>1, <1>3, <2>1, <3>2, <4>1, <4>2, <4>3 DEF Effect, SetCloud, cloudVars
    <3> QED  BY <3>1, <3>2
  <2>2. CASE InstanceState = "stopped" /\ SetCloud("instance", "pending")
    BY <1>1, <1>3, <2>2 DEF SetCloud, InstanceState
  <2>3. CASE \E state : Becomes(state) /\ InstanceState \in {"pending", "stopping", "shutting-down", "terminated"}
    BY <1>1, <1>3, <2>3 DEF Becomes, InstanceState
  <2> QED  BY <1>3, <2>1, <2>2, <2>3, CloudStep
<1>4. ASSUME r \in {"instance", "container"}, cloud["instance"] \in {"absent", "shutting-down", "terminated"}
      PROVE  cloud'["instance"] \in {"absent", "shutting-down", "terminated"}
  <2>1. CASE AtSome /\ Calling /\ Effect /\ (CallDone \/ CallLost)
    <3>1. CASE "instance" # Now.res
      BY <1>1, <1>4, <2>1, <3>1, EffectOnly
    <3>2. CASE "instance" = Now.res
      <4>1. Now.do # "make"
        BY <1>4, <2>1, <3>2 DEF Revives, Does, Claiming
      <4>2. Now.do \notin {"adopt", "adopt_any", "fill", "empty", "disable"}
        BY <1>1, <2>1, <3>2 DEF WellMade
      <4>3. Now.do # "sweep"
        BY <1>4, <2>1, <3>2 DEF Calling, NoCall, AtOp, AtSome, IsGone
      <4>4. CASE Now.do = "start_if"
        BY <1>1, <1>4, <2>1, <3>2, <4>4 DEF Effect, cloudVars, WellMade
      <4> QED  BY <1>1, <1>4, <2>1, <3>2, <4>1, <4>2, <4>3, <4>4 DEF Effect, SetCloud, cloudVars
    <3> QED  BY <3>1, <3>2
  <2>2. CASE InstanceState = "stopped"
    BY <1>4, <2>2 DEF InstanceState
  <2>3. CASE \E state : /\ Becomes(state) /\ InstanceState \in {"pending", "stopping", "shutting-down", "terminated"}
                        /\ InstanceState \in {"shutting-down", "terminated"} => state \in {"terminated", "absent"}
    BY <1>1, <1>4, <2>3 DEF Becomes, InstanceState
  <2> QED  BY <1>4, <2>1, <2>2, <2>3, CloudStep
<1> QED  BY <1>2, <1>3, <1>4 DEF Settled, IsGone

LEMMA DiedStays ==
  ASSUME [Next]_vars, died
  PROVE  died'
<1>1. CASE UNCHANGED died
  BY <1>1
<1>2. CASE CallDone \/ CallLost
  BY <1>2 DEF CallDone, CallLost, Effect, SetCloud, Create, cloudVars, AdoptKey, AdoptGroup, TakeOverKey, TakeOverGroup
<1>3. CASE RestartStopped \/ InstanceMoves
  BY <1>3 DEF RestartStopped, InstanceMoves, SetCloud
<1> QED
  BY <1>1, <1>2, <1>3
  DEF Next, Executor, Operation, Cloud, Ended, vars, cloudVars, SkipStep, StepWithoutInputs, StartScript, KillStep, EndScript,
      PassOver, CallRefused, CallUnanswered, ExploreNetwork, DescribeNothing, NeedState, DoneInState,
      LearnFromInstance, CallReboot, AwaitState, AwaitTimesOut, LoginDone, LoginFails, CompareBoots, CheckGone, KeyAccepted,
      KeyRejected, TellResult, EndEarly, InstanceReboots

\* An excuse stays one.
LEMMA ExcusedStays ==
  ASSUME TypeOK, Ahead, [Next]_vars, NEW r, Excused(r)
  PROVE  Excused(r)'
<1>1. suite' = suite /\ skip' = skip /\ Steps' = Steps /\ warned \subseteq warned' /\ missed \subseteq missed' /\ (died => died')
  BY SameScript, NotedStep, DiedStays
<1>2. Spoilt(r) => Spoilt(r)'
  BY <1>1, StepOn DEF Spoilt
<1>3. ASSUME Orphan(r) PROVE Orphan(r)'
  <2>1. PICK j \in 1..(at - 1) : OnlyIn(suite, "profile", j)
    BY <1>3 DEF Orphan
  <2>2. at \in Nat /\ (at' = at \/ at' = at + 1)
    BY StepOn, ScriptFacts DEF TypeOK
  <2>3. ASSUME AtSome PROVE ~Does(Now, Claiming, "profile")
    <3>1. at \in Steps /\ Now \in OpsOf(suite.steps[at].script)
      BY <2>3, ScriptFacts DEF AtSome, Current
    <3> QED  BY <2>1, <2>2, <3>1 DEF OnlyIn, Steps
  <2>4. owner'["profile"] = "none"
    BY <1>3, <2>3, OwnerStays, Acts DEF Orphan
  <2>5. j \in 1..(at' - 1)
    BY <2>1, <2>2
  <2> QED  BY <1>1, <1>3, <2>1, <2>4, <2>5 DEF Orphan
<1> QED  BY <1>1, <1>2, <1>3 DEF Excused

LEMMA ReservedStep ==
  ASSUME TypeOK, Resting, Ahead, Reserved, [Next]_vars
  PROVE  Reserved'
<1> SUFFICES ASSUME NEW r \in Resources, NEW j \in Nat, OnlyIn(suite', r, j), owner'[r] # "none"
             PROVE  (j \in 1..(at' - 1) /\ status'[j] # "skipped") \/ (j = at' /\ Busy')
  BY DEF Reserved
<1>1. suite' = suite /\ at \in Nat /\ (at' = at \/ at' = at + 1) /\ Steps = 1..Len(suite.steps)
      /\ \A i \in 1..(at - 1) : i \in Steps
  BY SameScript, StepOn, ScriptFacts DEF TypeOK
<1>2. CASE j \in 1..(at - 1) /\ status[j] # "skipped"
  <2>1. j \in Steps /\ j # at /\ j \in 1..(at' - 1)
    BY <1>1, <1>2
  <2> QED  BY <1>2, <2>1, StepOn
<1>3. CASE j = at /\ Busy
  <2>1. CASE at' = at
    BY <1>3, <2>1, Flow DEF Flows, Outside, Begins, Passes, Rescues, Finishes, NextStep, Busy, TypeOK
  <2>2. CASE at' # at
    <3>1. at \in Steps /\ at' = at + 1 /\ \E how, json : Finishes(how, json) /\ status'[at] = how
      BY <2>2, StepOn
    <3>2. status'[at] # "skipped"
      BY <1>3, <3>1 DEF Finishes, Busy
    <3>3. j \in 1..(at' - 1)
      BY <1>1, <1>3, <3>1
    <3> QED  BY <1>3, <3>2, <3>3
  <2> QED  BY <2>1, <2>2
<1>4. CASE owner[r] = "none"
  <2>1. AtSome /\ Does(Now, Claiming, r)
    BY <1>4, OwnerStays, Acts
  <2>2. at \in Steps /\ Now \in OpsOf(suite.steps[at].script) /\ Busy
    BY <2>1, ScriptFacts DEF AtSome, Current
  <2>3. j = at
    BY <1>1, <2>1, <2>2 DEF OnlyIn, Steps
  <2> QED  BY <1>3, <2>2, <2>3
<1> QED  BY <1>1, <1>2, <1>3, <1>4 DEF Reserved

LEMMA RenderedStep ==
  ASSUME TypeOK, Rendered, [Next]_vars
  PROVE  Rendered'
<1>1. suite' = suite
  BY SameScript
<1>2. CASE Begins
  BY <1>1, <1>2 DEF Begins, Rendered, Renders, stepVars
<1>3. CASE UNCHANGED stepVars /\ Busy
  BY <1>1, <1>3 DEF Rendered, Renders, stepVars
<1> QED  BY <1>2, <1>3, Flow DEF Flows, Outside, Passes, Rescues, Finishes, NextStep, Busy, Rendered, AtSome, stepVars

\* Only the clock ends a script that stands before a note for its result.
LEMMA TellEnds ==
  ASSUME TypeOK, [Next]_vars, AtOp({"tell"}), NEW how, NEW json, Finishes(how, json)
  PROVE  json = NoJson
<1>1. /\ NextStep(how, json) /\ Now.do = "tell" /\ Busy /\ op \in 1..Len(Ops) /\ Len(Ops) \in Nat /\ at \in Nat /\ at' = at + 1
      /\ outs'[at] = json
  BY ScriptFacts DEF Finishes, NextStep, TypeOK, AtOp, AtSome
<1>2. ~(\/ CallReboot \/ ExploreNetwork \/ DescribeNothing \/ NeedState \/ DoneInState \/ LearnFromInstance
        \/ AwaitState \/ AwaitTimesOut \/ LoginDone \/ LoginFails \/ CompareBoots \/ CheckGone
        \/ KeyAccepted \/ KeyRejected \/ EndEarly)
  BY <1>1 DEF CallReboot, ExploreNetwork, DescribeNothing, NeedState, DoneInState, LearnFromInstance, Described, AwaitState,
         AwaitTimesOut, Waiting, Waits, LoginDone, LoginFails, CompareBoots, CheckGone, KeyAccepted, KeyRejected, EndEarly, AtOp
<1>3. ~(\/ PassOver \/ CallDone \/ CallLost \/ CallRefused \/ CallUnanswered)
  BY <1>1 DEF PassOver, NoCall, CallDone, CallLost, CallRefused, CallUnanswered, Calling, Changes, Reads, AtOp
<1>4. ~TellResult
  BY <1>1 DEF TellResult, AtOp, Advance, stepVars
<1>5. ~(SkipStep \/ StepWithoutInputs \/ StartScript \/ EndScript \/ RestartStopped \/ Cloud \/ Ended \/ UNCHANGED vars)
  BY <1>1 DEF SkipStep, StepWithoutInputs, StartScript, EndScript, RestartStopped, Cloud, InstanceMoves, InstanceReboots, Ended,
         vars, stepVars, Busy
<1>6. KillStep
  BY <1>2, <1>3, <1>4, <1>5 DEF Next, Executor, Operation
<1>7. outs'[at] = NoJson
  BY <1>6 DEF KillStep, NextStep, TypeOK
<1> QED  BY <1>1, <1>7

\* A script without a cleanup prints at least what it has told.
LEMMA Prints ==
  ASSUME TypeOK, Straight, NEW how, NEW json, Finishes(how, json), json.printed, Plain(Current)
  PROVE  mode = "run" /\ Ops = Current.ops /\ told \subseteq json.told /\ json # NoJson
<1>1. \A tells : Json(tells).told = tells /\ Json(tells).printed
  BY DEF Json
<1>2. json # NoJson
  BY DEF NoJson
<1>3. Busy /\ told \subseteq json.told
  BY <1>1, <1>2 DEF Finishes, EndsWell
<1> QED  BY <1>2, <1>3 DEF Straight, Busy, Ops

LEMMA HandedStep ==
  ASSUME TypeOK, ToldBehind, Ahead, Straight, Handed, [Next]_vars
  PROVE  Handed'
<1>1. suite' = suite /\ Steps' = Steps
  BY SameScript
<1> SUFFICES ASSUME NEW j \in Steps, NEW r \in Resources, First(suite.steps[j].script, r), outs'[j].printed
             PROVE  r \in outs'[j].told
  BY <1>1 DEF Handed
<1>2. CASE outs'[j] = outs[j]
  BY <1>2 DEF Handed
<1>3. CASE j = at /\ at' # at
  <2>1. PICK how, json : Finishes(how, json) /\ outs'[j] = json
    BY <1>3, StepOn
  <2>2. Plain(Current) /\ ~Forgets(Current, r) /\ 1 \in DOMAIN Current.ops /\ Tells(Current.ops[1], r)
        /\ Current.ops[1].do = "tell"
    BY <1>3 DEF First, Current, Tells
  <2>3. mode = "run" /\ Ops = Current.ops /\ told \subseteq json.told /\ json # NoJson
    BY <2>1, <2>2, Prints
  <2>4. op \in 1..(Len(Current.ops) + 1) /\ Len(Current.ops) \in Nat /\ DOMAIN Current.ops = 1..Len(Current.ops)
    BY <2>3, ClaimFacts
  <2>5. op # 1
    <3> SUFFICES ASSUME op = 1 PROVE FALSE
      OBVIOUS
    <3>1. AtOp({"tell"})
      BY <2>2, <2>3, <2>4 DEF AtOp, Busy, Now
    <3> QED  BY <2>1, <2>3, <3>1, TellEnds
  <2>6. ToldBefore(Current, op, r)
    <3>1. 1 \in 1..(op - 1)
      BY <2>4, <2>5
    <3> QED  BY <2>2, <3>1 DEF ToldBefore
  <2>7. ~Forgotten(Current, op, r)
    <3>1. DOMAIN Current.rescue = {}
      BY <2>2 DEF Plain
    <3>2. 1..(op - 1) \subseteq DOMAIN Current.ops
      BY <2>4
    <3> QED  BY <2>2, <3>1, <3>2 DEF Forgotten, Forgets, OpsOf
  <2> QED  BY <2>1, <2>3, <2>6, <2>7 DEF ToldBehind
<1>4. outs'[j] = outs[j] \/ (j = at /\ at' # at)
  <2>1. at \in Nat
    BY ScriptFacts DEF TypeOK
  <2> QED  BY <2>1, StepOn DEF stepVars
<1> QED  BY <1>2, <1>3, <1>4

\* A claim that raises or is passed tells what it made, unless it ends the step.
LEMMA ClaimEnds ==
  ASSUME TypeOK, Plain(Current), Straight, NEW q \in Resources, owner'[q] # owner[q], [Next]_vars,
         AtSome /\ Does(Now, Claiming, q) => Now.fails \in {"raise", "pass"}
  PROVE  \/ CallDone /\ Does(Now, Claiming, q)
         \/ CallLost /\ Does(Now, Claiming, q) /\ \E json : NextStep("failed", json)
<1>1. (CallDone \/ CallLost) /\ Does(Now, Claiming, q) /\ AtSome
  BY OwnerStays, Acts
<1>2. CASE CallLost
  <2>1. Raise("other")
    BY <1>1, <1>2 DEF CallLost, Unanswered
  <2>2. \E json : NextStep("failed", json)
    BY <2>1 DEF Raise, Plain
  <2> QED  BY <1>1, <1>2, <2>2
<1> QED  BY <1>1, <1>2

LEMMA AnnouncedStep ==
  ASSUME TypeOK, Resting, Ahead, Straight, Reserved, Announced, [Next]_vars
  PROVE  Announced'
<1>1. suite' = suite /\ Steps' = Steps /\ Steps = 1..Len(suite.steps) /\ Len(suite.steps) \in Nat /\ at \in Nat
      /\ (at' = at \/ at' = at + 1)
  BY SameScript, ScriptFacts, StepOn DEF TypeOK
<1> SUFFICES ASSUME NEW j \in Steps, NEW q \in Resources, NEW r \in Resources,
                    OnlyIn(suite, q, j), Plain(suite.steps[j].script), ~Forgets(suite.steps[j].script, r),
                    \A o \in OpsOf(suite.steps[j].script) : TellingMake(o, q, r)
             PROVE  /\ j < at' => owner'[q] = "none" \/ r \in outs'[j].told \/ Failed(j)' \/ ~outs'[j].printed
                    /\ j = at' /\ Busy' => owner'[q] = "none" \/ r \in told'
  BY <1>1 DEF Announced
<1>2. CASE j # at
  <2>1. owner'[q] = owner[q]
    <3>1. CallDone \/ CallLost => ~Does(Now, Claiming, q)
      BY <1>2, Acts DEF OnlyIn, Steps
    <3> QED  BY <3>1, OwnerStays
  <2>2. outs'[j] = outs[j] /\ (Failed(j) => Failed(j)')
    BY <1>2, StepOn
  <2>3. CASE j < at
    <3>1. owner[q] = "none" \/ r \in outs[j].told \/ Failed(j) \/ ~outs[j].printed
      BY <2>3 DEF Announced
    <3> QED  BY <1>1, <2>1, <2>2, <2>3, <3>1
  <2>4. CASE j > at
    BY <1>1, <2>4, StepOn DEF Busy
  <2> QED  BY <1>1, <1>2, <2>3, <2>4
<1>3. CASE j = at /\ ~Busy
  <2>1. owner[q] = "none"
    BY <1>1, <1>3 DEF Reserved
  <2>2. owner'[q] = owner[q]
    BY <1>3, Acts, OwnerStays
  <2> QED  BY <2>1, <2>2
<1>4. CASE j = at /\ Busy
  <2>1. /\ Plain(Current) /\ ~Forgets(Current, r) /\ \A o \in OpsOf(Current) : TellingMake(o, q, r)
        /\ owner[q] = "none" \/ r \in told
    BY <1>1, <1>4 DEF Current, Announced
  <2>2. AtSome => TellingMake(Now, q, r) /\ ~(Now.do = "forget" /\ r \in Now.tells)
    BY <2>1, ScriptFacts DEF Forgets
  <2>3. CASE owner'[q] # owner[q]
    <3>1. \/ CallDone /\ Does(Now, Claiming, q)
          \/ CallLost /\ Does(Now, Claiming, q) /\ \E json : NextStep("failed", json)
      BY <2>1, <2>2, <2>3, ClaimEnds DEF TellingMake
    <3>2. CASE CallDone /\ Does(Now, Claiming, q)
      <4>1. r \in Now.tells
        BY <2>2, <3>2, Acts DEF TellingMake
      <4>2. r \in told' /\ at' = at
        BY <3>2, <4>1 DEF CallDone, Advance, stepVars
      <4> QED  BY <1>1, <1>4, <4>2
    <3>3. CASE \E json : NextStep("failed", json)
      <4>1. status'[at] = "failed" /\ at' = at + 1
        BY <1>4, <3>3 DEF NextStep, TypeOK
      <4> QED  BY <1>1, <1>4, <4>1 DEF Failed
    <3> QED  BY <3>1, <3>2, <3>3
  <2>4. CASE owner'[q] = owner[q] /\ r \in told
    <3>1. CASE Outside \/ Passes
      <4>1. r \in told' /\ at' = at
        BY <2>2, <2>4, <3>1 DEF Outside, Passes, scriptVars, stepVars
      <4> QED  BY <1>1, <1>4, <4>1
    <3>2. CASE \E how, json : Finishes(how, json)
      <4>1. PICK how, json : Finishes(how, json)
        BY <3>2
      <4>2. outs'[at] = json /\ at' = at + 1
        BY <1>4, <4>1 DEF Finishes, NextStep, TypeOK
      <4>3. json.printed => r \in json.told
        BY <2>1, <2>4, <4>1, Prints
      <4> QED  BY <1>1, <1>4, <4>2, <4>3
    <3>3. ~Begins /\ ~Rescues
      BY <1>4, <2>1 DEF Begins, Rescues, Plain, Busy, Kinds
    <3> QED  BY <3>1, <3>2, <3>3, Flow DEF Flows
  <2>5. CASE owner'[q] = owner[q] /\ owner[q] = "none"
    BY <2>5
  <2> QED  BY <2>1, <2>3, <2>4, <2>5
<1> QED  BY <1>2, <1>3, <1>4

\* What nothing has done by the next state, nothing has done yet, nor does it now.
LEMMA SparedBack ==
  ASSUME TypeOK, Resting, [Next]_vars, NEW kinds, NEW r, StillSpared(kinds, r)'
  PROVE  StillSpared(kinds, r) /\ (CallDone \/ CallLost => ~Does(Now, kinds, r))
<1>1. suite' = suite /\ at \in Nat /\ (at' = at /\ mode' = mode => Ops' = Ops) /\ (at' = at => Current' = Current)
  BY SameScript DEF TypeOK
<1>2. Busy => /\ Len(Ops) \in Nat /\ DOMAIN Ops = 1..Len(Ops) /\ op \in 1..(Len(Ops) + 1)
              /\ \A m \in 1..(op - 1) : mode = "run" => Ops[m] \in OpsOf(Current)
  <2>1. Busy => Len(Ops) \in Nat /\ DOMAIN Ops = 1..Len(Ops) /\ op \in 1..(Len(Ops) + 1)
    BY ScriptFacts
  <2>2. ASSUME Busy, NEW m \in 1..(op - 1), mode = "run" PROVE Ops[m] \in OpsOf(Current)
    <3>1. m \in DOMAIN Current.ops /\ Ops = Current.ops
      BY <2>1, <2>2 DEF Ops
    <3> QED  BY <3>1 DEF OpsOf
  <2> QED  BY <2>1, <2>2
<1>3. CASE Outside
  <2>1. ~CallDone /\ ~CallLost
    BY <1>3, Acts
  <2> QED  BY <1>1, <1>3, <2>1 DEF Outside, stepVars, StillSpared
<1>4. CASE Begins
  <2>1. ~CallDone /\ ~CallLost
    BY <1>4, Acts DEF Begins, Busy
  <2> QED  BY <1>1, <1>4, <2>1 DEF Begins, stepVars, StillSpared
<1>5. CASE Passes
  <2>1. op' = op + 1 /\ mode' = mode /\ at' = at /\ Busy /\ op \in 1..Len(Ops) /\ Now \in OpsOf(Current)
    BY <1>5, ScriptFacts DEF Passes, stepVars, AtSome
  <2>2. \A j \in 1..(at - 1) : \A o \in OpsOf(suite.steps[j].script) : ~Does(o, kinds, r)
    BY <1>1, <2>1 DEF StillSpared
  <2>3. CASE mode = "run"
    <3>1. \A m \in 1..op : ~Does(Ops[m], kinds, r)
      BY <1>1, <2>1, <2>3 DEF StillSpared
    <3>2. 1..(op - 1) \subseteq 1..op /\ op \in 1..op
      BY <2>1
    <3> QED  BY <2>2, <2>3, <3>1, <3>2 DEF StillSpared, Now
  <2>4. CASE mode = "rescue"
    <3>1. \A o \in OpsOf(Current) : ~Does(o, kinds, r)
      BY <1>1, <2>1, <2>4 DEF StillSpared
    <3> QED  BY <2>1, <2>2, <2>4, <3>1 DEF StillSpared
  <2> QED  BY <2>1, <2>3, <2>4 DEF Busy
<1>6. CASE Rescues
  <2>1. mode = "run" /\ mode' = "rescue" /\ at' = at /\ Busy
    BY <1>6 DEF Rescues, stepVars, Busy
  <2>2. /\ \A j \in 1..(at - 1) : \A o \in OpsOf(suite.steps[j].script) : ~Does(o, kinds, r)
        /\ \A o \in OpsOf(Current) : ~Does(o, kinds, r)
    BY <1>1, <2>1 DEF StillSpared
  <2>3. CallDone \/ CallLost => Now \in OpsOf(Current)
    BY Acts DEF Current
  <2> QED  BY <1>2, <2>1, <2>2, <2>3 DEF StillSpared
<1>7. CASE \E how, json : Finishes(how, json)
  <2>1. at' = at + 1
    BY <1>7 DEF Finishes, NextStep
  <2>2. \A j \in 1..at : \A o \in OpsOf(suite.steps[j].script) : ~Does(o, kinds, r)
    BY <1>1, <2>1 DEF StillSpared
  <2>3. 1..(at - 1) \subseteq 1..at /\ (Busy => at \in 1..at)
    BY <1>1, ScriptFacts
  <2>4. Busy => \A o \in OpsOf(Current) : ~Does(o, kinds, r)
    BY <2>2, <2>3 DEF Current
  <2>5. CallDone \/ CallLost => Now \in OpsOf(Current) /\ Busy
    BY Acts DEF Current
  <2> QED  BY <1>2, <2>2, <2>3, <2>4, <2>5 DEF StillSpared, Busy
<1> QED  BY <1>3, <1>4, <1>5, <1>6, <1>7, Flow DEF Flows

\* An instance that is there is only gone when it was ended, or has died.
LEMMA AliveStays ==
  ASSUME TypeOK, [Next]_vars, CallDone \/ CallLost => ~Does(Now, Ending, "instance"), ~IsGone("instance") \/ died
  PROVE  ~IsGone("instance")' \/ died'
<1>1. cloud \in [Resources -> States] /\ "instance" \in Resources
  BY SuitesAssumption DEF TypeOK
<1>2. CASE died
  BY <1>2, DiedStays
<1>3. CASE ~IsGone("instance")
  <2>1. cloud["instance"] \notin {"absent", "shutting-down", "terminated"}
    BY <1>3 DEF IsGone
  <2>2. cloud'["instance"] \notin {"absent", "shutting-down", "terminated"} => ~IsGone("instance")'
    BY DEF IsGone
  <2>3. CASE UNCHANGED <<cloud, owner>>
    BY <2>1, <2>2, <2>3
  <2>4. CASE AtSome /\ Calling /\ Effect /\ (CallDone \/ CallLost)
    <3>1. CASE "instance" # Now.res
      BY <1>1, <2>1, <2>2, <2>4, <3>1, EffectOnly
    <3>2. CASE "instance" = Now.res
      <4>1. Now.do \notin {"drop", "sweep", "terminate"} /\ WellMade(Now)
        BY <2>4, <3>2, ScriptFacts DEF Does, Ending
      <4>2. Now.do \notin {"adopt", "adopt_any", "fill", "empty", "disable"}
        BY <3>2, <4>1 DEF WellMade
      <4>3. CASE Now.do = "make"
        BY <1>1, <2>2, <2>4, <3>2, <4>3 DEF Effect, Create, New
      <4>4. CASE Now.do \in {"touch", "start_if", "start", "stop"}
        BY <1>1, <2>1, <2>2, <2>4, <3>2, <4>4 DEF Effect, SetCloud, cloudVars
      <4> QED  BY <2>4, <4>1, <4>2, <4>3, <4>4 DEF Effect
    <3> QED  BY <3>1, <3>2
  <2>5. CASE SetCloud("instance", "pending")
    BY <1>1, <2>2, <2>5 DEF SetCloud
  <2>6. CASE \E state : /\ Becomes(state) /\ InstanceState \in {"pending", "stopping", "shutting-down", "terminated"}
                        /\ state \in {"running", "stopped", "terminated", "absent"}
                        /\ InstanceState \in {"pending", "stopping"} /\ state \in {"terminated", "absent"} => died'
    BY <1>1, <2>1, <2>2, <2>6 DEF Becomes, InstanceState
  <2> QED  BY <2>3, <2>4, <2>5, <2>6, CloudStep
<1> QED  BY <1>2, <1>3

\* A script that gets past the making of an instance has made one.
LEMMA PassMakesOne ==
  ASSUME TypeOK, [Next]_vars, Passes, MakesOne(Now)
  PROVE  ~IsGone("instance")'
<1>1. CallDone /\ Now.do = "make" /\ Now.res = "instance"
  BY PassCall DEF MakesOne, Does
<1>2. cloud'["instance"] = "pending"
  BY <1>1, SuitesAssumption DEF CallDone, Effect, Create, New, TypeOK
<1> QED  BY <1>2 DEF IsGone

LEMMA LivelyStep ==
  ASSUME TypeOK, Resting, Lively, [Next]_vars
  PROVE  Lively'
<1>1. suite' = suite /\ Steps' = Steps /\ (at' = at /\ mode' = mode => Ops' = Ops)
  BY SameScript
<1> SUFFICES ASSUME Traced(suite), StillSpared(Ending, "instance")', Named' \/ OneExists
             PROVE  ~IsGone("instance")' \/ died'
  BY <1>1 DEF Lively, OneExists
<1>2. StillSpared(Ending, "instance") /\ (CallDone \/ CallLost => ~Does(Now, Ending, "instance"))
  BY SparedBack
<1>3. CASE Named \/ OneExists
  BY <1>2, <1>3, AliveStays DEF Lively
<1>4. CASE ~Named /\ ~OneExists
  <2>1. /\ "instance" \notin told \cup learnt /\ \A j \in Steps : "instance" \notin outs[j].told
        /\ mode = "run" => \A j \in 1..(op - 1) : ~MakesOne(Ops[j])
    BY <1>4 DEF Named
  <2>2. \A c \in Scripts(suite) :
          /\ \A k \in DOMAIN c.ops : "instance" \in c.ops[k].tells => \E j \in 1..k : MakesOne(c.ops[j])
          /\ \A k \in DOMAIN c.rescue : "instance" \notin c.rescue[k].tells
          /\ \A o \in OpsOf(c) : o.do = "explore" => "instance" \notin o.states
    BY <1>4 DEF Traced, OneExists, MakesOne
  <2>3. ASSUME AtSome, "instance" \in Now.tells PROVE mode = "run" /\ MakesOne(Now)
    <3>1. /\ Current \in Scripts(suite) /\ op \in 1..Len(Ops) /\ DOMAIN Ops = 1..Len(Ops) /\ Busy
      BY <2>3, ScriptFacts DEF AtSome
    <3>2. mode = "run" /\ Ops = Current.ops
      BY <2>2, <2>3, <3>1 DEF Now, Ops, Busy
    <3>3. PICK j \in 1..op : MakesOne(Current.ops[j])
      BY <2>2, <2>3, <3>1, <3>2 DEF Now
    <3>4. j \notin 1..(op - 1)
      BY <2>1, <3>2, <3>3
    <3>5. j = op
      BY <3>1, <3>4
    <3> QED  BY <3>2, <3>3, <3>5 DEF Now
  <2>4. CASE Passes
    <3>1. AtSome /\ op \in 1..Len(Ops) /\ op' = op + 1 /\ mode' = mode /\ outs' = outs /\ Ops' = Ops
          /\ Current \in Scripts(suite) /\ Now \in OpsOf(Current)
      BY <1>1, <2>4, ScriptFacts DEF Passes, AtSome, stepVars
    <3>2. CASE "instance" \in Now.tells
      BY <2>3, <2>4, <3>1, <3>2, PassMakesOne
    <3>3. CASE mode = "run" /\ MakesOne(Now)
      BY <2>4, <3>3, PassMakesOne
    <3>4. CASE "instance" \notin Now.tells /\ ~(mode = "run" /\ MakesOne(Now))
      <4>1. "instance" \notin told' \cup learnt'
        BY <2>1, <2>2, <2>4, <3>1, <3>4 DEF Passes
      <4>2. mode' = "run" => \A j \in 1..(op' - 1) : ~MakesOne(Ops'[j])
        <5>1. \A j \in 1..(op' - 1) : j = op \/ j \in 1..(op - 1)
          BY <3>1
        <5> QED  BY <2>1, <3>1, <3>4, <5>1 DEF Now
      <4>3. ~Named'
        BY <1>1, <2>1, <3>1, <4>1, <4>2 DEF Named
      <4> QED  BY <1>4, <4>3
    <3> QED  BY <3>2, <3>3, <3>4
  <2>5. CASE Outside \/ Begins \/ Rescues
    <3>1. told' = told /\ learnt' = learnt /\ outs' = outs
      BY <2>5 DEF Outside, Begins, Rescues, scriptVars, stepVars
    <3>2. mode' = "run" => \A j \in 1..(op' - 1) : ~MakesOne(Ops'[j])
      BY <1>1, <2>1, <2>5 DEF Outside, Begins, Rescues, stepVars, Resting
    <3>3. ~Named'
      BY <1>1, <2>1, <3>1, <3>2 DEF Named
    <3> QED  BY <1>4, <3>3
  <2>6. CASE \E how, json : Finishes(how, json)
    <3>1. PICK how, json : Finishes(how, json)
      BY <2>6
    <3>2. told' = {} /\ learnt' = {} /\ mode' = "idle" /\ outs' = [outs EXCEPT ![at] = json]
      BY <3>1 DEF Finishes, NextStep
    <3>3. AtOp({"done_if", "keep"}) => "instance" \notin Now.tells
      BY <2>3 DEF AtOp, AtSome, MakesOne, Does
    <3>4. "instance" \notin json.told
      BY <2>1, <3>1, <3>3 DEF Finishes, EndsWell, Json, NoJson, AtOp
    <3>5. ~Named'
      BY <1>1, <2>1, <3>2, <3>4 DEF Named, TypeOK
    <3> QED  BY <1>4, <3>5
  <2> QED  BY <2>4, <2>5, <2>6, Flow DEF Flows
<1> QED  BY <1>3, <1>4

LEMMA SpoiltStays ==
  ASSUME TypeOK, Ahead, [Next]_vars, NEW r, Spoilt(r)
  PROVE  Spoilt(r)'
BY SameScript, StepOn DEF Spoilt

\* A step that fails spoils what it makes or removes.
LEMMA SpoiltBy ==
  ASSUME TypeOK, [Next]_vars, at \in Steps, NEW how \in {"failed", "killed", "norender"}, NEW json, NextStep(how, json),
         NEW r, NEW o \in OpsOf(Current), o.do \in Makers \cup Deletions, o.res \in Chain(r)
  PROVE  Spoilt(r)'
<1>1. status'[at] = how /\ suite' = suite /\ Steps' = Steps
  BY SameScript DEF NextStep, TypeOK
<1>2. Touches(suite.steps[at].script, r)
  BY DEF Touches, Current
<1> QED  BY <1>1, <1>2 DEF Spoilt, Failed

\* A gateway behind its attachment is attached.
LEMMA PassFill ==
  ASSUME TypeOK, [Next]_vars, Passes, NEW r \in Resources, Fills(Now, r), owner[r] = "run"
  PROVE  cloud'[r] = "present"
<1>1. Operation /\ (\A how, json : ~NextStep(how, json)) /\ (\A kind : ~Raise(kind))
  BY Passing
<1>2. AtSome /\ Now.do = "fill" /\ Now.fails = "raise" /\ Now.res = r /\ cloud \in [Resources -> States]
  BY DEF Passes, Fills, Does, TypeOK
<1>3. ~(\/ CallReboot \/ ExploreNetwork \/ DescribeNothing \/ NeedState \/ DoneInState \/ LearnFromInstance
        \/ AwaitState \/ AwaitTimesOut \/ LoginDone \/ LoginFails \/ CompareBoots \/ CheckGone
        \/ KeyAccepted \/ KeyRejected \/ TellResult \/ EndEarly)
  BY <1>2 DEF CallReboot, ExploreNetwork, DescribeNothing, NeedState, DoneInState, LearnFromInstance, Described,
         AwaitState, AwaitTimesOut, Waiting, Waits, LoginDone, LoginFails, CompareBoots, CheckGone, KeyAccepted, KeyRejected,
         TellResult, EndEarly, AtOp
<1>4. ~CallRefused /\ ~CallUnanswered /\ ~CallLost
  BY <1>1, <1>2 DEF Refused, Unanswered, CallRefused, CallUnanswered, CallLost
<1>5. CASE PassOver
  BY <1>2, <1>5 DEF PassOver, NoCall, AtOp, cloudVars
<1>6. CASE CallDone
  BY <1>2, <1>6 DEF CallDone, Effect, SetCloud
<1> QED  BY <1>1, <1>3, <1>4, <1>5, <1>6 DEF Operation

\* Only the making of a gateway, and what empties one, leaves it unattached.
LEMMA Unattaches ==
  ASSUME TypeOK, [Next]_vars, NEW r \in Resources, cloud[r] # "unattached", cloud'[r] = "unattached",
         CallDone \/ CallLost => ~Does(Now, {"empty"}, r)
  PROVE  (CallDone \/ CallLost) /\ Does(Now, {"make"}, r) /\ r = "igw" /\ owner'[r] = "run"
<1>1. cloud \in [Resources -> States] /\ owner \in [Resources -> Owners]
  BY DEF TypeOK
<1>2. AtSome /\ Effect /\ (CallDone \/ CallLost)
  <2>1. ~SetCloud("instance", "pending")
    BY <1>1 DEF SetCloud
  <2>2. ~\E state : Becomes(state) /\ state \in {"running", "stopped", "terminated", "absent"}
    BY <1>1 DEF Becomes
  <2> QED  BY <2>1, <2>2, CloudStep
<1>3. Now.res = r /\ WellMade(Now)
  BY <1>2, EffectOnly, ScriptFacts
<1>4. Now.do # "empty"
  BY <1>2, <1>3 DEF Does
<1>5. CASE Now.do \in {"adopt", "adopt_any"}
  BY <1>1, <1>2, <1>3, <1>5
  DEF Effect, WellMade, AdoptKey, AdoptGroup, TakeOverKey, TakeOverGroup, Create, New, cloudVars
<1>6. CASE Now.do = "make"
  BY <1>1, <1>2, <1>3, <1>6 DEF Effect, Create, New, Does
<1>7. CASE Now.do \notin {"adopt", "adopt_any", "make", "empty"}
  BY <1>1, <1>2, <1>3, <1>7 DEF Effect, SetCloud, cloudVars
<1> QED  BY <1>4, <1>5, <1>6, <1>7

LEMMA AttachedStep ==
  ASSUME TypeOK, Resting, Ahead, Straight, Attached, [Next]_vars
  PROVE  Attached'
<1>1. suite' = suite /\ Steps' = Steps /\ (at' = at /\ mode' = mode => Ops' = Ops)
  BY SameScript
<1> SUFFICES ASSUME NEW r \in Resources, Completed(suite, r), StillSpared({"empty"}, r)', cloud'[r] = "unattached"
             PROVE  /\ r = "igw" /\ owner'[r] = "run"
                    /\ Spoilt(r)' \/ (mode' = "run" /\ \E m \in op'..Len(Ops') : Fills(Ops'[m], r))
  BY <1>1 DEF Attached
<1>2. StillSpared({"empty"}, r) /\ (CallDone \/ CallLost => ~Does(Now, {"empty"}, r))
  BY SparedBack
<1>3. ASSUME Busy, NEW o \in OpsOf(Current), Does(o, {"make", "fill"}, r), r = "igw"
      PROVE  /\ Plain(Current) /\ mode = "run" /\ Ops = Current.ops
             /\ \A k \in DOMAIN Ops : Ops[k].do \notin Exits
             /\ \A k \in DOMAIN Ops : Does(Ops[k], {"make"}, r) => \E m \in (k + 1)..Len(Ops) : Fills(Ops[m], r)
  <2>1. Current \in Scripts(suite)
    BY <1>3, ScriptFacts
  <2>2. /\ Plain(Current)
        /\ \A k \in DOMAIN Current.ops :
             /\ Current.ops[k].do \notin Exits
             /\ Does(Current.ops[k], {"make"}, r) =>
                  \E m \in (k + 1)..Len(Current.ops) : Does(Current.ops[m], {"fill"}, r) /\ Current.ops[m].fails = "raise"
    BY <1>3, <2>1 DEF Completed
  <2>3. mode = "run" /\ Ops = Current.ops
    BY <1>3, <2>2 DEF Straight, Busy, Ops
  <2> QED  BY <2>2, <2>3 DEF Fills
<1>4. CASE cloud[r] = "unattached"
  <2>1. r = "igw" /\ owner[r] = "run" /\ (Spoilt(r) \/ (mode = "run" /\ \E m \in op..Len(Ops) : Fills(Ops[m], r)))
    BY <1>2, <1>4 DEF Attached
  <2>2. owner'[r] = "run"
    <3>1. AtSome /\ Effect => owner'[r] = owner[r] \/ owner'[r] = "run"
      BY EffectOnly
    <3> QED  BY <2>1, <3>1, CloudStep DEF SetCloud, Becomes
  <2>3. CASE Spoilt(r)
    BY <2>1, <2>2, <2>3, SpoiltStays
  <2>4. CASE mode = "run" /\ \E m \in op..Len(Ops) : Fills(Ops[m], r)
    <3>1. PICK m \in op..Len(Ops) : Fills(Ops[m], r)
      BY <2>4
    <3>2. /\ Busy /\ op \in 1..Len(Ops) /\ Len(Ops) \in Nat /\ DOMAIN Ops = 1..Len(Ops) /\ AtSome /\ at \in Steps
          /\ m \in DOMAIN Ops /\ Ops[m] \in OpsOf(Current)
      <4>1. Busy /\ Len(Ops) \in Nat /\ DOMAIN Ops = 1..Len(Ops) /\ op \in 1..(Len(Ops) + 1) /\ at \in Steps /\ Ops = Current.ops
        BY <2>4, ScriptFacts DEF Busy, Ops
      <4>2. op \in 1..Len(Ops) /\ m \in DOMAIN Ops
        BY <3>1, <4>1
      <4> QED  BY <4>1, <4>2 DEF AtSome, OpsOf
    <3>3. /\ Plain(Current) /\ \A k \in DOMAIN Ops : Ops[k].do \notin Exits
      BY <1>3, <2>1, <3>1, <3>2 DEF Fills, Does
    <3>4. CASE Outside
      BY <1>1, <2>1, <2>2, <2>4, <3>1, <3>4 DEF Outside, stepVars
    <3>5. CASE Passes
      <4>1. m # op
        BY <1>4, <2>1, <3>1, <3>5, PassFill DEF Now
      <4>2. op' = op + 1 /\ mode' = "run" /\ Ops' = Ops
        BY <1>1, <2>4, <3>5 DEF Passes, stepVars
      <4>3. m \in op'..Len(Ops')
        BY <3>2, <4>1, <4>2
      <4> QED  BY <2>1, <2>2, <3>1, <4>2, <4>3
    <3>6. CASE \E how, json : Finishes(how, json)
      <4>1. PICK how, json : Finishes(how, json)
        BY <3>6
      <4>2. ~EndsWell(json)
        BY <3>2, <3>3 DEF EndsWell, AtOp, Now, Exits
      <4>3. how \in {"failed", "killed", "norender"} /\ NextStep(how, json)
        BY <3>2, <4>1, <4>2 DEF Finishes, Busy
      <4>4. Ops[m].do \in Makers \cup Deletions /\ Ops[m].res \in Chain(r)
        BY <3>1 DEF Fills, Does, Makers, Chain
      <4> QED  BY <2>1, <2>2, <3>2, <4>3, <4>4, SpoiltBy
    <3>7. ~Begins /\ ~Rescues
      BY <2>4, <3>2, <3>3 DEF Begins, Rescues, Plain, Busy, Kinds
    <3> QED  BY <3>4, <3>5, <3>6, <3>7, Flow DEF Flows
  <2> QED  BY <2>1, <2>3, <2>4
<1>5. CASE cloud[r] # "unattached"
  <2>1. (CallDone \/ CallLost) /\ Does(Now, {"make"}, r) /\ r = "igw" /\ owner'[r] = "run"
    BY <1>2, <1>5, Unattaches
  <2>2. Busy /\ op \in DOMAIN Ops /\ op \in Nat /\ Now \in OpsOf(Current) /\ at \in Steps
    BY <2>1, Acts DEF Current
  <2>3. Plain(Current) /\ mode = "run" /\ \E m \in (op + 1)..Len(Ops) : Fills(Ops[m], r)
    <3>1. Does(Now, {"make", "fill"}, r)
      BY <2>1 DEF Does
    <3> QED  BY <1>3, <2>1, <2>2, <3>1 DEF Now
  <2>4. CASE op' = op + 1 /\ mode' = mode /\ at' = at
    BY <1>1, <2>1, <2>3, <2>4
  <2>5. CASE \E json : NextStep("failed", json)
    <3>1. Now.do \in Makers \cup Deletions /\ Now.res \in Chain(r)
      BY <2>1 DEF Does, Makers, Chain
    <3> QED  BY <2>1, <2>2, <2>5, <3>1, SpoiltBy
  <2>6. (op' = op + 1 /\ mode' = mode /\ at' = at) \/ \E json : NextStep("failed", json)
    BY <2>1, <2>3 DEF CallDone, CallLost, Unanswered, Advance, Faulty, Raise, Plain, stepVars
  <2> QED  BY <2>4, <2>5, <2>6
<1> QED  BY <1>4, <1>5

\* An argument was read from the JSON of an earlier step.
LEMMA RefFacts ==
  ASSUME TypeOK, at \in Steps, NEW ref \in suite.steps[at].refs
  PROVE  ref[1] \in Steps /\ ref[1] \in 1..(at - 1)
<1>1. ref[1] \in 1..(at - 1) /\ Steps = 1..Len(suite.steps) /\ Len(suite.steps) \in Nat
  BY SuitesAssumption, ScriptFacts DEF TypeOK, Steps
<1> QED  BY <1>1

\* An instance that is known, was not ended, and is gone, has died.
LEMMA KnownDied ==
  ASSUME TypeOK, Lively, mode = "run", Traced(suite), Spared(suite, at, op, Ending, "instance"),
         Knows("instance"), IsGone("instance")
  PROVE  died
<1>1. at \in Steps /\ Ops = Current.ops
  BY DEF TypeOK, Busy, Ops
<1>2. StillSpared(Ending, "instance")
  BY <1>1 DEF Spared, StillSpared, Current
<1>3. Named
  BY <1>1, RefFacts DEF Knows, Given, Named
<1> QED  BY <1>2, <1>3 DEF Lively

\* What a script has learnt when it gets past a describe that raises.
LEMMA PassLearn ==
  ASSUME TypeOK, [Next]_vars, Passes, Now.do \in Learning, Now.fails = "raise"
  PROVE  {"sg", "key"} \subseteq learnt' \/ (Knows("instance") /\ IsGone("instance"))
<1>1. Operation /\ (\A how, json : ~NextStep(how, json)) /\ (\A kind : ~Raise(kind))
  BY Passing
<1>2. AtSome /\ Now.do \in {"learn", "find", "look"}
  BY DEF Passes, Learning
<1>3. ~(\/ PassOver \/ CallDone \/ CallLost \/ CallReboot \/ ExploreNetwork \/ NeedState \/ DoneInState
        \/ AwaitState \/ AwaitTimesOut \/ LoginDone \/ LoginFails \/ CompareBoots \/ CheckGone
        \/ KeyAccepted \/ KeyRejected \/ TellResult \/ EndEarly)
  BY <1>2 DEF PassOver, NoCall, CallDone, CallLost, Effect, CallReboot, ExploreNetwork, NeedState, DoneInState, Described,
         AwaitState, AwaitTimesOut, Waiting, Waits, LoginDone, LoginFails, CompareBoots, CheckGone, KeyAccepted,
         KeyRejected, TellResult, EndEarly, AtOp
<1>4. ~CallRefused /\ ~CallUnanswered
  BY <1>1, <1>2 DEF Refused, Unanswered, CallRefused, CallUnanswered
<1>5. CASE DescribeNothing
  BY <1>1, <1>5 DEF DescribeNothing, Leave, IsGone, InstanceState
<1>6. CASE LearnFromInstance
  BY <1>6 DEF LearnFromInstance, Described, IsGone, InstanceState
<1> QED  BY <1>1, <1>3, <1>4, <1>5, <1>6 DEF Operation

\* What it has learnt when it gets past the listing of a network.
LEMMA PassExplore ==
  ASSUME TypeOK, [Next]_vars, Passes, Now.do = "explore", Now.fails = "raise"
  PROVE  /\ learnt' = {r \in Now.states : cloud[r] \notin {"absent", "unattached"}}
         /\ cloud' = cloud /\ owner' = owner
<1>1. Operation /\ (\A how, json : ~NextStep(how, json)) /\ (\A kind : ~Raise(kind))
  BY Passing
<1>2. ~(\/ PassOver \/ CallDone \/ CallLost \/ CallReboot \/ DescribeNothing \/ LearnFromInstance \/ NeedState \/ DoneInState
        \/ AwaitState \/ AwaitTimesOut \/ LoginDone \/ LoginFails \/ CompareBoots \/ CheckGone
        \/ KeyAccepted \/ KeyRejected \/ TellResult \/ EndEarly)
  BY DEF PassOver, NoCall, CallDone, CallLost, Effect, CallReboot, DescribeNothing, LearnFromInstance, NeedState, DoneInState,
         Described, AwaitState, AwaitTimesOut, Waiting, Waits, LoginDone, LoginFails, CompareBoots, CheckGone,
         KeyAccepted, KeyRejected, TellResult, EndEarly, AtOp
<1>3. ~CallRefused /\ ~CallUnanswered
  BY <1>1 DEF Refused, Unanswered, CallRefused, CallUnanswered
<1>4. ExploreNetwork
  BY <1>1, <1>2, <1>3 DEF Operation
<1> QED  BY <1>4 DEF ExploreNetwork, cloudVars

\* The first time r is shown, it is learnt, or there is nothing left to do.
LEMMA RevealedNow ==
  ASSUME TypeOK, Ahead, Lively, Attached, [Next]_vars, Passes, mode = "run", NEW r \in Resources, Reveals(suite, at, op, r)
  PROVE  r \in learnt' \/ Settled(r)' \/ Excused(r)'
<1>1. Ops = Current.ops /\ Now = Current.ops[op] /\ Current = suite.steps[at].script /\ op \in 1..Len(Ops) /\ Len(Ops) \in Nat
      /\ DOMAIN Ops = 1..Len(Ops) /\ op \in 1..(Len(Ops) + 1)
  BY ScriptFacts DEF Passes, AtSome, Ops, Now, Current
<1>2. ASSUME Excused(r) PROVE Excused(r)'
  BY <1>2, ExcusedStays
<1>3. CASE r \in {"sg", "key"} /\ Now.do \in Learning /\ Traced(suite) /\ Spared(suite, at, op, Ending, "instance")
  <2>1. {"sg", "key"} \subseteq learnt' \/ (Knows("instance") /\ IsGone("instance"))
    BY <1>1, <1>3, PassLearn DEF Reveals
  <2>2. Knows("instance") /\ IsGone("instance") => Excused(r)
    BY <1>3, KnownDied DEF Excused
  <2> QED  BY <1>2, <1>3, <2>1, <2>2
<1>4. CASE /\ Now.do = "explore" /\ r \in Now.states /\ Completed(suite, r) /\ Spared(suite, at, op, {"empty"}, r)
           /\ \A o \in OpsOf(Current) : ~Does(o, {"fill"}, r)
  <2>1. /\ learnt' = {q \in Now.states : cloud[q] \notin {"absent", "unattached"}} /\ cloud' = cloud /\ owner' = owner
    BY <1>1, <1>4, PassExplore DEF Reveals
  <2>2. CASE cloud[r] = "absent"
    BY <2>1, <2>2 DEF Settled, IsGone
  <2>3. CASE cloud[r] = "unattached"
    <3>1. StillSpared({"empty"}, r)
      BY <1>1, <1>4 DEF Spared, StillSpared
    <3>2. Spoilt(r) \/ \E m \in op..Len(Ops) : Fills(Ops[m], r)
      BY <1>4, <2>3, <3>1 DEF Attached
    <3>3. \A m \in op..Len(Ops) : Ops[m] \in OpsOf(Current)
      <4>1. \A m \in op..Len(Ops) : m \in DOMAIN Current.ops
        BY <1>1
      <4> QED  BY <1>1, <4>1 DEF OpsOf
    <3>4. Excused(r)
      BY <1>4, <3>2, <3>3 DEF Fills, Does, Excused
    <3> QED  BY <1>2, <3>4
  <2> QED  BY <1>4, <2>1, <2>2, <2>3
<1> QED  BY <1>1, <1>3, <1>4 DEF Reveals

LEMMA RevealedStep ==
  ASSUME TypeOK, Resting, Ahead, Lively, Attached, Revealed, [Next]_vars
  PROVE  Revealed'
<1>1. suite' = suite
  BY SameScript
<1> SUFFICES ASSUME mode' = "run", NEW r \in Resources, Shown(suite, at', op', r)
             PROVE  r \in learnt' \/ Settled(r)' \/ Excused(r)'
  BY <1>1 DEF Revealed
<1>2. ASSUME mode = "run", Shown(suite, at, op, r), learnt' = learnt, CallDone \/ CallLost => ~Revives(Now, r)
      PROVE  r \in learnt' \/ Settled(r)' \/ Excused(r)'
  <2>1. r \in learnt \/ Settled(r) \/ Excused(r)
    BY <1>2 DEF Revealed
  <2> QED  BY <1>2, <2>1, SettledStays, ExcusedStays
<1>3. CASE Outside
  <2>1. ~CallDone /\ ~CallLost
    BY <1>3, Acts
  <2> QED  BY <1>2, <1>3, <2>1 DEF Outside, scriptVars, stepVars
<1>4. CASE Begins
  BY <1>4 DEF Begins, Resting, Shown
<1>5. CASE Passes
  <2>1. op \in 1..Len(Ops) /\ Len(Ops) \in Nat /\ op' = op + 1 /\ mode = "run" /\ at' = at /\ Now = suite.steps[at].script.ops[op]
    BY <1>5, ScriptFacts DEF Passes, AtSome, stepVars, Ops, Now, Current
  <2>2. PICK l \in 1..op : /\ Reveals(suite, at, l, r)
                           /\ \A m \in (l + 1)..op : LET o == suite.steps[at].script.ops[m] IN
                                o.do \notin Learning \cup {"explore"} /\ ~Revives(o, r)
    <3>1. op' - 1 = op
      BY <2>1
    <3> QED  BY <2>1, <3>1 DEF Shown
  <2>3. CASE l = op
    BY <1>5, <2>1, <2>2, <2>3, RevealedNow
  <2>4. CASE l # op
    <3>1. l \in 1..(op - 1) /\ op \in (l + 1)..op /\ (l + 1)..(op - 1) \subseteq (l + 1)..op
      BY <2>1, <2>4
    <3>2. Shown(suite, at, op, r)
      BY <2>2, <3>1 DEF Shown
    <3>3. Now.do \notin Learning \cup {"explore"} /\ ~Revives(Now, r)
      BY <2>1, <2>2, <3>1
    <3>4. learnt' = learnt
      BY <1>5, <3>3 DEF Passes
    <3> QED  BY <1>2, <2>1, <3>2, <3>3, <3>4
  <2> QED  BY <2>3, <2>4
<1> QED  BY <1>3, <1>4, <1>5, Flow DEF Flows, Rescues, Finishes, NextStep

\* A sweep is passed when what it looks for is gone, foreign, or answered for.
LEMMA PassSweep ==
  ASSUME TypeOK, [Next]_vars, Passes, Now.do = "sweep", NEW r, r = Now.res
  PROVE  faulty' \/ Settled(r)' \/ r \in warned' \cup missed'
<1>1. Operation /\ (\A how, json : ~NextStep(how, json)) /\ (\A kind : ~Raise(kind))
  BY Passing
<1>2. /\ AtSome /\ WellMade(Now) /\ cloud \in [Resources -> States] /\ r \in Resources /\ faulty \in BOOLEAN
      /\ "instance" \in Resources
  BY ScriptFacts, SuitesAssumption DEF Passes, TypeOK, WellMade
<1>3. ~(\/ CallReboot \/ ExploreNetwork \/ DescribeNothing \/ NeedState \/ DoneInState \/ LearnFromInstance
        \/ AwaitState \/ AwaitTimesOut \/ LoginDone \/ LoginFails \/ CompareBoots \/ CheckGone
        \/ KeyAccepted \/ KeyRejected \/ TellResult \/ EndEarly)
  BY DEF CallReboot, ExploreNetwork, DescribeNothing, NeedState, DoneInState, LearnFromInstance, Described,
         AwaitState, AwaitTimesOut, Waiting, Waits, LoginDone, LoginFails, CompareBoots, CheckGone, KeyAccepted, KeyRejected,
         TellResult, EndEarly, AtOp
<1>4. CASE PassOver
  BY <1>2, <1>4 DEF PassOver, NoCall, AtOp, cloudVars, Settled, IsGone
<1>5. CASE CallDone
  BY <1>2, <1>5 DEF CallDone, Effect, SetCloud, IsGone, Settled
<1>6. CASE CallRefused
  BY <1>1, <1>2, <1>6 DEF CallRefused, Refused, Faulty, Unreported, Ending, WellMade
<1>7. CASE CallUnanswered \/ CallLost
  BY <1>1, <1>2, <1>7 DEF CallUnanswered, CallLost, Unanswered, Faulty, Unreported, Ending, WellMade
<1> QED  BY <1>1, <1>3, <1>4, <1>5, <1>6, <1>7 DEF Operation

\* A script that comes to the removal of r can name r, or need not remove it.
LEMMA AtHandKnown ==
  ASSUME TypeOK, ToldBehind, Rendered, Handed, Announced, Revealed, AtSome, err = "none",
         NEW r \in Resources, Removes(suite, at, mode, op, r)
  PROVE  Now.do = "sweep" \/ Knows(r) \/ Settled(r) \/ Excused(r)
<1>1. Busy /\ at \in Steps /\ Current = suite.steps[at].script /\ Ops = Line(Current, mode) /\ mode \in {"run", "rescue"}
  BY DEF AtSome, TypeOK, Busy, Current, Ops, Line
<1>2. CASE Now.do = "sweep"
  BY <1>2
<1>3. ASSUME NEW past, past = IF mode = "run" THEN op ELSE Len(Current.ops) + 1, ToldBefore(Current, past, r),
             ~Forgotten(Current, past, r)
      PROVE  Knows(r)
  <2>1. r \in told
    BY <1>1, <1>3 DEF ToldBehind
  <2> QED  BY <2>1 DEF Knows
<1>4. ASSUME NEW ref \in suite.steps[at].refs, ref[2] = r, HandsOver(suite, ref[1], r)
      PROVE  Knows(r) \/ Settled(r) \/ Excused(r)
  <2> DEFINE j == ref[1]
             c == suite.steps[j].script
  <2>1. j \in Steps /\ j \in 1..(at - 1) /\ outs[j].printed /\ r \in outs[j].told \cup c.fields
    BY <1>1, <1>4, RefFacts DEF Rendered, Renders
  <2>2. r \in outs[j].told => Knows(r)
    BY <1>4 DEF Knows, Given
  <2>3. CASE r \notin c.fields
    BY <2>1, <2>2, <2>3
  <2>4. CASE First(c, r)
    BY <2>1, <2>2, <2>4 DEF Handed
  <2>5. ASSUME NEW q \in {r} \cup Users(r), q \in Resources, q = r \/ r = "role", OnlyIn(suite, q, j), Plain(c),
               ~Forgets(c, r), Touches(c, r), \A o \in OpsOf(c) : TellingMake(o, q, r)
        PROVE  Knows(r) \/ Settled(r) \/ Excused(r)
    <3>1. j < at
      BY <2>1 DEF TypeOK
    <3>2. owner[q] = "none" \/ r \in outs[j].told \/ Failed(j)
      BY <2>1, <2>5, <3>1 DEF Announced
    <3>3. CASE Failed(j)
      BY <2>1, <2>5, <3>3 DEF Excused, Spoilt
    <3>4. CASE owner[q] = "none" /\ q = r
      BY <3>4 DEF Settled
    <3>5. CASE owner[q] = "none" /\ q # r
      <4>1. r = "role" /\ q = "profile"
        BY <2>5, <3>5 DEF Users
      <4> QED  BY <2>1, <2>5, <3>5, <4>1 DEF Excused, Orphan
    <3> QED  BY <2>2, <3>2, <3>3, <3>4, <3>5
  <2> HIDE DEF j, c
  <2>6. \/ r \notin c.fields
        \/ First(c, r)
        \/ \E q \in {r} \cup Users(r) :
             /\ q \in Resources /\ (q = r \/ r = "role") /\ OnlyIn(suite, q, j)
             /\ Plain(c) /\ ~Forgets(c, r) /\ Touches(c, r)
             /\ \A o \in OpsOf(c) : TellingMake(o, q, r)
    BY <1>4 DEF HandsOver, First, TellingMake, j, c
  <2> QED  BY <2>3, <2>4, <2>5, <2>6
<1>5. CASE mode = "run" /\ Shown(suite, at, op, r)
  <2>1. r \in learnt \/ Settled(r) \/ Excused(r)
    BY <1>5 DEF Revealed
  <2> QED  BY <2>1 DEF Knows
<1>6. AtHand(suite, at, mode, op, r)
  BY DEF Removes
<1>7. Line(suite.steps[at].script, mode)[op] = Now
  BY <1>1 DEF Now
<1> QED  BY <1>1, <1>2, <1>3, <1>4, <1>5, <1>6, <1>7 DEF AtHand

\* A removal is passed when r is done with, excused, or the step will fail.
LEMMA RemovedNow ==
  ASSUME TypeOK, Ahead, ToldBehind, Rendered, Handed, Announced, Revealed, [Next]_vars, Passes, err = "none",
         NEW r \in Resources, Removes(suite, at, mode, op, r)
  PROVE  Settled(r)' \/ Excused(r)' \/ faulty'
<1>1. AtSome /\ mode \in {"run", "rescue"} /\ Ops = Line(suite.steps[at].script, mode) /\ at' = at /\ outs' = outs /\ suite' = suite
  BY SameScript DEF Passes, AtSome, Busy, Ops, Line, Current, stepVars
<1>2. Does(Now, Ending, r)
  BY <1>1 DEF Removes, Now
<1>3. Settled(r) => Settled(r)'
  <2>1. ~Revives(Now, r)
    BY <1>2 DEF Revives, Does, Ending, Claiming
  <2> QED  BY <2>1, SettledStays
<1>4. Excused(r) => Excused(r)'
  BY ExcusedStays
<1>5. r \in warned' \cup missed' => Excused(r)'
  BY DEF Excused
<1>6. CASE Now.do = "sweep"
  <2>1. Now.res = r
    BY <1>2 DEF Does
  <2>2. faulty' \/ Settled(r)' \/ r \in warned' \cup missed'
    BY <1>6, <2>1, PassSweep
  <2> QED  BY <1>5, <2>2
<1>7. CASE Now.do # "sweep" /\ Knows(r)
  <2>1. Now.res = r /\ Now.do \in Removals
    BY <1>2, <1>7 DEF Does, Ending, Removals
  <2>2. faulty' \/ IsGone(r)' \/ r \in warned' \cup missed'
    BY <1>7, <2>1, PassRemoval
  <2> QED  BY <1>5, <2>2 DEF Settled
<1> QED  BY <1>1, <1>3, <1>4, <1>6, <1>7, AtHandKnown

LEMMA RemovedStep ==
  ASSUME TypeOK, Resting, Ahead, ToldBehind, Rendered, Handed, Announced, Revealed, Removed, [Next]_vars
  PROVE  Removed'
<1>1. suite' = suite /\ (at' = at => Current' = Current) /\ (at' = at /\ mode' = mode => Ops' = Ops)
  BY SameScript
<1> SUFFICES ASSUME Busy', NEW r \in Resources, NEW stage \in {"run", "rescue"}, NEW k \in DOMAIN Line(Current', stage),
                    Removes(suite, at', stage, k, r), Past(stage, k)'
             PROVE  Settled(r)' \/ Excused(r)' \/ faulty'
  BY <1>1 DEF Removed
<1>2. ASSUME Busy, at' = at, Past(stage, k), faulty => faulty', CallDone \/ CallLost => ~Revives(Now, r)
      PROVE  Settled(r)' \/ Excused(r)' \/ faulty'
  <2>1. Settled(r) \/ Excused(r) \/ faulty
    BY <1>1, <1>2 DEF Removed
  <2> QED  BY <1>2, <2>1, SettledStays, ExcusedStays
<1>3. CASE Outside
  <2>1. ~CallDone /\ ~CallLost /\ Busy
    BY <1>3, Acts DEF Outside, Busy
  <2>2. Past(stage, k)
    BY <1>3 DEF Outside, scriptVars, Past
  <2> QED  BY <1>2, <1>3, <2>1, <2>2 DEF Outside, scriptVars, stepVars
<1>4. CASE Begins
  <2>1. mode' = "run" /\ op' = 1 /\ at' = at /\ at \in Steps
    BY <1>4 DEF Begins, Resting, stepVars
  <2>2. Sound(Current) /\ stage = "run" /\ op' > k
    BY <2>1, ScriptFacts DEF Past, Current
  <2>3. k \in 1..Len(Current.ops)
    BY <1>1, <2>1, <2>2 DEF Line, Sound
  <2> QED  BY <2>1, <2>2, <2>3
<1>5. CASE Passes
  <2>1. /\ Busy /\ AtSome /\ op \in 1..Len(Ops) /\ Len(Ops) \in Nat /\ op' = op + 1 /\ mode' = mode /\ at' = at /\ err' = err
        /\ Sound(Current) /\ Current = suite.steps[at].script /\ (faulty => faulty') /\ err = "none"
        /\ Ops = Line(Current, mode) /\ DOMAIN Ops = 1..Len(Ops)
    BY <1>5, ScriptFacts DEF Passes, AtSome, stepVars, Past, Ops, Line, Busy, Current
  <2>2. k \in DOMAIN Line(Current, stage) /\ k \in Nat
    BY <1>1, <2>1 DEF Line, Sound
  <2>3. CASE stage = mode /\ k = op
    BY <1>5, <2>1, <2>3, RemovedNow
  <2>4. CASE stage = mode /\ k # op
    <3>1. op > k /\ op \in (k + 1)..Len(Line(Current, stage))
      BY <2>1, <2>2, <2>4 DEF Past
    <3>2. ~Revives(Now, r)
      BY <2>1, <2>4, <3>1 DEF Removes, Now
    <3> QED  BY <1>2, <2>1, <2>4, <3>1, <3>2 DEF Past
  <2>5. CASE stage # mode
    <3>1. stage = "run" /\ mode = "rescue"
      BY <2>1, <2>5 DEF Past
    <3>2. ~Revives(Now, r)
      BY <2>1, <3>1 DEF Removes, Now, Line
    <3> QED  BY <1>2, <2>1, <3>1, <3>2 DEF Past
  <2> QED  BY <2>3, <2>4, <2>5
<1>6. CASE Rescues
  <2>1. mode = "run" /\ mode' = "rescue" /\ op' = 1 /\ at' = at /\ faulty' = faulty /\ err' = "none" /\ err = "none"
        /\ op > Len(Ops) /\ Busy
    BY <1>6 DEF Rescues, stepVars, Past, Kinds, Busy
  <2>2. Len(Ops) \in Nat /\ op \in 1..(Len(Ops) + 1) /\ Ops = Current.ops /\ Sound(Current)
    BY <2>1, ScriptFacts DEF Ops
  <2>3. stage = "run"
    <3> SUFFICES ASSUME stage = "rescue" PROVE FALSE
      OBVIOUS
    <3>1. k \in 1..Len(Current.rescue) /\ Len(Current.rescue) \in Nat
      BY <1>1, <2>1, <2>2 DEF Line, Sound
    <3> QED  BY <2>1, <3>1 DEF Past
  <2>4. k \in 1..Len(Ops)
    BY <1>1, <2>1, <2>2, <2>3 DEF Line, Sound
  <2>5. Past(stage, k)
    BY <2>1, <2>2, <2>3, <2>4 DEF Past
  <2>6. ~CallDone /\ ~CallLost
    BY <2>1, <2>2, Acts
  <2> QED  BY <1>2, <2>1, <2>5, <2>6
<1> QED  BY <1>3, <1>4, <1>5, <1>6, Flow DEF Flows, Finishes, NextStep, Busy

\* A removing step that ends leaves r done with, or has an excuse.
LEMMA AnsweredNow ==
  ASSUME TypeOK, Resting, Ahead, Reserved, Lively, Removed, [Next]_vars, NEW how, NEW json, Finishes(how, json),
         NEW r \in Resources, NEW stage \in {"run", "rescue"}, NEW k \in DOMAIN Line(suite.steps[at].script, stage),
         Removes(suite, at, stage, k, r)
  PROVE  Settled(r)' \/ Excused(r)'
<1>1. NextStep(how, json) /\ at \in Steps /\ Current = suite.steps[at].script /\ Sound(Current) /\ k \in DOMAIN Line(Current, stage)
      /\ Steps = 1..Len(suite.steps) /\ Len(suite.steps) \in Nat
  BY ScriptFacts DEF Finishes, Current
<1>2. CASE how \in {"failed", "killed", "norender"}
  <2>1. Does(Line(Current, stage)[k], Ending, r) /\ Line(Current, stage)[k] \in OpsOf(Current)
    BY <1>1 DEF Removes, Line, OpsOf
  <2>2. Line(Current, stage)[k].do \in Makers \cup Deletions /\ Line(Current, stage)[k].res \in Chain(r)
    BY <2>1 DEF Does, Ending, Deletions, Chain
  <2>3. Spoilt(r)'
    BY <1>1, <1>2, <2>1, <2>2, SpoiltBy
  <2> QED  BY <2>3 DEF Excused
<1>3. CASE how = "skipped"
  <2>1. mode = "idle" /\ Skipped(at)
    BY <1>3 DEF Finishes
  <2>2. suite.steps[at].phase # "teardown" /\ at # 1
    BY <1>1, <2>1 DEF Skipped, Phase
  <2>3. OnlyIn(suite, r, at)
    BY <2>2 DEF Removes
  <2>4. owner[r] = "none"
    BY <1>1, <2>1, <2>3 DEF Reserved, Busy
  <2>5. ~CallDone /\ ~CallLost
    BY <2>1, Acts DEF Busy
  <2>6. owner'[r] = owner[r]
    BY <2>5, OwnerStays
  <2> QED  BY <2>4, <2>6 DEF Settled
<1>4. CASE how = "ok"
  <2>1. EndsWell(json) /\ Busy
    BY <1>4 DEF Finishes, EndsWell, NoJson
  <2>2. Len(Ops) \in Nat /\ op \in 1..(Len(Ops) + 1) /\ DOMAIN Ops = 1..Len(Ops)
    BY <2>1, ScriptFacts
  <2>3. CASE op > Len(Ops) /\ err = "none" /\ ~faulty /\ (mode = "run" => ~Current.always)
    <3>1. Past(stage, k)
      <4>1. CASE mode = stage
        <5>1. Ops = Line(Current, stage)
          BY <2>1, <4>1 DEF Ops, Line
        <5> QED  BY <1>1, <2>2, <2>3, <4>1, <5>1 DEF Past
      <4>2. CASE mode = "run" /\ stage = "rescue"
        BY <1>1, <2>3, <4>2 DEF Removes
      <4> QED  BY <2>1, <2>3, <4>1, <4>2 DEF Busy, Past
    <3>2. Settled(r) \/ Excused(r)
      BY <1>1, <2>1, <2>3, <3>1 DEF Removed
    <3>3. ~CallDone /\ ~CallLost
      BY <2>2, <2>3, Acts
    <3> QED  BY <3>2, <3>3, SettledStays, ExcusedStays
  <2>4. CASE AtSome /\ Now.do \in Exits
    <3>1. op \in DOMAIN Ops
      BY <2>2, <2>4 DEF AtSome
    <3>2. mode = "run" /\ Ops = Current.ops /\ Now = Current.ops[op]
      BY <1>1, <2>1, <2>4, <3>1 DEF Sound, Ops, Now, Busy
    <3>3. \/ Now.do = "keep"
          \/ Now.do = "find" /\ r \in {"instance", "sg", "key"} /\ Traced(suite) /\ Spared(suite, at, op, Ending, "instance")
      BY <1>1, <2>4, <3>1, <3>2 DEF Removes
    <3>4. ~Revives(Now, r)
      BY <2>4 DEF Revives, Does, Exits, Claiming
    <3>5. CASE Now.do = "keep"
      <4>1. skip
        BY <2>1, <2>2, <2>4, <3>5 DEF EndsWell, AtOp, AtSome
      <4> QED  BY <4>1, ExcusedStays DEF Excused
    <3>6. CASE /\ Now.do = "find" /\ r \in {"instance", "sg", "key"} /\ Traced(suite)
               /\ Spared(suite, at, op, Ending, "instance")
      <4>1. Knows("instance") /\ IsGone("instance")
        BY <2>1, <2>2, <2>4, <3>6 DEF EndsWell, AtOp, AtSome, IsGone, InstanceState
      <4>2. CASE r = "instance"
        BY <3>4, <4>1, <4>2, SettledStays DEF Settled
      <4>3. CASE r \in {"sg", "key"}
        <5>1. died
          BY <3>2, <3>6, <4>1, KnownDied
        <5>2. Excused(r)
          BY <4>3, <5>1 DEF Excused
        <5> QED  BY <5>2, ExcusedStays
      <4> QED  BY <3>6, <4>2, <4>3
    <3> QED  BY <3>3, <3>5, <3>6
  <2>5. \/ op > Len(Ops) /\ err = "none" /\ ~faulty /\ (mode = "run" => ~Current.always)
        \/ AtSome /\ Now.do \in Exits
    BY <2>1 DEF EndsWell, AtOp, AtSome, Exits
  <2> QED  BY <2>3, <2>4, <2>5
<1> QED  BY <1>2, <1>3, <1>4 DEF Finishes

LEMMA AnsweredStep ==
  ASSUME TypeOK, Resting, Ahead, Reserved, Lively, Removed, Answered, [Next]_vars
  PROVE  Answered'
<1>1. suite' = suite /\ at \in Nat /\ (at' = at \/ at' = at + 1)
  BY SameScript, StepOn DEF TypeOK
<1> SUFFICES ASSUME NEW i \in 1..(at' - 1), NEW r \in Resources, NEW stage \in {"run", "rescue"},
                    NEW k \in DOMAIN Line(suite.steps[i].script, stage), Removes(suite, i, stage, k, r)
             PROVE  Settled(r)' \/ Excused(r)'
  BY <1>1 DEF Answered
<1>2. CASE i \in 1..(at - 1)
  <2>1. Settled(r) \/ Excused(r)
    BY <1>2 DEF Answered
  <2>2. CallDone \/ CallLost => ~Revives(Now, r)
    <3>1. CallDone \/ CallLost => at \in (i + 1)..Len(suite.steps) /\ Now \in OpsOf(suite.steps[at].script)
      <4>1. CallDone \/ CallLost => at \in 1..Len(suite.steps) /\ Now \in OpsOf(suite.steps[at].script)
        BY Acts
      <4> QED  BY <1>2, <4>1, ScriptFacts
    <3> QED  BY <3>1 DEF Removes
  <2> QED  BY <2>1, <2>2, SettledStays, ExcusedStays
<1>3. CASE i \notin 1..(at - 1)
  <2>1. i = at /\ at' # at
    BY <1>1, <1>3
  <2>2. PICK how, json : Finishes(how, json)
    BY <2>1, StepOn
  <2> QED  BY <2>1, <2>2, AnsweredNow
<1> QED  BY <1>2, <1>3

------------------------------------------------------------------------------
(* The theorems.                                                           *)

\* Every variable keeps its type, and between two steps no script has state.
THEOREM TypeCorrect == Spec => []TypeOK
<1>1. TypeOK /\ Resting /\ [Next]_vars => (TypeOK /\ Resting)'
  BY TypeStep
<1> QED  BY TypeInit, <1>1, PTL DEF Spec

\* A step is left out for want of an argument only after another step failed:
\* what steps read, the step they read it from has printed if it ended well.
THEOREM InputsComeFromSuccess == Spec => []InputsFromSuccess
<1>1. Init => InputsInv
  <2> SUFFICES ASSUME Init PROVE InputsInv
    OBVIOUS
  <2>1. status = [i \in Steps |-> "open"] /\ mode = "idle"
    BY DEF Init, Steps
  <2> QED  BY <2>1 DEF InputsInv, ToldBehind, PromisesKept, Ahead, InputsFromSuccess
<1>2. TypeOK /\ Resting /\ InputsInv /\ [Next]_vars => (TypeOK /\ Resting /\ InputsInv)'
  BY TypeStep, InputsStep
<1>3. InputsInv => InputsFromSuccess
  BY DEF InputsInv
<1> QED  BY TypeInit, <1>1, <1>2, <1>3, PTL DEF Spec

\* Nothing a suite does touches what belongs to somebody else, however calls,
\* answers and timeouts fall.
THEOREM ForeignKept == Spec => ForeignUntouched
<1>1. Init => Kept
  <2> SUFFICES ASSUME Init, NEW r \in Resources, owner[r] = "foreign"
               PROVE  /\ cloud[r] # "absent" /\ (r = "instance" => cloud[r] \in {"running", "stopped"})
                      /\ Aloof(suite, r)
                      /\ r \in {"sg", "key"} => cloud["instance"] = "absent" \/ ~Learns(suite)
                      /\ r \notin told \cup learnt /\ \A i \in Steps : r \notin outs[i].told
                      /\ mode = "run" => \A j \in 1..(op - 1) : ~Adopts(Ops[j], r)
    BY DEF Kept
  <2>1. told = {} /\ learnt = {} /\ mode = "idle" /\ outs = [i \in Steps |-> NoJson] /\ suite \in Suites
    BY DEF Init, Steps
  <2>2. PICK account \in suite.accounts : cloud = account.cloud /\ owner = account.owner
    BY DEF Init
  <2> QED  BY <2>1, <2>2, ForeignAssumption DEF NoJson
<1>2. TypeOK /\ Resting /\ Kept /\ [Next]_vars => (TypeOK /\ Resting /\ Kept)'
  BY TypeStep, KeptStep
<1>3. TypeOK /\ Kept /\ [Next]_vars =>
        [\A r \in Resources : owner[r] = "foreign" => cloud'[r] = cloud[r] /\ owner'[r] = "foreign"]_vars
  BY Untouched
<1> QED  BY TypeInit, <1>1, <1>2, <1>3, PTL DEF Spec, ForeignUntouched

\* What a step that ends well claims - the instance stopped, running, booted
\* again, the key disabled, what a teardown was given gone, or named in its JSON as
\* not deleted, snapshots excepted - is true of the account when it is printed.
THEOREM ClaimsTrue == Spec => ClaimsAreTrue
<1>1. Init => ClaimsInv
  BY DEF Init, ClaimsInv, Sourced, Straight, Seen, Borne, Cleared, Busy
<1>2. TypeOK /\ Resting /\ ClaimsInv /\ [Next]_vars => (TypeOK /\ Resting /\ ClaimsInv)'
  BY TypeStep, ClaimsStep
<1>3. TypeOK /\ ClaimsInv /\ [Next]_vars =>
        [/\ EndsWith("stopped") => cloud["instance"] = "stopped"
         /\ EndsWith("running") => cloud["instance"] = "running"
         /\ EndsWith("rebooted") => booted
         /\ EndsWith("inactive") => cloud["access_key"] = "inactive"
         /\ EndsWith("verified") => \A r \in Targets : Knows(r) => IsGone(r)
         /\ EndsWith("destroyed") => \A r \in Targets : Knows(r) => IsGone(r) \/ r \in warned \cup (missed \cap Logged)]_vars
  BY ClaimsHold
<1> QED  BY TypeInit, <1>1, <1>2, <1>3, PTL DEF Spec, ClaimsAreTrue

\* When a suite has ended, nothing it made or took over is left - unless it was
\* asked to keep it, a result names it, a script passed its failed deletion over, a
\* step that makes or removes it did not end well, or the instance through which it is found had
\* ended on its own.
THEOREM LeftoversExplained == Spec => []LeftoversHaveCause
<1> DEFINE Inv == /\ TypeOK /\ Resting /\ InputsInv /\ ClaimsInv /\ Reserved /\ Rendered /\ Handed /\ Announced
                  /\ Lively /\ Attached /\ Revealed /\ Removed /\ Answered
<1>1. Init => Inv
  <2> SUFFICES ASSUME Init PROVE Inv
    OBVIOUS
  <2>1. /\ status = [i \in Steps |-> "open"] /\ outs = [i \in Steps |-> NoJson] /\ mode = "idle" /\ at = 1
        /\ told = {} /\ learnt = {} /\ ~Busy /\ suite \in Suites
    BY DEF Init, Steps, Busy
  <2>2. PICK account \in suite.accounts : cloud = account.cloud /\ owner = account.owner
    BY DEF Init
  <2>3. InputsInv
    BY <2>1 DEF InputsInv, ToldBehind, PromisesKept, Ahead, InputsFromSuccess
  <2>4. ClaimsInv
    BY <2>1 DEF ClaimsInv, Sourced, Straight, Seen, Borne, Cleared
  <2>5. Reserved
    BY <2>2 DEF Reserved, OnlyIn
  <2>6. Rendered /\ Handed /\ Announced /\ Revealed /\ Removed /\ Answered
    BY <2>1 DEF Rendered, Handed, Announced, Revealed, Removed, Answered, NoJson
  <2>7. Lively
    <3>1. ~Named
      BY <2>1 DEF Named, NoJson
    <3> QED  BY <2>2, <3>1 DEF Lively, OneExists, IsGone
  <2>8. Attached
    BY <2>2 DEF Attached, Completed
  <2> QED  BY <2>3, <2>4, <2>5, <2>6, <2>7, <2>8, TypeInit
<1>2. Inv /\ [Next]_vars => Inv'
  <2> SUFFICES ASSUME Inv, [Next]_vars PROVE Inv'
    OBVIOUS
  <2>1. TypeOK' /\ Resting' /\ InputsInv' /\ ClaimsInv'
    BY TypeStep, InputsStep, ClaimsStep
  <2>2. ToldBehind /\ Ahead /\ Straight
    BY DEF InputsInv, ClaimsInv
  <2>3. Reserved' /\ Rendered' /\ Handed' /\ Announced'
    BY <2>2, ReservedStep, RenderedStep, HandedStep, AnnouncedStep
  <2>4. Lively' /\ Attached' /\ Revealed'
    BY <2>2, LivelyStep, AttachedStep, RevealedStep
  <2>5. Removed' /\ Answered'
    BY <2>2, RemovedStep, AnsweredStep
  <2> QED  BY <2>1, <2>3, <2>4, <2>5
<1>3. Inv => LeftoversHaveCause
  <2> SUFFICES ASSUME Inv, at > Len(suite.steps), NEW r \in Resources \ Unclaimed, owner[r] \in {"run", "suite"}, ~IsGone(r)
               PROVE  \/ skip \/ r \in warned \cup missed
                      \/ r \in {"sg", "key"} /\ died
                      \/ \E i \in Steps : Interrupted(i, r)
    BY DEF LeftoversHaveCause
  <2>1. r # "new_root" /\ (r = "role" => owner["profile"] # "none") /\ suite \in Suites
    BY DEF Unclaimed, TypeOK
  <2>2. Len(suite.steps) \in Nat /\ Steps = 1..Len(suite.steps) /\ at \in Nat
    BY ScriptFacts DEF TypeOK
  <2>3. ~OnlyIn(suite, r, 0)
    BY <2>2 DEF Reserved, Busy
  <2>4. PICK i \in DOMAIN suite.steps : \E stage \in {"run", "rescue"} :
               \E k \in DOMAIN Line(suite.steps[i].script, stage) : Removes(suite, i, stage, k, r)
    BY <2>1, <2>3, RemovalAssumption
  <2>5. i \in 1..(at - 1)
    BY <2>2 DEF Steps
  <2>6. Excused(r)
    BY <2>4, <2>5 DEF Answered, Settled
  <2>7. ~Orphan(r)
    BY <2>1 DEF Orphan
  <2>8. Spoilt(r) => \E j \in Steps : Interrupted(j, r)
    BY DEF Spoilt, Failed, Interrupted
  <2> QED  BY <2>6, <2>7, <2>8 DEF Excused
<1> QED  BY <1>1, <1>2, <1>3, PTL DEF Spec
==============================================================================
