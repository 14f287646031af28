--------------------------- MODULE LifecycleProofs ---------------------------
(***************************************************************************)
(* For every set of configurations: what holds when a run returns, what is *)
(* started after a failure, that cleanup which is owed is done, and that   *)
(* the run, step by step, implements Lifecycle.                            *)
(***************************************************************************)
EXTENDS OrchestratorProofs

\* Nothing has happened before the loop.
Untouched == pc = "start" =>
  (\A s \in Steps : tried[s] = "idle") /\ (\A e \in Entries : resolved[e] = "open")

\* While a phase other than teardown is still reaching steps, the only failures
\* of the run are steps of this phase that may fail.
OnlyTolerated == pc = "steps" /\ ~IsTeardown =>
  /\ \A t \in Steps : StepFailed(t) => cfg.steps[t].cont /\ cfg.steps[t].phase = Current
  /\ \A e \in Entries : ~Bad(e)

\* After the loop every validation has its outcome.
Settled == pc = "merge" \/ Returned => \A e \in Entries : resolved[e] \in Terminal

\* Only a refused configuration leaves a result of its own kind.
NotRefused == pc # "done" => \A r \in phaseResults : r.kind # "config"

\* The overall flag is the conjunction of the phase results; a phase without
\* steps or validations leaves none, and cannot have failed.
PhasesAgree ==
  /\ pc \notin {"done", "aborted"} => (overallSuccess <=> \A r \in phaseResults : r.success)
  /\ InPhase /\ PhaseSteps = {} => stepsOk
  /\ ResultMatchesPhases

LoopInv == HonestInv /\ Untouched /\ OnlyTolerated /\ Settled /\ NotRefused /\ PhasesAgree

LEMMA LoopInit == Init => LoopInv
<1> SUFFICES ASSUME Init PROVE LoopInv
  OBVIOUS
<1>1. HonestInv
  BY HonestInit
<1>2. QED
  BY <1>1 DEF Init, LoopInv, Untouched, OnlyTolerated, Settled, NotRefused, PhasesAgree, InPhase,
              Returned, ResultMatchesPhases

LEMMA ConfigKept == [Next]_vars => cfg' = cfg
BY DEF Next, Progress, Step, Stopped, UnconfiguredPlatform, RejectConfig, StartPhases, PassOverPhase,
       SkipCurrentPhase, EnterPhase, RunStep, StepWithoutInputs, StepsDone, ResolvePhase, RunPytest,
       FinishPhase, ResolveRemaining, Finish, Abort, vars

LEMMA UntouchedStep == LoopInv /\ [Next]_vars => Untouched'
<1> SUFFICES ASSUME LoopInv, [Next]_vars PROVE Untouched'
  OBVIOUS
<1> USE DEF stepVars, entryVars, runVars, outVars
<1>1. CASE UNCHANGED vars
  BY <1>1 DEF vars, LoopInv, Untouched, Steps, Entries
<1>2. CASE Step
  BY <1>2 DEF Step, RunStep, StepWithoutInputs, RecordStep, Untouched
<1>3. QED
  BY <1>1, <1>2
     DEF Next, Progress, Stopped, UnconfiguredPlatform, RejectConfig, StartPhases, PassOverPhase,
         SkipCurrentPhase, EnterPhase, StepsDone, ResolvePhase, RunPytest, FinishPhase,
         ResolveRemaining, Finish, Abort, Untouched

\* A step that ends lets its phase go on only if it is tolerated; a phase that
\* starts outside teardown starts on a clean run.
LEMMA OnlyToleratedStep == LoopInv /\ [Next]_vars => OnlyTolerated'
<1> SUFFICES ASSUME LoopInv, [Next]_vars, pc' = "steps", ~IsTeardown'
             PROVE  /\ (\A t \in Steps : StepFailed(t) => cfg.steps[t].cont /\ cfg.steps[t].phase = Current)'
                    /\ (\A e \in Entries : ~Bad(e))'
  BY DEF OnlyTolerated
<1> USE DEF stepVars, entryVars, runVars, outVars
<1>0. cfg' = cfg
  BY ConfigKept
<1>1. CASE EnterPhase
  <2>1. pc = "phase" /\ ~SkipPhase /\ UNCHANGED <<ph, tried, resolved>>
    BY <1>1 DEF EnterPhase
  <2>2. overallSuccess
    BY <1>0, <2>1 DEF SkipPhase, SkippedAfterFailure, IsTeardown, Current
  <2>3. Clean
    BY <2>1, <2>2 DEF LoopInv, HonestInv, Accounted
  <2>4. QED
    BY <1>0, <2>1, <2>3 DEF Clean, StepFailed, Bad, Steps, Entries
<1>2. CASE Step
  <2>1. PICK s \in Steps : RunStep(s) \/ StepWithoutInputs(s)
    BY <1>2 DEF Step
  <2>2. PICK how \in {"ok", "failed", "missing_ref"} : RecordStep(s, how)
    BY <2>1 DEF RunStep, StepWithoutInputs
  <2>3. /\ pc = "steps" /\ IsNextStep(s) /\ UNCHANGED <<ph, resolved>>
        /\ tried' = [tried EXCEPT ![s] = how] /\ GoesOn(s, how = "ok")
    BY <2>1, <2>2 DEF RunStep, StepWithoutInputs, RecordStep
  <2>4. ~IsTeardown /\ Current' = Current
    BY <1>0, <2>3 DEF IsTeardown, Current
  <2>5. how = "ok" \/ cfg.steps[s].cont
    BY <2>3, <2>4 DEF GoesOn
  <2>6. cfg.steps[s].phase = Current
    BY <2>3 DEF IsNextStep, StepsLeft, PhaseSteps
  <2>7. /\ \A t \in Steps : StepFailed(t) => cfg.steps[t].cont /\ cfg.steps[t].phase = Current
        /\ \A e \in Entries : ~Bad(e)
    BY <2>3, <2>4 DEF LoopInv, OnlyTolerated
  <2>8. tried \in [Steps -> {"idle", "ok", "failed", "missing_ref"}]
    BY DEF LoopInv, HonestInv, TypeOK
  <2>9. ASSUME NEW t \in Steps, StepFailed(t)'
        PROVE  cfg.steps[t].cont /\ cfg.steps[t].phase = Current
    <3>1. CASE t = s
      BY <2>3, <2>5, <2>6, <2>8, <2>9, <3>1 DEF StepFailed
    <3>2. CASE t # s
      BY <2>3, <2>7, <2>8, <2>9, <3>2 DEF StepFailed
    <3>3. QED
      BY <3>1, <3>2
  <2>10. QED
    BY <1>0, <2>3, <2>4, <2>7, <2>9 DEF Steps, Entries, Bad
<1>3. CASE UNCHANGED vars
  BY <1>3 DEF vars, LoopInv, OnlyTolerated, IsTeardown, Current, Steps, Entries, StepFailed, Bad
<1>4. QED
  BY <1>1, <1>2, <1>3
     DEF Next, Progress, Stopped, UnconfiguredPlatform, RejectConfig, StartPhases, PassOverPhase,
         SkipCurrentPhase, StepsDone, ResolvePhase, RunPytest, FinishPhase, ResolveRemaining, Finish, Abort

\* The pass after the loop gives every open validation an outcome.
LEMMA SettledStep == LoopInv /\ [Next]_vars => Settled'
<1> SUFFICES ASSUME LoopInv, [Next]_vars, pc' = "merge" \/ Returned', NEW e \in Entries'
             PROVE  resolved'[e] \in Terminal
  BY DEF Settled
<1> USE DEF stepVars, entryVars, runVars, outVars
<1>0. e \in Entries
  BY ConfigKept DEF Entries
<1>1. CASE ResolveRemaining
  <2>1. resolved' = [d \in Entries |-> IF d \in Remaining THEN Unexecuted(d) ELSE resolved[d]]
    BY <1>1 DEF ResolveRemaining
  <2>2. CASE e \in Remaining
    BY <1>0, <2>1, <2>2, ResolveType DEF Terminal
  <2>3. CASE e \notin Remaining
    BY <1>0, <2>1, <2>3 DEF Remaining, OpenEntries, LoopInv, HonestInv, TypeOK, Outcomes
  <2>4. QED
    BY <2>2, <2>3
<1>2. CASE Finish
  BY <1>0, <1>2 DEF Finish, LoopInv, Settled
<1>3. CASE UNCHANGED vars
  BY <1>0, <1>3 DEF vars, LoopInv, Settled, Returned
<1>4. CASE RejectConfig
  BY <1>4 DEF RejectConfig, Returned
<1>5. CASE Step
  BY <1>5 DEF Step, RunStep, StepWithoutInputs, RecordStep, Returned
<1>6. QED
  BY <1>1, <1>2, <1>3, <1>4, <1>5
     DEF Next, Progress, Stopped, UnconfiguredPlatform, StartPhases, PassOverPhase, SkipCurrentPhase,
         EnterPhase, StepsDone, ResolvePhase, RunPytest, FinishPhase, Abort, Returned

LEMMA NotRefusedStep == LoopInv /\ [Next]_vars => NotRefused'
<1> SUFFICES ASSUME LoopInv, [Next]_vars, pc' # "done", NEW r \in phaseResults'
             PROVE  r.kind # "config"
  BY DEF NotRefused
<1> USE DEF stepVars, entryVars, runVars, outVars, LoopInv, NotRefused
<1>1. CASE Step
  BY <1>1 DEF Step, RunStep, StepWithoutInputs
<1>2. CASE UNCHANGED vars
  BY <1>2 DEF vars
<1>3. CASE SkipCurrentPhase
  BY <1>3 DEF SkipCurrentPhase
<1>4. CASE FinishPhase
  BY <1>4 DEF FinishPhase
<1>5. CASE ResolveRemaining
  BY <1>5 DEF ResolveRemaining
<1>6. QED
  BY <1>1, <1>2, <1>3, <1>4, <1>5
     DEF Next, Progress, Stopped, UnconfiguredPlatform, RejectConfig, StartPhases, PassOverPhase,
         EnterPhase, StepsDone, ResolvePhase, RunPytest, Finish, Abort

\* Whether every result of a set succeeded, when one result is added to it.
LEMMA OneMoreResult ==
  ASSUME NEW R, NEW p, NEW kind, NEW b \in BOOLEAN
  PROVE  (\A r \in R \cup {[phase |-> p, kind |-> kind, success |-> b]} : r.success)
           <=> (\A r \in R : r.success) /\ b
<1> DEFINE new == [phase |-> p, kind |-> kind, success |-> b]
<1>1. new.success = b
  OBVIOUS
<1>2. new.success <=> b
  BY <1>1
<1> HIDE DEF new
<1>3. (\A r \in R \cup {new} : r.success) <=> (\A r \in R : r.success) /\ new.success
  BY Zenon
<1>4. QED
  BY <1>2, <1>3 DEF new

LEMMA PhasesAgreeStep == LoopInv /\ [Next]_vars => PhasesAgree'
<1> SUFFICES ASSUME LoopInv, [Next]_vars PROVE PhasesAgree'
  OBVIOUS
<1> USE DEF stepVars, entryVars, runVars, outVars
<1> DEFINE Agree == overallSuccess <=> \A r \in phaseResults : r.success
<1>0. cfg' = cfg
  BY ConfigKept
<1>1. CASE RejectConfig
  BY <1>1 DEF RejectConfig, PhasesAgree, InPhase, ResultMatchesPhases
<1>2. CASE SkipCurrentPhase
  <2>1. Agree'
    BY <1>2 DEF SkipCurrentPhase, LoopInv, PhasesAgree
  <2>2. QED
    BY <1>2, <2>1 DEF SkipCurrentPhase, PhasesAgree, InPhase, ResultMatchesPhases
<1>3. CASE Step
  <2>1. PICK s \in Steps : RunStep(s) \/ StepWithoutInputs(s)
    BY <1>3 DEF Step
  <2>2. /\ pc = "steps" /\ pc' \in {"steps", "resolve"} /\ s \in PhaseSteps
        /\ UNCHANGED <<ph, overallSuccess, phaseResults>>
    BY <2>1 DEF RunStep, StepWithoutInputs, RecordStep, IsNextStep, StepsLeft
  <2>3. PhaseSteps' # {}
    BY <1>0, <2>2 DEF PhaseSteps, Steps, Current
  <2>4. QED
    BY <2>2, <2>3 DEF LoopInv, PhasesAgree, InPhase, ResultMatchesPhases
<1>4. CASE EnterPhase
  BY <1>4 DEF EnterPhase, LoopInv, PhasesAgree, InPhase, ResultMatchesPhases
<1>5. CASE StepsDone \/ ResolvePhase \/ RunPytest
  <2>1. /\ InPhase /\ pc' \in {"resolve", "pytest", "finish"}
        /\ UNCHANGED <<ph, stepsOk, overallSuccess, phaseResults>>
    BY <1>5 DEF StepsDone, ResolvePhase, RunPytest, InPhase
  <2>2. PhaseSteps' = PhaseSteps
    BY <1>0, <2>1 DEF PhaseSteps, Steps, Current
  <2>3. QED
    BY <2>1, <2>2 DEF LoopInv, PhasesAgree, InPhase, ResultMatchesPhases
<1>6. CASE FinishPhase
  <2>1. /\ pc = "finish" /\ pc' = "phase" /\ overallSuccess' = (overallSuccess /\ PhaseSucceeded)
        /\ phaseResults' =
             IF PhaseSteps # {} \/ PhaseValidations # {}
             THEN phaseResults \cup {[phase |-> Current, kind |-> "run", success |-> PhaseSucceeded]}
             ELSE phaseResults
    BY <1>6 DEF FinishPhase
  <2>2. Agree
    BY <2>1 DEF LoopInv, PhasesAgree
  <2>3. CASE PhaseSteps # {} \/ PhaseValidations # {}
    <3>1. phaseResults' = phaseResults \cup {[phase |-> Current, kind |-> "run", success |-> PhaseSucceeded]}
      BY <2>1, <2>3
    <3>2. PhaseSucceeded \in BOOLEAN
      BY DEF PhaseSucceeded
    <3> HIDE DEF Agree
    <3>3. (\A r \in phaseResults' : r.success) <=> (\A r \in phaseResults : r.success) /\ PhaseSucceeded
      BY <3>1, <3>2, OneMoreResult
    <3>4. Agree'
      BY <2>1, <2>2, <3>3 DEF Agree
    <3>5. QED
      BY <2>1, <3>4 DEF Agree, PhasesAgree, InPhase, ResultMatchesPhases
  <2>4. CASE PhaseSteps = {} /\ PhaseValidations = {}
    <3>1. PhaseSucceeded
      BY <2>1, <2>4 DEF LoopInv, PhasesAgree, InPhase, PhaseSucceeded
    <3>2. Agree'
      BY <2>1, <2>2, <2>4, <3>1
    <3>3. QED
      BY <2>1, <3>2 DEF PhasesAgree, InPhase, ResultMatchesPhases
  <2>5. QED
    BY <2>3, <2>4
<1>7. CASE ResolveRemaining
  <2>1. /\ pc = "phase" /\ pc' = "merge" /\ overallSuccess' = (overallSuccess /\ AllGood(Remaining))
        /\ phaseResults' = phaseResults \cup
             {[phase |-> p, kind |-> "unexecuted", success |-> AllGood(RemainingIn(p))] : p \in RemainingPhases}
    BY <1>7 DEF ResolveRemaining, RemainingSucceeded
  <2>2. AllGood(Remaining) <=> \A p \in RemainingPhases : AllGood(RemainingIn(p))
    BY DEF AllGood, RemainingIn, RemainingPhases
  <2>3. Agree
    BY <2>1 DEF LoopInv, PhasesAgree
  <2> DEFINE new(p) == [phase |-> p, kind |-> "unexecuted", success |-> AllGood(RemainingIn(p))]
  <2>4. phaseResults' = phaseResults \cup {new(p) : p \in RemainingPhases}
    BY <2>1
  <2>5. \A p : new(p).success <=> AllGood(RemainingIn(p))
    <3> TAKE p
    <3>1. AllGood(RemainingIn(p)) \in BOOLEAN
      BY DEF AllGood
    <3>2. PICK b \in BOOLEAN : b = AllGood(RemainingIn(p))
      BY <3>1
    <3>3. [phase |-> p, kind |-> "unexecuted", success |-> b].success = b
      OBVIOUS
    <3>4. QED
      BY <3>2, <3>3, Zenon
  <2> HIDE DEF new
  <2>6. (\A r \in phaseResults' : r.success) <=>
          (\A r \in phaseResults : r.success) /\ (\A p \in RemainingPhases : new(p).success)
    BY <2>4, Zenon
  <2>7. Agree'
    BY <2>1, <2>2, <2>3, <2>5, <2>6
  <2>8. QED
    BY <2>1, <2>7 DEF PhasesAgree, InPhase, ResultMatchesPhases
<1>8. CASE Finish
  BY <1>8 DEF Finish, LoopInv, PhasesAgree, InPhase, ResultMatchesPhases
<1>9. CASE UNCHANGED vars
  BY <1>9 DEF vars, LoopInv, PhasesAgree, InPhase, ResultMatchesPhases, PhaseSteps, Steps, Current
<1>10. CASE StartPhases \/ PassOverPhase \/ Abort \/ UnconfiguredPlatform
  BY <1>10 DEF StartPhases, PassOverPhase, Abort, UnconfiguredPlatform, LoopInv, PhasesAgree, InPhase,
               ResultMatchesPhases
<1>11. QED
  BY <1>1, <1>2, <1>3, <1>4, <1>5, <1>6, <1>7, <1>8, <1>9, <1>10 DEF Next, Progress, Stopped

LEMMA LoopStep == LoopInv /\ [Next]_vars => LoopInv'
BY TypeStep, PlanSettledStep, PlanOpenStep, ReachedOnceStep, AccountedStep, UntouchedStep,
   OnlyToleratedStep, SettledStep, NotRefusedStep, PhasesAgreeStep DEF LoopInv, HonestInv

\* When a run returns its phase results, every validation has an outcome.
THEOREM AllSettled == Spec => []EveryEntrySettled
<1>1. LoopInv => EveryEntrySettled
  BY DEF LoopInv, Settled, EveryEntrySettled
<1>2. QED
  BY LoopInit, LoopStep, <1>1, PTL DEF Spec

\* The overall result is the conjunction of the phase results printed with it.
THEOREM PhasesMatch == Spec => []ResultMatchesPhases
<1>1. LoopInv => ResultMatchesPhases
  BY DEF LoopInv, PhasesAgree
<1>2. QED
  BY LoopInit, LoopStep, <1>1, PTL DEF Spec

\* No step of a run changes an outcome that is already recorded.
LEMMA RecordedStays ==
  ASSUME LoopInv, [Next]_vars, NEW e \in Entries, resolved[e] # "open"
  PROVE  resolved'[e] = resolved[e]
<1> USE DEF stepVars, entryVars, runVars, outVars
<1>1. CASE FinishPhase
  BY <1>1 DEF FinishPhase, PhaseValidations, LoopInv, HonestInv, PlanOpen
<1>2. CASE ResolveRemaining
  BY <1>2 DEF ResolveRemaining, Remaining, OpenEntries
<1>3. CASE Step
  BY <1>3 DEF Step, RunStep, StepWithoutInputs
<1>4. CASE UNCHANGED vars
  BY <1>4 DEF vars
<1>5. QED
  BY <1>1, <1>2, <1>3, <1>4
     DEF Next, Progress, Stopped, UnconfiguredPlatform, RejectConfig, StartPhases, PassOverPhase,
         SkipCurrentPhase, EnterPhase, StepsDone, ResolvePhase, RunPytest, Finish, Abort

\* An outcome is recorded once, in the phase or in the pass after the loop.
THEOREM OutcomesAreFinal == Spec => OutcomeIsFinal
<1>1. LoopInv /\ [Next]_vars => [\A e \in Entries : resolved[e] # "open" => resolved'[e] = resolved[e]]_vars
  BY RecordedStays
<1>2. QED
  BY LoopInit, LoopStep, <1>1, PTL DEF Spec, OutcomeIsFinal

-----------------------------------------------------------------------------
(* What is started after a failure.                                        *)

\* A step that ends was the next one of the current phase.
LEMMA TriedNow ==
  ASSUME LoopInv, [Next]_vars, NEW s \in Steps, tried'[s] # tried[s]
  PROVE  pc = "steps" /\ cfg.steps[s].phase = Current
<1> USE DEF stepVars, entryVars, runVars, outVars
<1>1. tried' # tried
  OBVIOUS
<1>2. Step
  BY <1>1 DEF Next, Progress, Stopped, UnconfiguredPlatform, RejectConfig, StartPhases, PassOverPhase,
              SkipCurrentPhase, EnterPhase, StepsDone, ResolvePhase, RunPytest, FinishPhase,
              ResolveRemaining, Finish, Abort, vars
<1>3. PICK t \in Steps : RunStep(t) \/ StepWithoutInputs(t)
  BY <1>2 DEF Step
<1>4. PICK how : RecordStep(t, how)
  BY <1>3 DEF RunStep, StepWithoutInputs
<1>5. pc = "steps" /\ IsNextStep(t) /\ tried' = [tried EXCEPT ![t] = how]
  BY <1>3, <1>4 DEF RunStep, StepWithoutInputs, RecordStep
<1>6. s = t
  BY <1>5 DEF LoopInv, HonestInv, TypeOK
<1>7. QED
  BY <1>5, <1>6 DEF IsNextStep, StepsLeft, PhaseSteps

\* Nothing but cleanup is started on top of a failure.
THEOREM NothingOnTopOfFailure == Spec => NoWorkAfterFailure
<1>1. LoopInv /\ [Next]_vars =>
        [\A s \in Steps : tried'[s] # tried[s] /\ cfg.steps[s].phase # "teardown" =>
           /\ \A t \in Steps : StepFailed(t) => cfg.steps[t].cont /\ cfg.steps[t].phase = cfg.steps[s].phase
           /\ \A e \in Entries : ~Bad(e)]_vars
  <2> SUFFICES ASSUME LoopInv, [Next]_vars, NEW s \in Steps, tried'[s] # tried[s], cfg.steps[s].phase # "teardown"
               PROVE  /\ \A t \in Steps : StepFailed(t) => cfg.steps[t].cont /\ cfg.steps[t].phase = cfg.steps[s].phase
                      /\ \A e \in Entries : ~Bad(e)
    OBVIOUS
  <2>1. pc = "steps" /\ cfg.steps[s].phase = Current
    BY TriedNow
  <2>2. QED
    BY <2>1 DEF LoopInv, OnlyTolerated, IsTeardown
<1>2. QED
  BY LoopInit, LoopStep, <1>1, PTL DEF Spec, NoWorkAfterFailure

SetupReached == \E t \in Steps : cfg.steps[t].phase = "setup" /\ tried[t] # "idle"

\* The flag that opens teardown is set by a phase whose steps were reached, and
\* a teardown phase that reaches steps found it set and failures allowed.
Gate ==
  /\ pc = "steps" => \A t \in PhaseSteps : t < cursor => tried[t] # "idle"
  /\ pc = "resolve" /\ PhaseSteps # {} => \E t \in PhaseSteps : tried[t] # "idle"
  /\ setupStepsRan => SetupReached
  /\ pc = "steps" /\ IsTeardown =>
       /\ Requested("setup") => setupStepsRan
       /\ cfg.teardownOnFailure \/ \A t \in Steps : StepFailed(t) => cfg.steps[t].phase = "teardown"

LEMMA GateStep == LoopInv /\ Gate /\ [Next]_vars => Gate'
<1> SUFFICES ASSUME LoopInv, Gate, [Next]_vars PROVE Gate'
  OBVIOUS
<1> USE DEF stepVars, entryVars, runVars, outVars
<1>0. cfg' = cfg /\ \A s \in Steps : s \in Nat
  BY ConfigKept, ConfigFacts DEF LoopInv, HonestInv, TypeOK, Steps
<1>1. CASE Step
  <2>1. PICK s \in Steps : RunStep(s) \/ StepWithoutInputs(s)
    BY <1>1 DEF Step
  <2>2. PICK how \in {"ok", "failed", "missing_ref"} : RecordStep(s, how)
    BY <2>1 DEF RunStep, StepWithoutInputs
  <2>3. /\ pc = "steps" /\ IsNextStep(s) /\ UNCHANGED <<ph, setupStepsRan>> /\ pc' \in {"steps", "resolve"}
        /\ tried' = [tried EXCEPT ![s] = how] /\ cursor' = s + 1
    BY <2>1, <2>2 DEF RunStep, StepWithoutInputs, RecordStep, After
  <2>4. /\ Current' = Current /\ PhaseSteps' = PhaseSteps /\ s \in PhaseSteps /\ PhaseSteps \subseteq Steps
        /\ cfg.steps[s].phase = Current
    BY <1>0, <2>3 DEF Current, PhaseSteps, IsNextStep, StepsLeft, Steps
  <2>5. /\ \A t \in Steps : tried'[t] = IF t = s THEN how ELSE tried[t]
        /\ cursor \in Nat
    BY <2>3, ConfigFacts DEF LoopInv, HonestInv, TypeOK
  <2>6. ASSUME NEW t \in PhaseSteps, t < cursor' PROVE tried'[t] # "idle"
    <3>1. CASE t < cursor
      BY <2>3, <2>4, <2>5, <3>1 DEF Gate
    <3>2. CASE t >= cursor
      <4>1. t \in StepsLeft /\ s <= t
        BY <2>3, <3>2 DEF StepsLeft, IsNextStep
      <4>2. t = s
        BY <1>0, <2>3, <2>4, <2>6, <4>1
      <4>3. QED
        BY <2>4, <2>5, <4>2
    <3>3. QED
      BY <1>0, <2>4, <2>5, <3>1, <3>2
  <2>7. tried'[s] # "idle"
    BY <2>5
  <2>8. SetupReached => SetupReached'
    BY <1>0, <2>5 DEF SetupReached, Steps
  <2>9. ASSUME IsTeardown, \A t \in Steps : StepFailed(t) => cfg.steps[t].phase = "teardown",
               NEW t \in Steps, StepFailed(t)'
        PROVE  cfg.steps[t].phase = "teardown"
    <3>1. CASE t = s
      BY <2>4, <2>9, <3>1 DEF IsTeardown
    <3>2. CASE t # s
      BY <2>5, <2>9, <3>2 DEF StepFailed
    <3>3. QED
      BY <3>1, <3>2
  <2>10. QED
    BY <1>0, <2>3, <2>4, <2>6, <2>7, <2>8, <2>9 DEF Gate, IsTeardown, Requested, Steps
<1>2. CASE EnterPhase
  <2>1. pc = "phase" /\ ~SkipPhase /\ cursor' = 1 /\ pc' = "steps" /\ UNCHANGED <<ph, tried, resolved, setupStepsRan>>
    BY <1>2 DEF EnterPhase
  <2>2. Current' = Current /\ PhaseSteps' = PhaseSteps /\ PhaseSteps \subseteq Steps
    BY <1>0, <2>1 DEF Current, PhaseSteps, Steps
  <2>3. \A t \in Steps : ~(t < 1)
    BY ConfigFacts DEF LoopInv, HonestInv, TypeOK, Steps
  <2>4. IsTeardown => (Requested("setup") => setupStepsRan) /\ (overallSuccess \/ cfg.teardownOnFailure)
    BY <2>1 DEF SkipPhase, TeardownWithoutSetup, TeardownDisabled
  <2>5. overallSuccess => \A t \in Steps : ~StepFailed(t)
    BY <2>1 DEF LoopInv, HonestInv, Accounted, Clean
  <2>6. QED
    BY <1>0, <2>1, <2>2, <2>3, <2>4, <2>5 DEF Gate, IsTeardown, Requested, SetupReached, Steps, StepFailed
<1>3. CASE StepsDone
  <2>1. pc = "steps" /\ StepsLeft = {} /\ pc' = "resolve" /\ UNCHANGED <<ph, tried, setupStepsRan>>
    BY <1>3 DEF StepsDone
  <2>2. Current' = Current /\ PhaseSteps' = PhaseSteps /\ PhaseSteps \subseteq Steps
    BY <1>0, <2>1 DEF Current, PhaseSteps, Steps
  <2>3. cursor \in Nat
    BY ConfigFacts DEF LoopInv, HonestInv, TypeOK
  <2>4. \A t \in PhaseSteps : t < cursor
    BY <1>0, <2>1, <2>2, <2>3 DEF StepsLeft
  <2>5. \A t \in PhaseSteps : tried[t] # "idle"
    BY <2>1, <2>4 DEF Gate
  <2>6. QED
    BY <1>0, <2>1, <2>2, <2>5 DEF Gate, SetupReached, Steps
<1>4. CASE ResolvePhase
  <2>1. pc = "resolve" /\ pc' \notin {"steps", "resolve"} /\ tried' = tried /\ setupStepsRan' = SetupRan
    BY <1>4 DEF ResolvePhase
  <2>2. Current = "setup" /\ PhaseSteps # {} => SetupReached
    BY <2>1 DEF Gate, SetupReached, PhaseSteps
  <2>3. QED
    BY <1>0, <2>1, <2>2 DEF Gate, SetupRan, SetupReached, Steps
<1>5. CASE tried' = tried /\ setupStepsRan' = setupStepsRan /\ pc' \notin {"steps", "resolve"}
  BY <1>0, <1>5 DEF Gate, SetupReached, Steps
<1>6. CASE UNCHANGED vars
  BY <1>6 DEF vars, Gate, SetupReached, Steps, PhaseSteps, Current, IsTeardown, Requested, StepFailed
<1>7. QED
  BY <1>1, <1>2, <1>3, <1>4, <1>5, <1>6
     DEF Next, Progress, Stopped, UnconfiguredPlatform, RejectConfig, StartPhases, PassOverPhase,
         SkipCurrentPhase, RunPytest, FinishPhase, ResolveRemaining, Finish, Abort

\* Cleanup of a full lifecycle starts only after setup reached a step, and after
\* a failure only where the configuration wants it.
THEOREM TeardownIsGated == Spec => TeardownGate
<1>1. Init => Gate
  BY DEF Init, Gate
<1>2. LoopInv /\ Gate /\ [Next]_vars =>
        [\A s \in Steps : tried'[s] # tried[s] /\ cfg.steps[s].phase = "teardown" =>
           /\ Requested("setup") => \E t \in Steps : cfg.steps[t].phase = "setup" /\ tried[t] # "idle"
           /\ \/ cfg.teardownOnFailure
              \/ \A t \in Steps : StepFailed(t) => cfg.steps[t].phase = "teardown"]_vars
  <2> SUFFICES ASSUME LoopInv, Gate, [Next]_vars, NEW s \in Steps, tried'[s] # tried[s], cfg.steps[s].phase = "teardown"
               PROVE  /\ Requested("setup") => SetupReached
                      /\ cfg.teardownOnFailure \/ \A t \in Steps : StepFailed(t) => cfg.steps[t].phase = "teardown"
    BY DEF SetupReached
  <2>1. pc = "steps" /\ IsTeardown
    BY TriedNow DEF IsTeardown
  <2>2. QED
    BY <2>1 DEF Gate
<1>3. QED
  BY LoopInit, LoopStep, GateStep, <1>1, <1>2, PTL DEF Spec, TeardownGate

-----------------------------------------------------------------------------
(* Cleanup that is owed is done.                                           *)

AllCleanup == \A s \in Steps : cfg.steps[s].phase = "teardown" => tried[s] # "idle"

\* Teardown has been gone through, or was not owed.
Cleaned ==
  \/ AllCleanup \/ ~SetupBeforeTeardown \/ ~SetupReached
  \/ ~cfg.teardownOnFailure /\ ~overallSuccess

InLoop == pc \notin {"start", "done", "aborted"}

\* A phase of teardown that lies behind has been gone through unless nothing
\* was set up or the configuration excused it.
Sweep ==
  /\ InLoop /\ SetupReached => setupStepsRan \/ (pc \in {"steps", "resolve"} /\ Current = "setup")
  /\ InPhase /\ pc # "steps" /\ IsTeardown => AllCleanup
  /\ InLoop /\ Requested("teardown") =>
       \A i \in DOMAIN cfg.phases : cfg.phases[i] = "teardown" /\ i < ph => Cleaned
  /\ InLoop => ~UnknownStepPhase
  /\ pc = "merge" => ph > Len(cfg.phases)
  /\ TeardownReached

SweepInv == LoopInv /\ Gate /\ Sweep

LEMMA SweepStep == SweepInv /\ [Next]_vars => Sweep'
<1> SUFFICES ASSUME SweepInv, [Next]_vars PROVE Sweep'
  OBVIOUS
<1> USE DEF stepVars, entryVars, runVars, outVars
<1>0. /\ cfg' = cfg /\ ph \in Nat /\ cursor \in Nat
      /\ DOMAIN cfg.phases = 1 .. Len(cfg.phases) /\ Len(cfg.phases) \in Nat
      /\ \A s \in Steps : s \in Nat
  BY ConfigKept, ConfigFacts DEF SweepInv, LoopInv, HonestInv, TypeOK, Steps
<1>1. ASSUME UNCHANGED tried PROVE SetupReached' = SetupReached /\ AllCleanup' = AllCleanup
  BY <1>0, <1>1 DEF SetupReached, AllCleanup, Steps
<1>2. SetupBeforeTeardown' = SetupBeforeTeardown /\ UnknownStepPhase' = UnknownStepPhase
      /\ Requested("teardown")' = Requested("teardown")
  BY <1>0 DEF SetupBeforeTeardown, UnknownStepPhase, Configured, Requested, Steps
<1>3. CASE Step
  <2>1. PICK s \in Steps : RunStep(s) \/ StepWithoutInputs(s)
    BY <1>3 DEF Step
  <2>2. PICK how \in {"ok", "failed", "missing_ref"} : RecordStep(s, how)
    BY <2>1 DEF RunStep, StepWithoutInputs
  <2>3. /\ pc = "steps" /\ IsNextStep(s) /\ UNCHANGED <<ph, setupStepsRan, overallSuccess>>
        /\ pc' \in {"steps", "resolve"} /\ (IsTeardown => pc' = "steps") /\ tried' = [tried EXCEPT ![s] = how]
    BY <2>1, <2>2 DEF RunStep, StepWithoutInputs, RecordStep, GoesOn
  <2>4. /\ cfg.phases[ph] = cfg.steps[s].phase /\ ph \in DOMAIN cfg.phases
        /\ Current = cfg.steps[s].phase /\ Current' = Current /\ IsTeardown' = IsTeardown
    BY <1>0, <2>3, NextStepIsFresh DEF SweepInv, LoopInv, Current, IsTeardown
  <2>5. \A t \in Steps : tried'[t] = IF t = s THEN how ELSE tried[t]
    BY <2>3 DEF SweepInv, LoopInv, HonestInv, TypeOK
  <2>6. AllCleanup => AllCleanup'
    BY <1>0, <2>5 DEF AllCleanup, Steps
  <2>7. SetupReached' => SetupReached \/ cfg.steps[s].phase = "setup"
    BY <1>0, <2>5 DEF SetupReached, Steps
  <2>8. ASSUME NEW i \in DOMAIN cfg.phases, cfg.phases[i] = "teardown", i < ph, Cleaned PROVE Cleaned'
    <3>1. CASE SetupReached' /\ ~SetupReached
      <4>1. cfg.phases[ph] = "setup"
        BY <2>4, <2>7, <3>1
      <4>2. ~(ph < i)
        BY <1>0, <2>8
      <4>3. ~SetupBeforeTeardown
        BY <2>4, <2>8, <4>1, <4>2 DEF SetupBeforeTeardown
      <4>4. QED
        BY <1>2, <4>3 DEF Cleaned
    <3>2. CASE ~(SetupReached' /\ ~SetupReached)
      BY <1>0, <1>2, <2>3, <2>6, <2>8, <3>2 DEF Cleaned
    <3>3. QED
      BY <3>1, <3>2
  <2>9. QED
    BY <1>0, <1>2, <2>3, <2>4, <2>7, <2>8 DEF SweepInv, Sweep, InLoop, InPhase, TeardownReached, Returned
<1>4. CASE EnterPhase \/ ResolvePhase \/ RunPytest \/ StepsDone
  <2>1. /\ UNCHANGED <<ph, tried, overallSuccess>>
        /\ pc' \in {"steps", "resolve", "pytest", "finish"} /\ pc \in {"phase", "steps", "resolve", "pytest"}
        /\ pc' = "steps" <=> pc = "phase"
        /\ pc' = "resolve" => pc = "steps" /\ StepsLeft = {}
        /\ setupStepsRan' = setupStepsRan \/ (pc = "resolve" /\ setupStepsRan' = SetupRan)
        /\ pc = "resolve" => setupStepsRan' = SetupRan
        /\ pc = "steps" => pc' = "resolve"
    BY <1>4 DEF EnterPhase, ResolvePhase, RunPytest, StepsDone
  <2>2. Current' = Current /\ IsTeardown' = IsTeardown
    BY <1>0, <2>1 DEF Current, IsTeardown
  <2>3. SetupReached => setupStepsRan' \/ (pc' \in {"steps", "resolve"} /\ Current = "setup")
    <3>1. CASE pc = "resolve"
      <4>1. setupStepsRan => setupStepsRan'
        BY <2>1, <3>1 DEF SetupRan
      <4>2. SetupReached /\ Current = "setup" => PhaseSteps # {}
        BY DEF SetupReached, PhaseSteps
      <4>3. QED
        BY <2>1, <3>1, <4>1, <4>2 DEF SetupRan, SweepInv, Sweep, InLoop
    <3>2. CASE pc # "resolve"
      BY <2>1, <3>2 DEF SweepInv, Sweep, InLoop
    <3>3. QED
      BY <3>1, <3>2
  <2>4. pc' # "steps" /\ IsTeardown => AllCleanup
    <3>1. CASE pc = "steps"
      <4>1. \A t \in PhaseSteps : t < cursor
        BY <1>0, <2>1, <3>1 DEF StepsLeft, PhaseSteps
      <4>2. QED
        BY <3>1, <4>1 DEF SweepInv, Gate, AllCleanup, PhaseSteps, IsTeardown
    <3>2. CASE pc # "steps"
      BY <2>1, <3>2 DEF SweepInv, Sweep, InPhase
    <3>3. QED
      BY <3>1, <3>2
  <2>5. Cleaned => Cleaned'
    BY <1>0, <1>1, <1>2, <2>1 DEF Cleaned
  <2>6. QED
    BY <1>0, <1>1, <1>2, <2>1, <2>2, <2>3, <2>4, <2>5
       DEF SweepInv, Sweep, InLoop, InPhase, TeardownReached, Returned
<1>5. CASE PassOverPhase \/ SkipCurrentPhase \/ FinishPhase
  <2>1. /\ ph' = ph + 1 /\ pc' = "phase" /\ pc \in {"phase", "finish"} /\ UNCHANGED <<tried, setupStepsRan>>
        /\ overallSuccess' => overallSuccess
    <3>1. CASE PassOverPhase \/ SkipCurrentPhase
      BY <3>1 DEF PassOverPhase, SkipCurrentPhase
    <3>2. CASE FinishPhase
      BY <3>2 DEF FinishPhase
    <3>3. QED
      BY <1>5, <3>1, <3>2
  <2>2. Cleaned => Cleaned'
    BY <1>0, <1>1, <1>2, <2>1 DEF Cleaned
  <2>3. ASSUME Requested("teardown"), IsTeardown PROVE Cleaned
    <3>1. CASE PassOverPhase
      BY <2>3, <3>1 DEF PassOverPhase, IsTeardown
    <3>2. CASE SkipCurrentPhase
      <4>1. pc = "phase" /\ (TeardownWithoutSetup \/ TeardownDisabled)
        BY <2>3, <3>2 DEF SkipCurrentPhase, SkipPhase, SkippedAfterFailure
      <4>2. TeardownWithoutSetup => ~SetupReached
        BY <4>1 DEF TeardownWithoutSetup, SweepInv, Sweep, InLoop
      <4>3. QED
        BY <4>1, <4>2 DEF TeardownDisabled, Cleaned
    <3>3. CASE FinishPhase
      BY <2>3, <3>3 DEF FinishPhase, SweepInv, Sweep, InPhase, Cleaned
    <3>4. QED
      BY <1>5, <3>1, <3>2, <3>3
  <2>4. ASSUME NEW i \in DOMAIN cfg.phases, cfg.phases[i] = "teardown", i < ph', Requested("teardown") PROVE Cleaned'
    <3>1. CASE i < ph
      BY <2>1, <2>2, <2>4, <3>1 DEF SweepInv, Sweep, InLoop
    <3>2. CASE i = ph
      BY <2>2, <2>3, <2>4, <3>2 DEF IsTeardown, Current
    <3>3. QED
      BY <1>0, <2>1, <2>4, <3>1, <3>2
  <2>5. QED
    BY <1>0, <1>1, <1>2, <2>1, <2>4 DEF SweepInv, Sweep, InLoop, InPhase, TeardownReached, Returned
<1>6. CASE StartPhases
  <2>1. pc = "start" /\ pc' = "phase" /\ ~UnknownStepPhase /\ UNCHANGED <<ph, tried, setupStepsRan>>
    BY <1>6 DEF StartPhases
  <2>2. ~SetupReached
    BY <2>1 DEF SweepInv, LoopInv, Untouched, SetupReached
  <2>3. QED
    BY <1>0, <1>1, <1>2, <2>1, <2>2 DEF Sweep, InLoop, InPhase, TeardownReached, Returned, Cleaned
<1>7. CASE ResolveRemaining
  <2>1. /\ pc = "phase" /\ pc' = "merge" /\ ph > Len(cfg.phases) /\ UNCHANGED <<ph, tried, setupStepsRan>>
        /\ overallSuccess' => overallSuccess
    BY <1>7 DEF ResolveRemaining
  <2>2. Cleaned => Cleaned'
    BY <1>0, <1>1, <1>2, <2>1 DEF Cleaned
  <2>3. QED
    BY <1>0, <1>1, <1>2, <2>1, <2>2 DEF SweepInv, Sweep, InLoop, InPhase, TeardownReached, Returned
<1>8. CASE Finish
  <2>1. pc = "merge" /\ pc' = "done" /\ UNCHANGED <<ph, tried>> /\ (result' = "success" => overallSuccess)
    BY <1>8 DEF Finish
  <2>2. ASSUME Requested("teardown"), SetupBeforeTeardown, SetupReached, cfg.teardownOnFailure \/ result' = "success",
               NEW s \in Steps, cfg.steps[s].phase = "teardown"
        PROVE  tried[s] # "idle"
    <3>1. ~UnknownStepPhase /\ ph > Len(cfg.phases)
      BY <2>1 DEF SweepInv, Sweep, InLoop
    <3>2. PICK i \in DOMAIN cfg.phases : cfg.phases[i] = "teardown"
      BY <2>2, <3>1 DEF UnknownStepPhase, Configured
    <3>3. i < ph
      BY <1>0, <3>1, <3>2
    <3>4. Cleaned
      BY <2>1, <2>2, <3>2, <3>3 DEF SweepInv, Sweep, InLoop
    <3>5. QED
      BY <2>1, <2>2, <3>4 DEF Cleaned, AllCleanup
  <2>3. TeardownReached'
    BY <1>0, <1>1, <1>2, <2>1, <2>2 DEF TeardownReached, SetupReached, Steps
  <2>4. QED
    BY <2>1, <2>3 DEF Sweep, InLoop, InPhase
<1>9. CASE RejectConfig \/ UnconfiguredPlatform \/ Abort
  <2>1. pc' \in {"done", "aborted"} /\ ~Returned'
    <3>1. CASE RejectConfig
      <4>1. \E r \in phaseResults' : r.kind = "config"
        BY <3>1 DEF RejectConfig
      <4>2. QED
        BY <3>1, <4>1 DEF RejectConfig, Returned
    <3>2. CASE UnconfiguredPlatform \/ Abort
      BY <3>2 DEF UnconfiguredPlatform, Abort, Returned
    <3>3. QED
      BY <1>9, <3>1, <3>2
  <2>2. QED
    BY <2>1 DEF Sweep, InLoop, InPhase, TeardownReached
<1>10. CASE UNCHANGED vars
  <2>1. Current' = Current /\ IsTeardown' = IsTeardown /\ InLoop' = InLoop /\ InPhase' = InPhase
    BY <1>10 DEF vars, Current, IsTeardown, InLoop, InPhase
  <2>2. Cleaned' = Cleaned /\ TeardownReached' = TeardownReached
    BY <1>1, <1>2, <1>10 DEF vars, Cleaned, TeardownReached, Returned, Steps, SetupReached, AllCleanup
  <2>3. QED
    BY <1>1, <1>2, <1>10, <2>1, <2>2 DEF vars, SweepInv, Sweep
<1>11. QED
  BY <1>3, <1>4, <1>5, <1>6, <1>7, <1>8, <1>9, <1>10 DEF Next, Progress, Stopped

\* When setup reached a step, a run that returns has gone through all of
\* teardown wherever teardown was requested and allowed.
THEOREM TeardownDone == Spec => []TeardownReached
<1>1. Init => SweepInv
  <2> SUFFICES ASSUME Init PROVE SweepInv
    OBVIOUS
  <2>1. Gate
    BY DEF Init, Gate
  <2>2. Sweep
    BY DEF Init, Sweep, InLoop, InPhase, TeardownReached, Returned
  <2>3. QED
    BY <2>1, <2>2, LoopInit DEF SweepInv
<1>2. SweepInv /\ [Next]_vars => SweepInv'
  BY LoopStep, GateStep, SweepStep DEF SweepInv
<1>3. SweepInv => TeardownReached
  BY DEF SweepInv, Sweep
<1>4. QED
  BY <1>1, <1>2, <1>3, PTL DEF Spec

-----------------------------------------------------------------------------
(* Every step of a run is a step of Lifecycle or none.                     *)

Reached == [s \in Steps |-> IF tried[s] = "idle" THEN "no" ELSE IF tried[s] = "ok" THEN "ok" ELSE "failed"]
Outcome == [e \in Entries |-> IF resolved[e] = "open" THEN "open" ELSE IF Bad(e) THEN "bad" ELSE "good"]

\* Lifecycle speaks of the same steps and validations.
LEMMA SameDomains ==
  ASSUME LoopInv
  PROVE  Abstract!Steps = Steps /\ Abstract!Validations = Entries
<1>1. cfg \in RunConfig
  BY ConfigsAssumption DEF LoopInv, HonestInv, TypeOK
<1>2. cfg.steps \in Seq(StepConfig) /\ cfg.entries \in Seq(EntryConfig)
  BY <1>1 DEF RunConfig
<1>3. QED
  BY <1>2 DEF Abstract!Steps, Abstract!Validations, Steps, Entries

\* What the mapped variables say about failures.
LEMMA MappedFailures ==
  ASSUME LoopInv
  PROVE  /\ \A s \in Steps : Abstract!Failed(s) <=> StepFailed(s)
         /\ \A s \in Steps : Reached[s] # "no" <=> tried[s] # "idle"
         /\ \A e \in Entries : Outcome[e] = "bad" <=> Bad(e)
         /\ \A e \in Entries : Outcome[e] = "open" <=> resolved[e] = "open"
<1>1. /\ tried \in [Steps -> {"idle", "ok", "failed", "missing_ref"}]
      /\ resolved \in [Entries -> Outcomes]
  BY DEF LoopInv, HonestInv, TypeOK
<1>2. \A e \in Entries : Bad(e) => resolved[e] # "open"
  BY DEF Bad, Errors
<1>3. QED
  BY <1>1, <1>2 DEF Abstract!Failed, StepFailed, Reached, Outcome

\* Reaching a step: it is new, comes after all others, and may start.
LEMMA StepRefines ==
  ASSUME LoopInv, [Next]_vars, NEW s \in Steps, RunStep(s) \/ StepWithoutInputs(s)
  PROVE  Abstract!ReachStep(s)
<1>1. PICK how \in {"ok", "failed", "missing_ref"} : RecordStep(s, how)
  BY DEF RunStep, StepWithoutInputs
<1>2. /\ pc = "steps" /\ pc' \in {"steps", "resolve"} /\ IsNextStep(s)
      /\ cfg' = cfg /\ resolved' = resolved /\ tried' = [tried EXCEPT ![s] = how]
  BY <1>1 DEF RunStep, StepWithoutInputs, RecordStep, entryVars
<1>3. tried[s] = "idle" /\ cfg.phases[ph] = cfg.steps[s].phase /\ ph \in DOMAIN cfg.phases
  BY <1>2, NextStepIsFresh DEF LoopInv
<1>4. AbstractStatus = "running" /\ AbstractStatus' = "running"
  BY <1>2 DEF AbstractStatus
<1>5. \A t \in Steps : Reached[t] # "no" => Abstract!Precedes(t, s)
  <2> SUFFICES ASSUME NEW t \in Steps, tried[t] # "idle" PROVE Abstract!Precedes(t, s)
    BY MappedFailures
  <2>1. PICK i \in DOMAIN cfg.phases :
          cfg.phases[i] = cfg.steps[t].phase /\ (i < ph \/ (i = ph /\ t < cursor))
    BY <1>2 DEF LoopInv, HonestInv, ReachedOnce
  <2>2. s >= cursor /\ cursor \in Nat /\ s \in Nat /\ t \in Nat
    BY <1>2, ConfigFacts DEF IsNextStep, StepsLeft, LoopInv, HonestInv, TypeOK, Steps
  <2>3. i < ph \/ (i = ph /\ t < s)
    BY <2>1, <2>2
  <2>4. QED
    BY <1>3, <2>1, <2>3 DEF Abstract!Precedes, Abstract!PhaseOf
<1>6. Abstract!MayStart(s)
  <2>1. CASE IsTeardown
    BY <1>3, <2>1 DEF IsTeardown, Current, Abstract!MayStart, Abstract!PhaseOf
  <2>2. CASE ~IsTeardown
    <3>1. /\ \A t \in Steps : StepFailed(t) => cfg.steps[t].cont /\ cfg.steps[t].phase = Current
          /\ \A e \in Entries : ~Bad(e)
      BY <1>2, <2>2 DEF LoopInv, OnlyTolerated
    <3>2. \A t \in Abstract!Steps : Abstract!Failed(t) => cfg.steps[t].cont /\ cfg.steps[t].phase = cfg.steps[s].phase
      BY <1>3, <3>1, MappedFailures, SameDomains DEF Current
    <3>3. \A e \in Abstract!Validations : Outcome[e] # "bad"
      BY <3>1, MappedFailures, SameDomains
    <3>4. QED
      BY <3>2, <3>3 DEF Abstract!MayStart, Abstract!OnlyTolerated, Abstract!PhaseOf, Outcome
  <2>3. QED
    BY <2>1, <2>2
<1>7. Reached' = [Reached EXCEPT ![s] = IF how = "ok" THEN "ok" ELSE "failed"] /\ Outcome' = Outcome
  <2>1. tried \in [Steps -> {"idle", "ok", "failed", "missing_ref"}]
    BY DEF LoopInv, HonestInv, TypeOK
  <2>2. QED
    BY <1>2, <2>1 DEF Reached, Outcome, Bad, Steps, Entries
<1>8. Reached[s] = "no"
  BY <1>3 DEF Reached
<1>9. QED
  BY <1>2, <1>4, <1>5, <1>6, <1>7, <1>8, SameDomains DEF Abstract!ReachStep, Reached, Outcome

\* Recording outcomes for open validations, and nothing else, is Settle.
LEMMA SettleRefines ==
  ASSUME LoopInv, cfg' = cfg, tried' = tried,
         AbstractStatus = "running", AbstractStatus' = "running",
         resolved' \in [Entries -> Outcomes],
         \A e \in Entries : resolved[e] # "open" => resolved'[e] = resolved[e]
  PROVE  Abstract!Settle
<1> DEFINE S == {e \in Entries : resolved[e] = "open" /\ resolved'[e] # "open"}
           new == [e \in S |-> Outcome'[e]]
<1>1. S \subseteq {e \in Abstract!Validations : Outcome[e] = "open"}
  BY MappedFailures, SameDomains
<1>2. \A e \in S : Outcome'[e] \in {"good", "bad"}
  BY DEF Outcome, Entries
<1>3. new \in [S -> {"good", "bad"}]
  BY <1>2
<1>4. ASSUME NEW e \in Entries PROVE Outcome'[e] = IF e \in S THEN new[e] ELSE Outcome[e]
  BY DEF Outcome, Entries, Bad
<1>5. Outcome' = [e \in Abstract!Validations |-> IF e \in S THEN new[e] ELSE Outcome[e]]
  BY <1>4, SameDomains DEF Outcome, Entries
<1>6. Reached' = Reached
  BY DEF Reached, Steps
<1> HIDE DEF S, new
<1>7. \E n \in [S -> {"good", "bad"}] :
        Outcome' = [e \in Abstract!Validations |-> IF e \in S THEN n[e] ELSE Outcome[e]]
  BY <1>3, <1>5
<1>8. QED
  BY <1>1, <1>6, <1>7 DEF Abstract!Settle, Reached, Outcome

\* Steps that touch neither steps nor outcomes are invisible to Lifecycle.
LEMMA Invisible ==
  ASSUME cfg' = cfg, tried' = tried, resolved' = resolved
  PROVE  Reached' = Reached /\ Outcome' = Outcome
BY DEF Reached, Outcome, Steps, Entries, Bad

LEMMA ReturnRefines ==
  ASSUME LoopInv, Finish
  PROVE  Abstract!Return
<1> USE DEF stepVars, entryVars, runVars
<1>1. /\ pc = "merge" /\ pc' = "done" /\ cfg' = cfg /\ tried' = tried /\ resolved' = resolved
      /\ phaseResults' = phaseResults /\ result' = IF overallSuccess THEN "success" ELSE "failure"
  BY DEF Finish
<1>2. AbstractStatus = "running"
  BY <1>1 DEF AbstractStatus
<1>3. Returned'
  BY <1>1 DEF Returned, LoopInv, NotRefused
<1>4. AbstractStatus' = result'
  BY <1>1, <1>3 DEF AbstractStatus
<1>5. \A e \in Abstract!Validations : Outcome[e] # "open"
  <2>1. "open" \notin Terminal
    BY DEF Terminal, Skips, Errors
  <2>2. QED
    BY <1>1, <2>1, MappedFailures, SameDomains DEF LoopInv, Settled
<1>6. overallSuccess <=> Abstract!Clean
  <2>1. overallSuccess <=> Clean
    BY <1>1 DEF LoopInv, HonestInv, Accounted
  <2>2. Clean <=> (\A s \in Steps : ~Abstract!Failed(s)) /\ (\A e \in Entries : Outcome[e] # "bad")
    BY MappedFailures DEF Clean
  <2>3. QED
    BY <2>1, <2>2, SameDomains DEF Abstract!Clean, Outcome
<1>7. Reached' = Reached /\ Outcome' = Outcome
  BY <1>1, Invisible
<1>8. QED
  BY <1>1, <1>2, <1>4, <1>5, <1>6, <1>7 DEF Abstract!Return, Reached, Outcome

LEMMA RejectRefines ==
  ASSUME LoopInv, RejectConfig
  PROVE  Abstract!Reject
<1> USE DEF stepVars, entryVars
<1>1. /\ pc = "start" /\ pc' = "done" /\ cfg' = cfg /\ tried' = tried /\ resolved' = resolved
      /\ \E r \in phaseResults' : r.kind = "config"
  BY DEF RejectConfig
<1>2. AbstractStatus = "running" /\ AbstractStatus' = "rejected"
  BY <1>1 DEF AbstractStatus, Returned
<1>3. /\ \A s \in Abstract!Steps : Reached[s] = "no"
      /\ \A e \in Abstract!Validations : Outcome[e] = "open"
  BY <1>1, MappedFailures, SameDomains DEF LoopInv, Untouched
<1>4. Reached' = Reached /\ Outcome' = Outcome
  BY <1>1, Invisible
<1>5. QED
  BY <1>1, <1>2, <1>3, <1>4 DEF Abstract!Reject, Reached, Outcome

LEMMA RaiseRefines ==
  ASSUME Abort \/ UnconfiguredPlatform
  PROVE  Abstract!Raise
<1> USE DEF stepVars, entryVars
<1>1. /\ pc \notin {"done", "aborted"} /\ pc' = "aborted"
      /\ cfg' = cfg /\ tried' = tried /\ resolved' = resolved
  BY DEF Abort, UnconfiguredPlatform
<1>2. AbstractStatus = "running" /\ AbstractStatus' = "raised"
  BY <1>1 DEF AbstractStatus
<1>3. Reached' = Reached /\ Outcome' = Outcome
  BY <1>1, Invisible
<1>4. QED
  BY <1>1, <1>2, <1>3 DEF Abstract!Raise, Reached, Outcome

LEMMA NextRefines == LoopInv /\ [Next]_vars => [Abstract!Next]_(Abstract!vars)
<1> SUFFICES ASSUME LoopInv, [Next]_vars PROVE [Abstract!Next]_(Abstract!vars)
  OBVIOUS
<1> USE DEF stepVars, entryVars, runVars, outVars
<1>1. CASE Step
  <2>1. PICK s \in Steps : RunStep(s) \/ StepWithoutInputs(s)
    BY <1>1 DEF Step
  <2>2. Abstract!ReachStep(s) /\ s \in Abstract!Steps
    BY <2>1, StepRefines, SameDomains
  <2>3. QED
    BY <2>2 DEF Abstract!Next
<1>2. CASE FinishPhase \/ ResolveRemaining
  <2>1. /\ cfg' = cfg /\ tried' = tried
        /\ pc \in {"finish", "phase"} /\ pc' \in {"phase", "merge"}
    BY <1>2 DEF FinishPhase, ResolveRemaining
  <2>2. AbstractStatus = "running" /\ AbstractStatus' = "running"
    BY <2>1 DEF AbstractStatus
  <2>3. TypeOK'
    BY LoopStep DEF LoopInv, HonestInv
  <2>4. resolved' \in [Entries -> Outcomes]
    BY <2>1, <2>3 DEF TypeOK, Entries
  <2>5. \A e \in Entries : resolved[e] # "open" => resolved'[e] = resolved[e]
    BY RecordedStays
  <2>6. QED
    BY <2>1, <2>2, <2>4, <2>5, SettleRefines DEF Abstract!Next
<1>3. CASE Finish
  BY <1>3, ReturnRefines DEF Abstract!Next
<1>4. CASE RejectConfig
  BY <1>4, RejectRefines DEF Abstract!Next
<1>5. CASE Abort \/ UnconfiguredPlatform
  BY <1>5, RaiseRefines DEF Abstract!Next
<1>6. CASE StartPhases \/ PassOverPhase \/ SkipCurrentPhase \/ EnterPhase \/ StepsDone \/ ResolvePhase \/ RunPytest
  <2>1. /\ cfg' = cfg /\ tried' = tried /\ resolved' = resolved
        /\ pc \notin {"done", "aborted"} /\ pc' \notin {"done", "aborted"}
    BY <1>6 DEF StartPhases, PassOverPhase, SkipCurrentPhase, EnterPhase, StepsDone, ResolvePhase, RunPytest
  <2>2. AbstractStatus' = AbstractStatus
    BY <2>1 DEF AbstractStatus
  <2>3. QED
    BY <2>1, <2>2, Invisible DEF Abstract!vars, Reached, Outcome
<1>7. CASE UNCHANGED vars
  <2>1. AbstractStatus' = AbstractStatus
    BY <1>7 DEF vars, AbstractStatus, Returned
  <2>2. QED
    BY <1>7, <2>1, Invisible DEF vars, Abstract!vars, Reached, Outcome
<1>8. QED
  BY <1>1, <1>2, <1>3, <1>4, <1>5, <1>6, <1>7 DEF Next, Progress, Stopped

LEMMA InitRefines == LoopInv /\ Init => Abstract!Init
<1> SUFFICES ASSUME LoopInv, Init PROVE Abstract!Init
  OBVIOUS
<1>1. Reached = [s \in Steps |-> "no"] /\ Outcome = [e \in Entries |-> "open"]
  BY DEF Init, Reached, Outcome
<1>2. AbstractStatus = "running"
  BY DEF Init, AbstractStatus
<1>3. QED
  BY <1>1, <1>2, SameDomains DEF Init, Abstract!Init, Reached, Outcome

\* A run implements Lifecycle: it starts as Lifecycle does and each of its steps
\* is a step of Lifecycle or leaves it as it was.  That it also ends is checked
\* on instances only.
THEOREM RefinesLifecycle == Spec => Abstract!Init /\ [][Abstract!Next]_(Abstract!vars)
<1>1. Init => Abstract!Init
  BY LoopInit, InitRefines
<1>2. QED
  BY <1>1, LoopInit, LoopStep, NextRefines, PTL DEF Spec
=============================================================================
