------------------------- MODULE OrchestratorProofs -------------------------
(***************************************************************************)
(* Proofs about Orchestrator, for every set of configurations.             *)
(***************************************************************************)
EXTENDS Orchestrator, TLAPS

\* What the assumption on Configs gives about the configuration of a run.
LEMMA ConfigFacts ==
  ASSUME cfg \in Configs
  PROVE  /\ cfg.phases \in Seq(Phases) /\ Len(cfg.phases) \in Nat
         /\ \A i \in 1 .. Len(cfg.phases) : cfg.phases[i] \in Phases
         /\ Len(cfg.steps) \in Nat /\ Len(cfg.entries) \in Nat
         /\ \A s \in Steps : cfg.steps[s] \in StepConfig
         /\ \A e \in Entries : cfg.entries[e] \in EntryConfig
<1>1. cfg \in RunConfig
  BY ConfigsAssumption
<1>2. cfg.phases \in Seq(Phases) /\ cfg.steps \in Seq(StepConfig) /\ cfg.entries \in Seq(EntryConfig)
  BY <1>1 DEF RunConfig
<1>3. QED
  BY <1>2 DEF Steps, Entries

\* A validation's phase is a phase name.
LEMMA EntryPhaseType ==
  ASSUME cfg \in Configs, NEW e \in Entries
  PROVE  EntryPhase(e) \in Phases
<1>1. cfg.entries[e] \in EntryConfig /\ \A s \in Steps : cfg.steps[s] \in StepConfig
  BY ConfigFacts
<1>2. "test" \in Phases
  BY ConfigsAssumption
<1>3. QED
  BY <1>1, <1>2 DEF EntryPhase, EntryConfig, StepConfig

\* resolve_entries leaves an entry ready or gives it a skip or an error.
LEMMA ResolveType ==
  ASSUME NEW e
  PROVE  /\ Resolve(e) \in Skips \cup Errors \cup {"ready"}
         /\ Unexecuted(e) \in Skips \cup Errors
BY DEF Resolve, Unexecuted, Skips, Errors

LEMMA VerdictType ==
  ASSUME NEW o
  PROVE  StubVerdict(o) \in Verdicts /\ PytestVerdict(o) \in Verdicts
BY DEF StubVerdict, PytestVerdict, Verdicts

\* A phase file is a file when its testcases are entries with verdicts.
LEMMA FileType ==
  ASSUME NEW p \in Phases, NEW kind \in {"resolved", "pytest", "deselected", "unexecuted"},
         NEW ok \in BOOLEAN, NEW verdicts, DOMAIN verdicts \subseteq Entries,
         \A e \in DOMAIN verdicts : verdicts[e] \in Verdicts, NEW f \in File(p, kind, ok, verdicts)
  PROVE  IsFile(f)
BY DEF File, IsFile

LEMMA TypeInit == Init => TypeOK
<1> SUFFICES ASSUME Init PROVE TypeOK
  OBVIOUS
<1>1. Len(cfg.phases) \in Nat /\ Len(cfg.steps) \in Nat
  BY ConfigFacts DEF Init
<1>2. /\ ph \in 1 .. Len(cfg.phases) + 1 /\ cursor \in 1 .. Len(cfg.steps) + 1
  BY <1>1 DEF Init
<1>3. /\ tried \in [Steps -> {"idle", "ok", "failed", "missing_ref"}]
      /\ outputs \in [Steps -> {"none", "partial", "full"}]
      /\ plan \in [Entries -> Outcomes \cup {"ready"}]
      /\ resolved \in [Entries -> Outcomes]
  BY DEF Init, Outcomes
<1>4. QED
  BY <1>2, <1>3 DEF Init, TypeOK

\* What TypeOK needs to be inductive: after pytest no planned entry is ready.
PlanSettled == pc = "finish" => \A e \in Entries : plan[e] # "ready"

LEMMA PlanSettledStep == TypeOK /\ PlanSettled /\ [Next]_vars => PlanSettled'
<1> SUFFICES ASSUME TypeOK, PlanSettled, [Next]_vars, pc' = "finish", NEW e \in Entries'
             PROVE  plan'[e] # "ready"
  BY DEF PlanSettled
<1> USE DEF stepVars, entryVars, runVars, outVars
<1>1. CASE ResolvePhase
  <2>1. e \in Entries /\ plan' = [d \in Entries |-> IF d \in PhaseEntries THEN Resolve(d) ELSE "open"]
    BY <1>1 DEF ResolvePhase, Entries
  <2>2. ~ \E d \in PhaseEntries : Resolve(d) = "ready"
    BY <1>1 DEF ResolvePhase
  <2>3. QED
    BY <2>1, <2>2
<1>2. CASE RunPytest
  <2>1. e \in Entries
    BY <1>2 DEF RunPytest, Entries
  <2>2. PICK outcome \in [Planned({"ready"}) -> Captured \cup {"test_excluded"}] :
             plan' = [d \in Entries |-> IF d \in DOMAIN outcome THEN outcome[d] ELSE plan[d]]
    BY <1>2 DEF RunPytest
  <2>3. CASE e \in Planned({"ready"})
    BY <2>1, <2>2, <2>3 DEF Captured
  <2>4. CASE e \notin Planned({"ready"})
    BY <2>1, <2>2, <2>4 DEF Planned
  <2>5. QED
    BY <2>3, <2>4
<1>3. CASE UNCHANGED vars
  BY <1>3 DEF vars, PlanSettled, Entries
<1>4. CASE Step
  BY <1>4 DEF Step, RunStep, StepWithoutInputs, RecordStep
<1>5. QED
  BY <1>1, <1>2, <1>3, <1>4
     DEF Next, Progress, Stopped, UnconfiguredPlatform, RejectConfig, StartPhases, PassOverPhase,
         SkipCurrentPhase, EnterPhase, StepsDone, FinishPhase, ResolveRemaining, Finish, Abort

LEMMA TypeStep == TypeOK /\ PlanSettled /\ [Next]_vars => TypeOK'
<1> SUFFICES ASSUME TypeOK, PlanSettled, [Next]_vars PROVE TypeOK'
  OBVIOUS
<1> USE DEF stepVars, entryVars, runVars, outVars
<1>0. /\ cfg.phases \in Seq(Phases) /\ Len(cfg.phases) \in Nat
      /\ \A i \in 1 .. Len(cfg.phases) : cfg.phases[i] \in Phases
      /\ Len(cfg.steps) \in Nat /\ Len(cfg.entries) \in Nat
  BY ConfigFacts DEF TypeOK
<1>1. CASE RejectConfig
  <2>1. [phase |-> "setup", kind |-> "config", success |-> FALSE] \in PhaseResult
    BY ConfigsAssumption DEF PhaseResult
  <2>2. QED
    BY <1>1, <2>1 DEF RejectConfig, TypeOK, Steps, Entries, IsFile
<1>2. CASE UnconfiguredPlatform \/ StartPhases
  BY <1>2, <1>0 DEF UnconfiguredPlatform, StartPhases, TypeOK, Steps, Entries, IsFile
<1>3. CASE PassOverPhase
  BY <1>3, <1>0 DEF PassOverPhase, TypeOK, Steps, Entries, IsFile
<1>4. CASE SkipCurrentPhase
  <2>1. [phase |-> Current, kind |-> "skipped", success |-> TRUE] \in PhaseResult
    BY <1>4, <1>0 DEF SkipCurrentPhase, PhaseResult, Current, TypeOK
  <2>2. phaseResults' \subseteq PhaseResult
    BY <1>4, <2>1 DEF SkipCurrentPhase, TypeOK
  <2>3. /\ ph' = ph + 1 /\ pc = "phase" /\ ph <= Len(cfg.phases)
        /\ UNCHANGED <<cfg, pc, stepVars, entryVars, overallSuccess, setupStepsRan, outVars>>
    BY <1>4 DEF SkipCurrentPhase
  <2>4. QED
    BY <1>0, <2>2, <2>3 DEF TypeOK, Steps, Entries, IsFile
<1>5. CASE EnterPhase
  BY <1>5, <1>0 DEF EnterPhase, TypeOK, Steps, Entries, IsFile
<1>6. CASE Step
  <2> SUFFICES ASSUME NEW s \in Steps, RunStep(s) \/ StepWithoutInputs(s) PROVE TypeOK'
    BY <1>6 DEF Step
  <2>0. PICK how \in {"ok", "failed", "missing_ref"} : RecordStep(s, how)
    BY DEF RunStep, StepWithoutInputs
  <2>1. /\ cursor' = s + 1 /\ pc' \in {"steps", "resolve"} /\ pc = "steps"
        /\ tried' \in [Steps -> {"idle", "ok", "failed", "missing_ref"}]
    BY <2>0 DEF RunStep, StepWithoutInputs, RecordStep, After, TypeOK
  <2>11. stepsOk' \in BOOLEAN
    BY <2>0 DEF RecordStep
  <2>2. outputs' \in [Steps -> {"none", "partial", "full"}]
    BY DEF RunStep, StepWithoutInputs, TypeOK
  <2>3. UNCHANGED <<cfg, ph, entryVars, runVars, outVars>>
    BY DEF RunStep, StepWithoutInputs
  <2>4. QED
    BY <1>0, <2>1, <2>11, <2>2, <2>3 DEF TypeOK, Steps, Entries, IsFile
<1>7. CASE StepsDone
  BY <1>7, <1>0 DEF StepsDone, TypeOK, Steps, Entries, IsFile
<1>8. CASE ResolvePhase
  <2>1. plan' \in [Entries -> Outcomes \cup {"ready"}]
    BY <1>8, ResolveType DEF ResolvePhase, Outcomes, Terminal
  <2>2. ASSUME NEW f \in files' PROVE IsFile(f)
    <3> DEFINE settled == {e \in PhaseEntries : Resolve(e) # "ready"}
    <3>1. Current \in Phases
      BY <1>8, <1>0 DEF ResolvePhase, Current, TypeOK
    <3>2. settled \subseteq Entries
      BY DEF PhaseEntries, OpenEntries
    <3>3. f \in files \/ f \in File(Current, "resolved", TRUE, [e \in settled |-> StubVerdict(Resolve(e))])
      BY <1>8 DEF ResolvePhase
    <3>4. QED
      BY <3>1, <3>2, <3>3, FileType, VerdictType DEF TypeOK
  <2>3. setupStepsRan' \in BOOLEAN
    BY <1>8 DEF ResolvePhase, SetupRan, TypeOK
  <2>4. /\ pc = "resolve" /\ pc' \in {"pytest", "finish"} /\ xml' = "absent"
        /\ UNCHANGED <<cfg, ph, stepVars, resolved, overallSuccess, phaseResults, report, result>>
    BY <1>8 DEF ResolvePhase
  <2>6. QED
    BY <1>0, <2>1, <2>2, <2>3, <2>4 DEF TypeOK, Steps, Entries, IsFile
<1>9. CASE RunPytest
  <2>1. plan' \in [Entries -> Outcomes \cup {"ready"}]
    BY <1>9 DEF RunPytest, Planned, Captured, Outcomes, Terminal, Skips, Errors, TypeOK
  <2>2. QED
    BY <1>9, <1>0, <2>1 DEF RunPytest, TypeOK, Steps, Entries, IsFile
<1>10. CASE FinishPhase
  <2>1. Current \in Phases /\ ph <= Len(cfg.phases)
    BY <1>10, <1>0 DEF FinishPhase, Current, TypeOK
  <2>2. resolved' \in [Entries -> Outcomes]
    BY <1>10 DEF FinishPhase, PlanSettled, PhaseValidations, TypeOK
  <2>3. ASSUME NEW f \in files' PROVE IsFile(f)
    <3>1. CapturedEntries \subseteq Entries /\ MissingFromJunit \subseteq Entries
      BY DEF CapturedEntries, MissingFromJunit, Deselected, Planned
    <3>2. ASSUME f \in PhaseFiles PROVE IsFile(f)
      <4>2. \/ f \in File(Current, "pytest", xml = "parses", [e \in CapturedEntries |-> PytestVerdict(plan[e])])
            \/ f \in File(Current, "deselected", TRUE, [e \in MissingFromJunit |-> StubVerdict(plan[e])])
        BY <3>2 DEF PhaseFiles
      <4>3. CASE f \in File(Current, "pytest", xml = "parses", [e \in CapturedEntries |-> PytestVerdict(plan[e])])
        BY <2>1, <3>1, <4>3, FileType, VerdictType
      <4>4. CASE f \in File(Current, "deselected", TRUE, [e \in MissingFromJunit |-> StubVerdict(plan[e])])
        BY <2>1, <3>1, <4>4, FileType, VerdictType
      <4>5. QED
        BY <4>2, <4>3, <4>4
    <3>3. QED
      BY <1>10, <3>2 DEF FinishPhase, TypeOK
  <2>4. phaseResults' \subseteq PhaseResult
    <3>1. PhaseSucceeded \in BOOLEAN
      BY DEF PhaseSucceeded
    <3>2. [phase |-> Current, kind |-> "run", success |-> PhaseSucceeded] \in PhaseResult
      BY <2>1, <3>1 DEF PhaseResult
    <3>3. QED
      BY <1>10, <3>2 DEF FinishPhase, TypeOK
  <2>5. overallSuccess' \in BOOLEAN
    BY <1>10 DEF FinishPhase
  <2>6. /\ ph' = ph + 1 /\ pc' = "phase"
        /\ UNCHANGED <<cfg, stepVars, plan, xml, setupStepsRan, report, result>>
    BY <1>10 DEF FinishPhase
  <2>7. QED
    BY <1>0, <2>1, <2>2, <2>3, <2>4, <2>5, <2>6 DEF TypeOK, Steps, Entries, IsFile
<1>11. CASE ResolveRemaining
  <2>1. resolved' \in [Entries -> Outcomes]
    BY <1>11, ResolveType DEF ResolveRemaining, Outcomes, Terminal, TypeOK
  <2>2. RemainingPhases \subseteq Phases /\ \A p : RemainingIn(p) \subseteq Entries
    BY EntryPhaseType DEF RemainingPhases, RemainingIn, Remaining, OpenEntries, TypeOK
  <2>3. ASSUME NEW f \in files' PROVE IsFile(f)
    <3>1. ASSUME NEW p \in RemainingPhases,
                 f \in File(p, "unexecuted", TRUE, [e \in RemainingIn(p) |-> StubVerdict(Unexecuted(e))])
          PROVE  IsFile(f)
      BY <2>2, <3>1, FileType, VerdictType
    <3>2. QED
      BY <1>11, <3>1 DEF ResolveRemaining, TypeOK
  <2>4. phaseResults' \subseteq PhaseResult
    <3>1. ASSUME NEW p \in RemainingPhases
          PROVE  [phase |-> p, kind |-> "unexecuted", success |-> AllGood(RemainingIn(p))] \in PhaseResult
      BY <2>2 DEF PhaseResult, AllGood
    <3>2. QED
      BY <1>11, <3>1 DEF ResolveRemaining, TypeOK
  <2>5. overallSuccess' \in BOOLEAN
    BY <1>11 DEF ResolveRemaining
  <2>6. /\ pc' = "merge"
        /\ UNCHANGED <<cfg, ph, stepVars, plan, xml, setupStepsRan, report, result>>
    BY <1>11 DEF ResolveRemaining
  <2>7. QED
    BY <1>0, <2>1, <2>3, <2>4, <2>5, <2>6 DEF TypeOK, Steps, Entries, IsFile
<1>12. CASE Finish \/ Abort
  BY <1>12, <1>0 DEF Finish, Abort, TypeOK, Steps, Entries, IsFile
<1>13. CASE UNCHANGED vars
  BY <1>13 DEF vars, TypeOK, Steps, Entries, IsFile
<1>14. QED
  BY <1>1, <1>2, <1>3, <1>4, <1>5, <1>6, <1>7, <1>8, <1>9, <1>10, <1>11, <1>12, <1>13
     DEF Next, Progress, Stopped

\* The run's state has its type in every reachable state, for every set of
\* configurations.
THEOREM TypeCorrect == Spec => []TypeOK
<1>1. Init => TypeOK /\ PlanSettled
  BY TypeInit DEF Init, PlanSettled
<1>2. TypeOK /\ PlanSettled /\ [Next]_vars => (TypeOK /\ PlanSettled)'
  BY TypeStep, PlanSettledStep
<1>3. QED
  BY <1>1, <1>2, PTL DEF Spec

-----------------------------------------------------------------------------
(* The result of a run is honest.  The inductive invariant keeps account   *)
(* of every failure at every point of the loop; it needs that no step runs *)
(* twice and that no recorded outcome is overwritten.                      *)

InPhase == pc \in {"steps", "resolve", "pytest", "finish"}
Clean == (\A s \in Steps : ~StepFailed(s)) /\ (\A e \in Entries : ~Bad(e))

\* Only validations without an outcome are planned for execution.
PlanOpen == pc \in {"pytest", "finish"} =>
  \A e \in Entries : plan[e] # "open" => resolved[e] = "open"

\* A step is reached in its own phase and once.
ReachedOnce == \A s \in Steps : tried[s] # "idle" =>
  \E i \in DOMAIN cfg.phases :
    /\ cfg.phases[i] = cfg.steps[s].phase
    /\ i < ph \/ (i = ph /\ pc \notin {"start", "phase"} /\ (pc = "steps" => s < cursor))

\* Every failure so far is in the flags the result is computed from.
Accounted ==
  /\ pc \in {"start", "phase", "merge"} => (overallSuccess <=> Clean)
  /\ InPhase => (overallSuccess /\ stepsOk <=> Clean)
  /\ Returned => (result = "success" <=> Clean)

HonestInv == TypeOK /\ PlanSettled /\ PlanOpen /\ ReachedOnce /\ Accounted

LEMMA HonestInit == Init => HonestInv
<1> SUFFICES ASSUME Init PROVE HonestInv
  OBVIOUS
<1>1. TypeOK
  BY TypeInit
<1>2. Clean
  BY DEF Init, Clean, StepFailed, Bad, Errors
<1>3. QED
  BY <1>1, <1>2 DEF Init, HonestInv, PlanSettled, PlanOpen, ReachedOnce, Accounted, InPhase, Returned

LEMMA PlanOpenStep == HonestInv /\ [Next]_vars => PlanOpen'
<1> SUFFICES ASSUME HonestInv, [Next]_vars, pc' \in {"pytest", "finish"}, NEW e \in Entries', plan'[e] # "open"
             PROVE  resolved'[e] = "open"
  BY DEF PlanOpen
<1> USE DEF stepVars, entryVars, runVars, outVars
<1>1. CASE ResolvePhase
  BY <1>1 DEF ResolvePhase, Entries, PhaseEntries, OpenEntries
<1>2. CASE RunPytest
  <2>1. e \in Entries /\ resolved' = resolved /\ pc = "pytest"
    BY <1>2 DEF RunPytest, Entries
  <2>2. PICK outcome \in [Planned({"ready"}) -> Captured \cup {"test_excluded"}] :
             plan' = [d \in Entries |-> IF d \in DOMAIN outcome THEN outcome[d] ELSE plan[d]]
    BY <1>2 DEF RunPytest
  <2>3. plan[e] # "open"
    BY <2>1, <2>2 DEF Planned
  <2>4. QED
    BY <2>1, <2>3 DEF HonestInv, PlanOpen
<1>3. CASE UNCHANGED vars
  BY <1>3 DEF vars, HonestInv, PlanOpen, Entries
<1>4. CASE Step
  BY <1>4 DEF Step, RunStep, StepWithoutInputs, RecordStep
<1>5. QED
  BY <1>1, <1>2, <1>3, <1>4
     DEF Next, Progress, Stopped, UnconfiguredPlatform, RejectConfig, StartPhases, PassOverPhase,
         SkipCurrentPhase, EnterPhase, StepsDone, FinishPhase, ResolveRemaining, Finish, Abort

\* A step about to run has not been reached: its phase occurs once in the list.
LEMMA NextStepIsFresh ==
  ASSUME HonestInv, pc = "steps", NEW s \in Steps, IsNextStep(s)
  PROVE  tried[s] = "idle" /\ cfg.phases[ph] = cfg.steps[s].phase /\ ph \in DOMAIN cfg.phases
<1>1. s >= cursor /\ cfg.steps[s].phase = cfg.phases[ph]
  BY DEF IsNextStep, StepsLeft, PhaseSteps, Current
<1>2. ph \in DOMAIN cfg.phases /\ DOMAIN cfg.phases = 1 .. Len(cfg.phases)
  BY ConfigFacts DEF HonestInv, TypeOK
<1>3. \A i, j \in DOMAIN cfg.phases : cfg.phases[i] = cfg.phases[j] => i = j
  BY ConfigsAssumption DEF HonestInv, TypeOK
<1>4. ASSUME tried[s] # "idle" PROVE FALSE
  <2>1. PICK i \in DOMAIN cfg.phases :
          cfg.phases[i] = cfg.steps[s].phase /\ (i < ph \/ (i = ph /\ s < cursor))
    BY <1>4 DEF HonestInv, ReachedOnce
  <2>2. i = ph
    BY <1>1, <1>2, <1>3, <2>1
  <2>3. s < cursor
    BY <1>2, <2>1, <2>2
  <2>4. cursor \in Nat /\ s \in Nat
    BY ConfigFacts DEF HonestInv, TypeOK, Steps
  <2>5. QED
    BY <1>1, <2>3, <2>4
<1>5. QED
  BY <1>1, <1>2, <1>4

LEMMA ReachedOnceStep == HonestInv /\ [Next]_vars => ReachedOnce'
<1> SUFFICES ASSUME HonestInv, [Next]_vars PROVE ReachedOnce'
  OBVIOUS
<1> USE DEF stepVars, entryVars, runVars, outVars
<1>0. cfg' = cfg /\ ph \in Nat /\ cursor \in Nat /\ DOMAIN cfg.phases = 1 .. Len(cfg.phases) /\ Len(cfg.phases) \in Nat
  <2>1. cfg' = cfg
    BY DEF Next, Progress, Step, Stopped, UnconfiguredPlatform, RejectConfig, StartPhases, PassOverPhase,
           SkipCurrentPhase, EnterPhase, RunStep, StepWithoutInputs, StepsDone, ResolvePhase, RunPytest,
           FinishPhase, ResolveRemaining, Finish, Abort, vars
  <2>2. QED
    BY <2>1, ConfigFacts DEF HonestInv, TypeOK
<1>1. CASE Step
  <2>1. PICK s \in Steps : RunStep(s) \/ StepWithoutInputs(s)
    BY <1>1 DEF Step
  <2>2. PICK how : RecordStep(s, how)
    BY <2>1 DEF RunStep, StepWithoutInputs
  <2>3. /\ pc = "steps" /\ IsNextStep(s) /\ ph' = ph /\ cursor' = s + 1
        /\ pc' \in {"steps", "resolve"} /\ tried' = [tried EXCEPT ![s] = how]
    BY <2>1, <2>2 DEF RunStep, StepWithoutInputs, RecordStep, After
  <2>4. cfg.phases[ph] = cfg.steps[s].phase /\ ph \in DOMAIN cfg.phases
    BY <2>3, NextStepIsFresh
  <2>5. s \in Nat /\ s >= cursor
    BY <2>3, ConfigFacts DEF IsNextStep, StepsLeft, HonestInv, TypeOK, Steps
  <2>6. ASSUME NEW t \in Steps, tried'[t] # "idle"
        PROVE  \E i \in DOMAIN cfg.phases :
                 /\ cfg.phases[i] = cfg.steps[t].phase
                 /\ i < ph \/ (i = ph /\ t < s + 1)
    <3>1. CASE t = s
      BY <2>4, <2>5, <3>1
    <3>2. CASE t # s
      <4>1. tried[t] # "idle" /\ t \in Nat
        BY <2>3, <2>6, <3>2 DEF HonestInv, TypeOK, Steps
      <4>2. PICK i \in DOMAIN cfg.phases :
              cfg.phases[i] = cfg.steps[t].phase /\ (i < ph \/ (i = ph /\ t < cursor))
        BY <4>1, <2>3 DEF HonestInv, ReachedOnce
      <4>3. QED
        BY <4>1, <4>2, <2>5, <1>0
    <3>3. QED
      BY <3>1, <3>2
  <2>7. QED
    BY <1>0, <2>3, <2>6 DEF ReachedOnce, InPhase, Steps
<1>2. CASE tried' = tried /\ ph' = ph + 1
  BY <1>0, <1>2 DEF HonestInv, ReachedOnce, Steps
<1>3. CASE tried' = tried /\ ph' = ph /\ pc \in {"start", "phase"}
  BY <1>0, <1>3 DEF HonestInv, ReachedOnce, Steps
<1>4. CASE tried' = tried /\ ph' = ph /\ pc \notin {"start", "phase"} /\ pc' \notin {"start", "phase", "steps"}
  BY <1>0, <1>4 DEF HonestInv, ReachedOnce, Steps
<1>5. CASE UNCHANGED vars
  BY <1>5 DEF vars, HonestInv, ReachedOnce, Steps, InPhase
<1>6. QED
  BY <1>1, <1>2, <1>3, <1>4, <1>5
     DEF Next, Progress, Stopped, UnconfiguredPlatform, RejectConfig, StartPhases, PassOverPhase,
         SkipCurrentPhase, EnterPhase, StepsDone, ResolvePhase, RunPytest, FinishPhase,
         ResolveRemaining, Finish, Abort

\* The flags keep account of every failure across each step of the run.
LEMMA AccountedStep == HonestInv /\ [Next]_vars => Accounted'
<1> SUFFICES ASSUME HonestInv, [Next]_vars PROVE Accounted'
  OBVIOUS
<1> USE DEF stepVars, entryVars, runVars, outVars
<1>0. cfg' = cfg
  BY DEF Next, Progress, Step, Stopped, UnconfiguredPlatform, RejectConfig, StartPhases, PassOverPhase,
         SkipCurrentPhase, EnterPhase, RunStep, StepWithoutInputs, StepsDone, ResolvePhase, RunPytest,
         FinishPhase, ResolveRemaining, Finish, Abort, vars
<1>1. ASSUME UNCHANGED <<tried, resolved>> PROVE Clean' <=> Clean
  BY <1>0, <1>1 DEF Clean, StepFailed, Bad, Steps, Entries
<1>2. CASE RejectConfig
  <2>1. ~Returned' /\ pc' = "done"
    BY <1>2 DEF RejectConfig, Returned
  <2>2. QED
    BY <2>1 DEF Accounted, InPhase
<1>3. CASE StartPhases \/ PassOverPhase \/ SkipCurrentPhase \/ EnterPhase
  <2>1. /\ pc \in {"start", "phase"} /\ UNCHANGED <<tried, resolved, overallSuccess>>
        /\ pc' = "phase" \/ (pc' = "steps" /\ stepsOk' = TRUE)
    BY <1>3 DEF StartPhases, PassOverPhase, SkipCurrentPhase, EnterPhase
  <2>2. QED
    BY <2>1, <1>1 DEF HonestInv, Accounted, InPhase, Returned
<1>4. CASE Step
  <2>1. PICK s \in Steps : RunStep(s) \/ StepWithoutInputs(s)
    BY <1>4 DEF Step
  <2>2. PICK how \in {"ok", "failed", "missing_ref"} : RecordStep(s, how)
    BY <2>1 DEF RunStep, StepWithoutInputs
  <2>3. /\ pc = "steps" /\ IsNextStep(s) /\ UNCHANGED <<resolved, overallSuccess>>
        /\ pc' \in {"steps", "resolve"} /\ tried' = [tried EXCEPT ![s] = how]
        /\ stepsOk' = (stepsOk /\ how = "ok")
    BY <2>1, <2>2 DEF RunStep, StepWithoutInputs, RecordStep, KeepsSuccess
  <2>4. tried[s] = "idle" /\ tried \in [Steps -> {"idle", "ok", "failed", "missing_ref"}]
    BY <2>3, NextStepIsFresh DEF HonestInv, TypeOK
  <2>5. (\A t \in Steps : ~StepFailed(t))' <=> (\A t \in Steps : ~StepFailed(t)) /\ how = "ok"
    BY <1>0, <2>3, <2>4 DEF StepFailed, Steps
  <2>6. (\A e \in Entries : ~Bad(e))' <=> (\A e \in Entries : ~Bad(e))
    BY <1>0, <2>3 DEF Bad, Entries
  <2>7. overallSuccess /\ stepsOk <=> Clean
    BY <2>3 DEF HonestInv, Accounted, InPhase
  <2>8. overallSuccess' /\ stepsOk' <=> Clean'
    BY <2>3, <2>5, <2>6, <2>7 DEF Clean
  <2>9. QED
    BY <2>3, <2>8 DEF Accounted, InPhase, Returned
<1>5. CASE StepsDone \/ ResolvePhase \/ RunPytest
  <2>1. InPhase /\ InPhase' /\ UNCHANGED <<tried, resolved, overallSuccess, stepsOk>>
    BY <1>5 DEF StepsDone, ResolvePhase, RunPytest, InPhase
  <2>2. QED
    BY <2>1, <1>1 DEF HonestInv, Accounted, InPhase, Returned
<1>6. CASE FinishPhase
  <2>1. /\ pc = "finish" /\ pc' = "phase" /\ tried' = tried
        /\ resolved' = [e \in Entries |-> IF e \in PhaseValidations THEN plan[e] ELSE resolved[e]]
        /\ overallSuccess' = (overallSuccess /\ PhaseSucceeded)
    BY <1>6 DEF FinishPhase
  <2>2. (\A s \in Steps : ~StepFailed(s))' <=> (\A s \in Steps : ~StepFailed(s))
    BY <1>0, <2>1 DEF StepFailed, Steps
  <2>3. \A e \in PhaseValidations : plan[e] \in Terminal /\ resolved[e] = "open"
    BY <2>1 DEF HonestInv, TypeOK, PlanSettled, PlanOpen, PhaseValidations, Outcomes
  <2>4. \A o \in Terminal : o \in {"failed"} \cup Errors <=> o \notin Good
    BY DEF Terminal, Errors, Good, Skips
  <2>5. ASSUME NEW e \in Entries
        PROVE  Bad(e)' <=> Bad(e) \/ (e \in PhaseValidations /\ plan[e] \notin Good)
    <3>1. CASE e \in PhaseValidations
      <4>1. resolved'[e] = plan[e] /\ plan[e] \in Terminal /\ ~Bad(e)
        BY <2>1, <2>3, <3>1 DEF Bad, Errors
      <4>2. QED
        BY <4>1, <2>4, <3>1 DEF Bad
    <3>2. CASE e \notin PhaseValidations
      BY <2>1, <3>2 DEF Bad
    <3>3. QED
      BY <3>1, <3>2
  <2>6. (\A e \in Entries : ~Bad(e))' <=>
          (\A e \in Entries : ~Bad(e)) /\ (\A e \in PhaseValidations : plan[e] \in Good)
    BY <1>0, <2>5 DEF Entries, PhaseValidations
  <2>7. overallSuccess' <=> Clean'
    BY <2>1, <2>2, <2>6 DEF HonestInv, Accounted, InPhase, Clean, PhaseSucceeded
  <2>8. QED
    BY <2>1, <2>7 DEF Accounted, InPhase, Returned
<1>7. CASE ResolveRemaining
  <2>1. /\ pc = "phase" /\ pc' = "merge" /\ tried' = tried
        /\ resolved' = [e \in Entries |-> IF e \in Remaining THEN Unexecuted(e) ELSE resolved[e]]
        /\ overallSuccess' = (overallSuccess /\ \A e \in Remaining : Unexecuted(e) \in Good)
    BY <1>7 DEF ResolveRemaining, RemainingSucceeded, AllGood
  <2>2. (\A s \in Steps : ~StepFailed(s))' <=> (\A s \in Steps : ~StepFailed(s))
    BY <1>0, <2>1 DEF StepFailed, Steps
  <2>3. ASSUME NEW e \in Entries
        PROVE  Bad(e)' <=> Bad(e) \/ (e \in Remaining /\ Unexecuted(e) \notin Good)
    <3>1. CASE e \in Remaining
      BY <2>1, <3>1, ResolveType DEF Bad, Remaining, OpenEntries, Good, Skips, Errors
    <3>2. CASE e \notin Remaining
      BY <2>1, <3>2 DEF Bad
    <3>3. QED
      BY <3>1, <3>2
  <2>4. (\A e \in Entries : ~Bad(e))' <=>
          (\A e \in Entries : ~Bad(e)) /\ (\A e \in Remaining : Unexecuted(e) \in Good)
    BY <1>0, <2>3 DEF Entries, Remaining, OpenEntries
  <2>5. overallSuccess' <=> Clean'
    BY <2>1, <2>2, <2>4 DEF HonestInv, Accounted, Clean
  <2>6. QED
    BY <2>1, <2>5 DEF Accounted, InPhase, Returned
<1>8. CASE Finish
  <2>1. /\ pc = "merge" /\ pc' = "done" /\ UNCHANGED <<tried, resolved, overallSuccess>>
        /\ result' = IF overallSuccess THEN "success" ELSE "failure"
    BY <1>8 DEF Finish
  <2>2. QED
    BY <2>1, <1>1 DEF HonestInv, Accounted, InPhase, Returned
<1>9. CASE Abort \/ UnconfiguredPlatform
  BY <1>9 DEF Abort, UnconfiguredPlatform, Accounted, InPhase, Returned
<1>10. CASE UNCHANGED vars
  BY <1>1, <1>10 DEF vars, HonestInv, Accounted, InPhase, Returned
<1>11. QED
  BY <1>2, <1>3, <1>4, <1>5, <1>6, <1>7, <1>8, <1>9, <1>10 DEF Next, Progress, Stopped

\* When a run returns, its result is success exactly when no step failed and no
\* validation failed or errored.
THEOREM Honest == Spec => []ResultIsHonest
<1>1. Init => HonestInv
  BY HonestInit
<1>2. HonestInv /\ [Next]_vars => HonestInv'
  BY TypeStep, PlanSettledStep, PlanOpenStep, ReachedOnceStep, AccountedStep DEF HonestInv
<1>3. HonestInv => ResultIsHonest
  BY DEF HonestInv, Accounted, ResultIsHonest, Clean
<1>4. QED
  BY <1>1, <1>2, <1>3, PTL DEF Spec
=============================================================================
