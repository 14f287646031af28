----------------------------- MODULE ReportProofs -----------------------------
(***************************************************************************)
(* For every set of configurations: a validation is executed only on data  *)
(* its run produced, and the merged report has exactly one testcase for    *)
(* every validation.                                                       *)
(***************************************************************************)
EXTENDS LifecycleProofs

-----------------------------------------------------------------------------
(* Executed on real data.  What makes a validation ready stays true: an    *)
(* output, once stored, is never replaced, because no step runs twice.     *)

\* Only a step whose command ran has left an output.
OutputsStored == \A s \in Steps : outputs[s] # "none" => tried[s] \in {"ok", "failed"}

OnRealData(e) ==
  LET en == cfg.entries[e]
  IN  /\ Requested(EntryPhase(e))
      /\ en.step # NoStep => en.step \in Steps /\ outputs[en.step] # "none"
      /\ \A r \in en.refs : Available(r)

\* Ready, executed in this phase, or recorded as executed.
ExecutedReady ==
  \A e \in Entries :
    plan[e] \in {"ready"} \cup Captured \/ resolved[e] \in Captured => OnRealData(e)

DataInv == HonestInv /\ OutputsStored /\ ExecutedReady

LEMMA HonestStep == HonestInv /\ [Next]_vars => HonestInv'
BY TypeStep, PlanSettledStep, PlanOpenStep, ReachedOnceStep, AccountedStep DEF HonestInv

\* A step that is executed leaves every other step as it was.
LEMMA StepEffect ==
  ASSUME HonestInv, NEW s \in Steps, RunStep(s) \/ StepWithoutInputs(s)
  PROVE  /\ tried[s] = "idle"
         /\ \A t \in Steps : t # s => outputs'[t] = outputs[t] /\ tried'[t] = tried[t]
         /\ tried'[s] \in {"ok", "failed"} \/ outputs'[s] = outputs[s]
<1>1. pc = "steps" /\ IsNextStep(s)
  BY DEF RunStep, StepWithoutInputs
<1>2. tried[s] = "idle"
  BY <1>1, NextStepIsFresh
<1>3. tried \in [Steps -> {"idle", "ok", "failed", "missing_ref"}] /\ outputs \in [Steps -> {"none", "partial", "full"}]
  BY DEF HonestInv, TypeOK
<1>4. CASE RunStep(s)
  BY <1>2, <1>3, <1>4 DEF RunStep, RecordStep
<1>5. CASE StepWithoutInputs(s)
  BY <1>2, <1>3, <1>5 DEF StepWithoutInputs, RecordStep
<1>6. QED
  BY <1>4, <1>5

\* Every other action leaves the steps alone.
LEMMA StepsUntouched ==
  ASSUME [Next]_vars, ~Step
  PROVE  tried' = tried /\ outputs' = outputs
BY DEF Next, Progress, Stopped, UnconfiguredPlatform, RejectConfig, StartPhases, PassOverPhase,
       SkipCurrentPhase, EnterPhase, StepsDone, ResolvePhase, RunPytest, FinishPhase,
       ResolveRemaining, Finish, Abort, vars, stepVars

LEMMA OutputsStoredStep == HonestInv /\ OutputsStored /\ [Next]_vars => OutputsStored'
<1> SUFFICES ASSUME HonestInv, OutputsStored, [Next]_vars, NEW t \in Steps', outputs'[t] # "none"
             PROVE  tried'[t] \in {"ok", "failed"}
  BY DEF OutputsStored
<1>1. t \in Steps
  BY ConfigKept DEF Steps
<1>2. CASE Step
  <2>1. PICK s \in Steps : RunStep(s) \/ StepWithoutInputs(s)
    BY <1>2 DEF Step
  <2>2. QED
    BY <1>1, <2>1, StepEffect DEF OutputsStored
<1>3. CASE ~Step
  BY <1>1, <1>3, StepsUntouched DEF OutputsStored
<1>4. QED
  BY <1>2, <1>3

\* An output that is stored stays as it is.
LEMMA OutputStays ==
  ASSUME HonestInv, OutputsStored, [Next]_vars, NEW t \in Steps, outputs[t] # "none"
  PROVE  outputs'[t] = outputs[t]
<1>1. CASE Step
  <2>1. PICK s \in Steps : RunStep(s) \/ StepWithoutInputs(s)
    BY <1>1 DEF Step
  <2>2. t # s
    BY <2>1, StepEffect DEF OutputsStored
  <2>3. QED
    BY <2>1, <2>2, StepEffect
<1>2. CASE ~Step
  BY <1>2, StepsUntouched
<1>3. QED
  BY <1>1, <1>2

LEMMA RealDataStays ==
  ASSUME HonestInv, OutputsStored, [Next]_vars, NEW e \in Entries, OnRealData(e)
  PROVE  OnRealData(e)'
<1>1. cfg' = cfg
  BY ConfigKept
<1>2. EntryPhase(e)' = EntryPhase(e) /\ Steps' = Steps
  BY <1>1 DEF EntryPhase, Steps
<1>3. Requested(EntryPhase(e))'
  BY <1>1, <1>2 DEF OnRealData, Requested
<1>4. cfg.entries[e].step # NoStep => cfg.entries[e].step \in Steps /\ outputs'[cfg.entries[e].step] # "none"
  BY OutputStays DEF OnRealData
<1>5. \A r \in cfg.entries[e].refs : r \in Steps /\ outputs'[r] = "full"
  BY OutputStays DEF OnRealData, Available
<1>6. QED
  BY <1>1, <1>2, <1>3, <1>4, <1>5 DEF OnRealData, Available

\* What the resolution lets through has its data.
LEMMA ReadyIsReal ==
  ASSUME cfg \in Configs, NEW e \in Entries, Resolve(e) = "ready"
  PROVE  OnRealData(e)
<1>1. /\ ~(cfg.entries[e].step # NoStep /\ cfg.entries[e].step \notin Steps)
      /\ ~NoOutput(e) /\ RequestedForResolution(EntryPhase(e))
      /\ \A r \in cfg.entries[e].refs : Available(r)
  BY DEF Resolve
<1>2. Requested(EntryPhase(e))
  BY <1>1 DEF RequestedForResolution, Requested
<1>3. QED
  BY <1>1, <1>2 DEF OnRealData, NoOutput

\* No other outcome of the resolution is one that pytest captures.
LEMMA ResolveNotCaptured ==
  ASSUME NEW e
  PROVE  Resolve(e) \notin Captured /\ Unexecuted(e) \notin Captured
BY DEF Resolve, Unexecuted, Captured

LEMMA ExecutedReadyStep == DataInv /\ [Next]_vars => ExecutedReady'
<1> SUFFICES ASSUME DataInv, [Next]_vars, NEW e \in Entries',
                    plan'[e] \in {"ready"} \cup Captured \/ resolved'[e] \in Captured
             PROVE  OnRealData(e)'
  BY DEF ExecutedReady
<1> USE DEF stepVars, entryVars, runVars, outVars
<1>0. e \in Entries /\ cfg' = cfg /\ cfg \in Configs
  BY ConfigKept DEF Entries, DataInv, HonestInv, TypeOK
<1>1. ASSUME OnRealData(e) PROVE OnRealData(e)'
  BY <1>0, <1>1, RealDataStays DEF DataInv
<1>2. CASE UNCHANGED <<plan, resolved>>
  BY <1>0, <1>1, <1>2 DEF DataInv, ExecutedReady
<1>3. CASE ResolvePhase
  <2>1. /\ resolved' = resolved
        /\ plan' = [d \in Entries |-> IF d \in PhaseEntries THEN Resolve(d) ELSE "open"]
    BY <1>3 DEF ResolvePhase
  <2>2. CASE plan'[e] \in {"ready"} \cup Captured
    <3>1. Resolve(e) = "ready"
      BY <1>0, <2>1, <2>2, ResolveNotCaptured DEF Captured
    <3>2. QED
      BY <1>0, <1>1, <3>1, ReadyIsReal
  <2>3. CASE resolved'[e] \in Captured
    BY <1>0, <1>1, <2>1, <2>3 DEF DataInv, ExecutedReady
  <2>4. QED
    BY <2>2, <2>3
<1>4. CASE RunPytest
  <2>1. resolved' = resolved
    BY <1>4 DEF RunPytest
  <2>2. PICK outcome \in [Planned({"ready"}) -> Captured \cup {"test_excluded"}] :
             plan' = [d \in Entries |-> IF d \in DOMAIN outcome THEN outcome[d] ELSE plan[d]]
    BY <1>4 DEF RunPytest
  <2>3. CASE e \in Planned({"ready"})
    BY <1>0, <1>1, <2>3 DEF Planned, DataInv, ExecutedReady
  <2>4. CASE e \notin Planned({"ready"})
    <3>1. plan'[e] = plan[e]
      BY <1>0, <2>2, <2>4
    <3>2. QED
      BY <1>0, <1>1, <2>1, <3>1 DEF DataInv, ExecutedReady
  <2>5. QED
    BY <2>3, <2>4
<1>5. CASE FinishPhase
  <2>1. /\ plan' = plan
        /\ resolved' = [d \in Entries |-> IF d \in PhaseValidations THEN plan[d] ELSE resolved[d]]
    BY <1>5 DEF FinishPhase
  <2>2. plan[e] \in {"ready"} \cup Captured \/ resolved[e] \in Captured
    BY <1>0, <2>1
  <2>3. QED
    BY <1>0, <1>1, <2>2 DEF DataInv, ExecutedReady
<1>6. CASE ResolveRemaining
  <2>1. /\ plan' = plan
        /\ resolved' = [d \in Entries |-> IF d \in Remaining THEN Unexecuted(d) ELSE resolved[d]]
    BY <1>6 DEF ResolveRemaining
  <2>2. plan[e] \in {"ready"} \cup Captured \/ resolved[e] \in Captured
    BY <1>0, <2>1, ResolveNotCaptured
  <2>3. QED
    BY <1>0, <1>1, <2>2 DEF DataInv, ExecutedReady
<1>7. CASE Step
  BY <1>2, <1>7 DEF Step, RunStep, StepWithoutInputs
<1>8. CASE UNCHANGED vars
  BY <1>2, <1>8 DEF vars
<1>9. QED
  BY <1>2, <1>3, <1>4, <1>5, <1>6, <1>7, <1>8
     DEF Next, Progress, Stopped, UnconfiguredPlatform, RejectConfig, StartPhases, PassOverPhase,
         SkipCurrentPhase, EnterPhase, StepsDone, Finish, Abort

\* A validation is executed only when its phase was requested, its step ran and
\* left an output, and every output its parameters read is complete: whatever
\* failed, was skipped or was left out of the configuration before it.
THEOREM RealData == Spec => []ExecutedOnRealData
<1>1. Init => DataInv
  <2> SUFFICES ASSUME Init PROVE DataInv
    OBVIOUS
  <2>1. OutputsStored /\ ExecutedReady
    BY DEF Init, OutputsStored, ExecutedReady, Captured
  <2>2. QED
    BY <2>1, HonestInit DEF DataInv
<1>2. DataInv /\ [Next]_vars => DataInv'
  BY HonestStep, OutputsStoredStep, ExecutedReadyStep DEF DataInv
<1>3. DataInv => ExecutedOnRealData
  BY DEF DataInv, OutputsStored, ExecutedReady, OnRealData, Available, ExecutedOnRealData
<1>4. QED
  BY <1>1, <1>2, <1>3, PTL DEF Spec

-----------------------------------------------------------------------------
(* One testcase per validation.                                            *)

\* The parseable files of a set that hold a testcase of e; those after the merge.
Holding(e, F) == {f \in F : f.wellFormed /\ e \in DOMAIN f.cases}
ReportedOnce(e, F) == \E f \in F : f.suite = EntryPhase(e) /\ Holding(e, F) = {f}
Unreported(e, F) == Holding(e, F) = {}

\* What stands in the plan between the resolution and the end of the phase.
InPlan == pc \in {"pytest", "finish"}
PlanKinds == InPlan =>
  \A e \in PhaseValidations :
    /\ EntryPhase(e) = Current
    /\ IF Resolve(e) = "ready" THEN plan[e] \in {"ready", "test_excluded"} \cup Captured
                               ELSE plan[e] = Resolve(e)

\* After a session with a report pytest's file is there.
XmlLeft == pc = "finish" /\ cfg.junit /\ xml = "absent" =>
  \A e \in PhaseValidations : Resolve(e) # "ready"

\* The entries that already have their testcase.
Stubbed(e) == InPlan /\ e \in PhaseValidations /\ Resolve(e) # "ready"
HasCase(e) == resolved[e] # "open" \/ Stubbed(e)

CasesOnce == pc \notin {"done", "aborted"} /\ cfg.junit =>
  \A e \in Entries : IF HasCase(e) THEN ReportedOnce(e, files) ELSE Unreported(e, files)

ReportInv == LoopInv /\ PlanKinds /\ XmlLeft /\ CasesOnce /\ ReportComplete

\* The testcase of e in the file of one kind: there once if e is among the verdicts.
LEMMA CaseInFile ==
  ASSUME cfg.junit, NEW p, NEW kind, NEW ok \in BOOLEAN, NEW verdicts, NEW e
  PROVE  /\ ok /\ e \in DOMAIN verdicts /\ p = EntryPhase(e) => ReportedOnce(e, File(p, kind, ok, verdicts))
         /\ ~ok \/ e \notin DOMAIN verdicts => Unreported(e, File(p, kind, ok, verdicts))
<1> DEFINE file == [suite |-> p, kind |-> kind, wellFormed |-> ok, cases |-> verdicts]
<1>1. file.suite = p /\ file.wellFormed = ok /\ file.cases = verdicts
  OBVIOUS
<1>2. File(p, kind, ok, verdicts) = IF DOMAIN verdicts # {} THEN {file} ELSE {}
  BY DEF File
<1> HIDE DEF file
<1>3. ASSUME ok, e \in DOMAIN verdicts, p = EntryPhase(e) PROVE ReportedOnce(e, File(p, kind, ok, verdicts))
  <2>1. Holding(e, {file}) = {file}
    BY <1>1, <1>3 DEF Holding
  <2>2. QED
    BY <1>1, <1>2, <1>3, <2>1 DEF ReportedOnce
<1>4. ASSUME ~ok \/ e \notin DOMAIN verdicts PROVE Unreported(e, File(p, kind, ok, verdicts))
  <2>1. Holding(e, {file}) = {}
    BY <1>1, <1>4 DEF Holding
  <2>2. Holding(e, {}) = {}
    BY DEF Holding
  <2>3. QED
    BY <1>2, <2>1, <2>2 DEF Unreported
<1>5. QED
  BY <1>3, <1>4

\* More files: a testcase is there once if it is there once in either part.
LEMMA MoreFiles ==
  ASSUME NEW F, NEW G, NEW e
  PROVE  /\ ReportedOnce(e, F) /\ Unreported(e, G) => ReportedOnce(e, F \cup G)
         /\ Unreported(e, F) /\ ReportedOnce(e, G) => ReportedOnce(e, F \cup G)
         /\ Unreported(e, F) /\ Unreported(e, G) => Unreported(e, F \cup G)
<1>1. Holding(e, F \cup G) = Holding(e, F) \cup Holding(e, G)
  BY DEF Holding
<1>2. QED
  BY <1>1 DEF ReportedOnce, Unreported

LEMMA SameFiles ==
  ASSUME cfg' = cfg, NEW e
  PROVE  /\ EntryPhase(e)' = EntryPhase(e)
         /\ \A F : ReportedOnce(e, F)' <=> ReportedOnce(e, F)
         /\ \A F : Unreported(e, F)' <=> Unreported(e, F)
BY DEF EntryPhase, Steps, ReportedOnce, Unreported, Holding


\* The resolution of an entry depends on the configuration and the outputs only.
LEMMA SameResolve ==
  ASSUME cfg' = cfg, outputs' = outputs, NEW e
  PROVE  Resolve(e)' = Resolve(e) /\ Unexecuted(e)' = Unexecuted(e)
<1>1. Resolve(e)' = Resolve(e)
  BY DEF Resolve, ExcludedByUser, NoOutput, RequestedForResolution, EntryPhase, Configured, Available, Steps
<1>2. QED
  BY <1>1 DEF Unexecuted

LEMMA NotOpen == \A e : Resolve(e) # "open" /\ Unexecuted(e) # "open"
BY DEF Resolve, Unexecuted

\* What ResolvePhase and RunPytest make of the plan.
LEMMA PlanEffect ==
  ASSUME LoopInv, PlanKinds, ResolvePhase \/ RunPytest, NEW e \in Entries
  PROVE  /\ plan'[e] # "open" <=> IF pc = "resolve" THEN e \in PhaseEntries ELSE plan[e] # "open"
         /\ plan'[e] # "open" => EntryPhase(e) = Current
         /\ plan'[e] # "open" => IF Resolve(e) = "ready"
                                THEN plan'[e] \in {"ready", "test_excluded"} \cup Captured
                                ELSE plan'[e] = Resolve(e)
<1>1. CASE ResolvePhase
  <2>1. /\ pc = "resolve"
        /\ plan' = [d \in Entries |-> IF d \in PhaseEntries THEN Resolve(d) ELSE "open"]
    BY <1>1 DEF ResolvePhase
  <2>2. QED
    BY <2>1, NotOpen DEF PhaseEntries
<1>2. CASE RunPytest
  <2>1. pc = "pytest" /\ plan \in [Entries -> Outcomes \cup {"ready"}]
    BY <1>2 DEF RunPytest, LoopInv, HonestInv, TypeOK
  <2>2. PICK outcome \in [Planned({"ready"}) -> Captured \cup {"test_excluded"}] :
             plan' = [d \in Entries |-> IF d \in DOMAIN outcome THEN outcome[d] ELSE plan[d]]
    BY <1>2 DEF RunPytest
  <2>3. plan[e] # "open" => EntryPhase(e) = Current
    BY <2>1 DEF PlanKinds, InPlan, PhaseValidations
  <2>4. plan[e] # "open" => IF Resolve(e) = "ready" THEN plan[e] \in {"ready", "test_excluded"} \cup Captured
                                                  ELSE plan[e] = Resolve(e)
    BY <2>1 DEF PlanKinds, InPlan, PhaseValidations
  <2>5. CASE e \in Planned({"ready"})
    <3>1. plan[e] = "ready" /\ Resolve(e) = "ready"
      BY <2>4, <2>5 DEF Planned
    <3>2. plan'[e] \in Captured \cup {"test_excluded"}
      BY <2>2, <2>5
    <3>3. plan'[e] # "open"
      BY <3>2 DEF Captured
    <3>4. QED
      BY <2>1, <2>3, <3>1, <3>2, <3>3
  <2>6. CASE e \notin Planned({"ready"})
    <3>1. plan'[e] = plan[e]
      BY <2>2, <2>6
    <3>2. QED
      BY <2>1, <2>3, <2>4, <3>1
  <2>7. QED
    BY <2>5, <2>6
<1>3. QED
  BY <1>1, <1>2

LEMMA PlanKindsStep == LoopInv /\ PlanKinds /\ [Next]_vars => PlanKinds'
<1> SUFFICES ASSUME LoopInv, PlanKinds, [Next]_vars, InPlan', NEW e \in PhaseValidations'
             PROVE  (/\ EntryPhase(e) = Current
                     /\ IF Resolve(e) = "ready" THEN plan[e] \in {"ready", "test_excluded"} \cup Captured
                                                ELSE plan[e] = Resolve(e))'
  BY DEF PlanKinds
<1> USE DEF stepVars, entryVars, runVars, outVars
<1>0. cfg' = cfg /\ e \in Entries /\ plan'[e] # "open"
  BY ConfigKept DEF PhaseValidations, Entries
<1>1. CASE ResolvePhase \/ RunPytest
  <2>1. ph' = ph /\ outputs' = outputs
    BY <1>1 DEF ResolvePhase, RunPytest
  <2>2. EntryPhase(e)' = EntryPhase(e) /\ Current' = Current /\ Resolve(e)' = Resolve(e)
    BY <1>0, <2>1, SameFiles, SameResolve DEF Current
  <2>3. /\ EntryPhase(e) = Current
        /\ IF Resolve(e) = "ready" THEN plan'[e] \in {"ready", "test_excluded"} \cup Captured
                                    ELSE plan'[e] = Resolve(e)
    BY <1>0, <1>1, PlanEffect
  <2>4. QED
    BY <2>2, <2>3 DEF Captured
<1>2. CASE UNCHANGED vars
  <2>1. EntryPhase(e)' = EntryPhase(e) /\ Current' = Current /\ Resolve(e)' = Resolve(e)
    BY <1>0, <1>2, SameFiles, SameResolve DEF vars, Current
  <2>2. InPlan /\ e \in PhaseValidations /\ plan' = plan
    BY <1>0, <1>2 DEF vars, InPlan, PhaseValidations
  <2>3. QED
    BY <2>1, <2>2 DEF PlanKinds, Captured
<1>3. CASE Step
  BY <1>3 DEF Step, RunStep, StepWithoutInputs, RecordStep, InPlan
<1>4. QED
  BY <1>1, <1>2, <1>3
     DEF Next, Progress, Stopped, UnconfiguredPlatform, RejectConfig, StartPhases, PassOverPhase,
         SkipCurrentPhase, EnterPhase, StepsDone, FinishPhase, ResolveRemaining, Finish, Abort, InPlan

LEMMA XmlLeftStep == LoopInv /\ PlanKinds /\ XmlLeft /\ [Next]_vars => XmlLeft'
<1> SUFFICES ASSUME LoopInv, PlanKinds, XmlLeft, [Next]_vars, pc' = "finish", cfg'.junit, xml' = "absent",
                    NEW e \in PhaseValidations'
             PROVE  Resolve(e)' # "ready"
  BY DEF XmlLeft
<1> USE DEF stepVars, entryVars, runVars, outVars
<1>0. cfg' = cfg /\ e \in Entries /\ plan'[e] # "open"
  BY ConfigKept DEF PhaseValidations, Entries
<1>1. CASE ResolvePhase
  <2>1. pc = "resolve" /\ outputs' = outputs /\ ~ \E d \in PhaseEntries : Resolve(d) = "ready"
    BY <1>1 DEF ResolvePhase
  <2>2. e \in PhaseEntries
    BY <1>0, <1>1, <2>1, PlanEffect
  <2>3. QED
    BY <1>0, <2>1, <2>2, SameResolve
<1>2. CASE RunPytest
  BY <1>0, <1>2 DEF RunPytest
<1>3. CASE UNCHANGED vars
  <2>1. Resolve(e)' = Resolve(e)
    BY <1>0, <1>3, SameResolve DEF vars
  <2>2. QED
    BY <1>0, <1>3, <2>1 DEF vars, XmlLeft, PhaseValidations
<1>4. CASE Step
  BY <1>4 DEF Step, RunStep, StepWithoutInputs, RecordStep
<1>5. QED
  BY <1>1, <1>2, <1>3, <1>4
     DEF Next, Progress, Stopped, UnconfiguredPlatform, RejectConfig, StartPhases, PassOverPhase,
         SkipCurrentPhase, EnterPhase, StepsDone, FinishPhase, ResolveRemaining, Finish, Abort

\* Before and after the phase's file of the validations the resolution settled.
LEMMA CasesAtResolution == ReportInv /\ ResolvePhase => CasesOnce'
<1> SUFFICES ASSUME ReportInv, ResolvePhase, cfg.junit, NEW e \in Entries
             PROVE  IF HasCase(e)' THEN ReportedOnce(e, files)' ELSE Unreported(e, files)'
  BY DEF CasesOnce, Entries, ResolvePhase
<1> DEFINE settled == {d \in PhaseEntries : Resolve(d) # "ready"}
           verdicts == [d \in settled |-> StubVerdict(Resolve(d))]
           new == File(Current, "resolved", TRUE, verdicts)
<1>1. /\ cfg' = cfg /\ outputs' = outputs /\ resolved' = resolved /\ pc = "resolve" /\ pc' \in {"pytest", "finish"}
      /\ files' = files \cup new
  BY DEF ResolvePhase, stepVars
<1>2. HasCase(e)' <=> resolved[e] # "open" \/ e \in settled
  <2>1. plan'[e] # "open" <=> e \in PhaseEntries
    BY <1>1, PlanEffect DEF ReportInv
  <2>2. Resolve(e)' = Resolve(e)
    BY <1>1, SameResolve
  <2>3. e \in PhaseValidations' <=> plan'[e] # "open"
    BY <1>1 DEF PhaseValidations, Entries
  <2>4. QED
    BY <1>1, <2>1, <2>2, <2>3 DEF HasCase, Stubbed, InPlan
<1>3. IF resolved[e] # "open" THEN ReportedOnce(e, files) ELSE Unreported(e, files)
  BY <1>1 DEF ReportInv, CasesOnce, HasCase, Stubbed, InPlan
<1>4. DOMAIN verdicts = settled
  OBVIOUS
<1>5. CASE e \in settled
  <2>1. resolved[e] = "open" /\ EntryPhase(e) = Current
    BY <1>5 DEF PhaseEntries, OpenEntries
  <2>2. ReportedOnce(e, new)
    BY <1>4, <1>5, <2>1, CaseInFile
  <2> HIDE DEF settled, verdicts, new
  <2>3. ReportedOnce(e, files \cup new)
    BY <1>3, <2>1, <2>2, MoreFiles
  <2>4. QED
    BY <1>1, <1>2, <1>5, <2>3, SameFiles
<1>6. CASE e \notin settled
  <2>1. Unreported(e, new)
    BY <1>4, <1>6, CaseInFile
  <2> HIDE DEF settled, verdicts, new
  <2>2. IF resolved[e] # "open" THEN ReportedOnce(e, files \cup new) ELSE Unreported(e, files \cup new)
    BY <1>3, <2>1, MoreFiles
  <2>3. QED
    BY <1>1, <1>2, <1>6, <2>2, SameFiles
<1>7. QED
  BY <1>5, <1>6

\* The phase's last files hold exactly the validations that were ready: those
\* captured in pytest's file, or among the stubs when that file cannot be parsed.
LEMMA CasesInPhaseFiles ==
  ASSUME ReportInv, pc = "finish", cfg.junit, NEW e \in Entries
  PROVE  IF e \in PhaseValidations /\ Resolve(e) = "ready" THEN ReportedOnce(e, PhaseFiles)
                                                          ELSE Unreported(e, PhaseFiles)
<1> DEFINE captured == [d \in CapturedEntries |-> PytestVerdict(plan[d])]
           stubs == [d \in MissingFromJunit |-> StubVerdict(plan[d])]
           fromPytest == File(Current, "pytest", xml = "parses", captured)
           fromStubs == File(Current, "deselected", TRUE, stubs)
<1>1. DOMAIN captured = CapturedEntries /\ DOMAIN stubs = MissingFromJunit
  OBVIOUS
<1>2. xml \in {"absent", "parses", "malformed"} /\ plan[e] # "ready"
  BY DEF ReportInv, LoopInv, HonestInv, TypeOK, PlanSettled
<1>3. /\ e \in PhaseValidations => EntryPhase(e) = Current
      /\ e \in PhaseValidations /\ Resolve(e) = "ready" => plan[e] \in {"test_excluded"} \cup Captured
      /\ e \in PhaseValidations /\ Resolve(e) # "ready" => plan[e] = Resolve(e)
  BY <1>2 DEF ReportInv, PlanKinds, InPlan
<1>4. e \in PhaseValidations <=> plan[e] # "open"
  BY DEF PhaseValidations
<1>5. "open" \notin Captured /\ "test_excluded" \notin Captured
  BY DEF Captured
<1>6. /\ e \in CapturedEntries <=> plan[e] \in Captured
      /\ e \in Deselected <=> plan[e] = "test_excluded" /\ Resolve(e) = "ready"
  BY DEF CapturedEntries, Deselected, Planned
<1>7. e \in CapturedEntries \/ e \in Deselected <=> e \in PhaseValidations /\ Resolve(e) = "ready"
  BY <1>3, <1>4, <1>5, <1>6, ResolveNotCaptured
<1>8. ~(e \in CapturedEntries /\ e \in Deselected)
  BY <1>5, <1>6
<1>9. CASE xml = "absent"
  <2>1. PhaseFiles = {}
    BY <1>9 DEF PhaseFiles
  <2>2. ~(e \in PhaseValidations /\ Resolve(e) = "ready")
    BY <1>9 DEF ReportInv, XmlLeft
  <2>3. QED
    BY <2>1, <2>2 DEF Unreported, Holding
<1>10. CASE xml # "absent"
  <2>1. PhaseFiles = fromPytest \cup fromStubs
    BY <1>10 DEF PhaseFiles
  <2>2. xml = "parses" => (e \in MissingFromJunit <=> e \in Deselected)
    BY DEF MissingFromJunit
  <2>3. xml # "parses" => (e \in MissingFromJunit <=> e \in Deselected \/ e \in CapturedEntries)
    BY DEF MissingFromJunit
  <2>4. (xml = "parses") \in BOOLEAN /\ TRUE \in BOOLEAN
    OBVIOUS
  <2>5. /\ xml = "parses" /\ e \in CapturedEntries /\ Current = EntryPhase(e) => ReportedOnce(e, fromPytest)
        /\ ~(xml = "parses") \/ e \notin CapturedEntries => Unreported(e, fromPytest)
    BY <1>1, <2>4, CaseInFile
  <2>6. /\ e \in MissingFromJunit /\ Current = EntryPhase(e) => ReportedOnce(e, fromStubs)
        /\ e \notin MissingFromJunit => Unreported(e, fromStubs)
    BY <1>1, <2>4, CaseInFile
  <2> HIDE DEF captured, stubs, fromPytest, fromStubs
  <2>7. CASE e \in PhaseValidations /\ Resolve(e) = "ready"
    <3>1. \/ ReportedOnce(e, fromPytest) /\ Unreported(e, fromStubs)
          \/ Unreported(e, fromPytest) /\ ReportedOnce(e, fromStubs)
      BY <1>3, <1>7, <1>8, <2>2, <2>3, <2>5, <2>6, <2>7
    <3>2. QED
      BY <2>1, <2>7, <3>1, MoreFiles
  <2>8. CASE ~(e \in PhaseValidations /\ Resolve(e) = "ready")
    <3>1. Unreported(e, fromPytest) /\ Unreported(e, fromStubs)
      BY <1>7, <2>2, <2>3, <2>5, <2>6, <2>8
    <3>2. QED
      BY <2>1, <2>8, <3>1, MoreFiles
  <2>9. QED
    BY <2>7, <2>8
<1>11. QED
  BY <1>9, <1>10

LEMMA CasesAtFinish == ReportInv /\ FinishPhase => CasesOnce'
<1> SUFFICES ASSUME ReportInv, FinishPhase, cfg.junit, NEW e \in Entries
             PROVE  IF HasCase(e)' THEN ReportedOnce(e, files)' ELSE Unreported(e, files)'
  BY DEF CasesOnce, Entries, FinishPhase
<1>1. /\ cfg' = cfg /\ pc = "finish" /\ pc' = "phase" /\ files' = files \cup PhaseFiles
      /\ resolved' = [d \in Entries |-> IF d \in PhaseValidations THEN plan[d] ELSE resolved[d]]
  BY DEF FinishPhase
<1>2. HasCase(e)' <=> resolved[e] # "open" \/ e \in PhaseValidations
  BY <1>1 DEF HasCase, Stubbed, InPlan, PhaseValidations
<1>3. e \in PhaseValidations => resolved[e] = "open"
  BY <1>1 DEF ReportInv, LoopInv, HonestInv, PlanOpen, PhaseValidations
<1>4. IF resolved[e] # "open" \/ (e \in PhaseValidations /\ Resolve(e) # "ready")
      THEN ReportedOnce(e, files) ELSE Unreported(e, files)
  BY <1>1 DEF ReportInv, CasesOnce, HasCase, Stubbed, InPlan
<1>5. IF e \in PhaseValidations /\ Resolve(e) = "ready" THEN ReportedOnce(e, PhaseFiles)
                                                        ELSE Unreported(e, PhaseFiles)
  BY <1>1, CasesInPhaseFiles
<1>6. IF resolved[e] # "open" \/ e \in PhaseValidations
      THEN ReportedOnce(e, files \cup PhaseFiles) ELSE Unreported(e, files \cup PhaseFiles)
  BY <1>3, <1>4, <1>5, MoreFiles
<1>7. QED
  BY <1>1, <1>2, <1>6, SameFiles

\* The files of the validations no phase executed: one for each of their phases.
LEMMA CasesOfRemaining ==
  ASSUME cfg.junit, NEW e \in Entries
  PROVE  LET new == UNION {File(p, "unexecuted", TRUE, [d \in RemainingIn(p) |-> StubVerdict(Unexecuted(d))])
                             : p \in RemainingPhases}
         IN  IF e \in Remaining THEN ReportedOnce(e, new) ELSE Unreported(e, new)
<1> DEFINE verdicts(p) == [d \in RemainingIn(p) |-> StubVerdict(Unexecuted(d))]
           group(p) == File(p, "unexecuted", TRUE, verdicts(p))
           new == UNION {group(p) : p \in RemainingPhases}
<1>1. \A p : /\ e \in RemainingIn(p) /\ p = EntryPhase(e) => ReportedOnce(e, group(p))
             /\ e \notin RemainingIn(p) => Unreported(e, group(p))
  <2> TAKE p
  <2>1. DOMAIN verdicts(p) = RemainingIn(p) /\ TRUE \in BOOLEAN
    OBVIOUS
  <2>2. QED
    BY <2>1, CaseInFile
<1>2. \A p : e \in RemainingIn(p) <=> e \in Remaining /\ p = EntryPhase(e)
  BY DEF RemainingIn
<1> HIDE DEF group
<1>3. CASE e \in Remaining
  <2>1. EntryPhase(e) \in RemainingPhases
    BY <1>3 DEF RemainingPhases
  <2>2. PICK f \in group(EntryPhase(e)) : f.suite = EntryPhase(e) /\ Holding(e, group(EntryPhase(e))) = {f}
    BY <1>1, <1>2, <1>3 DEF ReportedOnce
  <2>3. \A p : p # EntryPhase(e) => Holding(e, group(p)) = {}
    BY <1>1, <1>2 DEF Unreported
  <2>4. Holding(e, new) = {f}
    <3>1. f \in Holding(e, new)
      BY <2>1, <2>2 DEF Holding
    <3>2. ASSUME NEW g \in Holding(e, new) PROVE g = f
      <4>1. PICK p \in RemainingPhases : g \in group(p)
        BY <3>2 DEF Holding
      <4>2. g \in Holding(e, group(p))
        BY <3>2, <4>1 DEF Holding
      <4>3. QED
        BY <2>2, <2>3, <4>2
    <3>3. QED
      BY <3>1, <3>2
  <2>5. f \in new
    BY <2>4 DEF Holding
  <2>6. ReportedOnce(e, new)
    BY <2>2, <2>4, <2>5 DEF ReportedOnce
  <2>7. QED
    BY <1>3, <2>6 DEF group
<1>4. CASE e \notin Remaining
  <2>1. \A p : Holding(e, group(p)) = {}
    BY <1>1, <1>2, <1>4 DEF Unreported
  <2>2. ASSUME NEW g \in Holding(e, new) PROVE FALSE
    <3>1. PICK p \in RemainingPhases : g \in group(p)
      BY <2>2 DEF Holding
    <3>2. g \in Holding(e, group(p))
      BY <2>2, <3>1 DEF Holding
    <3>3. QED
      BY <2>1, <3>2
  <2>3. Unreported(e, new)
    BY <2>2 DEF Unreported
  <2>4. QED
    BY <1>4, <2>3 DEF group
<1>5. QED
  BY <1>3, <1>4

LEMMA CasesAfterLoop == ReportInv /\ ResolveRemaining => CasesOnce'
<1> SUFFICES ASSUME ReportInv, ResolveRemaining, cfg.junit, NEW e \in Entries
             PROVE  IF HasCase(e)' THEN ReportedOnce(e, files)' ELSE Unreported(e, files)'
  BY DEF CasesOnce, Entries, ResolveRemaining
<1> DEFINE new == UNION {File(p, "unexecuted", TRUE, [d \in RemainingIn(p) |-> StubVerdict(Unexecuted(d))])
                           : p \in RemainingPhases}
<1>1. /\ cfg' = cfg /\ pc = "phase" /\ pc' = "merge" /\ files' = files \cup new
      /\ resolved' = [d \in Entries |-> IF d \in Remaining THEN Unexecuted(d) ELSE resolved[d]]
  BY DEF ResolveRemaining
<1>2. IF e \in Remaining THEN ReportedOnce(e, new) ELSE Unreported(e, new)
  BY CasesOfRemaining
<1> HIDE DEF new
<1>3. e \in Remaining <=> resolved[e] = "open"
  BY DEF Remaining, OpenEntries
<1>4. HasCase(e)'
  BY <1>1, <1>3, NotOpen DEF HasCase
<1>5. IF resolved[e] # "open" THEN ReportedOnce(e, files) ELSE Unreported(e, files)
  BY <1>1 DEF ReportInv, CasesOnce, HasCase, Stubbed, InPlan
<1>6. ReportedOnce(e, files \cup new)
  BY <1>2, <1>3, <1>5, MoreFiles
<1>7. QED
  BY <1>1, <1>4, <1>6, SameFiles

LEMMA CasesOnceStep == ReportInv /\ [Next]_vars => CasesOnce'
<1> SUFFICES ASSUME ReportInv, [Next]_vars PROVE CasesOnce'
  OBVIOUS
<1> USE DEF stepVars, entryVars, runVars, outVars
<1>0. cfg' = cfg
  BY ConfigKept
<1>1. ASSUME UNCHANGED <<files, resolved>>, ~InPlan, ~InPlan', pc \notin {"done", "aborted"}
      PROVE  CasesOnce'
  <2> SUFFICES ASSUME cfg.junit, NEW e \in Entries
               PROVE  IF HasCase(e)' THEN ReportedOnce(e, files)' ELSE Unreported(e, files)'
    BY <1>0 DEF CasesOnce, Entries
  <2>1. IF HasCase(e) THEN ReportedOnce(e, files) ELSE Unreported(e, files)
    BY <1>1 DEF ReportInv, CasesOnce
  <2>2. HasCase(e)' <=> HasCase(e)
    BY <1>1 DEF HasCase, Stubbed
  <2>3. QED
    BY <1>0, <1>1, <2>1, <2>2, SameFiles
<1>2. ASSUME UNCHANGED <<files, resolved, outputs>>, InPlan, InPlan',
             \A e \in Entries : plan'[e] # "open" <=> plan[e] # "open"
      PROVE  CasesOnce'
  <2> SUFFICES ASSUME cfg.junit, NEW e \in Entries
               PROVE  IF HasCase(e)' THEN ReportedOnce(e, files)' ELSE Unreported(e, files)'
    BY <1>0 DEF CasesOnce, Entries
  <2>1. IF HasCase(e) THEN ReportedOnce(e, files) ELSE Unreported(e, files)
    BY <1>2 DEF ReportInv, CasesOnce, InPlan
  <2>2. Resolve(e)' = Resolve(e)
    BY <1>0, <1>2, SameResolve
  <2>3. HasCase(e)' <=> HasCase(e)
    BY <1>0, <1>2, <2>2 DEF HasCase, Stubbed, PhaseValidations, Entries
  <2>4. QED
    BY <1>0, <1>2, <2>1, <2>3, SameFiles
<1>3. CASE ResolvePhase
  BY <1>3, CasesAtResolution
<1>4. CASE RunPytest
  <2>1. UNCHANGED <<files, resolved, outputs>> /\ pc = "pytest" /\ pc' = "finish"
    BY <1>4 DEF RunPytest
  <2>2. \A e \in Entries : plan'[e] # "open" <=> plan[e] # "open"
    BY <1>4, <2>1, PlanEffect DEF ReportInv
  <2>3. QED
    BY <1>2, <2>1, <2>2 DEF InPlan
<1>5. CASE FinishPhase
  BY <1>5, CasesAtFinish
<1>6. CASE ResolveRemaining
  BY <1>6, CasesAfterLoop
<1>7. CASE Step
  <2>1. /\ UNCHANGED <<files, resolved>> /\ pc = "steps" /\ pc' \in {"steps", "resolve"}
    BY <1>7 DEF Step, RunStep, StepWithoutInputs, RecordStep
  <2>2. QED
    BY <1>1, <2>1 DEF InPlan
<1>8. CASE StartPhases \/ PassOverPhase \/ SkipCurrentPhase \/ EnterPhase \/ StepsDone
  <2>1. /\ UNCHANGED <<files, resolved>> /\ pc \in {"start", "phase", "steps"} /\ pc' \in {"phase", "steps", "resolve"}
    BY <1>8 DEF StartPhases, PassOverPhase, SkipCurrentPhase, EnterPhase, StepsDone
  <2>2. QED
    BY <1>1, <2>1 DEF InPlan
<1>9. CASE UnconfiguredPlatform \/ RejectConfig \/ Finish \/ Abort
  BY <1>9 DEF UnconfiguredPlatform, RejectConfig, Finish, Abort, CasesOnce
<1>10. CASE UNCHANGED vars
  <2>1. UNCHANGED <<files, resolved, outputs, plan, pc>>
    BY <1>10 DEF vars
  <2>2. CASE pc \in {"done", "aborted"}
    BY <2>1, <2>2 DEF CasesOnce
  <2>3. CASE pc \notin {"done", "aborted"}
    BY <1>1, <1>2, <2>1, <2>3 DEF InPlan
  <2>4. QED
    BY <2>2, <2>3
<1>11. QED
  BY <1>3, <1>4, <1>5, <1>6, <1>7, <1>8, <1>9, <1>10 DEF Next, Progress, Stopped

LEMMA ReportCompleteStep == ReportInv /\ [Next]_vars => ReportComplete'
<1> SUFFICES ASSUME ReportInv, [Next]_vars, Returned', cfg.junit, NEW e \in Entries
             PROVE  (\E f \in report : /\ e \in DOMAIN f.cases /\ f.suite = EntryPhase(e)
                                       /\ \A g \in report : e \in DOMAIN g.cases => g = f)'
  BY ConfigKept DEF ReportComplete, Entries
<1> USE DEF stepVars, entryVars, runVars, outVars
<1>0. cfg' = cfg /\ EntryPhase(e)' = EntryPhase(e)
  BY ConfigKept, SameFiles
<1>1. CASE Finish
  <2>1. pc = "merge" /\ report' = {f \in files : f.wellFormed}
    BY <1>1 DEF Finish
  <2>2. HasCase(e)
    <3>1. resolved[e] \in Terminal
      BY <2>1 DEF ReportInv, LoopInv, Settled
    <3>2. "open" \notin Terminal
      BY DEF Terminal, Skips, Errors
    <3>3. QED
      BY <3>1, <3>2 DEF HasCase
  <2>3. PICK f \in files : f.suite = EntryPhase(e) /\ Holding(e, files) = {f}
    BY <2>1, <2>2 DEF ReportInv, CasesOnce, ReportedOnce
  <2>4. f \in report' /\ e \in DOMAIN f.cases
    BY <2>1, <2>3 DEF Holding
  <2>5. \A g \in report' : e \in DOMAIN g.cases => g = f
    BY <2>1, <2>3 DEF Holding
  <2>6. QED
    BY <1>0, <2>3, <2>4, <2>5
<1>2. CASE UNCHANGED vars
  <2>1. Returned /\ report' = report
    BY <1>2 DEF vars, Returned
  <2>2. QED
    BY <1>0, <2>1 DEF ReportInv, ReportComplete
<1>3. CASE RejectConfig
  BY <1>3 DEF RejectConfig, Returned
<1>4. CASE Step
  BY <1>4 DEF Step, RunStep, StepWithoutInputs, RecordStep, Returned
<1>5. QED
  BY <1>1, <1>2, <1>3, <1>4
     DEF Next, Progress, Stopped, UnconfiguredPlatform, StartPhases, PassOverPhase, SkipCurrentPhase,
         EnterPhase, StepsDone, ResolvePhase, RunPytest, FinishPhase, ResolveRemaining, Abort, Returned

\* The merged report has one testcase for every validation of the configuration,
\* in the suite of its phase, whichever phases ran, whatever pytest deselected,
\* and even when its XML files cannot be parsed.
THEOREM OneCaseEach == Spec => []ReportComplete
<1>1. Init => ReportInv
  <2> SUFFICES ASSUME Init PROVE ReportInv
    OBVIOUS
  <2>1. PlanKinds /\ XmlLeft /\ ReportComplete
    BY DEF Init, PlanKinds, InPlan, XmlLeft, ReportComplete, Returned
  <2>2. CasesOnce
    BY DEF Init, CasesOnce, HasCase, Stubbed, InPlan, Unreported, Holding
  <2>3. QED
    BY <2>1, <2>2, LoopInit DEF ReportInv
<1>2. ReportInv /\ [Next]_vars => ReportInv'
  BY LoopStep, PlanKindsStep, XmlLeftStep, CasesOnceStep, ReportCompleteStep DEF ReportInv
<1>3. ReportInv => ReportComplete
  BY DEF ReportInv
<1>4. QED
  BY <1>1, <1>2, <1>3, PTL DEF Spec
=============================================================================
