---------------------------- MODULE Orchestrator ----------------------------
(***************************************************************************)
(* One run of isvctl's step-based lifecycle (orchestrator/loop.py with     *)
(* step_executor.py and isvtest's core/resolution.py): the configured      *)
(* phases in order, each with its steps, then its validations; the phases  *)
(* skipped after a failure; the validations no phase executed; the merged  *)
(* JUnit report; the overall result.                                       *)
(*                                                                         *)
(* The program is one thread.  What a run cannot choose is                 *)
(* nondeterministic here: the configuration, how each step command ends,   *)
(* what pytest captures for each ready validation, whether the XML pytest  *)
(* leaves can be parsed, and an exception or Ctrl-C that escapes.          *)
(*                                                                         *)
(* A step is its index in the platform's step list, a validation its index *)
(* in the parsed entry list, so both orders are the order of the config.   *)
(***************************************************************************)
EXTENDS Naturals, Sequences, FiniteSets

CONSTANTS Phases,    \* the phase names a configuration may use
          Configs    \* the configurations a run may start from

NoStep  == 0         \* a validation bound to no step
NoPhase == "none"    \* a validation that declares no phase
ALL     == "all"     \* Phase.ALL

\* First static check of resolve_entries that stops an entry ("clear": none).
Gates == {"clear", "invalid", "unreleased", "excluded_name", "excluded_marker"}

StepConfig == [phase : Phases, cont : BOOLEAN, refs : SUBSET Nat]
EntryConfig == [step : Nat, phase : Phases \cup {NoPhase}, gate : Gates, refs : SUBSET Nat]

(***************************************************************************)
(* What a run starts from: the merged RunConfig and the CLI's arguments.   *)
(* steps[i].refs are the steps whose output an argument of step i needs (a *)
(* bare template without default()); entries[e].refs are those a parameter *)
(* of entry e needs.  An entry's step above Len(steps) is a name that is   *)
(* not in the step list: misspelt, or a step with skip: true, which        *)
(* get_steps has already dropped.                                          *)
(***************************************************************************)
RunConfig ==
  [platform : {"none", "unconfigured", "skipped", "configured"},
   phases : Seq(Phases), steps : Seq(StepConfig), entries : Seq(EntryConfig),
   requested : SUBSET {"setup", "test", "teardown", ALL}, teardownOnFailure : BOOLEAN,
   explicitSelection : BOOLEAN, junit : BOOLEAN]

ASSUME ConfigsAssumption ==
  /\ {"setup", "test", "teardown"} \subseteq Phases
  /\ NoPhase \notin Phases /\ ALL \notin Phases
  /\ Configs \subseteq RunConfig
  \* A phase listed twice would run its steps twice and reuse its XML files.
  /\ \A c \in Configs : \A i, j \in DOMAIN c.phases : c.phases[i] = c.phases[j] => i = j

Skips    == {"test_excluded", "phase_not_requested", "runtime_skip", "step_no_output",
             "step_not_configured", "unreleased"}
Errors   == {"invalid_config", "runtime_exception", "template_render_failed"}
Terminal == {"passed", "failed"} \cup Skips \cup Errors
Good     == {"passed"} \cup Skips          \* outcomes that keep a phase successful
Captured == {"passed", "failed", "runtime_exception", "runtime_skip"}

VARIABLES
  cfg,            \* the configuration of this run
  pc,             \* where _run_steps_mode stands
  ph,             \* index of the current phase in cfg.phases
  cursor,         \* first step execute_steps has not considered yet
  tried,          \* per step: not reached, or how its StepResult ended
  outputs,        \* per step: what context.data["steps"] holds
  stepsOk,        \* StepResults.success of the current phase
  plan,           \* resolved_phase_entries of the current phase
  xml,            \* the file pytest left for the current phase
  resolved,       \* resolved_validations_by_index
  overallSuccess, setupStepsRan,
  phaseResults,   \* phase_results
  files,          \* phase_junit_files, with what each file holds
  report,         \* the files whose testcases reached the merged report
  result          \* what run() returned

stepVars  == <<cursor, tried, outputs, stepsOk>>
entryVars == <<plan, xml, resolved>>
runVars   == <<overallSuccess, setupStepsRan, phaseResults>>
outVars   == <<files, report, result>>
vars == <<cfg, pc, ph, stepVars, entryVars, runVars, outVars>>

Steps   == 1 .. Len(cfg.steps)
Entries == 1 .. Len(cfg.entries)
Current == cfg.phases[ph]
IsTeardown == Current = "teardown"

Init ==
  /\ cfg \in Configs
  /\ pc = "start" /\ ph = 1 /\ cursor = 1
  /\ tried = [s \in Steps |-> "idle"]
  /\ outputs = [s \in Steps |-> "none"]
  /\ plan = [e \in Entries |-> "open"]
  /\ resolved = [e \in Entries |-> "open"]
  /\ xml = "absent"
  /\ stepsOk = TRUE /\ overallSuccess = TRUE /\ setupStepsRan = FALSE
  /\ phaseResults = {} /\ files = {} /\ report = {}
  /\ result = "none"

-----------------------------------------------------------------------------
(* Configuration checks before the phase loop.                             *)

NoSteps == cfg.platform = "skipped" \/ cfg.steps = <<>>

Configured(p) == \E i \in DOMAIN cfg.phases : cfg.phases[i] = p
UnknownStepPhase == \E s \in Steps : ~Configured(cfg.steps[s].phase)

\* get_steps: a platform without commands is a KeyError, which escapes run().
UnconfiguredPlatform ==
  /\ pc = "start"
  /\ cfg.platform = "unconfigured"
  /\ pc' = "aborted"
  /\ UNCHANGED <<cfg, ph, stepVars, entryVars, runVars, outVars>>

\* run() and the prologue of _run_steps_mode: a configuration that cannot be
\* run is a failed SETUP result.
RejectConfig ==
  /\ pc = "start"
  /\ cfg.platform # "unconfigured"
  /\ cfg.platform = "none" \/ NoSteps \/ UnknownStepPhase
  /\ pc' = "done"
  /\ result' = "failure"
  /\ phaseResults' = {[phase |-> "setup", kind |-> "config", success |-> FALSE]}
  /\ UNCHANGED <<cfg, ph, stepVars, entryVars, overallSuccess, setupStepsRan, files, report>>

StartPhases ==
  /\ pc = "start"
  /\ cfg.platform = "configured" /\ ~NoSteps /\ ~UnknownStepPhase
  /\ pc' = "phase"
  /\ UNCHANGED <<cfg, ph, stepVars, entryVars, runVars, outVars>>

-----------------------------------------------------------------------------
(* The phase loop: which phases run.                                       *)

Requested(p) == p \in cfg.requested \/ ALL \in cfg.requested

\* The skip reasons, the teardown's after the general one, as in the code.
SkippedAfterFailure_Never == FALSE
SkippedAfterFailure == ~IsTeardown /\ ~overallSuccess
TeardownWithoutSetup_Ungated == FALSE
TeardownWithoutSetup == IsTeardown /\ Requested("setup") /\ ~setupStepsRan
TeardownDisabled == IsTeardown /\ ~overallSuccess /\ ~cfg.teardownOnFailure
SkipPhase == SkippedAfterFailure \/ TeardownWithoutSetup \/ TeardownDisabled

PassOverPhase ==
  /\ pc = "phase" /\ ph <= Len(cfg.phases)
  /\ ~Requested(Current)
  /\ ph' = ph + 1
  /\ UNCHANGED <<cfg, pc, stepVars, entryVars, runVars, outVars>>

\* A skipped phase is a successful result; its validations stay open.
SkipCurrentPhase ==
  /\ pc = "phase" /\ ph <= Len(cfg.phases)
  /\ Requested(Current) /\ SkipPhase
  /\ phaseResults' = phaseResults \cup {[phase |-> Current, kind |-> "skipped", success |-> TRUE]}
  /\ ph' = ph + 1
  /\ UNCHANGED <<cfg, pc, stepVars, entryVars, overallSuccess, setupStepsRan, outVars>>

EnterPhase ==
  /\ pc = "phase" /\ ph <= Len(cfg.phases)
  /\ Requested(Current) /\ ~SkipPhase
  /\ pc' = "steps"
  /\ cursor' = 1
  /\ stepsOk' = TRUE
  /\ UNCHANGED <<cfg, ph, tried, outputs, entryVars, runVars, outVars>>

-----------------------------------------------------------------------------
(* StepExecutor.execute_steps for the current phase.                       *)

PhaseSteps == {s \in Steps : cfg.steps[s].phase = Current}
StepsLeft  == {s \in PhaseSteps : s >= cursor}
IsNextStep(s) == s \in StepsLeft /\ \A t \in StepsLeft : s <= t

\* The value of a template is there: its step has stored it.
Available(r) == r \in Steps /\ outputs[r] = "full"

\* A bare {{ steps.X.Y }} argument whose value no stored output has.
MissingStepRef(s) == \E r \in cfg.steps[s].refs : ~Available(r)

\* A failed step ends the phase unless it may fail or the phase is teardown.
GoesOn_NoBestEffort(s, ok) == ok \/ cfg.steps[s].cont
GoesOn_NoBreak(s, ok) == TRUE
GoesOn(s, ok) == ok \/ cfg.steps[s].cont \/ IsTeardown

\* add_step: continue_on_failure keeps the loop going, not the phase successful.
KeepsSuccess_Tolerated(s, how) == how = "ok" \/ cfg.steps[s].cont
KeepsSuccess(s, how) == how = "ok"

After_Same(s) == s
After(s) == s + 1

RecordStep(s, how) ==
  /\ tried' = [tried EXCEPT ![s] = how]
  /\ stepsOk' = (stepsOk /\ KeepsSuccess(s, how))
  /\ cursor' = After(s)
  /\ pc' = IF GoesOn(s, how = "ok") THEN "steps" ELSE "resolve"

\* The command ran.  It succeeds or fails (exit code, schema, timeout) and its
\* stdout is no JSON, JSON without the values others refer to, or complete.
\* The output is stored whether or not the step succeeded.
RunStep(s) ==
  /\ pc = "steps" /\ IsNextStep(s) /\ ~MissingStepRef(s)
  /\ \E how \in {"ok", "failed"}, out \in {"none", "partial", "full"} :
       /\ RecordStep(s, how)
       /\ outputs' = IF out = "none" THEN outputs ELSE [outputs EXCEPT ![s] = out]
  /\ UNCHANGED <<cfg, ph, entryVars, runVars, outVars>>

\* The command is not run at all; the step counts as failed.
StepWithoutInputs(s) ==
  /\ pc = "steps" /\ IsNextStep(s) /\ MissingStepRef(s)
  /\ RecordStep(s, "missing_ref")
  /\ UNCHANGED <<cfg, ph, outputs, entryVars, runVars, outVars>>

StepsDone ==
  /\ pc = "steps" /\ StepsLeft = {}
  /\ pc' = "resolve"
  /\ UNCHANGED <<cfg, ph, stepVars, entryVars, runVars, outVars>>

-----------------------------------------------------------------------------
(* resolve_entries and the validations of the current phase.               *)

EntryPhase(e) ==
  LET en == cfg.entries[e]
  IN  IF en.phase # NoPhase THEN en.phase
      ELSE IF en.step \in Steps THEN cfg.steps[en.step].phase
      ELSE "test"

ExcludedByUser(e) ==
  \/ cfg.entries[e].gate = "excluded_name"
  \/ cfg.entries[e].gate = "excluded_marker" /\ ~cfg.explicitSelection

NoOutput_NotReached(e) == cfg.entries[e].step \in Steps /\ tried[cfg.entries[e].step] = "idle"
NoOutput(e) == cfg.entries[e].step \in Steps /\ outputs[cfg.entries[e].step] = "none"

\* With Phase.ALL the requested phases handed to the resolution are the configured ones.
RequestedForResolution(p) == IF ALL \in cfg.requested THEN Configured(p) ELSE p \in cfg.requested

\* The checks of resolve_entries in their order; the first that applies wins.
Resolve(e) ==
  LET en == cfg.entries[e]
  IN  IF en.gate = "invalid" THEN "invalid_config"
      ELSE IF en.gate = "unreleased" THEN "unreleased"
      ELSE IF ExcludedByUser(e) THEN "test_excluded"
      ELSE IF en.step # NoStep /\ en.step \notin Steps THEN "step_not_configured"
      ELSE IF NoOutput(e) THEN "step_no_output"
      ELSE IF ~RequestedForResolution(EntryPhase(e)) THEN "phase_not_requested"
      ELSE IF \E r \in en.refs : ~Available(r) THEN "template_render_failed"
      ELSE "ready"

\* Verdict of a testcase in pytest's own XML, and in a stub the orchestrator
\* writes: a stub has no child element unless the entry was skipped or errored.
PytestVerdict(o) == IF o \in Skips THEN "skipped" ELSE IF o = "passed" THEN "passed" ELSE "failure"
StubVerdict(o)   == IF o \in Skips THEN "skipped" ELSE IF o \in Errors THEN "error" ELSE "passed"

File(p, kind, ok, verdicts) ==
  IF cfg.junit /\ DOMAIN verdicts # {}
  THEN {[suite |-> p, kind |-> kind, wellFormed |-> ok, cases |-> verdicts]}
  ELSE {}

OpenEntries_All == Entries
OpenEntries == {e \in Entries : resolved[e] = "open"}
PhaseEntries == {e \in OpenEntries : EntryPhase(e) = Current}
Planned(kinds) == {e \in Entries : plan[e] \in kinds}

SetupRan == setupStepsRan \/ (Current = "setup" /\ PhaseSteps # {})

ResolvePhase ==
  /\ pc = "resolve"
  /\ setupStepsRan' = SetupRan
  /\ plan' = [e \in Entries |-> IF e \in PhaseEntries THEN Resolve(e) ELSE "open"]
  /\ LET settled == {e \in PhaseEntries : Resolve(e) # "ready"}
     IN  files' = files \cup File(Current, "resolved", TRUE, [e \in settled |-> StubVerdict(Resolve(e))])
  /\ xml' = "absent"
  /\ pc' = IF \E e \in PhaseEntries : Resolve(e) = "ready" THEN "pytest" ELSE "finish"
  /\ UNCHANGED <<cfg, ph, stepVars, resolved, overallSuccess, phaseResults, report, result>>

\* run_validations_via_pytest.  Any of the ready validations may end up without
\* a captured result: -k/-m deselects it, its class is unknown, -x or Ctrl-C
\* ended the session, a collection error; it becomes SKIPPED/EXCLUDED.  The XML
\* cannot be parsed when the injected subtests hold a control character.
RunPytest ==
  /\ pc = "pytest"
  /\ \E outcome \in [Planned({"ready"}) -> Captured \cup {"test_excluded"}] :
       plan' = [e \in Entries |-> IF e \in DOMAIN outcome THEN outcome[e] ELSE plan[e]]
  /\ xml' \in IF cfg.junit THEN {"parses", "malformed"} ELSE {"absent"}
  /\ pc' = "finish"
  /\ UNCHANGED <<cfg, ph, stepVars, resolved, runVars, outVars>>

\* pytest's file, whose testcases are the captured validations, and the stubs
\* of the executed validations _entries_missing_from_junit does not find in it.
\* An outcome pytest itself produced is told by its kind: every other outcome
\* was settled, and stubbed, before pytest.
CapturedEntries == Planned(Captured)
Deselected == {e \in Planned({"test_excluded"}) : Resolve(e) = "ready"}
MissingFromJunit_Deselected == Deselected
MissingFromJunit == IF xml = "parses" THEN Deselected ELSE Deselected \cup CapturedEntries

PhaseFiles ==
  IF xml = "absent" THEN {}
  ELSE File(Current, "pytest", xml = "parses", [e \in CapturedEntries |-> PytestVerdict(plan[e])])
       \cup File(Current, "deselected", TRUE, [e \in MissingFromJunit |-> StubVerdict(plan[e])])

PhaseValidations == {e \in Entries : plan[e] # "open"}
PhaseSucceeded == stepsOk /\ \A e \in PhaseValidations : plan[e] \in Good

FinishPhase ==
  /\ pc = "finish"
  /\ resolved' = [e \in Entries |-> IF e \in PhaseValidations THEN plan[e] ELSE resolved[e]]
  /\ files' = files \cup PhaseFiles
  /\ phaseResults' =
       IF PhaseSteps # {} \/ PhaseValidations # {}
       THEN phaseResults \cup {[phase |-> Current, kind |-> "run", success |-> PhaseSucceeded]}
       ELSE phaseResults
  /\ overallSuccess' = (overallSuccess /\ PhaseSucceeded)
  /\ ph' = ph + 1
  /\ pc' = "phase"
  /\ UNCHANGED <<cfg, stepVars, plan, xml, setupStepsRan, report, result>>

-----------------------------------------------------------------------------
(* After the loop.                                                         *)

\* A validation still ready belongs to a phase that did not run.
Unexecuted_Unsettled(e) == Resolve(e)
Unexecuted(e) == IF Resolve(e) = "ready" THEN "phase_not_requested" ELSE Resolve(e)

Remaining_Configured == {e \in OpenEntries : Configured(EntryPhase(e))}
Remaining == OpenEntries
RemainingIn(p) == {e \in Remaining : EntryPhase(e) = p}
RemainingPhases == {EntryPhase(e) : e \in Remaining}
AllGood(S) == \A e \in S : Unexecuted(e) \in Good

RemainingSucceeded_Ignored == TRUE
RemainingSucceeded == AllGood(Remaining)

ResolveRemaining ==
  /\ pc = "phase" /\ ph > Len(cfg.phases)
  /\ resolved' = [e \in Entries |-> IF e \in Remaining THEN Unexecuted(e) ELSE resolved[e]]
  /\ files' = files \cup
       UNION {File(p, "unexecuted", TRUE, [e \in RemainingIn(p) |-> StubVerdict(Unexecuted(e))])
                : p \in RemainingPhases}
  /\ phaseResults' = phaseResults \cup
       {[phase |-> p, kind |-> "unexecuted", success |-> AllGood(RemainingIn(p))] : p \in RemainingPhases}
  /\ overallSuccess' = (overallSuccess /\ RemainingSucceeded)
  /\ pc' = "merge"
  /\ UNCHANGED <<cfg, ph, stepVars, plan, xml, setupStepsRan, report, result>>

\* Merge the files that parse, remove the temporary directory, return.
Finish ==
  /\ pc = "merge"
  /\ report' = {f \in files : f.wellFormed}
  /\ files' = {}
  /\ result' = IF overallSuccess THEN "success" ELSE "failure"
  /\ pc' = "done"
  /\ UNCHANGED <<cfg, ph, stepVars, entryVars, runVars>>

\* An exception or Ctrl-C leaves run(): no later phase, no teardown, no merge;
\* the finally clause removes the temporary directory.
Abort ==
  /\ pc \notin {"start", "done", "aborted"}
  /\ pc' = "aborted"
  /\ files' = {}
  /\ UNCHANGED <<cfg, ph, stepVars, entryVars, runVars, report, result>>

\* run() has returned or raised.
Stopped == pc \in {"done", "aborted"} /\ UNCHANGED vars

Step == \E s \in Steps : RunStep(s) \/ StepWithoutInputs(s)

Progress ==
  \/ UnconfiguredPlatform \/ RejectConfig \/ StartPhases
  \/ PassOverPhase \/ SkipCurrentPhase \/ EnterPhase
  \/ Step \/ StepsDone
  \/ ResolvePhase \/ RunPytest \/ FinishPhase
  \/ ResolveRemaining \/ Finish

Next == Progress \/ Abort \/ Stopped

\* Every step command has a timeout and every other action is local code.
Fairness == WF_vars(Progress)

Spec == Init /\ [][Next]_vars /\ Fairness

-----------------------------------------------------------------------------
(* Properties.                                                             *)

Outcomes == Terminal \cup {"open"}
Verdicts == {"passed", "failure", "error", "skipped"}
PhaseResult ==
  [phase : Phases, kind : {"config", "skipped", "run", "unexecuted"}, success : BOOLEAN]
IsFile(f) ==
  /\ DOMAIN f = {"suite", "kind", "wellFormed", "cases"}
  /\ f.suite \in Phases /\ f.wellFormed \in BOOLEAN
  /\ f.kind \in {"resolved", "pytest", "deselected", "unexecuted"}
  /\ DOMAIN f.cases \subseteq Entries
  /\ \A e \in DOMAIN f.cases : f.cases[e] \in Verdicts

\* Type invariant of the run's state.
TypeOK ==
  /\ cfg \in Configs
  /\ pc \in {"start", "phase", "steps", "resolve", "pytest", "finish", "merge", "done", "aborted"}
  /\ ph \in 1 .. Len(cfg.phases) + 1
  /\ pc \in {"steps", "resolve", "pytest", "finish"} => ph <= Len(cfg.phases)
  /\ cursor \in 1 .. Len(cfg.steps) + 1
  /\ tried \in [Steps -> {"idle", "ok", "failed", "missing_ref"}]
  /\ outputs \in [Steps -> {"none", "partial", "full"}]
  /\ plan \in [Entries -> Outcomes \cup {"ready"}]
  /\ resolved \in [Entries -> Outcomes]
  /\ xml \in {"absent", "parses", "malformed"}
  /\ stepsOk \in BOOLEAN /\ overallSuccess \in BOOLEAN /\ setupStepsRan \in BOOLEAN
  /\ phaseResults \subseteq PhaseResult
  /\ \A f \in files \cup report : IsFile(f)
  /\ result \in {"none", "success", "failure"}

StepFailed(s) == tried[s] \in {"failed", "missing_ref"}
Bad(e) == resolved[e] \in {"failed"} \cup Errors
Returned == pc = "done" /\ \A r \in phaseResults : r.kind # "config"

\* Whatever phases were skipped, when run() returns its phase results every
\* validation of the configuration has exactly one outcome (loop.py:593-606).
EveryEntrySettled == Returned => \A e \in Entries : resolved[e] \in Terminal

\* Neither a later phase nor the pass over the remaining validations rewrites
\* an outcome already recorded (the "index not in" filters, loop.py:526, 596).
OutcomeIsFinal ==
  [][\A e \in Entries : resolved[e] # "open" => resolved'[e] = resolved[e]]_vars

\* The result is success exactly when no step failed, tolerated ones included,
\* and no validation failed or errored, in a phase or after the loop.
ResultIsHonest ==
  Returned =>
    (result = "success" <=> (\A s \in Steps : ~StepFailed(s)) /\ (\A e \in Entries : ~Bad(e)))

\* The CLI prints the phase results and exits by the overall result: they agree.
ResultMatchesPhases == pc = "done" => (result = "success" <=> \A r \in phaseResults : r.success)

\* Outside teardown a step is reached only while everything before it is fine:
\* each failed step was a continue_on_failure step of this very phase, and no
\* validation of an earlier phase failed.
NoWorkAfterFailure ==
  [][\A s \in Steps : tried'[s] # tried[s] /\ cfg.steps[s].phase # "teardown" =>
        /\ \A t \in Steps : StepFailed(t) => cfg.steps[t].cont /\ cfg.steps[t].phase = cfg.steps[s].phase
        /\ \A e \in Entries : ~Bad(e)]_vars

\* A full lifecycle starts cleanup only after some setup step was reached, and
\* never after a failure when teardown_on_failure is off.
TeardownGate ==
  [][\A s \in Steps : tried'[s] # tried[s] /\ cfg.steps[s].phase = "teardown" =>
        /\ Requested("setup") => \E t \in Steps : cfg.steps[t].phase = "setup" /\ tried[t] # "idle"
        /\ \/ cfg.teardownOnFailure
           \/ \A t \in Steps : StepFailed(t) => cfg.steps[t].phase = "teardown"]_vars

\* Once a setup step was reached, a run that returns with teardown requested
\* and allowed has gone through every teardown step, whatever failed before it
\* and whichever teardown step failed.
SetupBeforeTeardown ==
  \A i, j \in DOMAIN cfg.phases : cfg.phases[i] = "setup" /\ cfg.phases[j] = "teardown" => i < j
TeardownReached ==
  /\ Returned /\ Requested("teardown") /\ SetupBeforeTeardown
  /\ cfg.teardownOnFailure \/ result = "success"
  /\ \E s \in Steps : cfg.steps[s].phase = "setup" /\ tried[s] # "idle"
  => \A s \in Steps : cfg.steps[s].phase = "teardown" => tried[s] # "idle"

\* A validation is executed only on data its run produced: its phase was
\* requested, its step was executed and left an output, and every output its
\* parameters read is complete.
ExecutedOnRealData ==
  \A e \in Entries : resolved[e] \in Captured =>
    LET en == cfg.entries[e]
    IN  /\ Requested(EntryPhase(e))
        /\ en.step # NoStep =>
             en.step \in Steps /\ tried[en.step] \in {"ok", "failed"} /\ outputs[en.step] # "none"
        /\ \A r \in en.refs : r \in Steps /\ tried[r] \in {"ok", "failed"}

\* Every validation of the configuration has exactly one testcase in the merged
\* report, in the suite of its phase, whether it was resolved, executed,
\* deselected or never reached, and even when pytest's file cannot be parsed.
ReportComplete ==
  Returned /\ cfg.junit =>
    \A e \in Entries :
      \E f \in report : /\ e \in DOMAIN f.cases /\ f.suite = EntryPhase(e)
                       /\ \A g \in report : e \in DOMAIN g.cases => g = f

\* A run ends: it returns or raises.
Termination == <>(pc \in {"done", "aborted"})

-----------------------------------------------------------------------------
(* The run implements Lifecycle.                                           *)

AbstractStatus ==
  CASE pc = "aborted" -> "raised"
    [] pc = "done" /\ Returned -> result
    [] pc = "done" /\ ~Returned -> "rejected"
    [] OTHER -> "running"

Abstract == INSTANCE Lifecycle WITH
  reached <- [s \in Steps |-> IF tried[s] = "idle" THEN "no" ELSE IF tried[s] = "ok" THEN "ok" ELSE "failed"],
  outcome <- [e \in Entries |-> IF resolved[e] = "open" THEN "open" ELSE IF Bad(e) THEN "bad" ELSE "good"],
  status  <- AbstractStatus

\* Seen from outside, the phase loop and the pass after it reach steps in the
\* order of the configuration, settle each validation once, start nothing but
\* cleanup on top of a failure, and return an honest verdict or raise.
ImplementsLifecycle == Abstract!Spec

-----------------------------------------------------------------------------
(* What the documentation says, and the code does not keep.                *)

\* loop.py:220: stubs are for "terminal entries that did not run through
\* pytest"; a stub has no place for a failure.
StubsOnlyForUnexecuted ==
  \A f \in report : f.kind # "pytest" => \A e \in DOMAIN f.cases : resolved[e] \notin Captured
=============================================================================
