# Verification of the ISV NCP validation suite

The suite validates an ISV's cloud: `isvctl` runs a lifecycle of phases, each a list of provider commands (steps) followed by
the validations bound to that phase; `isvtest` resolves and executes the validations under pytest; `isvreporter` talks to
the lab service that keeps the test runs; `isvctl deploy` brings the suite to another host and runs it there. This directory
holds TLA+ models of the parts whose correctness depends on order, failure and shared state, the TLC instances that check
them, and proofs checked by TLAPS.

Paths below are relative to the package they name: `orchestrator/`, `cli/`, `reporting.py`, `cleaner/` and `remote/` are under
`isvctl/src/isvctl`; `core/`, `validations/`, `workloads/`, `testing/`, `tests/` and `main.py` under `isvtest/src/isvtest`;
provider scripts under `isvctl/configs/providers/{aws,zcompute}/scripts`.

## The system

| Component | State it keeps | Operations | Interacts with | Modelled by |
|---|---|---|---|---|
| Orchestrator (`orchestrator/loop.py`) | current phase, overall success, whether setup steps ran, outcome per validation, XML files per phase | one run over the configured phases, the pass over unexecuted validations, JUnit merge | executor, context, resolution, pytest bridge | `Orchestrator`, `Lifecycle` |
| Step executor, context (`orchestrator/`) | results and outputs of the steps | render arguments, run command, parse and validate JSON, record | provider scripts | `Orchestrator`, `ProviderSuite` |
| Resolution (`core/resolution.py`), pytest bridge (`main.py`), pytest session (`tests/`, `testing/`) | none; module globals of a session | static checks, rendering, one pytest session per phase, results to outcomes | orchestrator, pytest | `Orchestrator` |
| Validation base class (`core/validation.py`) | verdict, message, sub-tests | `execute`, `set_passed`, `set_failed`, `report_subtest` | pytest session | `CheckRun` |
| Validation checks (`validations/`), Kubernetes workloads (`workloads/`) | connections, objects made in the cluster | look, report, make, delete | hosts, clusters, step outputs | `OutputChecks`, `HostChecks`, `ClusterChecks` |
| Slurm jobs (`core/slurm.py`, `workloads/slurm_sbatch.py`) | a job on the cluster | submit, poll, collect, cancel | cluster | `SlurmJob` |
| Provider scripts | resources in the cloud | one command per step | cloud API | `ProviderSuite`, `AwsScripts`, `AwsNetworkTests`, `ZComputeScripts` |
| test command, reporter (`cli/test.py`, `reporting.py`, `isvreporter`) | test run id, its file, log, report path | create, run, upload, update | lab service | `TestRun` |
| Deployment (`cli/deploy.py`, `remote/`) | archive in /tmp, files on the host and in the directory | pack, copy, unpack, run, fetch, upload | ssh, lab service | `Deploy` |
| Configuration merge, output schemas, redaction, inventory, listings, cleaner, legacy executor, release tooling | none | functions of files, one sequential pass | | not modelled |

`PROJECT.json` lists every component with its status and every hazard with its line.

### What is hard, and what makes each part correct

* **Orchestrator.** One thread, but many histories: steps fail, produce no or partial output, are tolerated or not;
  phases are unrequested, skipped after a failure, or gated (teardown); validations are resolved before, during or after
  the phase their step belongs to; pytest may lose results or leave a file that does not parse. It is correct when nothing
  but cleanup is started on top of a failure, cleanup is reached when it is owed, each validation gets one outcome
  and one testcase, and the exit status says what happened.
* **Test runs.** Several processes share an id file, a log and report files in one directory; every request can be lost, or executed
  without an answer; any process can be killed. Correct when the service never shows a verdict of another
  session, and a session that could not report says so.
* **Provider suites.** Any call may be refused, unanswered or late, the instance moves while it is waited for, a step is killed by its
  timeout between a call and the record of it, and ids reach the teardown only through JSON. Correct when what was made
  is removed or accounted for, what was there before is not touched, and what the JSON claims is true.
* **Checks.** A verdict is assigned, not accumulated: a later `set_passed` overrides, sub-tests are only counted when `run()` asks,
  a list may be empty, a command may fail without saying so. Correct when a pass was earned and a failure stands.
* **Slurm jobs.** The job moves while it is polled, accounting lags, four commands with different sources are
  consulted in turn and each may fail. Correct when the verdict is true of the job and a job is not left running
  without a known cause.
* **Deployment.** Deployments share an archive path and the files of a directory and a host; the script on the host outlives its connection and
  does not stop at a failed command. Correct when what is unpacked and what is uploaded are of this deployment.

## Modules

| Module | Content |
|---|---|
| `Orchestrator` | one run of the lifecycle |
| `Lifecycle` | the abstract specification of a run: order, no work on top of a failure, one outcome each, an honest verdict |
| `TestRun` | sessions, the directory they share, the lab service |
| `SlurmJob` | one Slurm validation and the cluster |
| `ProviderOps` | the vocabulary of provider scripts: operations as records |
| `ProviderSuite` | what each operation may do; the step executor and the cloud |
| `AwsScripts`, `AwsNetworkTests`, `ZComputeScripts` | the scripts and suites, as data |
| `CheckOps` | the vocabulary of validation checks |
| `CheckRun` | `BaseValidation.execute()` around any `run()` |
| `OutputChecks`, `HostChecks`, `ClusterChecks` | the checks, as data |
| `Deploy` | deployments from one machine, the host's script, the lab service |
| `MCOrchestrator`, `MCTestRun`, `MCSlurmJob`, `MCProviderSuite`, `MCCheckRun`, `MCDeploy` | the instances TLC checks |
| `OrchestratorProofs`, `LifecycleProofs`, `ReportProofs`, `TestRunProofs`, `SlurmJobProofs`, `CheckRunProofs`, `ProviderSuiteProofs`, `DeployProofs` | the theorems |

How they compose: a lifecycle run is one step of `TestRun` (`RunTests`, `RaiseInTests`) and of `Deploy` (`EndTests`), and that the step
ends is `Termination` of `Orchestrator`. A provider script is one step of `Orchestrator` (`RunStep`); `ProviderSuite` opens it, with the same rules for
phases and missing references, for one suite at a time and without validations. A check is one element of `RunPytest`'s `outcome`; `CheckRun` opens
it, and `SlurmJob` opens the one whose course depends on time.

In `ProviderSuite` and `CheckRun` the program is a constant: a script or check is a sequence of records, each translated from one call or decision of
the Python, in its order, with its own error handling; the module is the machine that runs them. So every script and check is run under every
failure of every operation, and each is a few lines that can be laid beside its source.

### Orchestrator

`_run_steps_mode` is a program counter over the phases. A step is its index in the platform's list, a validation its index in the
parsed entries, so order is the order of the configuration.

| Variable | Code |
|---|---|
| `cfg` | the merged `RunConfig` and the CLI arguments; never changes |
| `pc`, `ph`, `cursor` | the place in the phase loop and in `execute_steps` |
| `tried`, `stepsOk` | `StepResult`s and `StepResults.success` |
| `outputs` | `context.data["steps"]`: no JSON, JSON without the values others read, complete |
| `plan`, `resolved` | `resolved_phase_entries`, `resolved_validations_by_index` |
| `xml`, `files`, `report` | what pytest left, the phase's XML files, the merged report |
| `overallSuccess`, `setupStepsRan`, `phaseResults`, `result` | the variables of these names and the return value |

Actions: `UnconfiguredPlatform`, `RejectConfig`, `StartPhases` (checks before the loop); `PassOverPhase`, `SkipCurrentPhase`, `EnterPhase`
(the skip decisions); `RunStep`, `StepWithoutInputs`, `StepsDone` (`execute_steps`); `ResolvePhase`, `RunPytest`, `FinishPhase` (the
validations of the phase); `ResolveRemaining`, `Finish` (the pass after the loop, the merge, the result); `Abort` (an exception or
Ctrl-C, at any point of the loop). Nondeterministic: how each command ends and what it prints, what pytest captures, whether
its file parses. Template rendering is reduced to the set of outputs a step or validation needs.

`Lifecycle` hides phases, files and the order of the checks. `ImplementsLifecycle` maps `tried` to
reached/ok/failed, `resolved` to open/good/bad and `pc` to the run's status.

### TestRun

A session is either *single* (`isvctl test run --lab-id`, which creates, runs and updates) or *split* (`isvreporter create`, the tests, `isvreporter
update`). Per session: where it stands, the id it reports to, its verdict, the last word the user was given; on disk: the id file, the log and
the report in each place one may be; at the service, per run: status, stored reports, log. A request is `ok`, an `error` or a
`timeout`, the last two executed or not (`Answers`). `saved`, `sent`, `wrote` and `by` are history variables. `Kill` stops a session anywhere.
The catalog upload is left out: it is idempotent and its failure is only logged.

### SlurmJob

Each command (sbatch, sacct, squeue, scontrol, test -f, scancel) is its own step, interleaved with the cluster's `StartJob`, `EndJob`,
`Account` and `Purge`. `polls` stands for the time left, `useSacct` and `answer` for the variables of `_wait_for_job`;
`scancel` is a history variable. The cluster is external: its states are those Slurm prints, an accounting row may lag behind the
job and name the canceller (`CANCELLED by`), a finished job may be purged, an output file may be visible or not. The end
of a job by a signal may leave exit code zero, as the parser reads it.

### Provider suites

A script is `ops` (the body of `main`), `rescue` (its except or finally), the exceptions that lead there and whether they still print the JSON. An operation says
what it does to which resource, which instance states it needs or waits for, what it adds to the JSON and what becomes of its failure. A
step of a suite adds the ids its arguments take from earlier outputs, `continue_on_failure` and the phase.

| Variable | Code |
|---|---|
| `at`, `status`, `outs` | the executor's position, the results and the JSON outputs |
| `mode`, `op`, `told`, `learnt`, `err`, `faulty` | the place in the script, its `result` dict, what a describe call showed, the exception, an error kept for the exit code |
| `cloud`, `owner`, `rebooting`, `booted`, `died` | the account (external): each resource, who made it, the instance |
| `warned`, `missed` | history: resources a result names as not deleted; resources whose failed deletion the script passes over (a `pass`, a log line, a `delete_with_retry` whose result is unread) |

Each call has five endings: done (`CallDone`), refused without effect (`CallRefused`), unanswered without effect (`CallUnanswered`), unanswered after it took effect
(`CallLost`), and the step killed (`KillStep`). A resource in use cannot be deleted: the tries of a script end in `CallRefused`, as any other refusal does. `InstanceMoves` and `InstanceReboots` run at any time; the instance may
terminate instead of starting. The 24 suites are those of the AWS vm, bare metal, reinstall, image registry, network, iam, control-plane and
security configurations, their zCompute counterparts, and seven self-contained network tests. `security` and `z_cleanup` start from the leftovers of an interrupted run.

### Checks and workloads

A check is a list of parts (sub-tests that depend on earlier ones name them in `needs`), each a list of looks, openings and closings; every finding (`good`, `bad`, `none`,
`empty`, `odd`) has a reaction (`go`, `sub`, `note`, `fail`, `raise`, `skip`, ...). `rule` says what the end of `run()` asks: nothing, the remembered failures, or
`get_failed_subtests()`. `CheckRun` keeps `self._passed`, the remembered failure, failed and skipped sub-tests, what the check has opened
or made and can close; `watched` picks any one look to follow (a prophecy, chosen at the start), `found`, `seen`, `marked`, `blamed`, `excused` are history. `Interrupt` is Ctrl-C at any
operation. `OutputChecks` holds 86 definitions, `HostChecks` 32, `ClusterChecks` 99.

Where the code does less than the rest of the code, the place is listed by name in `MCCheckRun`: `MCLenient`, `MCOverriding`, `MCVacuous`, `MCTolerated`. `CheckRun` constrains all
four by assumptions on the data, which TLC evaluates, and a fifth says where what is opened is closed: a check that is not listed has the shape from which the theorems follow. The runs show that there is no other place.

### Deploy

| Variable | Code |
|---|---|
| `pc`, `opts` | the place in `deploy run`, its options |
| `archive` | the file in /tmp, as the set of deployments whose bytes it holds |
| `copy`, `tree`, `log`, `junit` | on the host: archive, suite unpacked last, log, report |
| `localLog`, `localJunit` | in the directory: what was fetched |
| `script` | the script on the host, a process of its own |
| `status`, `marks` | the run at the service; id kept, report fetched, user told (and, as history, connection lost, report written, log fetched) |
| `tested`, `met` | history: the suite a deployment's tests ran on, who was under way with it |

Actions in the order of the code: `Begin`, `Pack`, `Send`, `Execute`, then the script's `Unpack` and `EndTests` beside `LoseConnection`, then `Fetch`, `Update`, `Finish`; `Stop` is a
kill or Ctrl-C anywhere. A request may be executed and not answered; `scp` may fail halfway; two `tar` processes may write one archive.

## Runs

| Run | Instance | Shows |
|---|---|---|
| `lifecycle` | 6 step lists, 4 validation lists, 3 phase orders, 4 requests, `teardown_on_failure` on and off, each platform kind, tolerated failures, teardown first, two cleanups; 484 110 states | which steps run, the teardown gate, the result, that the run ends, and that it implements `Lifecycle`, its fairness included |
| `validations` | every pair of 10 validations over two steps, 2 phase orders, 3 requests, `-k`/`-m` or not; 779 776 states | outcomes and the merged report |
| `testrun_overlap` | two overlapping single sessions; 397 764 states | nobody's status is another's verdict, the update tolerates a failed upload, sessions end |
| `testrun_successive` | two sessions of either flow, one after the other; 324 952 states | no loss goes unmentioned, stale ids included, and what is uploaded is the session's own |
| `slurm_wait` | one job, three polls, all nine final states; 26 733 states | the verdict, the jobs left alive, the end of the wait |
| `provider_suites` | 24 suites from every starting account that matters, `--skip-destroy` or not; 419 876 states | what may be left over and why, what is not touched, what the JSON claims, when a step lacks its inputs, that a suite ends |
| `checks` | every check and workload, every course of findings, every watched look, Ctrl-C anywhere; 68 199 states | a pass is earned and not vacuous, a failure stands and has a cause, sub-tests decide, what was opened is closed |
| `deploy` | two deployments from one directory, to one host or two, with and without upload and cleanup; 4 970 109 states | a lone deployment unpacks and uploads its own, an open run is told, the archive goes |
| `doc_stubs`, `testrun_doc_results`, `provider_doc_partial`, `checks_doc_failed` | as the runs above | four statements of the source the code does not keep |

**Why the bounds are enough.** *Lifecycle:* three phases with one to three steps contain every pair the guards compare: a failed step and a later one in
its phase, in a later phase, in teardown; a step without its input; an empty phase. Validations interact through
the report and the result only, two at a time. *Test runs and deployments:* one disturbs another through a few files, so two exhibit
every overwriting; deployments from two directories share strictly less (the archive and the host), and the theorems hold for any number of each. *Slurm:* a poll
depends on the previous ones through `useSacct` alone, so three polls see every order of sources, and the last answer. *Provider suites:* each is the whole suite; what an
earlier run left is in the starting accounts (a key or group of the suite, complete or not, or of somebody else; leftovers of an interrupted run, foreign ones among them); one
resource of each kind, since a script treats the members of a list alike and deletes them in one loop. *Checks:* each is the whole check; a loop over nodes, pods or items is
one look whose finding is that of the worst member, since the members are treated alike. No state constraint is used; every counter is bounded by its guard.

**Fairness.** `Orchestrator`: weak fairness of the run's own progress, since every step command has a timeout and everything else is
local code; an abort is never forced. `TestRun`: weak fairness of every started session, since every request has
a timeout; no session has to start. `SlurmJob`: weak fairness of the validation, since every command has a timeout; the cluster owes nothing,
so the wait ends by the deadline. `ProviderSuite`: weak fairness of the executor and the operations together, since every call and wait is bounded and so is the step; the cloud owes
nothing, and restarting an instance that stops again is not forced either. `CheckRun` and `Deploy` state none: `CheckRun`'s checks end because operations are only gone through forwards, and the
properties of `Deploy` are safety properties; nothing in it makes a connection end.

## Where code and documentation differ

Four runs end in a counterexample; `PROJECT.json` quotes the sentence for each.

1. `doc_stubs`: when pytest's XML does not parse, failed validations are reported by stubs that pass.
2. `testrun_doc_results`: the report of an earlier session is stored as this run's results.
3. `provider_doc_partial`: a VPC whose tagging failed is not known to the finally block that was to delete it.
4. `checks_doc_failed`: a check calls `set_failed` because the cluster cannot be read, and then `set_passed` for "all 0 GPU nodes".

The following was seen while modelling and is in the models (in the lists and exceptions the modules name) or beside them; it is not kept as runs.

*Lifecycle and reporting.*
* A validation that merely has no result is recorded as excluded by the user, and the run stays a success.
* `STEP_NO_OUTPUT` ("step ran but produced no JSON output", `core/resolution.py:50`) is also given when the step has not run.
* A teardown step whose argument reads the output of a failed setup step is not executed although "teardown
  runs even when setup or test validations fail" (`docs/guides/external-validation-guide.md:216`).
* A refused JUnit upload ends `isvreporter update` before it sends the status; a session whose final update is
  lost exits normally although "If this process exits normally, the run is updated" (`docs/guides/troubleshooting-started-tests.md:18`).
* Overlapping sessions in one directory may mix their logs and reports; nothing promises that they do not.

*Slurm.*
* A job that is `CANCELLED by` someone, or ended in `BOOT_FAIL` or `DEADLINE`, is waited for until the deadline.
* Two failed commands and an output file make a running job an ended one (`core/slurm.py:610-611`), which is then never cancelled.

*Deployment.*
* The remote script has no `set -e`: when `tar` fails, the tests run on the suite that was there before.
* When the remote run wrote no report, or the connection was lost, the report and log of an earlier deployment are fetched and uploaded.
* Overlapping deployments mix or unlink the shared archive; the copy then raises an uncaught `FileNotFoundError`, or installs the other's suite.
* The script goes on when its connection is lost.

*Provider scripts.*
* A new VM's security group cannot be read from a terminated instance, so a vm teardown after such an end leaves group and key (`died` in `LeftoversHaveCause`).
* The image registry's teardown claims success over a snapshot it could not delete (`teardown.py:117-124`; `missed`, `Logged`); `floating_ip_test.py:293` leaves its cleanup on a `WaiterError`.
* The root volume put in by the reinstall, and a role whose instance profile could not be made (`launch_instance.py:56-103`), are deleted by nobody (`Unclaimed`). The image registry's
  teardown is not rendered if the launch failed; `crud_image` tells its copy's id only when it became available; `dhcp_ip_test` has no cleanup.
* A group without its rule blocks later launches of the AWS suite; zCompute takes over a key or group by its name and deletes it.
* `reboot_confirmed` of zCompute compares texts of an uptime (`reboot_instance.py:129`); the waiter of `ssl_wrapper.py` does not sleep while an instance it terminates is in another state (`:78`).
* Reusing an instance, on bare metal (`bare_metal.yaml:36-48`, no `security_group_id`) or on zCompute (`vm.yaml:26-28`, no JSON), leaves later steps without inputs (`InputsFromSuccess`).

*Checks and workloads.*
* `ContainerRuntimeCheck` passes with failed sub-tests (`validations/host.py:1845`). GPU checks and workloads pass when no node can be listed (`core/k8s.py:345`); `K8sDriverVersionCheck` and
  `K8sGpuPodAccessCheck` pass over nodes whose pod failed; node readiness and dual stack pass on an empty list.
* The answer of a NIM model is accepted whatever it is (`validate_nim_inference`), and the Helm workload passes without metrics; `NimHealth` looks for `"0"` anywhere in the last line; a training check passes when no
  details could be parsed; a used quota of 0 and an RBAC "forbidden" are accepted; the host software check passes when libvirt was expected and is absent.
* A network policy that should deny passes on any failing `exec`, and the API ACL probe on any exit code but 126 and 127.
* An `apply` that times out leaves its Job, MPIJob or namespace; a conformance run's partial `apply` leaves namespace and role binding, and one configured to use an existing
  namespace deletes it; a conformance run that skipped every case passes; logs are read from the first pod of a list.
* A command that times out is killed, its shell's children are not (`runners.py`).

## Proofs

| Theorem | States |
|---|---|
| `OrchestratorProofs!TypeCorrect` | `[]TypeOK` |
| `OrchestratorProofs!Honest` | `[]ResultIsHonest` |
| `LifecycleProofs!AllSettled`, `PhasesMatch` | `[]EveryEntrySettled`, `[]ResultMatchesPhases` |
| `LifecycleProofs!OutcomesAreFinal` | `OutcomeIsFinal` |
| `LifecycleProofs!NothingOnTopOfFailure`, `TeardownIsGated` | `NoWorkAfterFailure`, `TeardownGate` |
| `LifecycleProofs!TeardownDone` | `[]TeardownReached` |
| `ReportProofs!RealData`, `OneCaseEach` | `[]ExecutedOnRealData`, `[]ReportComplete` |
| `LifecycleProofs!RefinesLifecycle` | initial states and steps of `Orchestrator` are those of `Lifecycle`, or stutter |
| `TestRunProofs!TypeCorrect`, `UpdateIsTolerant` | `[]TypeOK`, `[]TolerantUpdate` |
| `TestRunProofs!VerdictsAreOwn`, `LossIsTold` | `[]StatusIsVerdict`, `[]NoSilentLoss`, given `Separate` |
| `TestRunProofs!UploadsOwn` | `[]UploadsAreOwn`, given `~Overlap` |
| `SlurmJobProofs!TypeCorrect`, `VerdictsTrue`, `CausesKnown` | `[]TypeOK`, `[]VerdictIsTrue`, `[]LiveJobHasCause` |
| `CheckRunProofs!TypeCorrect`, `SubtestsCount`, `FailuresStand`, `PassesEarned` | `[]TypeOK`, `[]SubtestsDecide`, `[]FailureStands`, `[]PassIsEarned` |
| `CheckRunProofs!PassesSeen`, `FailuresCaused`, `LeftoversCaused` | `[]NoVacuousPass`, `[]FailureHasCause`, `[]LeftoversHaveCause` |
| `ProviderSuiteProofs!TypeCorrect`, `InputsComeFromSuccess` | `[]TypeOK`, `[]InputsFromSuccess` |
| `ProviderSuiteProofs!ForeignKept`, `ClaimsTrue` | `ForeignUntouched`, `ClaimsAreTrue` |
| `ProviderSuiteProofs!LeftoversExplained` | `[]LeftoversHaveCause` |
| `DeployProofs!TypeCorrect`, `SuiteIsOwn`, `ResultsAreOwn`, `OpenRunsAreTold`, `ArchiveIsGone` | `[]TypeOK`, `[]OwnSuite`, `[]OwnResults`, `[]OpenRunIsTold`, `[]ArchiveRemoved` |

They hold for every value of the constants: configurations of any size, any number of sessions, deployments, directories, hosts and polls, any set of
final states, and any checks and suites that meet the assumptions of `CheckRun` and `ProviderSuite`. The assumptions are those of the modules (`ConfigsAssumption`: distinct phases,
well-formed configurations; `SessionsAssumption`; `JobAssumption`; `DeployAssumption`; those on data, below) and, where the table says so, `Separate` (sessions do not overlap, or all are single) or `~Overlap`. They are needed: a split session that overlaps another can read the other's
id and set its status, and overlapping sessions write one log.

The scripts and checks are constants, so what the proofs need of them are assumptions about their text (and the accounts a suite starts from), none about a state that is reached; TLC evaluates each on all of the data (runs `checks` and `provider_suites`):

* `ChecksAssumption`, `SuitesAssumption`: records are well formed, arguments read earlier steps, a cleanup has no way out of its own.
* `LenientAssumption`, `OverridingAssumption`, `ToleratedAssumption`: outside the lists no pass is set after a failed sub-test, none after `set_failed`, and what is bad decides.
* `VacuousAssumption`: outside the list some look shows something good or decides, and every way to a pass leads through it. `ClosingAssumption`: what is opened is closed in the
  finally, or at a place of `run()` that every way on leads to.
* `ForeignAssumption`: what is somebody else's is there and at rest when the suite starts, and a script names or changes it without a look at its tag only behind an adoption (which fails then).
* `InputsAssumption`: what a step reads has been told, or is always a field, at every good end of the script it is read from, outside `Incomplete`.
* `ClaimsAssumption`: a claim is made where the script has looked (or has made it so), and nothing after that place undoes it; a teardown says "destroyed" or "verified" last, passes over no failed deletion but a snapshot's, and does
  not learn of what it was to delete when it has passed it.
* `RemovalAssumption`: for every resource a suite makes or takes over there is an operation that removes it (`Removes`). Nothing after it brings the resource back; no good way out
  of the script leads around it but `--skip-destroy` and the `find` of an instance that is gone; its step is a teardown, the first step, or the one that makes the resource; and the script can name
  the resource there (`AtHand`): it sweeps, has told the id itself, has read it from the instance (`Traced`) or the network (`Completed`), or was handed it by a step that prints it
  whenever it made it (`HandsOver`). That the id then arrives, the operation is reached and nothing slips in between is what is proved. A teardown that forgot a resource fails the assumption.

* *Honest.* The result is computed from two flags, the properties speak of steps and validations. `Accounted` ties them at every place of the
  loop, and is inductive only with `ReachedOnce` (no step runs twice, so no failure is overwritten), `PlanOpen` (a planned
  validation had no outcome) and `PlanSettled`.
* *Lifecycle.* `LoopInv` adds `OnlyTolerated` (what failures a phase may carry while it reaches steps, from the skip decision), `Settled`,
  `NotRefused` and `PhasesAgree` (the flag is the conjunction of the phase results). Each concrete action is then
  matched with `ReachStep`, `Settle`, `Return`, `Reject`, `Raise` or a stutter. `NoWorkAfterFailure` is `OnlyTolerated` at the step that is reached; `TeardownGate` needs
  `Gate`: the flag that opens teardown is set by a phase whose steps were reached. `TeardownReached` needs `Sweep`: a teardown phase that lies behind has been gone through
  unless nothing was set up, teardown came first, or the configuration excused it, and none of these can stop being so.
* *Test runs.* `IInv` says whose id, verdict and file each session can hold where it stands (`Ids`, `Files`, `Active`), who can have set a status (`Setters`), and what the
  user's last word implies (`Warned`, `Stored`). `Sending` and `OwnFiles` do the same for the update and for the files of the only session under way.
* *Slurm.* `Readings`: a final state that was read is the job's, because jobs do not leave final states; `Reports`: the report
  follows from the last answer or the deadline.
* *Checks.* Once past a place, `run()` does not come back. `Subtests`, `Marks` and `Earned` say that what happened at a place behind is remembered where the check's rule looks for
  it; the assumptions say that no later operation sets the verdict without looking. `Sighted`: a check past its gate, or past a look behind it, has seen something good or is decided; no way
  leads round the gate. `Grasped` (what was made and is not excused is known), `Held` (what is known and not for the finally has its closing ahead) and `Emptied` (the finally leaves nothing)
  give the leftovers.
* *Reports.* `DataInv`: an output once stored is not replaced, because no step runs twice, so what made a validation ready still holds when it is executed and when it is recorded. `CasesOnce`
  says, at every place of the loop, that a validation has one testcase exactly if it has an outcome or a stub of its phase, and none otherwise; it needs `PlanKinds` (what the plan of
  the current phase may hold) and `XmlLeft` (pytest leaves a file, or there was nothing to execute), and the merge keeps it.
* *Provider suites.* `Flow` reduces every step to five: nothing happens to the script, it begins, passes an operation, goes to its cleanup, or ends. The invariants then follow the
  text: `ToldBehind` (what the operations behind tell has been told) with `PromisesKept`; `Kept` (nobody has named what is foreign, and the script is not past an adoption of it); `Sourced` (whatever has been told
  stands in an operation behind), `Seen`, `Borne` and `Cleared` (what was seen, claimed or removed is still so, since no operation after it undoes it and the instance does not move from there on its
  own). Every case where the account changes without the script, or a call takes effect unanswered, goes through `CloudStep`.
* *Leftovers of a suite.* `LeftoversHaveCause` speaks of the end only; the invariant follows a resource through the suite. `Reserved`: nobody has it before the one step that makes it, so a step
  left out after a failure has left nothing. `Handed` and `Announced`: a step that printed has printed the id of what it made, or failed, or made nothing. `Lively`: an instance that is known and that
  nobody ended is there or has died on its own, so a describe shows its key and group. `Attached`: a gateway that is not attached has its attachment ahead or a failed step behind,
  so a listing shows it. `Revealed`: what was shown is still at hand when its removal comes. From these `AtHandKnown`: a script that comes to the removal can name the resource, or it is `Settled` (gone,
  or nobody's) or `Excused` (a cause of the list). `Removed` carries that through the rest of the script and its cleanup, `Answered` through the rest of the suite; causes do not go away (`ExcusedStays`), and
  what is gone is not made again (`SettledStays`).
* *Deploy.* `IInv` = `TypeOK`, `Acquainted` (two under way know of each other), `Fresh`, `Undisturbed` (while a lone deployment is under way, archive, copy, log and report are its own),
  `OwnSuite`, `Known`, `ArchiveRemoved`. A deployment that is alone sees no step of another; an own step moves its file one place on.

Only model-checked: every liveness property and the fairness part of `ImplementsLifecycle`, since fairness and `ENABLED` are beyond the prover. Every invariant and every action property of a
passing run is a theorem, those of the test runs under the conditions the table names.

## Not modelled, and why

* Functions of data without state: configuration merge and imports, output schemas, redaction, discovery and inventory, listings, name mapping and parsing of the reporter, unique pytest names, the
  arithmetic and XML of the JUnit merge (which testcases reach it is modelled), thresholds and parsing inside a check (one finding of a look).
* The cleaner: one sequential pass over independent removals; nothing is concurrent and nothing survives it. The legacy executor is no longer called. Release tooling is outside the product.
* pytest itself, and the session's module globals beyond what reaches the orchestrator: a session's results, its XML and what it loses are modelled; collection and parametrisation are the library's.
* What a script only hands over to: EKS and Terraform, ReFrame, Helm charts; and scripts of the shape of others that are modelled: read-only security probes (calls that change nothing) and the
  remaining network tests.
* The multi-node Slurm check runs the same loop as `SlurmJob` with another collection.
* Inside a copy of `Deploy`: `Send` is one step, whole or cut short; a download that raises an `OSError` of the local disk ends the command as `Stop` does.
* Time: a wait ends well, badly or at its deadline, at any point; no property is about how long.
