------------------------------ MODULE Lifecycle ------------------------------
(***************************************************************************)
(* What a lifecycle run promises, without phases, files or the order of    *)
(* checks: steps are reached at most once and in the order of the          *)
(* configuration, nothing but cleanup is started on top of a failure,      *)
(* every validation is settled once, and the run is a success exactly when *)
(* nothing went wrong.  Orchestrator implements it.                        *)
(***************************************************************************)
EXTENDS Naturals, Sequences

CONSTANT Configs    \* the configurations of Orchestrator

VARIABLES
  cfg,       \* the configuration of this run
  reached,   \* per step: "no", or how it ended
  outcome,   \* per validation: "open", or whether it counts as a failure
  status     \* how the run stands

vars == <<cfg, reached, outcome, status>>

Steps       == DOMAIN cfg.steps
Validations == DOMAIN cfg.entries
PhaseOf(s)  == cfg.steps[s].phase

Init ==
  /\ cfg \in Configs
  /\ reached = [s \in Steps |-> "no"]
  /\ outcome = [e \in Validations |-> "open"]
  /\ status = "running"

Failed(s) == reached[s] = "failed"
Clean == (\A s \in Steps : ~Failed(s)) /\ (\A e \in Validations : outcome[e] # "bad")

\* Where the step list runs a step: its phase first, then its place in the list.
Precedes(t, s) ==
  \E i, j \in DOMAIN cfg.phases :
    /\ cfg.phases[i] = PhaseOf(t) /\ cfg.phases[j] = PhaseOf(s)
    /\ i < j \/ (i = j /\ t < s)

\* Only failures of the same phase that the configuration tolerates lie behind.
OnlyTolerated(s) ==
  /\ \A t \in Steps : Failed(t) => cfg.steps[t].cont /\ PhaseOf(t) = PhaseOf(s)
  /\ \A e \in Validations : outcome[e] # "bad"

MayStart(s) == PhaseOf(s) = "teardown" \/ OnlyTolerated(s)

ReachStep(s) ==
  /\ status = "running"
  /\ reached[s] = "no"
  /\ \A t \in Steps : reached[t] # "no" => Precedes(t, s)
  /\ MayStart(s)
  /\ \E how \in {"ok", "failed"} : reached' = [reached EXCEPT ![s] = how]
  /\ UNCHANGED <<cfg, outcome, status>>

\* Any number of open validations are settled together.
Settle ==
  /\ status = "running"
  /\ \E S \in SUBSET {e \in Validations : outcome[e] = "open"} :
       \E new \in [S -> {"good", "bad"}] :
         outcome' = [e \in Validations |-> IF e \in S THEN new[e] ELSE outcome[e]]
  /\ UNCHANGED <<cfg, reached, status>>

Return ==
  /\ status = "running"
  /\ \A e \in Validations : outcome[e] # "open"
  /\ status' = IF Clean THEN "success" ELSE "failure"
  /\ UNCHANGED <<cfg, reached, outcome>>

\* A configuration that cannot be run is refused before anything is done.
Reject ==
  /\ status = "running"
  /\ \A s \in Steps : reached[s] = "no"
  /\ \A e \in Validations : outcome[e] = "open"
  /\ status' = "rejected"
  /\ UNCHANGED <<cfg, reached, outcome>>

Raise ==
  /\ status = "running"
  /\ status' = "raised"
  /\ UNCHANGED <<cfg, reached, outcome>>

Next == (\E s \in Steps : ReachStep(s)) \/ Settle \/ Return \/ Reject \/ Raise

Spec == Init /\ [][Next]_vars /\ WF_vars(Next)
=============================================================================
