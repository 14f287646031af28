--------------------------- MODULE MCOrchestrator ---------------------------
(***************************************************************************)
(* Instances of Orchestrator for TLC.  Lifecycle: every shape of step list *)
(* and every combination of the command line, with at most one validation. *)
(* Validations: pairs of validations over two step lists.                  *)
(***************************************************************************)
EXTENDS Orchestrator

MCPhases == {"setup", "test", "verify", "teardown"}

S(phase, cont, refs) == [phase |-> phase, cont |-> cont, refs |-> refs]
V(step, phase, gate, refs) == [step |-> step, phase |-> phase, gate |-> gate, refs |-> refs]

Full == <<"setup", "test", "teardown">>

StepLists ==
  { <<S("setup", FALSE, {}), S("test", FALSE, {1}), S("teardown", FALSE, {1})>>,
    <<S("setup", TRUE, {}), S("setup", FALSE, {}), S("setup", FALSE, {})>>,
    <<S("setup", FALSE, {}), S("teardown", FALSE, {}), S("teardown", FALSE, {2})>>,
    <<S("test", FALSE, {}), S("teardown", FALSE, {})>>,
    <<S("verify", FALSE, {})>>,
    <<>> }

Requests == {{"setup", "test", "teardown"}, {ALL}, {"teardown"}, {"setup", "test"}}

Clear == V(1, NoPhase, "clear", {})
Few == {<<>>, <<Clear>>, <<V(0, "verify", "clear", {})>>, <<V(0, "test", "invalid", {})>>}

Config(platform, phases, steps, entries, requested, tof, explicit, junit) ==
  [platform |-> platform, phases |-> phases, steps |-> steps, entries |-> entries,
   requested |-> requested, teardownOnFailure |-> tof, explicitSelection |-> explicit,
   junit |-> junit]

LifecycleConfigs ==
  { Config("configured", ps, ss, es, rq, tof, FALSE, j) :
      ps \in {Full, <<"setup", "teardown">>, <<"setup", "verify", "test", "teardown">>},
      ss \in StepLists, es \in Few, rq \in Requests, tof \in BOOLEAN, j \in {TRUE} }
  \cup { Config(p, Full, <<S("setup", FALSE, {})>>, <<Clear>>, {ALL}, TRUE, FALSE, FALSE) :
           p \in {"none", "unconfigured", "skipped", "configured"} }

Validations ==
  { Clear, V(0, NoPhase, "clear", {}), V(2, NoPhase, "clear", {1}), V(2, "setup", "clear", {}),
    V(9, NoPhase, "clear", {}), V(0, "verify", "clear", {9}), V(1, "test", "excluded_marker", {}),
    V(0, "teardown", "invalid", {}), V(0, "setup", "unreleased", {}), V(1, "setup", "excluded_name", {}) }

ValidationConfigs ==
  { Config("configured", ps, ss, <<v, w>>, rq, TRUE, explicit, TRUE) :
      ps \in {Full, <<"setup", "verify", "test", "teardown">>},
      ss \in {<<S("setup", FALSE, {}), S("test", TRUE, {1})>>},
      v \in Validations, w \in Validations,
      rq \in {{"setup", "test", "teardown"}, {ALL}, {"test"}}, explicit \in BOOLEAN }

\* A tolerated failure, a failing validation in the middle, and two cleanups.
RefinementConfigs ==
  { Config("configured", ps, ss, es, rq, tof, FALSE, FALSE) :
      ps \in {Full, <<"teardown", "setup", "test">>},
      ss \in {<<S("test", TRUE, {2}), S("setup", FALSE, {}), S("test", FALSE, {}), S("teardown", FALSE, {})>>,
              <<S("teardown", FALSE, {3}), S("teardown", FALSE, {}), S("setup", TRUE, {})>>},
      es \in {<<V(2, NoPhase, "clear", {}), V(0, "verify", "clear", {9})>>, <<V(3, "setup", "clear", {})>>},
      rq \in {{ALL}, {"setup", "teardown"}}, tof \in BOOLEAN }
  \cup { Config(p, Full, <<S("setup", FALSE, {})>>, <<Clear>>, {ALL}, TRUE, FALSE, FALSE) :
           p \in {"none", "unconfigured", "skipped"} }

AllConfigs == LifecycleConfigs \cup RefinementConfigs
=============================================================================
