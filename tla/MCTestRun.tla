------------------------------ MODULE MCTestRun ------------------------------
(* Instances of TestRun for TLC. *)
EXTENDS TestRun

SingleOptions ==
  [flow : {"single"}, uploads : {TRUE}, junitxml : {"output", "cwd"}]

\* --no-upload sessions still write the log and a report.
MixedOptions ==
  [flow : {"single"}, uploads : BOOLEAN, junitxml : {"output", "cwd"}]
  \cup [flow : {"split"}, uploads : {TRUE}, junitxml : {"output", "other"}]
=============================================================================
