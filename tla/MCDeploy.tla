------------------------------ MODULE MCDeploy -------------------------------
(* Instances of Deploy for TLC. *)
EXTENDS Deploy, TLC

CONSTANTS w1, h1, h2

\* One directory; the same host, which they share everything of, or two.
MCOptions == {[dir |-> w1, host |-> h1, uploads |-> TRUE, cleanup |-> FALSE],
              [dir |-> w1, host |-> h2, uploads |-> FALSE, cleanup |-> TRUE]}

MCSymmetry == Permutations(Deployments)
==============================================================================
