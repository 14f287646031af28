----------------------------- MODULE MCSlurmJob -----------------------------
(* Instances of SlurmJob for TLC. *)
EXTENDS SlurmJob

AllEnds == Ends
FewEnds == {"COMPLETED", "FAILED", "CANCELLED"}
=============================================================================
