-------------------------- MODULE MCRemediationState --------------------------
(* The remediation state for TLC: every incident is of one workload. *)
EXTENDS RemediationState, TLC

CONSTANTS i1, i2, i3, dep, r1, r2

MCTargetOf == [i \in Incident |-> dep]
MCSymmetry == Permutations(Incident) \cup Permutations(Replica)
=============================================================================
