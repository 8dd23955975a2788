------------------------- MODULE MCRemediationAgent -------------------------
(***************************************************************************)
(* Instances of the remediation agent for TLC.                              *)
(***************************************************************************)
EXTENDS RemediationAgent, TLC

CONSTANTS r1, r2, pod1, restart, rs

MCActionKey == [incident: IncidentID, plan: Plan]
MCOwnerOf == [key \in Key |-> rs]
MCVersion == 1..9
MCTime == 1..3
MCReplicaSymmetry == Permutations(Holder)

(* The first six versions are enough to begin an action on either path: an *)
(* incident that has spent them on claims alone is not followed further.    *)
(* Nor are approvals for the third time: those before it come early, late   *)
(* and in time, and run out.                                                *)
MCActsInTime ==
  /\ \A i \in IncidentID : incidents[i].version <= 6 \/
       \E k \in ActionKey : k.incident = i /\ AttemptExists(k)
  /\ \A k \in ActionKey : approvals[k].from <= 2
=============================================================================
