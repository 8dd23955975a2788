-------------------------- MODULE IncidentLifecycle --------------------------
(***************************************************************************)
(* What the agent promises about one incident, whoever works on it: it is   *)
(* acted on at most once, only after a human approved it and only under an  *)
(* attempt begun before; it enters verification when the attempt is over,   *)
(* gets one verdict, and closes only on recovery.                           *)
(***************************************************************************)
CONSTANT Incidents

VARIABLES
  stage,      \* absent, open, verifying, closed
  approved,   \* an approval of the incident's plan was granted
  attempt,    \* none, running, over
  acted,      \* the action was issued
  verdict     \* none, recovered, other

vars == <<stage, approved, attempt, acted, verdict>>

LifecycleTypeOK ==
  /\ stage \in [Incidents -> {"absent", "open", "verifying", "closed"}]
  /\ approved \in [Incidents -> BOOLEAN]
  /\ attempt \in [Incidents -> {"none", "running", "over"}]
  /\ acted \in [Incidents -> BOOLEAN]
  /\ verdict \in [Incidents -> {"none", "recovered", "other"}]

Init ==
  /\ stage = [i \in Incidents |-> "absent"]
  /\ approved = [i \in Incidents |-> FALSE]
  /\ attempt = [i \in Incidents |-> "none"]
  /\ acted = [i \in Incidents |-> FALSE]
  /\ verdict = [i \in Incidents |-> "none"]

Open(i) ==
  /\ stage[i] = "absent"
  /\ stage' = [stage EXCEPT ![i] = "open"]
  /\ UNCHANGED <<approved, attempt, acted, verdict>>

Approve(i) ==
  /\ stage[i] # "absent"
  /\ approved' = [approved EXCEPT ![i] = TRUE]
  /\ UNCHANGED <<stage, attempt, acted, verdict>>

Authorise(i) ==
  /\ stage[i] = "open" /\ approved[i] /\ attempt[i] = "none"
  /\ attempt' = [attempt EXCEPT ![i] = "running"]
  /\ UNCHANGED <<stage, approved, acted, verdict>>

(* The executor may be slow: its attempt may have been declared over, and   *)
(* the incident may even be closed, when the action reaches the cluster.    *)
Act(i) ==
  /\ attempt[i] # "none" /\ ~ acted[i]
  /\ acted' = [acted EXCEPT ![i] = TRUE]
  /\ UNCHANGED <<stage, approved, attempt, verdict>>

Settle(i) ==
  /\ attempt[i] = "running"
  /\ attempt' = [attempt EXCEPT ![i] = "over"]
  /\ UNCHANGED <<stage, approved, acted, verdict>>

StartVerifying(i) ==
  /\ stage[i] = "open" /\ attempt[i] = "over"
  /\ stage' = [stage EXCEPT ![i] = "verifying"]
  /\ UNCHANGED <<approved, attempt, acted, verdict>>

Judge(i) ==
  /\ stage[i] = "verifying" /\ verdict[i] = "none"
  /\ \E v \in {"recovered", "other"} : verdict' = [verdict EXCEPT ![i] = v]
  /\ UNCHANGED <<stage, approved, attempt, acted>>

Close(i) ==
  /\ stage[i] = "verifying" /\ verdict[i] = "recovered"
  /\ stage' = [stage EXCEPT ![i] = "closed"]
  /\ UNCHANGED <<approved, attempt, acted, verdict>>

Next ==
  \E i \in Incidents :
    \/ Open(i) \/ Approve(i) \/ Authorise(i) \/ Act(i)
    \/ Settle(i) \/ StartVerifying(i) \/ Judge(i) \/ Close(i)

LifecycleSpec == Init /\ [][Next]_vars

(* An incident that is closed was recovered, its attempt is over and it was *)
(* approved: no shortcut leads to the end of the lifecycle.                 *)
ClosedIsEarned ==
  \A i \in Incidents : stage[i] = "closed" =>
    verdict[i] = "recovered" /\ attempt[i] = "over" /\ approved[i]
=============================================================================
