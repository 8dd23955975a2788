-------------------- MODULE RemediationAgentLifecycleProofs --------------------
(***************************************************************************)
(* The remediation agent implements IncidentLifecycle, for any number of    *)
(* replicas, pods and incidents: a step of a replica, of the operator or of *)
(* the clock is a step of one incident's lifecycle or does not show in it.  *)
(* Besides: an incident is advanced by the holder of its latest claim only, *)
(* and a waiting incident that is resumed finds its plan.                   *)
(***************************************************************************)
EXTENDS RemediationAgentProofs

(* The invariant of RemediationAgentProofs, and that an incident that went  *)
(* on has what it went on with: only then is there an open incident behind  *)
(* each new attempt, and a verification behind each resolution.             *)
LifecycleInv ==
  /\ AgentInv
  /\ VerifyingHasWork

OpenState == {"DETECTED", "DIAGNOSED", "WAITING_APPROVAL"}

(* A change of an incident that does not show in its lifecycle.             *)
Quiet(i) ==
  \/ /\ incidents'[i].state = incidents[i].state
     /\ incidents'[i].resolvedBy = incidents[i].resolvedBy
  \/ incidents[i].state \in OpenState /\ incidents'[i].state \in OpenState

-----------------------------------------------------------------------------
(* What is seen of the incidents. *)
Stages == [i \in IncidentID |-> StageOf(i)]
Approvals == [i \in IncidentID |-> approvals[TheAction(i)] # NoApproval]
Attempted == [i \in IncidentID |-> AttemptStageOf(i)]
Acted == [i \in IncidentID |-> executions[TheAction(i)] # <<>>]
Verdicts == [i \in IncidentID |-> VerdictOf(i)]

(* An incident has one action. *)
LEMMA OneAction ==
  /\ \A i \in IncidentID : TheAction(i) \in ActionKey /\ TheAction(i).incident = i
  /\ \A k \in ActionKey : k = TheAction(k.incident)
  /\ \A r \in Holder : ActionOf(r) = TheAction(cycle[r].id)
<1>1. PICK p \in Plan : Plan = {p}
  BY OnePlanAssumption
<1>2. (CHOOSE q \in Plan : TRUE) = p
  BY <1>1
<1>3. \A i : TheAction(i) = [incident |-> i, plan |-> p]
  BY <1>2 DEF TheAction
<1>4. \A k \in ActionKey : k.incident \in IncidentID /\ k.plan = p /\ k = [incident |-> k.incident, plan |-> k.plan]
  BY <1>1, ActionKeyAssumption
<1>5. QED
  BY <1>1, <1>3, <1>4, ActionKeyOf DEF TheAction, ActionOf

(* What does not change is seen not to. *)
LEMMA Unseen ==
  /\ (\A i \in IncidentID : Quiet(i)) => Stages' = Stages
  /\ UNCHANGED approvals => Approvals' = Approvals
  /\ UNCHANGED attempts => Attempted' = Attempted
  /\ UNCHANGED executions => Acted' = Acted
  /\ UNCHANGED verifications => Verdicts' = Verdicts
<1>1. ASSUME NEW i \in IncidentID, Quiet(i) PROVE StageOf(i)' = StageOf(i)
  BY <1>1 DEF Quiet, OpenState, StageOf, IncidentExists
<1>2. ASSUME NEW i \in IncidentID, UNCHANGED attempts PROVE AttemptStageOf(i)' = AttemptStageOf(i)
  BY <1>2 DEF AttemptStageOf, AttemptExists, TheAction
<1>3. ASSUME NEW i \in IncidentID, UNCHANGED verifications PROVE VerdictOf(i)' = VerdictOf(i)
  BY <1>3 DEF VerdictOf, TheAction
<1>4. QED
  BY <1>1, <1>2, <1>3 DEF Stages, Approvals, Attempted, Acted, Verdicts, TheAction

(* One incident's stage changes. *)
LEMMA StageChanges ==
  ASSUME NEW i \in IncidentID, \A j \in IncidentID \ {i} : incidents'[j] = incidents[j],
         NEW stage, StageOf(i)' = stage
  PROVE  Stages' = [Stages EXCEPT ![i] = stage]
<1>1. ASSUME NEW j \in IncidentID \ {i} PROVE StageOf(j)' = StageOf(j)
  BY DEF StageOf, IncidentExists
<1>2. QED
  BY <1>1 DEF Stages

(* What is seen of one action changes. *)
LEMMA ActionChanges ==
  ASSUME NEW i \in IncidentID, NEW seen
  PROVE  /\ /\ \A k \in ActionKey \ {TheAction(i)} : approvals'[k] = approvals[k]
            /\ (approvals'[TheAction(i)] # NoApproval) = seen
            => Approvals' = [Approvals EXCEPT ![i] = seen]
         /\ /\ \A k \in ActionKey \ {TheAction(i)} : attempts'[k] = attempts[k]
            /\ AttemptStageOf(i)' = seen
            => Attempted' = [Attempted EXCEPT ![i] = seen]
         /\ /\ \A k \in ActionKey \ {TheAction(i)} : executions'[k] = executions[k]
            /\ (executions'[TheAction(i)] # <<>>) = seen
            => Acted' = [Acted EXCEPT ![i] = seen]
         /\ /\ \A k \in ActionKey \ {TheAction(i)} : verifications'[k] = verifications[k]
            /\ VerdictOf(i)' = seen
            => Verdicts' = [Verdicts EXCEPT ![i] = seen]
<1>1. \A j \in IncidentID \ {i} : TheAction(j) \in ActionKey \ {TheAction(i)}
  BY OneAction
<1>2. ASSUME \A k \in ActionKey \ {TheAction(i)} : approvals'[k] = approvals[k],
             (approvals'[TheAction(i)] # NoApproval) = seen
      PROVE  Approvals' = [Approvals EXCEPT ![i] = seen]
  <2>1. \A j \in IncidentID \ {i} : approvals'[TheAction(j)] = approvals[TheAction(j)]
    BY <1>1, <1>2
  <2>2. \A j : TheAction(j)' = TheAction(j)
    BY DEF TheAction
  <2>3. QED
    BY <1>2, <2>1, <2>2 DEF Approvals
<1>3. ASSUME \A k \in ActionKey \ {TheAction(i)} : attempts'[k] = attempts[k],
             AttemptStageOf(i)' = seen
      PROVE  Attempted' = [Attempted EXCEPT ![i] = seen]
  <2>1. \A j \in IncidentID \ {i} : attempts'[TheAction(j)] = attempts[TheAction(j)]
    BY <1>1, <1>3
  <2>2. \A j \in IncidentID \ {i} : AttemptStageOf(j)' = AttemptStageOf(j)
    BY <2>1 DEF AttemptStageOf, AttemptExists, TheAction
  <2>3. QED
    BY <1>3, <2>2 DEF Attempted
<1>4. ASSUME \A k \in ActionKey \ {TheAction(i)} : executions'[k] = executions[k],
             (executions'[TheAction(i)] # <<>>) = seen
      PROVE  Acted' = [Acted EXCEPT ![i] = seen]
  <2>1. \A j \in IncidentID \ {i} : executions'[TheAction(j)] = executions[TheAction(j)]
    BY <1>1, <1>4
  <2>2. \A j : TheAction(j)' = TheAction(j)
    BY DEF TheAction
  <2>3. QED
    BY <1>4, <2>1, <2>2 DEF Acted
<1>5. ASSUME \A k \in ActionKey \ {TheAction(i)} : verifications'[k] = verifications[k],
             VerdictOf(i)' = seen
      PROVE  Verdicts' = [Verdicts EXCEPT ![i] = seen]
  <2>1. \A j \in IncidentID \ {i} : verifications'[TheAction(j)] = verifications[TheAction(j)]
    BY <1>1, <1>5
  <2>2. \A j \in IncidentID \ {i} : VerdictOf(j)' = VerdictOf(j)
    BY <2>1 DEF VerdictOf, TheAction
  <2>3. QED
    BY <1>5, <2>2 DEF Verdicts
<1>6. QED
  BY <1>2, <1>3, <1>4, <1>5

-----------------------------------------------------------------------------
(* The steps that show, by what they change.                                *)

LEMMA Opens ==
  ASSUME NEW i \in IncidentID, incidents[i].state = "NONE", incidents'[i].state = "DETECTED",
         \A j \in IncidentID \ {i} : incidents'[j] = incidents[j],
         UNCHANGED <<attempts, verifications, approvals, executions>>
  PROVE  Lifecycle!Open(i)
<1>1. StageOf(i) = "absent" /\ StageOf(i)' = "open"
  BY DEF StageOf, IncidentExists
<1>2. Stages' = [Stages EXCEPT ![i] = "open"]
  BY <1>1, StageChanges
<1>3. UNCHANGED <<Approvals, Attempted, Acted, Verdicts>>
  BY Unseen
<1>4. QED
  BY <1>1, <1>2, <1>3 DEF Lifecycle!Open, Stages, Approvals, Attempted, Acted, Verdicts

LEMMA Approves ==
  ASSUME NEW i \in IncidentID, IncidentExists(i),
         approvals'[TheAction(i)] # NoApproval,
         \A k \in ActionKey \ {TheAction(i)} : approvals'[k] = approvals[k],
         UNCHANGED <<incidents, attempts, verifications, executions>>
  PROVE  Lifecycle!Approve(i)
<1>1. StageOf(i) # "absent"
  BY DEF StageOf, IncidentExists
<1>2. Approvals' = [Approvals EXCEPT ![i] = TRUE]
  BY ActionChanges
<1>3. UNCHANGED <<Stages, Attempted, Acted, Verdicts>>
  BY Unseen DEF Quiet
<1>4. QED
  BY <1>1, <1>2, <1>3 DEF Lifecycle!Approve, Stages, Approvals, Attempted, Acted, Verdicts

LEMMA Authorises ==
  ASSUME NEW i \in IncidentID, incidents[i].state \in OpenState,
         approvals[TheAction(i)] # NoApproval,
         attempts[TheAction(i)].status = "NONE", attempts'[TheAction(i)].status = "STARTED",
         \A k \in ActionKey \ {TheAction(i)} : attempts'[k] = attempts[k],
         UNCHANGED <<incidents, approvals, verifications, executions>>
  PROVE  Lifecycle!Authorise(i)
<1>1. StageOf(i) = "open"
  BY DEF StageOf, IncidentExists, OpenState
<1>2. AttemptStageOf(i) = "none" /\ AttemptStageOf(i)' = "running"
  BY DEF AttemptStageOf, AttemptExists, TheAction
<1>3. Attempted' = [Attempted EXCEPT ![i] = "running"]
  BY <1>2, ActionChanges
<1>4. UNCHANGED <<Stages, Approvals, Acted, Verdicts>>
  BY Unseen DEF Quiet
<1>5. QED
  BY <1>1, <1>2, <1>3, <1>4
  DEF Lifecycle!Authorise, Stages, Approvals, Attempted, Acted, Verdicts

LEMMA Acts ==
  ASSUME NEW i \in IncidentID, AttemptExists(TheAction(i)),
         executions[TheAction(i)] = <<>>, executions'[TheAction(i)] # <<>>,
         \A k \in ActionKey \ {TheAction(i)} : executions'[k] = executions[k],
         UNCHANGED <<incidents, approvals, attempts, verifications>>
  PROVE  Lifecycle!Act(i)
<1>1. AttemptStageOf(i) # "none"
  BY DEF AttemptStageOf
<1>2. Acted' = [Acted EXCEPT ![i] = TRUE]
  BY ActionChanges
<1>3. UNCHANGED <<Stages, Approvals, Attempted, Verdicts>>
  BY Unseen DEF Quiet
<1>4. QED
  BY <1>1, <1>2, <1>3 DEF Lifecycle!Act, Stages, Approvals, Attempted, Acted, Verdicts

LEMMA Settles ==
  ASSUME NEW i \in IncidentID, attempts[TheAction(i)].status = "STARTED",
         attempts'[TheAction(i)].status \in TerminalAttempt,
         \A k \in ActionKey \ {TheAction(i)} : attempts'[k] = attempts[k],
         UNCHANGED <<incidents, approvals, verifications, executions>>
  PROVE  Lifecycle!Settle(i)
<1>1. AttemptStageOf(i) = "running" /\ AttemptStageOf(i)' = "over"
  BY DEF AttemptStageOf, AttemptExists, TheAction, TerminalAttempt, CompletedStatus
<1>2. Attempted' = [Attempted EXCEPT ![i] = "over"]
  BY <1>1, ActionChanges
<1>3. UNCHANGED <<Stages, Approvals, Acted, Verdicts>>
  BY Unseen DEF Quiet
<1>4. QED
  BY <1>1, <1>2, <1>3 DEF Lifecycle!Settle, Stages, Approvals, Attempted, Acted, Verdicts

LEMMA StartsVerifying ==
  ASSUME NEW i \in IncidentID, attempts[TheAction(i)].status \in TerminalAttempt,
         incidents[i].state \in OpenState, incidents'[i].state = "VERIFYING",
         \A j \in IncidentID \ {i} : incidents'[j] = incidents[j],
         Verdicts' = Verdicts,
         UNCHANGED <<approvals, attempts, executions>>
  PROVE  Lifecycle!StartVerifying(i)
<1>1. StageOf(i) = "open" /\ StageOf(i)' = "verifying"
  BY DEF StageOf, IncidentExists, OpenState
<1>2. Stages' = [Stages EXCEPT ![i] = "verifying"]
  BY <1>1, StageChanges
<1>3. AttemptStageOf(i) = "over"
  BY DEF AttemptStageOf, AttemptExists, TerminalAttempt, CompletedStatus
<1>4. UNCHANGED <<Approvals, Attempted, Acted>>
  BY Unseen
<1>5. QED
  BY <1>1, <1>2, <1>3, <1>4
  DEF Lifecycle!StartVerifying, Stages, Approvals, Attempted, Acted, Verdicts

LEMMA Judges ==
  ASSUME NEW i \in IncidentID, incidents[i].state = "VERIFYING",
         verifications[TheAction(i)].status = "PENDING",
         verifications'[TheAction(i)].status \in VerificationResult,
         \A k \in ActionKey \ {TheAction(i)} : verifications'[k] = verifications[k],
         UNCHANGED <<incidents, approvals, attempts, executions>>
  PROVE  Lifecycle!Judge(i)
<1>1. StageOf(i) = "verifying" /\ VerdictOf(i) = "none"
  BY DEF StageOf, IncidentExists, VerdictOf, VerificationResult
<1>2. PICK verdict \in {"recovered", "other"} : VerdictOf(i)' = verdict
  BY DEF VerdictOf, TheAction, VerificationResult
<1>3. Verdicts' = [Verdicts EXCEPT ![i] = verdict]
  BY <1>2, ActionChanges
<1>4. UNCHANGED <<Stages, Approvals, Attempted, Acted>>
  BY Unseen DEF Quiet
<1>5. QED
  BY <1>1, <1>3, <1>4 DEF Lifecycle!Judge, Stages, Approvals, Attempted, Acted, Verdicts

LEMMA Closes ==
  ASSUME NEW i \in IncidentID, verifications[TheAction(i)].status = "RECOVERED",
         incidents[i].state = "VERIFYING", incidents'[i].state = "RESOLVED",
         \A j \in IncidentID \ {i} : incidents'[j] = incidents[j],
         UNCHANGED <<approvals, attempts, verifications, executions>>
  PROVE  Lifecycle!Close(i)
<1>1. StageOf(i) = "verifying" /\ StageOf(i)' = "closed" /\ VerdictOf(i) = "recovered"
  BY DEF StageOf, IncidentExists, VerdictOf
<1>2. Stages' = [Stages EXCEPT ![i] = "closed"]
  BY <1>1, StageChanges
<1>3. UNCHANGED <<Approvals, Attempted, Acted, Verdicts>>
  BY Unseen
<1>4. QED
  BY <1>1, <1>2, <1>3 DEF Lifecycle!Close, Stages, Approvals, Attempted, Acted, Verdicts

-----------------------------------------------------------------------------
(* Each step of the agent is a step of the lifecycle or does not show.      *)

Promised == [Lifecycle!Next]_(Lifecycle!vars)

LEMMA WorkKept ==
  ASSUME VerifyingHasWork,
         \A k \in ActionKey : VerificationExists(k) => verifications'[k].status # "NONE",
         \A i \in IncidentID :
           \/ Quiet(i)
           \/ incidents'[i].state \in OpenState
           \/ incidents'[i].state = "VERIFYING" /\ verifications'[TheAction(i)].status # "NONE"
           \/ incidents'[i].state = "RESOLVED" /\ incidents'[i].resolvedBy # NoPlan
  PROVE  VerifyingHasWork'
<1> SUFFICES ASSUME NEW i \in IncidentID
             PROVE  /\ incidents'[i].state = "VERIFYING" =>
                         \E k \in ActionKey : k.incident = i /\ verifications'[k].status # "NONE"
                    /\ incidents'[i].state = "RESOLVED" => incidents'[i].resolvedBy # NoPlan
  BY DEF VerifyingHasWork, VerificationExists
<1>1. CASE Quiet(i)
  BY <1>1 DEF Quiet, OpenState, VerifyingHasWork
<1>2. CASE incidents'[i].state \in OpenState
  BY <1>2 DEF OpenState
<1>3. CASE incidents'[i].state = "VERIFYING" /\ verifications'[TheAction(i)].status # "NONE"
  BY <1>3, OneAction
<1>4. CASE incidents'[i].state = "RESOLVED" /\ incidents'[i].resolvedBy # NoPlan
  BY <1>4
<1>5. QED
  BY <1>1, <1>2, <1>3, <1>4

LEMMA QuietStep ==
  ASSUME VerifyingHasWork, \A i \in IncidentID : Quiet(i),
         UNCHANGED <<attempts, verifications, approvals, executions>>
  PROVE  Promised /\ VerifyingHasWork'
<1>1. VerifyingHasWork'
  BY WorkKept DEF VerificationExists
<1>2. UNCHANGED <<Stages, Approvals, Attempted, Acted, Verdicts>>
  BY Unseen
<1>3. QED
  BY <1>1, <1>2 DEF Promised, Lifecycle!vars, Stages, Approvals, Attempted, Acted, Verdicts

(* Claims, and the transitions the agent makes, do not show.                *)
LEMMA ClaimIsQuiet ==
  ASSUME RegistryInv, NEW i \in IncidentID, IncidentExists(i),
         NEW holder, NEW at, NEW lease, GrantClaim(i, holder, at, lease)
  PROVE  (\A j \in IncidentID : Quiet(j)) /\ UNCHANGED <<attempts, verifications>>
<1>1. incidents[i] \in Incident
  BY ExistingIncident DEF RegistryInv
<1>2. /\ incidents'[i] = ClaimedIncident(incidents[i])
      /\ \A j \in IncidentID \ {i} : incidents'[j] = incidents[j]
  BY DEF GrantClaim, RegistryInv, RegistryTypeOK
<1>3. Quiet(i)
  BY <1>1, <1>2 DEF Quiet, ClaimedIncident, Incident
<1>4. QED
  BY <1>2, <1>3 DEF Quiet, GrantClaim

LEMMA TransitionIsQuiet ==
  ASSUME RegistryInv, NEW i \in IncidentID, NEW version,
         NEW to \in {"DIAGNOSED", "WAITING_APPROVAL"}, NEW binding,
         Transition(i, version, to, binding)
  PROVE  (\A j \in IncidentID : Quiet(j)) /\ UNCHANGED <<attempts, verifications>>
<1>1. incidents[i] \in Incident /\ incidents[i].state \in OpenState
  BY ExistingIncident
  DEF Transition, TransitionAccepted, ValidTransition, OpenState, RegistryInv
<1>2. /\ incidents'[i] = [incidents[i] EXCEPT !.state = to, !.version = @ + 1,
            !.binding = IF to = "WAITING_APPROVAL" THEN binding ELSE @]
      /\ \A j \in IncidentID \ {i} : incidents'[j] = incidents[j]
  BY DEF Transition, RegistryInv, RegistryTypeOK
<1>3. incidents'[i].state \in OpenState
  BY <1>1, <1>2 DEF Incident, OpenState
<1>4. QED
  BY <1>1, <1>2, <1>3 DEF Quiet, Transition

LEMMA QuietCycleSteps ==
  ASSUME LifecycleInv, NEW r \in Holder,
         \/ Collect(r) \/ ClaimIncident(r) \/ Snapshot(r) \/ Decide(r) \/ CheckApproval(r)
         \/ Deny(r) \/ PublishPlan(r) \/ AwaitApproval(r) \/ Resume(r) \/ RecordAttempt(r)
         \/ ClaimAction(r) \/ CycleAborts(r)
  PROVE  Promised /\ VerifyingHasWork'
<1>0. RegistryInv /\ VerifyingHasWork
  BY DEF LifecycleInv, AgentInv
<1> SUFFICES /\ \A i \in IncidentID : Quiet(i)
             /\ UNCHANGED <<attempts, verifications, approvals, executions>>
  BY <1>0, QuietStep
<1>1. CASE \/ Collect(r) \/ Snapshot(r) \/ CheckApproval(r) \/ Deny(r) \/ PublishPlan(r)
           \/ Resume(r) \/ RecordAttempt(r) \/ CycleAborts(r)
  <2>1. UNCHANGED <<registryVars, clusterVars, executions>>
    BY <1>1 DEF Collect, Snapshot, CheckApproval, Deny, PublishPlan, Resume, RecordAttempt,
                CycleAborts
  <2>2. QED
    BY <2>1 DEF registryVars, clusterVars, Quiet
<1>2. CASE ClaimIncident(r) \/ ClaimAction(r)
  <2>1. cycle[r].id \in IncidentID /\ UNCHANGED <<clusterVars, executions>>
    BY <1>2, Before DEF ClaimIncident, ClaimAction, At, LifecycleInv
  <2>2. \/ Claim(cycle[r].id, cycle[r].version, r, now, LeaseDuration)
        \/ UNCHANGED registryVars
    BY <1>2 DEF ClaimIncident, ClaimAction
  <2>3. CASE UNCHANGED registryVars
    BY <2>1, <2>3 DEF registryVars, clusterVars, Quiet
  <2>4. CASE Claim(cycle[r].id, cycle[r].version, r, now, LeaseDuration)
    <3>1. /\ IncidentExists(cycle[r].id)
          /\ GrantClaim(cycle[r].id, r, now, LeaseDuration)
      BY <2>4 DEF Claim, ClaimAccepted
    <3>2. QED
      BY <1>0, <2>1, <3>1, ClaimIsQuiet DEF clusterVars
  <2>5. QED
    BY <2>2, <2>3, <2>4
<1>3. CASE Decide(r) \/ AwaitApproval(r)
  <2>1. cycle[r].id \in IncidentID /\ UNCHANGED <<clusterVars, executions>>
    BY <1>3, Before DEF Decide, AwaitApproval, At, LifecycleInv
  <2>2. \/ \E to \in {"DIAGNOSED", "WAITING_APPROVAL"}, binding \in Plan \cup {NoPlan} :
             Transition(cycle[r].id, cycle[r].version, to, binding)
        \/ UNCHANGED registryVars
    BY <1>3, ThePlan DEF Decide, AwaitApproval
  <2>3. QED
    BY <1>0, <2>1, <2>2, TransitionIsQuiet DEF registryVars, clusterVars, Quiet
<1>4. QED
  BY <1>1, <1>2, <1>3

LEMMA QuietWorkerSteps ==
  ASSUME LifecycleInv, NEW r \in Holder,
         ClaimResolution(r) \/ ClaimPending(r) \/ WorkerAborts(r)
  PROVE  Promised /\ VerifyingHasWork'
<1>0. RegistryInv /\ VerifyingHasWork
  BY DEF LifecycleInv, AgentInv
<1>1. UNCHANGED <<approvals, executions>>
  BY DEF ClaimResolution, ClaimPending, WorkerAborts, UNCHANGEDByWorker, clusterVars
<1>2. \/ \E k \in ActionKey : /\ incidents[k.incident].state = "VERIFYING"
                              /\ GrantClaim(k.incident, r, now, LeaseDuration)
      \/ UNCHANGED registryVars
  BY DEF ClaimResolution, ClaimPending, WorkerAborts, ClaimRecoveredVerificationResolution,
         RecoveredWork, ClaimPendingVerification, PendingWork
<1>3. CASE UNCHANGED registryVars
  BY <1>0, <1>1, <1>3, QuietStep DEF registryVars, Quiet
<1>4. ASSUME NEW k \in ActionKey, incidents[k.incident].state = "VERIFYING",
             GrantClaim(k.incident, r, now, LeaseDuration)
      PROVE  Promised /\ VerifyingHasWork'
  <2>1. k.incident \in IncidentID /\ IncidentExists(k.incident)
    BY <1>4, ActionKeyOf DEF IncidentExists
  <2>2. QED
    BY <1>0, <1>1, <1>4, <2>1, ClaimIsQuiet, QuietStep
<1>5. QED
  BY <1>2, <1>3, <1>4

LEMMA TickIsQuiet ==
  ASSUME LifecycleInv, Tick
  PROVE  Promised /\ VerifyingHasWork'
  BY QuietStep DEF LifecycleInv, Tick, registryVars, Quiet

LEMMA ObserveShows ==
  ASSUME LifecycleInv, NEW r \in Holder, ObserveIncident(r)
  PROVE  Promised /\ VerifyingHasWork'
<1> DEFINE key == cycle[r].key
<1>1. /\ Observe(key) /\ key \in Key /\ UNCHANGED <<approvals, executions>>
      /\ UNCHANGED <<attempts, verifications>>
  BY Before DEF ObserveIncident, At, CycleOK, clusterVars, LifecycleInv, Observe
<1>2. CASE activeByKey[key] # 0
  BY <1>1, <1>2, QuietStep DEF Observe, Quiet, LifecycleInv
<1>3. CASE activeByKey[key] = 0
  <2>0. nextSequence \in Nat
    BY DEF LifecycleInv, AgentInv, RegistryInv, RegistryTypeOK
  <2>1. /\ nextSequence \in Nat /\ nextSequence + 1 \in IncidentID
        /\ incidents' = [incidents EXCEPT ![nextSequence + 1] = NewIncident(key)]
    BY <1>1, <1>3, <2>0, MaxIncidentsAssumption DEF Observe, IncidentID
  <2>2. PICK i \in IncidentID : i = nextSequence + 1
    BY <2>1
  <2>3. /\ incidents'[i].state = "DETECTED"
        /\ \A j \in IncidentID \ {i} : incidents'[j] = incidents[j]
    BY <2>1, <2>2 DEF NewIncident, LifecycleInv, AgentInv, RegistryInv, RegistryTypeOK
  <2>4. incidents[i].state = "NONE"
    BY <2>1, <2>2 DEF LifecycleInv, AgentInv, RegistryInv, IDsInSequence, IncidentExists
  <2>5. Lifecycle!Open(i)
    BY <1>1, <2>3, <2>4, Opens
  <2>6. VerifyingHasWork'
    BY <1>1, <2>3, WorkKept DEF LifecycleInv, Quiet, OpenState, VerificationExists
  <2>7. QED
    BY <2>5, <2>6, Zenon DEF Promised, Lifecycle!Next
<1>4. QED
  BY <1>2, <1>3

(* Where neither incident nor verification changes, the work stays.         *)
LEMMA SameWork ==
  ASSUME LifecycleInv, UNCHANGED <<incidents, verifications>>
  PROVE  VerifyingHasWork'
  BY DEF LifecycleInv, VerifyingHasWork, VerificationExists

LEMMA GrantShows ==
  ASSUME LifecycleInv, NEW k \in ActionKey, Grant(k)
  PROVE  Promised /\ VerifyingHasWork'
<1>1. PICK i \in IncidentID : i = k.incident /\ k = TheAction(i)
  BY OneAction, ActionKeyOf
<1>2. /\ IncidentExists(i) /\ UNCHANGED <<incidents, attempts, verifications, executions>>
  BY <1>1 DEF Grant, registryVars
<1>3. PICK from \in {now - 1, now, now + 1} :
        approvals' = [approvals EXCEPT ![k] = [from |-> from, until |-> from + ApprovalWindow]]
  BY DEF Grant
<1>4. /\ approvals'[k] = [from |-> from, until |-> from + ApprovalWindow]
      /\ \A j \in ActionKey \ {k} : approvals'[j] = approvals[j]
  BY <1>3 DEF LifecycleInv, AgentInv, MemoryTypes
<1>5. from + ApprovalWindow # 0
  <2>1. now \in Nat \ {0}
    BY TimeAssumption DEF LifecycleInv, AgentInv, MemoryTypes, AgentTypeOK
  <2>2. QED
    BY <2>1, DurationAssumption
<1>6. approvals'[k] # NoApproval
  BY <1>4, <1>5 DEF NoApproval
<1>7. Lifecycle!Approve(i)
  BY <1>1, <1>2, <1>4, <1>6, Approves
<1>8. QED
  BY <1>2, <1>7, SameWork, Zenon DEF Promised, Lifecycle!Next

(* An incident whose action was not begun is still open.                    *)
LEMMA UnbegunIsOpen ==
  ASSUME LifecycleInv, NEW i \in IncidentID, IncidentExists(i), ~ AttemptExists(TheAction(i))
  PROVE  incidents[i].state \in OpenState
<1>1. incidents[i] \in Incident
  BY ExistingIncident DEF LifecycleInv, AgentInv, RegistryInv
<1>2. attempts[TheAction(i)].status \notin TerminalAttempt
  BY DEF AttemptExists, TerminalAttempt, CompletedStatus
<1>3. incidents[i].state # "VERIFYING"
  <2>1. ASSUME incidents[i].state = "VERIFYING" PROVE FALSE
    <3>1. VerificationExists(TheAction(i))
      BY <2>1, OneAction DEF LifecycleInv, VerifyingHasWork
    <3>2. QED
      BY <1>2, <3>1, OneAction
      DEF LifecycleInv, AgentInv, RegistryInv, VerificationFollowsAttempt
  <2>2. QED
    BY <2>1
<1>4. incidents[i].state # "RESOLVED"
  <2>1. ASSUME incidents[i].state = "RESOLVED" PROVE FALSE
    <3>1. incidents[i].resolvedBy \in Plan
      BY <1>1, <2>1 DEF LifecycleInv, VerifyingHasWork, Incident
    <3>2. [incident |-> i, plan |-> incidents[i].resolvedBy] = TheAction(i)
      BY <3>1, OneAction, ActionKeyOf
    <3>3. incidents[i].resolvedBy # NoPlan
      BY <3>1, NoPlanAssumption
    <3>4. QED
      BY <1>2, <3>2, <3>3 DEF LifecycleInv, AgentInv, RegistryInv, ResolutionIsEvidenced
  <2>2. QED
    BY <2>1
<1>5. QED
  BY <1>1, <1>3, <1>4 DEF Incident, State, OpenState

(* The action a cycle is working on. *)
LEMMA TheCycle ==
  ASSUME LifecycleInv, NEW r \in Holder, cycle[r].pc \notin {"idle", "observe"}
  PROVE  /\ cycle[r].id \in IncidentID /\ IncidentExists(cycle[r].id)
         /\ ActionOf(r) \in ActionKey /\ ActionOf(r) = TheAction(cycle[r].id)
         /\ attempts = [k \in ActionKey |-> attempts[k]]
  BY Before, OneAction
  DEF CycleOK, LifecycleInv, AgentInv, RegistryInv, RegistryTypeOK, AttemptTypeOK

LEMMA BeginShows ==
  ASSUME LifecycleInv, NEW r \in Holder, Begin(r)
  PROVE  Promised /\ VerifyingHasWork'
<1>1. /\ cycle[r].pc = "begin" /\ BeginAttempt(ActionOf(r), cycle[r].version, now)
      /\ UNCHANGED <<incidents, verifications, approvals, executions>>
  BY DEF Begin, At, clusterVars
<1>2. PICK i \in IncidentID : /\ i = cycle[r].id /\ IncidentExists(i)
                              /\ ActionOf(r) = TheAction(i) /\ TheAction(i) \in ActionKey
  BY <1>1, TheCycle
<1>3. CASE AttemptExists(ActionOf(r))
  BY <1>1, <1>3, QuietStep DEF BeginAttempt, Quiet, LifecycleInv
<1>4. CASE ~ AttemptExists(ActionOf(r))
  <2>1. attempts' = [attempts EXCEPT ![TheAction(i)] = NewAttempt(cycle[r].version, now)]
    BY <1>1, <1>2, <1>4 DEF BeginAttempt
  <2>2. /\ attempts'[TheAction(i)].status = "STARTED"
        /\ \A k \in ActionKey \ {TheAction(i)} : attempts'[k] = attempts[k]
    BY <1>1, <1>2, <2>1, TheCycle DEF NewAttempt
  <2>3. approvals[TheAction(i)] # NoApproval
    BY <1>1, <1>2, Before
    DEF LifecycleInv, CycleOK, Approved, ApprovalFound, ApprovalValid
  <2>4. incidents[i].state \in OpenState
    BY <1>2, <1>4, UnbegunIsOpen
  <2>5. Lifecycle!Authorise(i)
    BY <1>1, <1>2, <1>4, <2>2, <2>3, <2>4, Authorises DEF AttemptExists
  <2>6. QED
    BY <1>1, <2>5, SameWork, Zenon DEF Promised, Lifecycle!Next
<1>5. QED
  BY <1>3, <1>4

LEMMA RecoverShows ==
  ASSUME LifecycleInv, NEW r \in Holder, Recover(r)
  PROVE  Promised /\ VerifyingHasWork'
<1>1. /\ cycle[r].pc = "recover"
      /\ RecoverAttempt(ActionOf(r), cycle[r].version, now) \/ UNCHANGED attempts
      /\ UNCHANGED <<incidents, verifications, approvals, executions>>
  BY DEF Recover, At, clusterVars
<1>2. PICK i \in IncidentID : /\ i = cycle[r].id
                              /\ ActionOf(r) = TheAction(i) /\ TheAction(i) \in ActionKey
  BY <1>1, TheCycle
<1>3. CASE UNCHANGED attempts
  BY <1>1, <1>3, QuietStep DEF Quiet, LifecycleInv
<1>4. CASE RecoverAttempt(TheAction(i), cycle[r].version, now) /\ attempts' # attempts
  <2>1. /\ RecoversAttempt(attempts[TheAction(i)], cycle[r].version, now)
        /\ attempts' = [attempts EXCEPT ![TheAction(i)].status = "UNKNOWN",
             ![TheAction(i)].version = @ + 1, ![TheAction(i)].finishedAt = now,
             ![TheAction(i)].recoveredBy = cycle[r].version]
    BY <1>4 DEF RecoverAttempt, RecoveryAccepted
  <2>2. attempts[TheAction(i)].status = "STARTED"
    BY <2>1 DEF RecoversAttempt
  <2>3. attempts \in [ActionKey -> Attempt \cup {NoAttempt}]
    BY DEF LifecycleInv, AgentInv, RegistryInv, RegistryTypeOK, AttemptTypeOK
  <2>4. attempts[TheAction(i)] \in Attempt
    BY <1>2, <2>2, <2>3 DEF NoAttempt
  <2>5. attempts'[TheAction(i)].status = "UNKNOWN"
    BY <1>2, <2>1, <2>3, <2>4 DEF Attempt
  <2>6. \A k \in ActionKey \ {TheAction(i)} : attempts'[k] = attempts[k]
    BY <2>1, <2>3
  <2>7. Lifecycle!Settle(i)
    BY <1>1, <2>2, <2>5, <2>6, Settles DEF TerminalAttempt
  <2>8. QED
    BY <1>1, <2>7, SameWork, Zenon DEF Promised, Lifecycle!Next
<1>5. QED
  BY <1>1, <1>2, <1>3, <1>4

LEMMA CompleteShows ==
  ASSUME LifecycleInv, NEW r \in Holder, Complete(r)
  PROVE  Promised /\ VerifyingHasWork'
<1>1. /\ cycle[r].pc = "complete"
      /\ \/ CompleteAttempt(ActionOf(r), cycle[r].version, 1, cycle[r].state, now)
         \/ UNCHANGED attempts
      /\ UNCHANGED <<incidents, verifications, approvals, executions>>
  BY DEF Complete, At, clusterVars
<1>2. PICK i \in IncidentID : /\ i = cycle[r].id
                              /\ ActionOf(r) = TheAction(i) /\ TheAction(i) \in ActionKey
  BY <1>1, TheCycle
<1>3. CASE UNCHANGED attempts
  BY <1>1, <1>3, QuietStep DEF Quiet, LifecycleInv
<1>4. CASE /\ CompleteAttempt(TheAction(i), cycle[r].version, 1, cycle[r].state, now)
           /\ attempts' # attempts
  <2>1. /\ CompletesAttempt(attempts[TheAction(i)], cycle[r].version, 1, now)
        /\ attempts' = [attempts EXCEPT ![TheAction(i)].status = cycle[r].state,
             ![TheAction(i)].version = @ + 1, ![TheAction(i)].finishedAt = now,
             ![TheAction(i)].recoveredBy = 0]
    BY <1>4 DEF CompleteAttempt, CompletionAccepted
  <2>2. attempts[TheAction(i)].status = "STARTED"
    BY <2>1 DEF CompletesAttempt
  <2>3. attempts \in [ActionKey -> Attempt \cup {NoAttempt}]
    BY DEF LifecycleInv, AgentInv, RegistryInv, RegistryTypeOK, AttemptTypeOK
  <2>4. attempts[TheAction(i)] \in Attempt
    BY <1>2, <2>2, <2>3 DEF NoAttempt
  <2>5. attempts'[TheAction(i)].status = cycle[r].state
    BY <1>2, <2>1, <2>3, <2>4 DEF Attempt
  <2>6. \A k \in ActionKey \ {TheAction(i)} : attempts'[k] = attempts[k]
    BY <2>1, <2>3
  <2>7. cycle[r].state \in CompletedStatus
    BY <1>1, Before DEF LifecycleInv, CycleOK
  <2>8. Lifecycle!Settle(i)
    BY <1>1, <2>2, <2>5, <2>6, <2>7, Settles DEF TerminalAttempt
  <2>9. QED
    BY <1>1, <2>8, SameWork, Zenon DEF Promised, Lifecycle!Next
<1>5. QED
  BY <1>1, <1>2, <1>3, <1>4

LEMMA DeleteShows ==
  ASSUME LifecycleInv, NEW r \in Holder, Delete(r)
  PROVE  Promised /\ VerifyingHasWork'
<1>1. /\ cycle[r].pc = "delete"
      /\ UNCHANGED <<incidents, attempts, verifications, approvals>>
  BY DEF Delete, At, registryVars
<1>2. PICK i \in IncidentID : /\ i = cycle[r].id
                              /\ ActionOf(r) = TheAction(i) /\ TheAction(i) \in ActionKey
  BY <1>1, TheCycle
<1>3. AttemptExists(TheAction(i)) /\ executions[TheAction(i)] = <<>>
  BY <1>1, <1>2, Before DEF LifecycleInv, CycleOK
<1>4. PICK e \in [by: Holder, token: Version, checkedAt: Time, at: Time] :
        executions' = [executions EXCEPT ![TheAction(i)] = Append(@, e)]
  <2>1. [by |-> r, token |-> cycle[r].version, checkedAt |-> cycle[r].checkedAt, at |-> now]
          \in [by: Holder, token: Version, checkedAt: Time, at: Time]
    BY <1>1, Before DEF LifecycleInv, CycleOK
  <2>2. QED
    BY <1>2, <2>1 DEF Delete
<1>5. /\ executions'[TheAction(i)] # <<>>
      /\ \A k \in ActionKey \ {TheAction(i)} : executions'[k] = executions[k]
  <2>1. executions \in [ActionKey -> Seq([by: Holder, token: Version, checkedAt: Time, at: Time])]
    BY DEF LifecycleInv, AgentInv, MemoryTypes
  <2>2. executions'[TheAction(i)] = Append(<<>>, e)
    BY <1>2, <1>3, <1>4, <2>1
  <2>3. Append(<<>>, e) # <<>>
    OBVIOUS
  <2>4. QED
    BY <1>4, <2>1, <2>2, <2>3
<1>6. Lifecycle!Act(i)
  BY <1>1, <1>3, <1>5, Acts
<1>7. QED
  BY <1>1, <1>6, SameWork, Zenon DEF Promised, Lifecycle!Next

(* The cycle that comes to an incident under verification finds the         *)
(* verification there; the one that brings it there starts it.              *)
LEMMA VerifyShows ==
  ASSUME LifecycleInv, NEW r \in Holder, Verify(r)
  PROVE  Promised /\ VerifyingHasWork'
<1> DEFINE subject == OwnerOf[cycle[r].key]
<1>1. cycle[r].pc = "verify" /\ UNCHANGED <<approvals, executions>>
  BY DEF Verify, At, clusterVars
<1>2. PICK i \in IncidentID : /\ i = cycle[r].id /\ TheAction(i).incident = i
                              /\ ActionOf(r) = TheAction(i) /\ TheAction(i) \in ActionKey
  BY <1>1, TheCycle, OneAction
<1>3. CASE UNCHANGED registryVars
  BY <1>1, <1>3, QuietStep DEF registryVars, Quiet, LifecycleInv
<1>4. CASE BeginFencedVerification(TheAction(i), cycle[r].version, r, now, cycle[r].attempt, subject)
  <2>1. /\ incidents[i].state \in {"DIAGNOSED", "WAITING_APPROVAL", "VERIFYING"}
        /\ BegunVerification(TheAction(i), subject, now).status = "PENDING"
        /\ verifications' = [verifications EXCEPT ![TheAction(i)]
                               = BegunVerification(TheAction(i), subject, now)]
        /\ UNCHANGED attempts
    BY <1>2, <1>4 DEF BeginFencedVerification, FencedBeginAccepted, BeginVerification
  <2>2. /\ verifications'[TheAction(i)] = BegunVerification(TheAction(i), subject, now)
        /\ \A k \in ActionKey \ {TheAction(i)} : verifications'[k] = verifications[k]
        /\ verifications' \in [ActionKey -> {verifications'[k] : k \in ActionKey}]
    BY <1>2, <2>1 DEF LifecycleInv, AgentInv, RegistryInv, RegistryTypeOK, VerificationTypeOK
  <2>3. CASE incidents[i].state = "VERIFYING"
    <3>1. UNCHANGED incidents
      BY <1>2, <1>4, <2>3 DEF BeginFencedVerification
    <3>2. VerificationExists(TheAction(i))
      BY <2>3, OneAction DEF LifecycleInv, VerifyingHasWork
    <3>3. verifications' = verifications
      BY <1>2, <2>1, <3>2
      DEF BegunVerification, LifecycleInv, AgentInv, RegistryInv, RegistryTypeOK,
          VerificationTypeOK
    <3>4. QED
      BY <1>1, <2>1, <3>1, <3>3, QuietStep DEF Quiet, LifecycleInv
  <2>4. CASE incidents[i].state # "VERIFYING"
    <3>1. incidents[i].state \in OpenState
      BY <2>1, <2>4 DEF OpenState
    <3>2. incidents[i] \in Incident
      BY <3>1, ExistingIncident
      DEF OpenState, IncidentExists, LifecycleInv, AgentInv, RegistryInv
    <3>3. incidents' = [incidents EXCEPT ![i].state = "VERIFYING", ![i].version = @ + 1]
      BY <1>2, <1>4, <2>4 DEF BeginFencedVerification
    <3>4. /\ incidents'[i].state = "VERIFYING"
          /\ \A j \in IncidentID \ {i} : incidents'[j] = incidents[j]
      BY <3>2, <3>3 DEF Incident, LifecycleInv, AgentInv, RegistryInv, RegistryTypeOK
    <3>5. ~ VerificationExists(TheAction(i))
      BY <1>2, <2>1, <2>4
      DEF LifecycleInv, AgentInv, RegistryInv, VerificationFollowsAttempt
    <3>6. VerdictOf(i) = "none" /\ VerdictOf(i)' = "none"
      BY <2>1, <2>2, <3>5 DEF VerdictOf, VerificationExists, VerificationResult, TheAction
    <3>7. Verdicts' = Verdicts
      <4>1. Verdicts' = [Verdicts EXCEPT ![i] = "none"]
        BY <2>2, <3>6, ActionChanges
      <4>2. QED
        BY <3>6, <4>1 DEF Verdicts
    <3>8. attempts[TheAction(i)].status \in TerminalAttempt
      BY <1>1, <1>2, Before DEF LifecycleInv, CycleOK
    <3>9. Lifecycle!StartVerifying(i)
      BY <1>1, <2>1, <3>1, <3>4, <3>7, <3>8, StartsVerifying
    <3>10. VerifyingHasWork'
      <4>1. \A k \in ActionKey : VerificationExists(k) => verifications'[k].status # "NONE"
        BY <2>1, <2>2 DEF VerificationExists
      <4>2. verifications'[TheAction(i)].status # "NONE"
        BY <2>1, <2>2
      <4>3. QED
        BY <3>4, <4>1, <4>2, WorkKept DEF LifecycleInv, Quiet
    <3>11. QED
      BY <3>9, <3>10, Zenon DEF Promised, Lifecycle!Next
  <2>5. QED
    BY <2>3, <2>4
<1>5. QED
  BY <1>2, <1>3, <1>4 DEF Verify

LEMMA CompleteWorkShows ==
  ASSUME LifecycleInv, NEW r \in Holder, CompleteWork(r)
  PROVE  Promised /\ VerifyingHasWork'
<1> DEFINE w == worker[r]
<1>1. w.pc = "execute" /\ UNCHANGED <<approvals, executions>>
  BY DEF CompleteWork, WorkerAt, UNCHANGEDByWorker, clusterVars
<1>2. PICK k \in ActionKey : k = w.k
  BY <1>1 DEF LifecycleInv, AgentInv, WorkerOK
<1>3. PICK i \in IncidentID : i = k.incident /\ k = TheAction(i)
  BY OneAction, ActionKeyOf
<1>4. PICK result \in {"RECOVERED", "NOT_RECOVERED"} :
        \/ CompleteFencedVerification(k, w.version, r, now, w.vversion, result)
        \/ UNCHANGED registryVars
  BY <1>2 DEF CompleteWork
<1>5. CASE UNCHANGED <<incidents, attempts, verifications>>
  BY <1>1, <1>5, QuietStep DEF Quiet, LifecycleInv
<1>6. CASE /\ CompleteFencedVerification(k, w.version, r, now, w.vversion, result)
           /\ verifications' # verifications
  <2>1. /\ incidents[i].state = "VERIFYING" /\ UNCHANGED <<incidents, attempts>>
        /\ CompleteVerification(k, w.vversion, result, now)
    BY <1>3, <1>6 DEF CompleteFencedVerification, FencedCompletionAccepted
  <2>2. /\ VerificationExists(k) /\ verifications[k].status = "PENDING"
        /\ verifications' = [verifications EXCEPT ![k].status = result, ![k].version = @ + 1,
                                                  ![k].finishedAt = now]
    BY <1>6, <2>1
    DEF CompleteVerification, VerificationCompletionAccepted, CompletesVerification
  <2>3. verifications[k] \in Verification
    BY <2>2, ExistingVerification DEF LifecycleInv, AgentInv, RegistryInv
  <2>4. /\ verifications'[k].status = result
        /\ \A j \in ActionKey \ {k} : verifications'[j] = verifications[j]
    BY <2>2, <2>3
    DEF Verification, LifecycleInv, AgentInv, RegistryInv, RegistryTypeOK, VerificationTypeOK
  <2>5. Lifecycle!Judge(i)
    BY <1>1, <1>3, <2>1, <2>2, <2>4, Judges DEF VerificationResult
  <2>6. VerifyingHasWork'
    BY <2>1, <2>4, WorkKept DEF LifecycleInv, Quiet, VerificationExists
  <2>7. QED
    BY <2>5, <2>6, Zenon DEF Promised, Lifecycle!Next
<1>7. QED
  BY <1>4, <1>5, <1>6 DEF registryVars, CompleteFencedVerification

LEMMA ResolveShows ==
  ASSUME LifecycleInv, NEW r \in Holder, ResolveIncident(r)
  PROVE  Promised /\ VerifyingHasWork'
<1> DEFINE w == worker[r]
<1>1. /\ w.pc \in {"resolveClaimed", "resolveCompleted"}
      /\ UNCHANGED <<approvals, executions>>
  BY DEF ResolveIncident, WorkerAt, UNCHANGEDByWorker, clusterVars
<1>2. PICK k \in ActionKey : k = w.k
  BY <1>1 DEF LifecycleInv, AgentInv, WorkerOK
<1>3. PICK i \in IncidentID : i = k.incident /\ k = TheAction(i)
  BY OneAction, ActionKeyOf
<1>4. CASE UNCHANGED registryVars
  BY <1>1, <1>4, QuietStep DEF registryVars, Quiet, LifecycleInv
<1>5. CASE Resolve(i, w.version, k, r, now)
  <2>1. /\ incidents[i].state = "VERIFYING" /\ verifications[k].status = "RECOVERED"
        /\ UNCHANGED <<attempts, verifications>>
        /\ incidents' = [incidents EXCEPT ![i].state = "RESOLVED", ![i].version = @ + 1,
                                          ![i].resolvedBy = k.plan, ![i].binding = NoPlan]
    BY <1>5 DEF Resolve, ResolveAccepted, RequireRecovered
  <2>2. incidents[i] \in Incident
    BY <2>1, ExistingIncident DEF IncidentExists, LifecycleInv, AgentInv, RegistryInv
  <2>3. /\ incidents'[i].state = "RESOLVED" /\ incidents'[i].resolvedBy = k.plan
        /\ \A j \in IncidentID \ {i} : incidents'[j] = incidents[j]
    BY <2>1, <2>2 DEF Incident, LifecycleInv, AgentInv, RegistryInv, RegistryTypeOK
  <2>4. k.plan # NoPlan
    BY ActionKeyOf, NoPlanAssumption
  <2>5. Lifecycle!Close(i)
    BY <1>1, <1>3, <2>1, <2>3, Closes
  <2>6. VerifyingHasWork'
    BY <2>1, <2>3, <2>4, WorkKept DEF LifecycleInv, Quiet, VerificationExists
  <2>7. QED
    BY <2>5, <2>6, Zenon DEF Promised, Lifecycle!Next
<1>6. QED
  BY <1>2, <1>3, <1>4, <1>5 DEF ResolveIncident

-----------------------------------------------------------------------------
LEMMA LifecycleStep ==
  ASSUME LifecycleInv, [AgentNext]_agentVars
  PROVE  Promised /\ LifecycleInv'
<1>1. AgentInv'
  BY AgentStep DEF LifecycleInv
<1> SUFFICES Promised /\ VerifyingHasWork'
  BY <1>1 DEF LifecycleInv
<1>2. ASSUME NEW r \in Holder, CycleStep(r) PROVE Promised /\ VerifyingHasWork'
  BY <1>2, QuietCycleSteps, ObserveShows, BeginShows, RecoverShows, DeleteShows,
     CompleteShows, VerifyShows, Zenon
  DEF CycleStep
<1>3. ASSUME NEW r \in Holder, WorkerStep(r) PROVE Promised /\ VerifyingHasWork'
  BY <1>3, QuietWorkerSteps, ResolveShows, CompleteWorkShows, Zenon DEF WorkerStep
<1>4. ASSUME NEW r \in Holder, CycleAborts(r) \/ WorkerAborts(r)
      PROVE  Promised /\ VerifyingHasWork'
  BY <1>4, QuietCycleSteps, QuietWorkerSteps, Zenon
<1>5. ASSUME NEW k \in ActionKey, Grant(k) PROVE Promised /\ VerifyingHasWork'
  BY <1>5, GrantShows
<1>6. CASE Tick
  BY <1>6, TickIsQuiet
<1>7. CASE UNCHANGED agentVars
  BY <1>7, QuietStep DEF agentVars, registryVars, clusterVars, Quiet, LifecycleInv
<1>8. QED
  BY <1>2, <1>3, <1>4, <1>5, <1>6, <1>7, Zenon DEF AgentNext, FaultlessNext

LEMMA LifecycleInit ==
  ASSUME AgentInit
  PROVE  LifecycleInv /\ Lifecycle!Init
<1>1. AgentInv
  BY AgentInvInit
<1>2. VerifyingHasWork
  BY DEF AgentInit, RegistryInit, NoIncident, VerifyingHasWork
<1>3. ASSUME NEW i \in IncidentID
      PROVE  /\ StageOf(i) = "absent" /\ approvals[TheAction(i)] = NoApproval
             /\ AttemptStageOf(i) = "none" /\ executions[TheAction(i)] = <<>>
             /\ VerdictOf(i) = "none"
  BY OneAction
  DEF AgentInit, RegistryInit, AttemptInit, VerificationInit, NoIncident, NoAttempt,
      NoVerification, StageOf, IncidentExists, AttemptStageOf, AttemptExists, VerdictOf,
      VerificationResult
<1>4. QED
  BY <1>1, <1>2, <1>3 DEF LifecycleInv, Lifecycle!Init

(* An incident under verification has a verification and one that was       *)
(* resolved has evidence, however many replicas bring it there: the agent   *)
(* never takes the registry's other ways into VERIFYING and RESOLVED.       *)
THEOREM WorkIsThere == AgentSpec => []VerifyingHasWork
<1>1. LifecycleInv => VerifyingHasWork
  BY DEF LifecycleInv
<1>2. AgentInit => LifecycleInv
  BY LifecycleInit
<1>3. LifecycleInv /\ [AgentNext]_agentVars => LifecycleInv'
  BY LifecycleStep
<1>4. QED
  BY <1>1, <1>2, <1>3, PTL DEF AgentSpec

(* The agent keeps the promises of IncidentLifecycle: one action at most    *)
(* per incident, after an approval and under an attempt begun before, and   *)
(* an end only by observed recovery.                                        *)
THEOREM LifecycleIsImplemented == AgentSpec => AgentImplementsLifecycle
<1>1. AgentInit => LifecycleInv /\ Lifecycle!Init
  BY LifecycleInit
<1>2. LifecycleInv /\ [AgentNext]_agentVars
        => LifecycleInv' /\ [Lifecycle!Next]_(Lifecycle!vars)
  BY LifecycleStep DEF Promised
<1>3. QED
  BY <1>1, <1>2, PTL DEF AgentSpec, AgentImplementsLifecycle, Lifecycle!LifecycleSpec

(* What the lifecycle implies, read of the agent.                           *)
LifecycleOrder ==
  /\ Stages \in [IncidentID -> {"absent", "open", "verifying", "closed"}]
  /\ Approvals \in [IncidentID -> BOOLEAN]
  /\ Attempted \in [IncidentID -> {"none", "running", "over"}]
  /\ Acted \in [IncidentID -> BOOLEAN]
  /\ Verdicts \in [IncidentID -> {"none", "recovered", "other"}]
  /\ \A i \in IncidentID :
       /\ Attempted[i] # "none" => Approvals[i]
       /\ Stages[i] \in {"verifying", "closed"} => Attempted[i] = "over"
       /\ Stages[i] = "closed" => Verdicts[i] = "recovered"
       /\ Acted[i] => Attempted[i] # "none"

LEMMA OrderInit == Lifecycle!Init => LifecycleOrder
  BY DEF Lifecycle!Init, LifecycleOrder, Stages, Approvals, Attempted, Acted, Verdicts

LEMMA OrderStep ==
  ASSUME LifecycleOrder, [Lifecycle!Next]_(Lifecycle!vars)
  PROVE  LifecycleOrder'
<1>1. CASE UNCHANGED Lifecycle!vars
  <2>1. UNCHANGED <<Stages, Approvals, Attempted, Acted, Verdicts>>
    BY <1>1 DEF Lifecycle!vars, Stages, Approvals, Attempted, Acted, Verdicts
  <2>2. QED
    BY <2>1 DEF LifecycleOrder
<1>2. ASSUME NEW i \in IncidentID, Lifecycle!Open(i) PROVE LifecycleOrder'
  <2>1. /\ Stages[i] = "absent" /\ Stages' = [Stages EXCEPT ![i] = "open"]
        /\ UNCHANGED <<Approvals, Attempted, Acted, Verdicts>>
    BY <1>2 DEF Lifecycle!Open, Stages, Approvals, Attempted, Acted, Verdicts
  <2>2. QED
    BY <2>1 DEF LifecycleOrder
<1>3. ASSUME NEW i \in IncidentID, Lifecycle!Approve(i) PROVE LifecycleOrder'
  <2>1. /\ Approvals' = [Approvals EXCEPT ![i] = TRUE]
        /\ UNCHANGED <<Stages, Attempted, Acted, Verdicts>>
    BY <1>3 DEF Lifecycle!Approve, Stages, Approvals, Attempted, Acted, Verdicts
  <2>2. QED
    BY <2>1 DEF LifecycleOrder
<1>4. ASSUME NEW i \in IncidentID, Lifecycle!Authorise(i) PROVE LifecycleOrder'
  <2>1. /\ Stages[i] = "open" /\ Approvals[i]
        /\ Attempted' = [Attempted EXCEPT ![i] = "running"]
        /\ UNCHANGED <<Stages, Approvals, Acted, Verdicts>>
    BY <1>4 DEF Lifecycle!Authorise, Stages, Approvals, Attempted, Acted, Verdicts
  <2>2. QED
    BY <2>1 DEF LifecycleOrder
<1>5. ASSUME NEW i \in IncidentID, Lifecycle!Act(i) PROVE LifecycleOrder'
  <2>1. /\ Attempted[i] # "none" /\ Acted' = [Acted EXCEPT ![i] = TRUE]
        /\ UNCHANGED <<Stages, Approvals, Attempted, Verdicts>>
    BY <1>5 DEF Lifecycle!Act, Stages, Approvals, Attempted, Acted, Verdicts
  <2>2. QED
    BY <2>1 DEF LifecycleOrder
<1>6. ASSUME NEW i \in IncidentID, Lifecycle!Settle(i) PROVE LifecycleOrder'
  <2>1. /\ Attempted[i] = "running" /\ Attempted' = [Attempted EXCEPT ![i] = "over"]
        /\ UNCHANGED <<Stages, Approvals, Acted, Verdicts>>
    BY <1>6 DEF Lifecycle!Settle, Stages, Approvals, Attempted, Acted, Verdicts
  <2>2. QED
    BY <2>1 DEF LifecycleOrder
<1>7. ASSUME NEW i \in IncidentID, Lifecycle!StartVerifying(i) PROVE LifecycleOrder'
  <2>1. /\ Attempted[i] = "over" /\ Stages' = [Stages EXCEPT ![i] = "verifying"]
        /\ UNCHANGED <<Approvals, Attempted, Acted, Verdicts>>
    BY <1>7 DEF Lifecycle!StartVerifying, Stages, Approvals, Attempted, Acted, Verdicts
  <2>2. QED
    BY <2>1 DEF LifecycleOrder
<1>8. ASSUME NEW i \in IncidentID, Lifecycle!Judge(i) PROVE LifecycleOrder'
  <2>1. /\ Stages[i] = "verifying"
        /\ \E v \in {"recovered", "other"} : Verdicts' = [Verdicts EXCEPT ![i] = v]
        /\ UNCHANGED <<Stages, Approvals, Attempted, Acted>>
    BY <1>8 DEF Lifecycle!Judge, Stages, Approvals, Attempted, Acted, Verdicts
  <2>2. QED
    BY <2>1 DEF LifecycleOrder
<1>9. ASSUME NEW i \in IncidentID, Lifecycle!Close(i) PROVE LifecycleOrder'
  <2>1. /\ Stages[i] = "verifying" /\ Verdicts[i] = "recovered"
        /\ Stages' = [Stages EXCEPT ![i] = "closed"]
        /\ UNCHANGED <<Approvals, Attempted, Acted, Verdicts>>
    BY <1>9 DEF Lifecycle!Close, Stages, Approvals, Attempted, Acted, Verdicts
  <2>2. QED
    BY <2>1 DEF LifecycleOrder
<1>10. QED
  BY <1>1, <1>2, <1>3, <1>4, <1>5, <1>6, <1>7, <1>8, <1>9 DEF Lifecycle!Next

(* The agent closes an incident only after its action was approved, the     *)
(* attempt ended and recovery was observed; and it never acts without an    *)
(* approval.                                                                *)
THEOREM ClosingIsEarned ==
  AgentSpec => [](/\ Lifecycle!ClosedIsEarned
                  /\ \A i \in IncidentID : Acted[i] => Approvals[i])
<1>1. LifecycleOrder => /\ Lifecycle!ClosedIsEarned
                        /\ \A i \in IncidentID : Acted[i] => Approvals[i]
  BY DEF LifecycleOrder, Lifecycle!ClosedIsEarned, Stages, Approvals, Attempted, Verdicts
<1>2. LifecycleOrder /\ [Lifecycle!Next]_(Lifecycle!vars) => LifecycleOrder'
  BY OrderStep
<1>3. QED
  BY <1>1, <1>2, OrderInit, LifecycleIsImplemented, PTL
  DEF AgentImplementsLifecycle, Lifecycle!LifecycleSpec

-----------------------------------------------------------------------------
(* Who advances an incident.                                                *)

(* A cycle that claimed its incident is behind it, or has its latest claim: *)
(* nothing claims an incident without making it newer.                      *)
Latest(r) ==
  cycle[r].pc \notin {"idle", "observe", "claim"} =>
    /\ cycle[r].version <= incidents[cycle[r].id].version
    /\ cycle[r].version = incidents[cycle[r].id].version => claims[cycle[r].id].holder = r

LatestInv ==
  /\ AgentInv
  /\ \A r \in Holder : Latest(r)

LEMMA VersionsAdvance ==
  ASSUME RegistryInv, [RegistryNext]_registryVars, NEW i \in IncidentID, IncidentExists(i)
  PROVE  /\ incidents[i].version \in Nat /\ incidents'[i].version \in Nat
         /\ incidents'[i].version >= incidents[i].version
         /\ incidents'[i].version = incidents[i].version => claims'[i] = claims[i]
<1>1. incidents[i] \in Incident /\ incidents[i].version \in Nat
  BY ExistingIncident, VersionsAreNumbers DEF RegistryInv, Numbers
<1>2. CASE incidents'[i] = incidents[i] /\ claims'[i] = claims[i]
  BY <1>1, <1>2
<1>3. CASE incidents'[i].version = incidents[i].version + 1
  BY <1>1, <1>3
<1>4. CASE \E key \in Key : Observe(key)
  <2>1. \/ UNCHANGED <<incidents, claims>>
        \/ /\ UNCHANGED claims
           /\ \A j \in IncidentID : j # nextSequence + 1 => incidents'[j] = incidents[j]
    BY <1>4 DEF Observe, RegistryInv, RegistryTypeOK
  <2>2. i # nextSequence + 1
    <3>1. nextSequence \in Nat
      BY DEF RegistryInv, RegistryTypeOK
    <3>2. i \in Nat /\ i <= nextSequence
      BY DEF RegistryInv, IDsInSequence, IncidentID
    <3>3. QED
      BY <3>1, <3>2
  <2>3. QED
    BY <1>2, <2>1, <2>2
<1>5. CASE Transitioned
  <2>1. PICK j \in IncidentID, to \in State, binding \in Plan \cup {NoPlan} :
          Transition(j, incidents[j].version, to, binding)
    BY <1>5 DEF Transitioned
  <2>2. incidents' = [incidents EXCEPT ![j].state = to, ![j].version = @ + 1,
                        ![j].binding = IF to = "WAITING_APPROVAL" THEN binding ELSE @]
    BY <2>1 DEF Transition
  <2>3. i = j => incidents'[i].version = incidents[i].version + 1
    BY <1>1, <2>2 DEF Incident, RegistryInv, RegistryTypeOK
  <2>4. i # j => incidents'[i] = incidents[i]
    BY <2>2 DEF RegistryInv, RegistryTypeOK
  <2>5. QED
    BY <1>2, <1>3, <2>1, <2>3, <2>4 DEF Transition
<1>6. CASE ClaimGranted
  <2>1. PICK j \in IncidentID, holder \in Holder, at \in Time, lease \in Lease :
          GrantClaim(j, holder, at, lease)
    BY <1>6 DEF ClaimGranted
  <2>2. i = j => incidents'[i].version = incidents[i].version + 1
    BY <1>1, <2>1 DEF GrantClaim, ClaimedIncident, Incident, RegistryInv, RegistryTypeOK
  <2>3. i # j => incidents'[i] = incidents[i] /\ claims'[i] = claims[i]
    BY <2>1 DEF GrantClaim, RegistryInv, RegistryTypeOK
  <2>4. QED
    BY <1>2, <1>3, <2>2, <2>3
<1>7. CASE BegunFenced
  <2>1. PICK k \in ActionKey, holder \in Holder, at \in Time, subject \in Subject :
          BeginFencedVerification(k, incidents[k.incident].version, holder, at, attempts[k], subject)
    BY <1>7 DEF BegunFenced
  <2>2. /\ UNCHANGED claims
        /\ \/ UNCHANGED incidents
           \/ incidents' = [incidents EXCEPT ![k.incident].state = "VERIFYING",
                                             ![k.incident].version = @ + 1]
    BY <2>1 DEF BeginFencedVerification
  <2>3. incidents'[i] = incidents[i] \/ incidents'[i].version = incidents[i].version + 1
    BY <1>1, <2>2 DEF Incident, RegistryInv, RegistryTypeOK
  <2>4. QED
    BY <1>2, <1>3, <2>2, <2>3
<1>8. CASE Resolved
  <2>1. PICK k \in ActionKey, holder \in Holder, at \in Time :
          Resolve(k.incident, incidents[k.incident].version, k, holder, at)
    BY <1>8 DEF Resolved
  <2>2. /\ UNCHANGED claims
        /\ incidents' = [incidents EXCEPT ![k.incident].state = "RESOLVED",
             ![k.incident].version = @ + 1, ![k.incident].resolvedBy = k.plan,
             ![k.incident].binding = NoPlan]
    BY <2>1 DEF Resolve
  <2>3. incidents'[i] = incidents[i] \/ incidents'[i].version = incidents[i].version + 1
    BY <1>1, <2>2 DEF Incident, RegistryInv, RegistryTypeOK
  <2>4. QED
    BY <1>2, <1>3, <2>2, <2>3
<1>9. CASE UNCHANGED registryVars \/ CompletedFenced \/ \E k \in ActionKey, at \in Time : AttemptStep(k, at)
  BY <1>2, <1>9
  DEF registryVars, CompletedFenced, CompleteFencedVerification, AttemptStep
<1>10. QED
  BY <1>4, <1>5, <1>6, <1>7, <1>8, <1>9, RegistryStep

(* A cycle that goes on with the version it had, or does nothing, keeps its *)
(* claim as long as nobody makes the incident newer.                        *)
LEMMA LatestKept ==
  ASSUME LatestInv, Uses, NEW r \in Holder,
         \/ cycle'[r].pc \in {"idle", "observe", "claim"}
         \/ cycle'[r] = cycle[r]
         \/ /\ cycle[r].pc \notin {"idle", "observe", "claim"}
            /\ cycle'[r].id = cycle[r].id /\ cycle'[r].version = cycle[r].version
  PROVE  Latest(r)'
<1> DEFINE i == cycle[r].id
           version == cycle[r].version
<1>1. CASE cycle'[r].pc \in {"idle", "observe", "claim"}
  BY <1>1 DEF Latest
<1>2. CASE /\ cycle[r].pc \notin {"idle", "observe", "claim"}
           /\ cycle'[r].id = i /\ cycle'[r].version = version
  <2>1. i \in IncidentID /\ IncidentExists(i) /\ version \in Version
    BY <1>2, Before DEF LatestInv, CycleOK
  <2>2. version \in Nat
    BY <2>1, VersionAssumption
  <2>3. /\ incidents[i].version \in Nat /\ incidents'[i].version \in Nat
        /\ incidents'[i].version >= incidents[i].version
        /\ incidents'[i].version = incidents[i].version => claims'[i] = claims[i]
    BY <2>1, VersionsAdvance DEF LatestInv, AgentInv, Uses
  <2>4. /\ version <= incidents[i].version
        /\ version = incidents[i].version => claims[i].holder = r
    BY <1>2 DEF LatestInv, Latest
  <2>5. /\ version <= incidents'[i].version
        /\ version = incidents'[i].version => claims'[i].holder = r
    BY <2>2, <2>3, <2>4
  <2>6. QED
    BY <1>2, <2>5 DEF Latest
<1>3. QED
  BY <1>1, <1>2 DEF Latest

(* A claim is the latest. *)
LEMMA LatestClaimed ==
  ASSUME RegistryInv, NEW r \in Holder, NEW i \in IncidentID, NEW version,
         Claim(i, version, r, now, LeaseDuration),
         cycle'[r].id = i, cycle'[r].version = version + 1
  PROVE  Latest(r)'
<1>1. incidents[i] \in Incident /\ incidents[i].version \in Nat /\ incidents[i].version = version
  BY ExistingIncident, VersionsAreNumbers DEF Claim, ClaimAccepted, RegistryInv, Numbers
<1>2. incidents'[i].version = version + 1
  BY <1>1 DEF Claim, GrantClaim, ClaimedIncident, Incident, RegistryInv, RegistryTypeOK
<1>3. claims'[i].holder = r
  BY DEF Claim, GrantClaim, RegistryInv, RegistryTypeOK
<1>4. QED
  BY <1>1, <1>2, <1>3 DEF Latest

(* A state changes under the latest claim. *)
Advances(r) ==
  \A i \in IncidentID :
    IncidentExists(i) /\ incidents'[i].state # incidents[i].state => claims[i].holder = r

LEMMA ClaimKeepsStates ==
  ASSUME RegistryInv, NEW i \in IncidentID, IncidentExists(i),
         NEW holder, NEW at, NEW lease, GrantClaim(i, holder, at, lease), NEW j \in IncidentID
  PROVE  incidents'[j].state = incidents[j].state
<1>1. incidents[i] \in Incident
  BY ExistingIncident DEF RegistryInv
<1>2. QED
  BY <1>1 DEF GrantClaim, ClaimedIncident, Incident, RegistryInv, RegistryTypeOK

(* What a cycle notes of a call leaves the rest of its memory as it is.     *)
LEMMA Noted ==
  ASSUME NEW c \in CycleRecord, NEW pc
  PROVE  /\ [c EXCEPT !.pc = pc].id = c.id /\ [c EXCEPT !.pc = pc].version = c.version
         /\ \A at, budget : LET d == [c EXCEPT !.pc = pc, !.at = at, !.budget = budget] IN
              d.id = c.id /\ d.version = c.version
         /\ \A at : LET d == [c EXCEPT !.pc = pc, !.checkedAt = at] IN
              d.id = c.id /\ d.version = c.version
         /\ \A a : LET d == [c EXCEPT !.pc = pc, !.attempt = a] IN
              d.id = c.id /\ d.version = c.version
         /\ \A state : LET d == [c EXCEPT !.pc = pc, !.state = state] IN
              d.id = c.id /\ d.version = c.version
         /\ \A id, version : [c EXCEPT !.pc = pc, !.id = id, !.version = version].pc = pc
         /\ \A version : LET d == [c EXCEPT !.pc = pc, !.version = version] IN
              d.id = c.id /\ d.version = version
         /\ \A version, state, binding :
              LET d == [c EXCEPT !.pc = pc, !.version = version, !.state = state,
                                 !.binding = binding]
              IN  d.id = c.id /\ d.version = version
  BY DEF CycleRecord

(* The steps of a cycle that claim nothing and move nothing.                *)
LEMMA AdvanceAtRest ==
  ASSUME LatestInv, NEW r \in Holder,
         \/ Collect(r) \/ Snapshot(r) \/ CheckApproval(r) \/ Deny(r) \/ PublishPlan(r)
         \/ Resume(r) \/ RecordAttempt(r) \/ Begin(r) \/ Recover(r) \/ Delete(r) \/ Complete(r)
         \/ CycleAborts(r)
  PROVE  /\ UNCHANGED incidents /\ UNCHANGED worker
         /\ \/ cycle'[r].pc \in {"idle", "observe"}
            \/ /\ cycle[r].pc \notin {"idle", "observe", "claim"}
               /\ cycle'[r].id = cycle[r].id /\ cycle'[r].version = cycle[r].version
         /\ \A q \in Holder \ {r} : cycle'[q] = cycle[q]
<1>0. cycle \in [Holder -> CycleRecord] /\ cycle[r] \in CycleRecord
  BY DEF LatestInv, AgentInv, MemoryTypes
<1>1. UNCHANGED incidents /\ UNCHANGED worker
  BY DEF Collect, Snapshot, CheckApproval, Deny, PublishPlan, Resume, RecordAttempt, Begin,
         Recover, Delete, Complete, CycleAborts, registryVars
<1>2. \A c : cycle' = [cycle EXCEPT ![r] = c]
        => cycle'[r] = c /\ \A q \in Holder \ {r} : cycle'[q] = cycle[q]
  BY <1>0
<1>3. IdleCycle.pc = "idle"
  BY DEF IdleCycle
<1>4. \A c : c.id = cycle[r].id /\ c.version = cycle[r].version
             /\ cycle[r].pc \notin {"idle", "observe", "claim"}
             /\ cycle' = [cycle EXCEPT ![r] = c]
        => /\ cycle[r].pc \notin {"idle", "observe", "claim"}
           /\ cycle'[r].id = cycle[r].id /\ cycle'[r].version = cycle[r].version
           /\ \A q \in Holder \ {r} : cycle'[q] = cycle[q]
  BY <1>2
<1>5. CASE Stop(r)
  <2>1. cycle' = [cycle EXCEPT ![r] = IdleCycle]
    BY <1>5 DEF Stop, Go
  <2>2. cycle'[r] = IdleCycle /\ \A q \in Holder \ {r} : cycle'[q] = cycle[q]
    BY <1>2, <2>1
  <2>3. cycle'[r].pc = "idle"
    BY <1>3, <2>2
  <2>4. QED
    BY <1>1, <2>2, <2>3
<1>6. CASE Collect(r)
  <2>1. PICK key : cycle' = [cycle EXCEPT ![r] = [IdleCycle EXCEPT !.pc = "observe", !.key = key]]
    BY <1>6 DEF Collect, Go
  <2>2. [IdleCycle EXCEPT !.pc = "observe", !.key = key].pc = "observe"
    BY DEF IdleCycle
  <2>3. /\ cycle'[r] = [IdleCycle EXCEPT !.pc = "observe", !.key = key]
        /\ \A q \in Holder \ {r} : cycle'[q] = cycle[q]
    BY <1>2, <2>1
  <2>4. cycle'[r].pc = "observe"
    BY <2>2, <2>3
  <2>5. QED
    BY <1>1, <2>3, <2>4
<1>7. CASE Deny(r) \/ CycleAborts(r)
  <2>1. Stop(r)
    BY <1>7 DEF Deny, CycleAborts
  <2>2. QED
    BY <1>5, <2>1
<1>8. CASE ~ Stop(r) /\ Snapshot(r)
  <2>1. PICK pc, at, budget :
          cycle' = [cycle EXCEPT ![r] = [cycle[r] EXCEPT !.pc = pc, !.at = at, !.budget = budget]]
    BY <1>8 DEF Snapshot, Go
  <2>2. cycle[r].pc \notin {"idle", "observe", "claim"}
    BY <1>8 DEF Snapshot, At
  <2>3. /\ [cycle[r] EXCEPT !.pc = pc, !.at = at, !.budget = budget].id = cycle[r].id
        /\ [cycle[r] EXCEPT !.pc = pc, !.at = at, !.budget = budget].version = cycle[r].version
    BY <1>0, Noted
  <2>4. QED
    BY <1>1, <1>4, <2>1, <2>2, <2>3
<1>9. CASE ~ Stop(r) /\ (CheckApproval(r) \/ Resume(r))
  <2>1. PICK pc, at :
          cycle' = [cycle EXCEPT ![r] = [cycle[r] EXCEPT !.pc = pc, !.checkedAt = at]]
    BY <1>9 DEF CheckApproval, Resume, Go
  <2>2. cycle[r].pc \notin {"idle", "observe", "claim"}
    BY <1>9 DEF CheckApproval, Resume, At
  <2>3. /\ [cycle[r] EXCEPT !.pc = pc, !.checkedAt = at].id = cycle[r].id
        /\ [cycle[r] EXCEPT !.pc = pc, !.checkedAt = at].version = cycle[r].version
    BY <1>0, Noted
  <2>4. QED
    BY <1>1, <1>4, <2>1, <2>2, <2>3
<1>10. CASE ~ Stop(r) /\ \/ PublishPlan(r) \/ RecordAttempt(r) \/ Begin(r) \/ Recover(r)
                         \/ Complete(r)
  <2>1. \/ \E pc : cycle' = [cycle EXCEPT ![r] = [cycle[r] EXCEPT !.pc = pc]]
        \/ \E pc, a : cycle' = [cycle EXCEPT ![r] = [cycle[r] EXCEPT !.pc = pc, !.attempt = a]]
    <3>1. CASE PublishPlan(r)
      BY <3>1 DEF PublishPlan, Go
    <3>2. CASE RecordAttempt(r)
      BY <3>2 DEF RecordAttempt, Go
    <3>3. CASE Begin(r)
      BY <1>10, <3>3 DEF Begin, Go
    <3>4. CASE Recover(r)
      BY <1>10, <3>4 DEF Recover, Go
    <3>5. CASE Complete(r)
      BY <1>10, <3>5 DEF Complete, Go
    <3>6. QED
      BY <1>10, <3>1, <3>2, <3>3, <3>4, <3>5
  <2>2. cycle[r].pc \notin {"idle", "observe", "claim"}
    BY <1>10 DEF PublishPlan, RecordAttempt, Begin, Recover, Complete, At
  <2>3. \A pc : /\ [cycle[r] EXCEPT !.pc = pc].id = cycle[r].id
                /\ [cycle[r] EXCEPT !.pc = pc].version = cycle[r].version
    BY <1>0, Noted
  <2>4. \A pc, a : /\ [cycle[r] EXCEPT !.pc = pc, !.attempt = a].id = cycle[r].id
                   /\ [cycle[r] EXCEPT !.pc = pc, !.attempt = a].version = cycle[r].version
    BY <1>0, Noted
  <2>5. CASE \E pc : cycle' = [cycle EXCEPT ![r] = [cycle[r] EXCEPT !.pc = pc]]
    <3>1. PICK pc : cycle' = [cycle EXCEPT ![r] = [cycle[r] EXCEPT !.pc = pc]]
      BY <2>5
    <3>2. QED
      BY <1>1, <1>4, <2>2, <2>3, <3>1
  <2>6. CASE \E pc, a : cycle' = [cycle EXCEPT ![r] = [cycle[r] EXCEPT !.pc = pc, !.attempt = a]]
    <3>1. PICK pc, a : cycle' = [cycle EXCEPT ![r] = [cycle[r] EXCEPT !.pc = pc, !.attempt = a]]
      BY <2>6
    <3>2. QED
      BY <1>1, <1>4, <2>2, <2>4, <3>1
  <2>7. QED
    BY <2>1, <2>5, <2>6
<1>11. CASE Delete(r)
  <2>1. PICK state :
          cycle' = [cycle EXCEPT ![r] = [cycle[r] EXCEPT !.pc = "complete", !.state = state]]
    BY <1>11 DEF Delete, Go
  <2>2. cycle[r].pc \notin {"idle", "observe", "claim"}
    BY <1>11 DEF Delete, At
  <2>3. /\ [cycle[r] EXCEPT !.pc = "complete", !.state = state].id = cycle[r].id
        /\ [cycle[r] EXCEPT !.pc = "complete", !.state = state].version = cycle[r].version
    BY <1>0, Noted
  <2>4. QED
    BY <1>1, <1>4, <2>1, <2>2, <2>3
<1>12. QED
  BY <1>5, <1>6, <1>7, <1>8, <1>9, <1>10, <1>11

LEMMA AdvanceOfCycle ==
  ASSUME LatestInv, NEW r \in Holder, CycleStep(r) \/ CycleAborts(r)
  PROVE  /\ Latest(r)' /\ Advances(r) /\ UNCHANGED worker
         /\ \A q \in Holder \ {r} : cycle'[q] = cycle[q]
<1> DEFINE i == cycle[r].id
           version == cycle[r].version
<1>0. /\ Uses /\ RegistryInv /\ cycle \in [Holder -> CycleRecord] /\ cycle[r] \in CycleRecord
      /\ IdleCycle.pc = "idle"
  BY AgentStep DEF LatestInv, AgentInv, MemoryTypes, AgentNext, FaultlessNext, IdleCycle
<1>1. \A c : cycle' = [cycle EXCEPT ![r] = c]
        => cycle'[r] = c /\ \A q \in Holder \ {r} : cycle'[q] = cycle[q]
  BY <1>0
<1>2. CASE \/ Collect(r) \/ Snapshot(r) \/ CheckApproval(r) \/ Deny(r) \/ PublishPlan(r)
           \/ Resume(r) \/ RecordAttempt(r) \/ Begin(r) \/ Recover(r) \/ Delete(r)
           \/ Complete(r) \/ CycleAborts(r)
  BY <1>0, <1>2, AdvanceAtRest, LatestKept DEF Advances
<1>3. CASE ObserveIncident(r)
  <2>1. Observe(cycle[r].key) /\ UNCHANGED worker
    BY <1>3 DEF ObserveIncident
  <2>2. Advances(r)
    <3>1. \A j \in IncidentID : j # nextSequence + 1 => incidents'[j] = incidents[j]
      BY <1>0, <2>1 DEF Observe, RegistryInv, RegistryTypeOK
    <3>2. \A j \in IncidentID : IncidentExists(j) => j # nextSequence + 1
      BY <1>0 DEF RegistryInv, RegistryTypeOK, IDsInSequence, IncidentID
    <3>3. QED
      BY <3>1, <3>2 DEF Advances
  <2>3. PICK id, v : Go(r, [cycle[r] EXCEPT !.pc = "claim", !.id = id, !.version = v])
    BY <1>3 DEF ObserveIncident
  <2>4. cycle'[r].pc = "claim"
    BY <1>0, <1>1, <2>3, Noted DEF Go
  <2>5. QED
    BY <1>0, <1>1, <2>1, <2>2, <2>3, <2>4, LatestKept DEF Go
<1>4. CASE ClaimIncident(r) \/ ClaimAction(r)
  <2>1. i \in IncidentID /\ UNCHANGED worker
    BY <1>4, Before DEF ClaimIncident, ClaimAction, At, LatestInv
  <2>2. CASE Stop(r) /\ UNCHANGED registryVars
    BY <1>0, <1>1, <2>1, <2>2, LatestKept DEF Stop, Go, Advances, registryVars
  <2>3. CASE ~ (Stop(r) /\ UNCHANGED registryVars)
    <3>1. /\ Claim(i, version, r, now, LeaseDuration)
          /\ \E pc, state, binding : Go(r, [cycle[r] EXCEPT !.pc = pc, !.version = version + 1,
                                              !.state = state, !.binding = binding])
      <4>1. CASE ClaimIncident(r)
        BY <2>3, <4>1 DEF ClaimIncident
      <4>2. CASE ClaimAction(r)
        <5>1. /\ Claim(i, version, r, now, LeaseDuration)
              /\ Go(r, [cycle[r] EXCEPT !.pc = "begin", !.version = version + 1])
          BY <2>3, <4>2 DEF ClaimAction
        <5>2. [cycle[r] EXCEPT !.pc = "begin", !.version = version + 1]
                = [cycle[r] EXCEPT !.pc = "begin", !.version = version + 1,
                                   !.state = cycle[r].state, !.binding = cycle[r].binding]
          BY <1>0 DEF CycleRecord
        <5>3. QED
          BY <5>1, <5>2
      <4>3. QED
        BY <1>4, <4>1, <4>2
    <3>2. PICK pc, state, binding : Go(r, [cycle[r] EXCEPT !.pc = pc, !.version = version + 1,
                                             !.state = state, !.binding = binding])
      BY <3>1
    <3>3. cycle'[r].id = i /\ cycle'[r].version = version + 1
      BY <1>0, <1>1, <3>2, Noted DEF Go
    <3>4. Latest(r)'
      BY <1>0, <2>1, <3>1, <3>3, LatestClaimed
    <3>5. Advances(r)
      BY <1>0, <2>1, <3>1, ClaimKeepsStates DEF Advances, Claim, ClaimAccepted
    <3>6. QED
      BY <1>1, <2>1, <3>2, <3>4, <3>5 DEF Go
  <2>4. QED
    BY <2>2, <2>3
<1>5. CASE Decide(r) \/ AwaitApproval(r)
  <2>1. /\ i \in IncidentID /\ UNCHANGED worker
        /\ cycle[r].pc \notin {"idle", "observe", "claim"}
    BY <1>5, Before DEF Decide, AwaitApproval, At, LatestInv
  <2>2. CASE Stop(r) /\ UNCHANGED registryVars
    BY <1>0, <1>1, <2>1, <2>2, LatestKept DEF Stop, Go, Advances, registryVars
  <2>3. CASE ~ (Stop(r) /\ UNCHANGED registryVars)
    <3>1. PICK to, binding : Transition(i, version, to, binding)
      BY <1>5, <2>3, ThePlan DEF Decide, AwaitApproval
    <3>2. incidents[i].version = version /\ IncidentExists(i) /\ UNCHANGED claims
      BY <3>1 DEF Transition, TransitionAccepted
    <3>3. claims[i].holder = r
      BY <2>1, <3>2 DEF LatestInv, Latest
    <3>4. \A j \in IncidentID \ {i} : incidents'[j] = incidents[j]
      BY <1>0, <3>1 DEF Transition, RegistryInv, RegistryTypeOK
    <3>5. Advances(r)
      BY <3>3, <3>4 DEF Advances
    <3>6. CASE Stop(r)
      BY <1>0, <1>1, <2>1, <3>5, <3>6, LatestKept DEF Stop, Go
    <3>7. CASE ~ Stop(r)
      <4>1. PICK pc : Go(r, [cycle[r] EXCEPT !.pc = pc, !.version = version + 1])
        BY <1>5, <2>3, <3>7 DEF Decide, AwaitApproval
      <4>2. cycle'[r].id = i /\ cycle'[r].version = version + 1
        BY <1>0, <1>1, <4>1, Noted DEF Go
      <4>3. incidents[i] \in Incident
        BY <1>0, <2>1, <3>2, ExistingIncident DEF RegistryInv
      <4>4. incidents'[i].version = version + 1
        BY <1>0, <2>1, <3>1, <3>2, <4>3 DEF Transition, Incident, RegistryInv, RegistryTypeOK
      <4>5. version + 1 <= version + 1
        <5>1. version \in Nat
          BY <3>2, <4>3, VersionAssumption DEF Incident
        <5>2. QED
          BY <5>1
      <4>6. Latest(r)'
        BY <3>2, <3>3, <4>2, <4>4, <4>5 DEF Latest
      <4>7. QED
        BY <1>1, <2>1, <3>5, <4>1, <4>6 DEF Go
    <3>8. QED
      BY <3>6, <3>7
  <2>4. QED
    BY <2>2, <2>3
<1>6. CASE Verify(r)
  <2>1. Stop(r) /\ UNCHANGED worker /\ i \in IncidentID /\ ActionOf(r).incident = i
    BY <1>6, Before, ThePlan DEF Verify, At, LatestInv
  <2>2. Latest(r)' /\ \A q \in Holder \ {r} : cycle'[q] = cycle[q]
    BY <1>0, <1>1, <2>1, LatestKept DEF Stop, Go
  <2>3. Advances(r)
    <3>1. CASE UNCHANGED registryVars
      BY <3>1 DEF registryVars, Advances
    <3>2. CASE BeginFencedVerification(ActionOf(r), version, r, now, cycle[r].attempt,
                                       OwnerOf[cycle[r].key])
      <4>1. claims[i].holder = r
        BY <2>1, <3>2 DEF BeginFencedVerification, FencedBeginAccepted, FencePassed
      <4>2. \A j \in IncidentID \ {i} : incidents'[j] = incidents[j]
        BY <1>0, <2>1, <3>2 DEF BeginFencedVerification, RegistryInv, RegistryTypeOK
      <4>3. QED
        BY <4>1, <4>2 DEF Advances
    <3>3. QED
      BY <1>6, <3>1, <3>2 DEF Verify
  <2>4. QED
    BY <2>1, <2>2, <2>3
<1>7. QED
  BY <1>2, <1>3, <1>4, <1>5, <1>6 DEF CycleStep

LEMMA AdvanceOfWorker ==
  ASSUME LatestInv, NEW r \in Holder, WorkerStep(r) \/ WorkerAborts(r)
  PROVE  /\ Advances(r) /\ UNCHANGED cycle
         /\ \A q \in Holder \ {r} : worker'[q] = worker[q]
<1>0. RegistryInv /\ worker \in [Holder -> WorkerRecord] /\ WorkerOK(r)
  BY DEF LatestInv, AgentInv, MemoryTypes
<1>1. \A w : worker' = [worker EXCEPT ![r] = w] => \A q \in Holder \ {r} : worker'[q] = worker[q]
  BY <1>0
<1>2. UNCHANGED incidents => Advances(r)
  BY DEF Advances
<1>3. ASSUME NEW k \in ActionKey, IncidentExists(k.incident),
             GrantClaim(k.incident, r, now, LeaseDuration)
      PROVE  Advances(r)
  BY <1>0, <1>3, ClaimKeepsStates, ActionKeyOf DEF Advances
<1>4. UNCHANGED cycle
  BY DEF WorkerStep, ClaimResolution, ResolveIncident, ClaimPending, CompleteWork,
         WorkerAborts, UNCHANGEDByWorker
<1>5. CASE ClaimResolution(r)
  <2>1. PICK k \in ActionKey :
          /\ ClaimRecoveredVerificationResolution(k, r, now, LeaseDuration)
          /\ \E w : worker' = [worker EXCEPT ![r] = w]
    BY <1>5 DEF ClaimResolution, WorkerGo
  <2>2. IncidentExists(k.incident) /\ GrantClaim(k.incident, r, now, LeaseDuration)
    BY <2>1 DEF ClaimRecoveredVerificationResolution, RecoveredWork, IncidentExists, NoIncident
  <2>3. QED
    BY <1>1, <1>3, <1>4, <2>1, <2>2
<1>6. CASE ClaimPending(r)
  <2>1. CASE UNCHANGED registryVars /\ WorkerStop(r)
    BY <1>1, <1>2, <1>4, <2>1 DEF registryVars, WorkerStop, WorkerGo
  <2>2. CASE \E k \in ActionKey :
               /\ ClaimPendingVerification(k, r, now, LeaseDuration)
               /\ \E w : worker' = [worker EXCEPT ![r] = w]
    <3>1. PICK k \in ActionKey :
            /\ ClaimPendingVerification(k, r, now, LeaseDuration)
            /\ \E w : worker' = [worker EXCEPT ![r] = w]
      BY <2>2
    <3>2. IncidentExists(k.incident) /\ GrantClaim(k.incident, r, now, LeaseDuration)
      BY <3>1 DEF ClaimPendingVerification, PendingWork, IncidentExists, NoIncident
    <3>3. QED
      BY <1>1, <1>3, <1>4, <3>1, <3>2
  <2>3. QED
    BY <1>6, <2>1, <2>2 DEF ClaimPending, WorkerGo
<1>7. CASE ResolveIncident(r)
  <2>1. \E w : worker' = [worker EXCEPT ![r] = w]
    BY <1>7 DEF ResolveIncident, WorkerStop, WorkerGo
  <2>2. CASE UNCHANGED registryVars
    BY <1>1, <1>2, <1>4, <2>1, <2>2 DEF registryVars
  <2>3. CASE Resolve(worker[r].k.incident, worker[r].version, worker[r].k, r, now)
    <3>1. claims[worker[r].k.incident].holder = r
      BY <2>3 DEF Resolve, ResolveAccepted, FencePassed
    <3>2. \A j \in IncidentID \ {worker[r].k.incident} : incidents'[j] = incidents[j]
      BY <1>0, <2>3 DEF Resolve, RegistryInv, RegistryTypeOK
    <3>3. QED
      BY <1>1, <1>4, <2>1, <3>1, <3>2 DEF Advances
  <2>4. QED
    BY <1>7, <2>2, <2>3 DEF ResolveIncident
<1>8. CASE CompleteWork(r) \/ WorkerAborts(r)
  <2>1. UNCHANGED incidents
    BY <1>8 DEF CompleteWork, WorkerAborts, CompleteFencedVerification, registryVars
  <2>2. \E w : worker' = [worker EXCEPT ![r] = w]
    BY <1>8 DEF CompleteWork, WorkerAborts, WorkerStop, WorkerGo
  <2>3. QED
    BY <1>1, <1>2, <1>4, <2>1, <2>2
<1>9. QED
  BY <1>5, <1>6, <1>7, <1>8 DEF WorkerStep

(* Every step: the one replica that moves advances incidents it holds.      *)
Advanced ==
  \A i \in IncidentID, r \in Holder :
    (/\ IncidentExists(i) /\ Moves(r)
     /\ incidents'[i].state # incidents[i].state) => claims[i].holder = r

LEMMA LatestStep ==
  ASSUME LatestInv, [AgentNext]_agentVars
  PROVE  LatestInv' /\ Advanced
<1>1. Uses /\ AgentInv'
  BY AgentStep DEF LatestInv
<1>2. CASE \E r \in Holder : CycleStep(r) \/ CycleAborts(r)
  <2>1. PICK r \in Holder : CycleStep(r) \/ CycleAborts(r)
    BY <1>2
  <2>2. /\ Latest(r)' /\ Advances(r) /\ UNCHANGED worker
        /\ \A q \in Holder \ {r} : cycle'[q] = cycle[q]
    BY <2>1, AdvanceOfCycle
  <2>3. \A q \in Holder \ {r} : Latest(q)'
    BY <1>1, <2>2, LatestKept
  <2>4. \A q \in Holder \ {r} : ~ Moves(q)
    BY <2>2 DEF Moves
  <2>5. Advanced
    BY <2>2, <2>4 DEF Advanced, Advances
  <2>6. QED
    BY <1>1, <2>2, <2>3, <2>5 DEF LatestInv
<1>3. CASE \E r \in Holder : WorkerStep(r) \/ WorkerAborts(r)
  <2>1. PICK r \in Holder : WorkerStep(r) \/ WorkerAborts(r)
    BY <1>3
  <2>2. /\ Advances(r) /\ UNCHANGED cycle
        /\ \A q \in Holder \ {r} : worker'[q] = worker[q]
    BY <2>1, AdvanceOfWorker
  <2>3. \A q \in Holder : Latest(q)'
    BY <1>1, <2>2, LatestKept
  <2>4. \A q \in Holder \ {r} : ~ Moves(q)
    BY <2>2 DEF Moves
  <2>5. Advanced
    BY <2>2, <2>4 DEF Advanced, Advances
  <2>6. QED
    BY <1>1, <2>3, <2>5 DEF LatestInv
<1>4. CASE (\E k \in ActionKey : Grant(k)) \/ Tick \/ UNCHANGED agentVars
  <2>1. UNCHANGED <<cycle, worker>>
    BY <1>4 DEF Grant, Tick, agentVars
  <2>2. \A q \in Holder : Latest(q)' /\ ~ Moves(q)
    BY <1>1, <2>1, LatestKept DEF Moves
  <2>3. QED
    BY <1>1, <2>2 DEF LatestInv, Advanced
<1>5. QED
  BY <1>2, <1>3, <1>4 DEF AgentNext, FaultlessNext

LEMMA LatestInit == AgentInit => LatestInv
<1> SUFFICES ASSUME AgentInit PROVE LatestInv
  OBVIOUS
<1>1. \A r \in Holder : cycle[r].pc = "idle"
  BY DEF AgentInit, IdleCycle
<1>2. QED
  BY <1>1, AgentInvInit DEF LatestInv, Latest

(* Whoever moves an incident to another state holds its latest claim: a     *)
(* replica that stalled with an older token gets nowhere.                   *)
THEOREM StaleHoldersGetNowhere == AgentSpec => AdvancedByLatestHolder
<1>1. AgentInit => LatestInv
  BY LatestInit
<1>2. LatestInv /\ [AgentNext]_agentVars => LatestInv' /\ [Advanced]_agentVars
  BY LatestStep
<1>3. QED
  BY <1>1, <1>2, PTL DEF AgentSpec, AdvancedByLatestHolder, Advanced

-----------------------------------------------------------------------------
(* What a waiting incident waits for.                                       *)

WaitingPlanned ==
  \A i \in IncidentID : incidents[i].state = "WAITING_APPROVAL" =>
    [incident |-> i, plan |-> incidents[i].binding] \in plans

(* What a cycle that is about to wait, or to resume, knows of the plan.     *)
Knows(r) ==
  /\ cycle[r].pc = "await" => ActionOf(r) \in plans
  /\ (\/ cycle[r].pc = "resume"
      \/ cycle[r].pc = "snapshot" /\ cycle[r].state = "WAITING_APPROVAL")
     => cycle[r].binding = ActionOf(r).plan /\ ActionOf(r) \in plans

PlanInv ==
  /\ LatestInv
  /\ WaitingPlanned
  /\ \A r \in Holder : Knows(r)

(* No incident comes to wait, and those that wait keep what they wait for.  *)
WaitingKept ==
  \A i \in IncidentID : incidents'[i].state = "WAITING_APPROVAL" =>
    incidents[i].state = "WAITING_APPROVAL" /\ incidents'[i].binding = incidents[i].binding

LEMMA ClaimKeepsWaiting ==
  ASSUME RegistryInv, NEW i \in IncidentID, IncidentExists(i),
         NEW holder, NEW at, NEW lease, GrantClaim(i, holder, at, lease)
  PROVE  WaitingKept
<1>1. incidents[i] \in Incident
  BY ExistingIncident DEF RegistryInv
<1>2. QED
  BY <1>1 DEF GrantClaim, ClaimedIncident, Incident, RegistryInv, RegistryTypeOK, WaitingKept

LEMMA WaitingKeptByCycle ==
  ASSUME PlanInv, NEW r \in Holder, CycleStep(r) \/ CycleAborts(r), ~ AwaitApproval(r)
  PROVE  WaitingKept
<1> DEFINE i == cycle[r].id
           version == cycle[r].version
<1>0. RegistryInv
  BY DEF PlanInv, LatestInv, AgentInv
<1>1. CASE UNCHANGED incidents
  BY <1>1 DEF WaitingKept
<1>2. CASE \/ Collect(r) \/ Snapshot(r) \/ CheckApproval(r) \/ Deny(r) \/ PublishPlan(r)
           \/ Resume(r) \/ RecordAttempt(r) \/ Begin(r) \/ Recover(r) \/ Delete(r)
           \/ Complete(r) \/ CycleAborts(r)
  BY <1>1, <1>2, AdvanceAtRest DEF PlanInv
<1>3. CASE ObserveIncident(r)
  <2>1. Observe(cycle[r].key)
    BY <1>3 DEF ObserveIncident
  <2>2. \A j \in IncidentID :
          incidents'[j] = incidents[j] \/ incidents'[j] = NewIncident(cycle[r].key)
    BY <1>0, <2>1 DEF Observe, RegistryInv, RegistryTypeOK
  <2>3. NewIncident(cycle[r].key).state # "WAITING_APPROVAL"
    BY DEF NewIncident
  <2>4. QED
    BY <2>2, <2>3 DEF WaitingKept
<1>4. CASE ClaimIncident(r) \/ ClaimAction(r)
  <2>1. i \in IncidentID
    BY <1>4, Before DEF ClaimIncident, ClaimAction, At, PlanInv, LatestInv
  <2>2. UNCHANGED registryVars \/ Claim(i, version, r, now, LeaseDuration)
    BY <1>4 DEF ClaimIncident, ClaimAction
  <2>3. CASE UNCHANGED registryVars
    BY <1>1, <2>3 DEF registryVars
  <2>4. CASE Claim(i, version, r, now, LeaseDuration)
    BY <1>0, <2>1, <2>4, ClaimKeepsWaiting DEF Claim, ClaimAccepted
  <2>5. QED
    BY <2>2, <2>3, <2>4
<1>5. CASE Decide(r)
  <2>1. i \in IncidentID
    BY <1>5, Before DEF Decide, At, PlanInv, LatestInv
  <2>2. UNCHANGED registryVars \/ Transition(i, version, "DIAGNOSED", NoPlan)
    BY <1>5 DEF Decide
  <2>3. CASE UNCHANGED registryVars
    BY <1>1, <2>3 DEF registryVars
  <2>4. CASE Transition(i, version, "DIAGNOSED", NoPlan)
    <3>1. incidents[i] \in Incident
      BY <1>0, <2>1, <2>4, ExistingIncident DEF Transition, TransitionAccepted, RegistryInv
    <3>2. QED
      BY <1>0, <2>1, <2>4, <3>1
      DEF Transition, Incident, RegistryInv, RegistryTypeOK, WaitingKept
  <2>5. QED
    BY <2>2, <2>3, <2>4
<1>6. CASE Verify(r)
  <2>1. i \in IncidentID /\ ActionOf(r).incident = i
    BY <1>6, Before, ThePlan DEF Verify, At, PlanInv, LatestInv
  <2>2. CASE UNCHANGED incidents
    BY <1>1, <2>2
  <2>3. CASE incidents' = [incidents EXCEPT ![i].state = "VERIFYING", ![i].version = @ + 1]
             /\ IncidentExists(i)
    <3>1. incidents[i] \in Incident
      BY <1>0, <2>1, <2>3, ExistingIncident DEF RegistryInv
    <3>2. QED
      BY <1>0, <2>1, <2>3, <3>1 DEF Incident, RegistryInv, RegistryTypeOK, WaitingKept
  <2>4. \/ UNCHANGED incidents
        \/ /\ incidents' = [incidents EXCEPT ![i].state = "VERIFYING", ![i].version = @ + 1]
           /\ IncidentExists(i)
    BY <1>6, <2>1 DEF Verify, BeginFencedVerification, FencedBeginAccepted, FencePassed,
                      registryVars
  <2>5. QED
    BY <2>2, <2>3, <2>4
<1>7. QED
  BY <1>2, <1>3, <1>4, <1>5, <1>6 DEF CycleStep

LEMMA WaitingKeptByWorker ==
  ASSUME PlanInv, NEW r \in Holder, WorkerStep(r) \/ WorkerAborts(r)
  PROVE  WaitingKept /\ UNCHANGED plans
<1>0. RegistryInv /\ WorkerOK(r)
  BY DEF PlanInv, LatestInv, AgentInv
<1>1. UNCHANGED plans
  BY DEF WorkerStep, ClaimResolution, ResolveIncident, ClaimPending, CompleteWork,
         WorkerAborts, UNCHANGEDByWorker
<1>2. UNCHANGED incidents => WaitingKept
  BY DEF WaitingKept
<1>3. CASE ClaimResolution(r)
  <2>1. PICK k \in ActionKey : ClaimRecoveredVerificationResolution(k, r, now, LeaseDuration)
    BY <1>3 DEF ClaimResolution
  <2>2. IncidentExists(k.incident) /\ GrantClaim(k.incident, r, now, LeaseDuration)
    BY <2>1 DEF ClaimRecoveredVerificationResolution, RecoveredWork, IncidentExists
  <2>3. QED
    BY <1>0, <1>1, <2>2, ActionKeyOf, ClaimKeepsWaiting
<1>4. CASE ClaimPending(r)
  <2>1. CASE UNCHANGED incidents
    BY <1>1, <1>2, <2>1
  <2>2. CASE \E k \in ActionKey : ClaimPendingVerification(k, r, now, LeaseDuration)
    <3>1. PICK k \in ActionKey : ClaimPendingVerification(k, r, now, LeaseDuration)
      BY <2>2
    <3>2. IncidentExists(k.incident) /\ GrantClaim(k.incident, r, now, LeaseDuration)
      BY <3>1 DEF ClaimPendingVerification, PendingWork, IncidentExists
    <3>3. QED
      BY <1>0, <1>1, <3>2, ActionKeyOf, ClaimKeepsWaiting
  <2>3. QED
    BY <1>4, <2>1, <2>2 DEF ClaimPending, registryVars
<1>5. CASE ResolveIncident(r)
  <2> DEFINE k == worker[r].k
  <2>1. CASE UNCHANGED registryVars
    BY <1>1, <1>2, <2>1 DEF registryVars
  <2>2. CASE Resolve(k.incident, worker[r].version, k, r, now)
    <3>1. k.incident \in IncidentID
      BY <1>0, <1>5, ActionKeyOf DEF WorkerOK, ResolveIncident, WorkerAt
    <3>2. incidents[k.incident] \in Incident
      BY <1>0, <2>2, <3>1, ExistingIncident
      DEF Resolve, ResolveAccepted, FencePassed, RegistryInv
    <3>3. incidents' = [incidents EXCEPT ![k.incident].state = "RESOLVED",
            ![k.incident].version = @ + 1, ![k.incident].resolvedBy = k.plan,
            ![k.incident].binding = NoPlan]
      BY <2>2 DEF Resolve
    <3>4. incidents'[k.incident].state = "RESOLVED"
      BY <1>0, <3>1, <3>2, <3>3 DEF Incident, RegistryInv, RegistryTypeOK
    <3>5. \A j \in IncidentID \ {k.incident} : incidents'[j] = incidents[j]
      BY <1>0, <3>3 DEF RegistryInv, RegistryTypeOK
    <3>6. QED
      BY <1>1, <3>4, <3>5 DEF WaitingKept
  <2>3. QED
    BY <1>5, <2>1, <2>2 DEF ResolveIncident
<1>6. CASE CompleteWork(r) \/ WorkerAborts(r)
  <2>1. UNCHANGED incidents
    BY <1>6 DEF CompleteWork, WorkerAborts, CompleteFencedVerification, registryVars
  <2>2. QED
    BY <1>1, <1>2, <2>1
<1>7. QED
  BY <1>3, <1>4, <1>5, <1>6 DEF WorkerStep

(* Once published a plan stays published. *)
LEMMA PlansStay ==
  ASSUME [AgentNext]_agentVars
  PROVE  plans \subseteq plans'
<1>1. ASSUME NEW r \in Holder, CycleStep(r) PROVE plans \subseteq plans'
  BY <1>1 DEF CycleStep, Collect, ObserveIncident, ClaimIncident, Snapshot, Decide, CheckApproval,
              Deny, PublishPlan, AwaitApproval, Resume, RecordAttempt, ClaimAction, Begin,
              Recover, Delete, Complete, Verify
<1>2. ASSUME NEW r \in Holder, WorkerStep(r) PROVE plans \subseteq plans'
  BY <1>2 DEF WorkerStep, ClaimResolution, ResolveIncident, ClaimPending, CompleteWork,
              UNCHANGEDByWorker
<1>3. QED
  BY <1>1, <1>2 DEF AgentNext, FaultlessNext, Grant, Tick, CycleAborts, WorkerAborts,
                    UNCHANGEDByWorker, agentVars

(* Knowing a plan is about the replica's memory and what is published.      *)
LEMMA KnowsKept ==
  ASSUME PlanInv, [AgentNext]_agentVars, NEW q \in Holder, cycle'[q] = cycle[q]
  PROVE  Knows(q)'
  BY PlansStay DEF PlanInv, Knows, ActionOf

(* Where the other steps of a cycle lead. *)
LEMMA ElsewhereNext ==
  ASSUME PlanInv, NEW r \in Holder, CycleStep(r) \/ CycleAborts(r),
         ~ ClaimIncident(r), ~ Snapshot(r), ~ PublishPlan(r)
  PROVE  cycle'[r].pc \notin {"await", "resume", "snapshot"}
<1>0. cycle \in [Holder -> CycleRecord] /\ cycle[r] \in CycleRecord
  BY DEF PlanInv, LatestInv, AgentInv, MemoryTypes
<1> DEFINE Elsewhere == {"idle", "observe", "claim", "approval", "deny", "publish", "record",
                         "fence", "begin", "recover", "delete", "complete", "verify"}
<1>1. \A c : cycle' = [cycle EXCEPT ![r] = c] => cycle'[r] = c
  BY <1>0
<1>2. SUFFICES \E c : cycle' = [cycle EXCEPT ![r] = c] /\ c.pc \in Elsewhere
  BY <1>1
<1>3. Stop(r) => \E c : cycle' = [cycle EXCEPT ![r] = c] /\ c.pc \in Elsewhere
  <2>1. IdleCycle.pc \in Elsewhere
    BY DEF IdleCycle
  <2>2. QED
    BY <2>1 DEF Stop, Go
<1>4. SUFFICES ASSUME ~ Stop(r) PROVE \E c : cycle' = [cycle EXCEPT ![r] = c] /\ c.pc \in Elsewhere
  BY <1>3
<1>5. CASE Collect(r)
  <2>1. PICK key : cycle' = [cycle EXCEPT ![r] = [IdleCycle EXCEPT !.pc = "observe", !.key = key]]
    BY <1>5 DEF Collect, Go
  <2>2. [IdleCycle EXCEPT !.pc = "observe", !.key = key].pc = "observe"
    BY DEF IdleCycle
  <2>3. QED
    BY <2>1, <2>2
<1>6. CASE ObserveIncident(r)
  <2>1. PICK id, v : cycle' = [cycle EXCEPT ![r] =
                       [cycle[r] EXCEPT !.pc = "claim", !.id = id, !.version = v]]
    BY <1>6 DEF ObserveIncident, Go
  <2>2. [cycle[r] EXCEPT !.pc = "claim", !.id = id, !.version = v].pc = "claim"
    BY <1>0, Noted
  <2>3. QED
    BY <2>1, <2>2
<1>7. CASE Decide(r) \/ ClaimAction(r)
  <2>1. \E pc \in Elsewhere : \E v :
          cycle' = [cycle EXCEPT ![r] = [cycle[r] EXCEPT !.pc = pc, !.version = v]]
    BY <1>4, <1>7 DEF Decide, ClaimAction, Go
  <2>2. \A pc, v : [cycle[r] EXCEPT !.pc = pc, !.version = v].pc = pc
    BY <1>0 DEF CycleRecord
  <2>3. PICK pc \in Elsewhere :
          \E v : cycle' = [cycle EXCEPT ![r] = [cycle[r] EXCEPT !.pc = pc, !.version = v]]
    BY <2>1
  <2>4. PICK v : cycle' = [cycle EXCEPT ![r] = [cycle[r] EXCEPT !.pc = pc, !.version = v]]
    BY <2>3
  <2>5. [cycle[r] EXCEPT !.pc = pc, !.version = v].pc \in Elsewhere
    BY <2>2
  <2>6. QED
    BY <2>4, <2>5
<1>8. CASE CheckApproval(r) \/ Resume(r)
  <2>1. \E pc \in Elsewhere : \E at :
          cycle' = [cycle EXCEPT ![r] = [cycle[r] EXCEPT !.pc = pc, !.checkedAt = at]]
    BY <1>4, <1>8 DEF CheckApproval, Resume, Go
  <2>2. \A pc, at : [cycle[r] EXCEPT !.pc = pc, !.checkedAt = at].pc = pc
    BY <1>0 DEF CycleRecord
  <2>3. PICK pc \in Elsewhere :
          \E at : cycle' = [cycle EXCEPT ![r] = [cycle[r] EXCEPT !.pc = pc, !.checkedAt = at]]
    BY <2>1
  <2>4. PICK at : cycle' = [cycle EXCEPT ![r] = [cycle[r] EXCEPT !.pc = pc, !.checkedAt = at]]
    BY <2>3
  <2>5. [cycle[r] EXCEPT !.pc = pc, !.checkedAt = at].pc \in Elsewhere
    BY <2>2
  <2>6. QED
    BY <2>4, <2>5
<1>9. CASE RecordAttempt(r) \/ Begin(r) \/ Recover(r) \/ Complete(r)
  <2>1. \/ \E pc \in Elsewhere : cycle' = [cycle EXCEPT ![r] = [cycle[r] EXCEPT !.pc = pc]]
        \/ \E pc \in Elsewhere : \E a :
             cycle' = [cycle EXCEPT ![r] = [cycle[r] EXCEPT !.pc = pc, !.attempt = a]]
    <3>1. CASE RecordAttempt(r)
      BY <3>1 DEF RecordAttempt, Go
    <3>2. CASE Begin(r)
      BY <1>4, <3>2 DEF Begin, Go
    <3>3. CASE Recover(r)
      BY <1>4, <3>3 DEF Recover, Go
    <3>4. CASE Complete(r)
      BY <1>4, <3>4 DEF Complete, Go
    <3>5. QED
      BY <1>9, <3>1, <3>2, <3>3, <3>4
  <2>2. \A pc : [cycle[r] EXCEPT !.pc = pc].pc = pc
    BY <1>0 DEF CycleRecord
  <2>3. \A pc, a : [cycle[r] EXCEPT !.pc = pc, !.attempt = a].pc = pc
    BY <1>0 DEF CycleRecord
  <2>4. CASE \E pc \in Elsewhere : cycle' = [cycle EXCEPT ![r] = [cycle[r] EXCEPT !.pc = pc]]
    <3>1. PICK pc \in Elsewhere : cycle' = [cycle EXCEPT ![r] = [cycle[r] EXCEPT !.pc = pc]]
      BY <2>4
    <3>2. QED
      BY <2>2, <3>1
  <2>5. CASE \E pc \in Elsewhere : \E a :
               cycle' = [cycle EXCEPT ![r] = [cycle[r] EXCEPT !.pc = pc, !.attempt = a]]
    <3>1. PICK pc \in Elsewhere :
            \E a : cycle' = [cycle EXCEPT ![r] = [cycle[r] EXCEPT !.pc = pc, !.attempt = a]]
      BY <2>5
    <3>2. PICK a : cycle' = [cycle EXCEPT ![r] = [cycle[r] EXCEPT !.pc = pc, !.attempt = a]]
      BY <3>1
    <3>3. [cycle[r] EXCEPT !.pc = pc, !.attempt = a].pc \in Elsewhere
      BY <2>3
    <3>4. QED
      BY <3>2, <3>3
  <2>6. QED
    BY <2>1, <2>4, <2>5
<1>10. CASE Delete(r)
  <2>1. PICK state :
          cycle' = [cycle EXCEPT ![r] = [cycle[r] EXCEPT !.pc = "complete", !.state = state]]
    BY <1>10 DEF Delete, Go
  <2>2. [cycle[r] EXCEPT !.pc = "complete", !.state = state].pc = "complete"
    BY <1>0 DEF CycleRecord
  <2>3. QED
    BY <2>1, <2>2
<1>11. QED
  BY <1>4, <1>5, <1>6, <1>7, <1>8, <1>9, <1>10
  DEF CycleStep, Deny, AwaitApproval, Verify, CycleAborts

LEMMA PlanOfCycle ==
  ASSUME ClaimReturnsBinding, PlanInv, NEW r \in Holder, CycleStep(r) \/ CycleAborts(r)
  PROVE  PlanInv'
<1>0. /\ [AgentNext]_agentVars
      /\ cycle \in [Holder -> CycleRecord] /\ cycle[r] \in CycleRecord
  BY DEF PlanInv, LatestInv, AgentInv, MemoryTypes, AgentNext, FaultlessNext
<1>1. LatestInv' /\ plans \subseteq plans'
  BY <1>0, LatestStep, PlansStay DEF PlanInv
<1>2. \A q \in Holder \ {r} : Knows(q)'
  <2>1. \A q \in Holder \ {r} : cycle'[q] = cycle[q]
    BY AdvanceOfCycle DEF PlanInv
  <2>2. QED
    BY <1>0, <2>1, KnowsKept
<1>3. WaitingPlanned'
  <2>1. CASE WaitingKept
    BY <1>1, <2>1 DEF WaitingKept, WaitingPlanned, PlanInv
  <2>2. CASE AwaitApproval(r)
    <3>1. CASE UNCHANGED registryVars
      BY <2>1, <3>1 DEF registryVars, WaitingKept
    <3>2. CASE Transition(ActionOf(r).incident, cycle[r].version, "WAITING_APPROVAL",
                          ActionOf(r).plan)
      <4> DEFINE i == cycle[r].id
                 p == ActionOf(r).plan
      <4>1. i \in IncidentID /\ ActionOf(r).incident = i
        BY <2>2, Before, ThePlan DEF AwaitApproval, At, PlanInv, LatestInv
      <4>2. incidents[i] \in Incident
        BY <3>2, <4>1, ExistingIncident
        DEF Transition, TransitionAccepted, PlanInv, LatestInv, AgentInv, RegistryInv
      <4>3. incidents' = [incidents EXCEPT ![i].state = "WAITING_APPROVAL",
                            ![i].version = @ + 1, ![i].binding = p]
        BY <3>2, <4>1 DEF Transition
      <4>4. incidents'[i].binding = p
        BY <4>1, <4>2, <4>3
        DEF Incident, PlanInv, LatestInv, AgentInv, RegistryInv, RegistryTypeOK
      <4>5. \A j \in IncidentID \ {i} : incidents'[j] = incidents[j]
        BY <4>3 DEF PlanInv, LatestInv, AgentInv, RegistryInv, RegistryTypeOK
      <4>6. ActionOf(r) \in plans /\ ActionOf(r) = [incident |-> i, plan |-> p]
        BY <2>2 DEF PlanInv, Knows, AwaitApproval, At, ActionOf
      <4>7. QED
        BY <1>1, <4>4, <4>5, <4>6 DEF WaitingPlanned, PlanInv
    <3>3. QED
      BY <2>2, <3>1, <3>2 DEF AwaitApproval
  <2>3. QED
    BY <2>1, <2>2, WaitingKeptByCycle
<1>4. Knows(r)'
  <2>1. CASE ~ ClaimIncident(r) /\ ~ Snapshot(r) /\ ~ PublishPlan(r)
    <3>1. cycle'[r].pc \notin {"await", "resume", "snapshot"}
      BY <2>1, ElsewhereNext
    <3>2. QED
      BY <3>1 DEF Knows
  <2>2. CASE cycle' = [cycle EXCEPT ![r] = IdleCycle]
    <3>1. cycle'[r].pc = "idle"
      BY <1>0, <2>2 DEF IdleCycle
    <3>2. QED
      BY <3>1 DEF Knows
  <2>3. CASE PublishPlan(r)
    <3>1. cycle' = [cycle EXCEPT ![r] = [cycle[r] EXCEPT !.pc = "await"]]
      BY <2>3 DEF PublishPlan, Go
    <3>2. cycle'[r].pc = "await" /\ cycle'[r].id = cycle[r].id
      BY <1>0, <3>1 DEF CycleRecord
    <3>3. ActionOf(r)' = ActionOf(r)
      BY <3>2 DEF ActionOf
    <3>4. QED
      BY <2>3, <3>2, <3>3 DEF PublishPlan, Knows
  <2>4. CASE ClaimIncident(r) /\ ~ Stop(r)
    <3> DEFINE i == cycle[r].id
    <3>1. /\ i \in IncidentID
          /\ cycle' = [cycle EXCEPT ![r] = [cycle[r] EXCEPT
               !.pc = "snapshot", !.version = cycle[r].version + 1,
               !.state = incidents[i].state, !.binding = incidents[i].binding]]
      BY <2>4, Before DEF ClaimIncident, Go, At, PlanInv, LatestInv
    <3>2. /\ cycle'[r].pc = "snapshot" /\ cycle'[r].id = i
          /\ cycle'[r].state = incidents[i].state /\ cycle'[r].binding = incidents[i].binding
      BY <1>0, <3>1 DEF CycleRecord
    <3>3. ActionOf(r)' = ActionOf(r)
      BY <3>2 DEF ActionOf
    <3>4. ASSUME incidents[i].state = "WAITING_APPROVAL"
          PROVE  incidents[i].binding = ActionOf(r).plan /\ ActionOf(r) \in plans
      <4>1. [incident |-> i, plan |-> incidents[i].binding] \in plans
        BY <3>1, <3>4 DEF PlanInv, WaitingPlanned
      <4>2. incidents[i].binding \in Plan
        <5>1. [incident |-> i, plan |-> incidents[i].binding] \in ActionKey
          BY <4>1, Before DEF PlanInv, LatestInv
        <5>2. [incident |-> i, plan |-> incidents[i].binding].plan \in Plan
          BY <5>1, ActionKeyOf
        <5>3. QED
          BY <5>2
      <4>3. ActionOf(r) = [incident |-> i, plan |-> ActionOf(r).plan]
        BY DEF ActionOf
      <4>4. ActionOf(r).plan = incidents[i].binding
        BY <4>2, OnePlanAssumption, ThePlan
      <4>5. QED
        BY <4>1, <4>3, <4>4
    <3>5. QED
      BY <1>1, <3>2, <3>3, <3>4 DEF Knows
  <2>5. CASE Snapshot(r) /\ ~ Stop(r)
    <3>1. PICK at, budget : cycle' = [cycle EXCEPT ![r] = [cycle[r] EXCEPT
            !.pc = IF cycle[r].state = "WAITING_APPROVAL" THEN "resume" ELSE "decide",
            !.at = at, !.budget = budget]]
      BY <2>5 DEF Snapshot, Go
    <3>2. /\ cycle'[r].pc = IF cycle[r].state = "WAITING_APPROVAL" THEN "resume" ELSE "decide"
          /\ cycle'[r].id = cycle[r].id /\ cycle'[r].binding = cycle[r].binding
      BY <1>0, <3>1 DEF CycleRecord
    <3>3. ActionOf(r)' = ActionOf(r)
      BY <3>2 DEF ActionOf
    <3>4. cycle[r].pc = "snapshot"
      BY <2>5 DEF Snapshot, At
    <3>5. QED
      BY <1>1, <3>2, <3>3, <3>4 DEF Knows, PlanInv
  <2>6. QED
    BY <2>1, <2>2, <2>3, <2>4, <2>5 DEF Stop, Go
<1>5. QED
  BY <1>1, <1>2, <1>3, <1>4 DEF PlanInv

LEMMA PlanStep ==
  ASSUME ClaimReturnsBinding, PlanInv, [AgentNext]_agentVars
  PROVE  PlanInv'
<1>1. LatestInv' /\ plans \subseteq plans'
  BY LatestStep, PlansStay DEF PlanInv
<1>2. CASE \E r \in Holder : CycleStep(r) \/ CycleAborts(r)
  BY <1>2, PlanOfCycle
<1>3. CASE UNCHANGED cycle /\ WaitingKept
  <2>1. \A q \in Holder : Knows(q)'
    BY <1>3, KnowsKept
  <2>2. WaitingPlanned'
    BY <1>1, <1>3 DEF WaitingKept, WaitingPlanned, PlanInv
  <2>3. QED
    BY <1>1, <2>1, <2>2 DEF PlanInv
<1>4. CASE \E r \in Holder : WorkerStep(r) \/ WorkerAborts(r)
  BY <1>3, <1>4, AdvanceOfWorker, WaitingKeptByWorker DEF PlanInv
<1>5. CASE (\E k \in ActionKey : Grant(k)) \/ Tick \/ UNCHANGED agentVars
  BY <1>3, <1>5 DEF Grant, Tick, agentVars, registryVars, WaitingKept
<1>6. QED
  BY <1>2, <1>4, <1>5 DEF AgentNext, FaultlessNext

LEMMA PlanInit == AgentInit => PlanInv
<1> SUFFICES ASSUME AgentInit PROVE PlanInv
  OBVIOUS
<1>1. \A r \in Holder : cycle[r].pc = "idle"
  BY DEF AgentInit, IdleCycle
<1>2. \A i \in IncidentID : incidents[i].state = "NONE"
  BY DEF AgentInit, RegistryInit, NoIncident
<1>3. QED
  BY <1>1, <1>2, LatestInit DEF PlanInv, WaitingPlanned, Knows

LEMMA KnownWhenResuming == PlanInv => ResumeFindsPlan
  BY DEF PlanInv, WaitingPlanned, Knows, ResumeFindsPlan, At

(* With a registry whose claims return the binding (the one in memory) a    *)
(* cycle that resumes a waiting incident finds the plan it waits for.       *)
THEOREM WaitingPlansAreFound ==
  ASSUME ClaimReturnsBinding
  PROVE  AgentSpec => []ResumeFindsPlan
<1>1. AgentInit => PlanInv
  BY PlanInit
<1>2. PlanInv /\ [AgentNext]_agentVars => PlanInv'
  BY PlanStep
<1>3. PlanInv => ResumeFindsPlan
  BY KnownWhenResuming
<1>4. QED
  BY <1>1, <1>2, <1>3, PTL DEF AgentSpec
================================================================================
