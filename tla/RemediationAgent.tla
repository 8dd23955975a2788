--------------------------- MODULE RemediationAgent ---------------------------
(***************************************************************************)
(* The remediation agent: replicas that share the registry, the approval,   *)
(* plan and attempt stores, the remediation state (a ConfigMap) and the     *)
(* cluster.  A replica runs two goroutines under one holder ID: the cycle,  *)
(* which takes a firing alert from observation to the action on the pod     *)
(* and into verification, and the verification worker.                      *)
(*                                                                         *)
(* Each call to a store or to Kubernetes is one step and everything else a  *)
(* replica knows is what it remembers from its earlier calls, so replicas   *)
(* interleave between any two calls.  A goroutine may give up after any     *)
(* step: a call that failed, an answer that was lost, a crash and restart.  *)
(***************************************************************************)
EXTENDS IncidentRegistry, Sequences

CONSTANTS
  OwnerOf,              \* the workload (ReplicaSet) that owns each pod
  LeaseDuration,        \* config.IncidentClaimLeaseDuration
  AttemptWindow,        \* config.AttemptWindow
  RestartCooldown,      \* config.RestartCooldown
  MaximumAttempts,      \* config.MaximumAttempts
  ApprovalWindow,       \* how long a granted approval lasts
  ClaimReturnsBinding   \* memory registry: TRUE; PostgreSQL registry: FALSE

(* One PodCrashLooping alert per pod: a key stands for the pod's UID.  The  *)
(* plan of an incident is determined by the incident and its pod.           *)
ASSUME OwnerAssumption == OwnerOf \in [Key -> Subject]
ASSUME DurationAssumption ==
  /\ LeaseDuration \in Lease
  /\ AttemptWindow \in Nat \ {0} /\ RestartCooldown \in Nat \ {0}
  /\ MaximumAttempts \in Nat \ {0} /\ ApprovalWindow \in Nat \ {0}
  /\ ClaimReturnsBinding \in BOOLEAN
ASSUME OnePlanAssumption == \E p \in Plan : Plan = {p}
ASSUME ClockAssumption == 1 \in Time

VARIABLES
  now,            \* the clock
  pods,           \* the pods (by key) that still exist in the cluster
  approvals,      \* approval.Store: the validity window, NoApproval if absent
  plans,          \* approval.PlanStore: the plans published
  handledAt,      \* remediation state: when each pod was last handled, or 0
  lastActionAt,   \* remediation state: last action on each workload, or 0
  attemptTimes,   \* remediation state: actions counted against each workload
  executions,     \* the delete calls issued for each action (history)
  cycle,          \* the main loop of each replica
  worker          \* the verification worker of each replica

clusterVars == <<now, pods, approvals>>
memoryVars == <<handledAt, lastActionAt, attemptTimes>>
agentVars == <<registryVars, clusterVars, memoryVars, plans, executions, cycle, worker>>

NoApproval == [from |-> 0, until |-> 0]

NoKey == 0

NoAction == [incident |-> 0, plan |-> NoPlan]

IdleCycle ==
  [pc |-> "idle", key |-> NoKey, id |-> 0, version |-> 0, state |-> "NONE",
   binding |-> NoPlan, at |-> 0, checkedAt |-> 0, budget |-> FALSE,
   attempt |-> NoAttempt]

IdleWorker ==
  [pc |-> "idle", k |-> NoAction, version |-> 0, vversion |-> 0]

-----------------------------------------------------------------------------
(* The remediation state: what the agent remembers of its own actions.      *)

Retained(t) == t + AttemptWindow >= now

Cooling(t) == t # 0 /\ now < t + RestartCooldown

(* Snapshot drops what has aged out before it answers. *)
PruneMemory ==
  /\ handledAt' = [key \in Key |-> IF Retained(handledAt[key]) THEN handledAt[key] ELSE 0]
  /\ attemptTimes' = [s \in Subject |-> SelectSeq(attemptTimes[s], Retained)]
  /\ lastActionAt' = [s \in Subject |->
       IF lastActionAt[s] + RestartCooldown < now THEN 0 ELSE lastActionAt[s]]

Duplicate(key) == handledAt'[key] # 0

WithinBudget(s) ==
  /\ ~ Cooling(lastActionAt'[s])
  /\ Len(attemptTimes'[s]) < MaximumAttempts

(* Faulty: the end of the cooldown is stored where its start belongs. *)
RecordActionCooldownEnd(key, at) ==
  /\ handledAt' = [handledAt EXCEPT ![key] = at]
  /\ lastActionAt' = [lastActionAt EXCEPT ![OwnerOf[key]] = at + RestartCooldown]
  /\ attemptTimes' = [attemptTimes EXCEPT ![OwnerOf[key]] = Append(@, at)]

(* Record, for an action: counted before Kubernetes is called. *)
RecordAction(key, at) ==
  /\ handledAt' = [handledAt EXCEPT ![key] = at]
  /\ lastActionAt' = [lastActionAt EXCEPT ![OwnerOf[key]] = at]
  /\ attemptTimes' = [attemptTimes EXCEPT ![OwnerOf[key]] = Append(@, at)]

RecordHandled(key, at) ==
  /\ handledAt' = [handledAt EXCEPT ![key] = at]
  /\ UNCHANGED <<lastActionAt, attemptTimes>>

(* approval.Validate: the window is closed on the left, open on the right.  *)
ApprovalValid(k, at) ==
  /\ approvals[k] # NoApproval
  /\ at >= approvals[k].from
  /\ at < approvals[k].until

-----------------------------------------------------------------------------
(* The cycle *)

At(r, pc) == cycle[r].pc = pc

(* The action key of the incident the cycle of r is working on. *)
ActionOf(r) == [incident |-> cycle[r].id, plan |-> CHOOSE p \in Plan : TRUE]

Go(r, next) == cycle' = [cycle EXCEPT ![r] = next]

Stop(r) == Go(r, IdleCycle)

(* Take up an alert whose pod the collector can still read. *)
Collect(r) ==
  /\ At(r, "idle")
  /\ \E key \in pods : Go(r, [IdleCycle EXCEPT !.pc = "observe", !.key = key])
  /\ UNCHANGED <<registryVars, clusterVars, memoryVars, plans, executions, worker>>

ObserveIncident(r) ==
  /\ At(r, "observe")
  /\ Observe(cycle[r].key)
  /\ LET id == activeByKey'[cycle[r].key] IN
       Go(r, [cycle[r] EXCEPT !.pc = "claim", !.id = id, !.version = incidents'[id].version])
  /\ UNCHANGED <<clusterVars, memoryVars, plans, executions, worker>>

(* From here on the incident is the one the claim returned. *)
ClaimIncident(r) ==
  LET i == cycle[r].id
      version == cycle[r].version
  IN
  /\ At(r, "claim")
  /\ IF ClaimAccepted(i, version, r, now)
       THEN /\ Claim(i, version, r, now, LeaseDuration)
            /\ Go(r, [cycle[r] EXCEPT
                 !.pc = "snapshot",
                 !.version = version + 1,
                 !.state = incidents[i].state,
                 !.binding = IF ClaimReturnsBinding THEN incidents[i].binding ELSE NoPlan])
       ELSE Stop(r) /\ UNCHANGED registryVars
  /\ UNCHANGED <<clusterVars, memoryVars, plans, executions, worker>>

(* Snapshot; the time read here is the one every later record carries.      *)
Snapshot(r) ==
  /\ At(r, "snapshot")
  /\ PruneMemory
  /\ IF Duplicate(cycle[r].key)
       THEN Stop(r)
       ELSE Go(r, [cycle[r] EXCEPT
              !.pc = IF cycle[r].state = "WAITING_APPROVAL" THEN "resume" ELSE "decide",
              !.at = now,
              !.budget = WithinBudget(OwnerOf[cycle[r].key])])
  /\ UNCHANGED <<registryVars, clusterVars, plans, executions, worker>>

(* The model's decision, then the transition to DIAGNOSED.  Only a restart  *)
(* can be approved; any other decision is denied by the policy.             *)
Decide(r) ==
  LET i == cycle[r].id
      version == cycle[r].version
  IN
  /\ At(r, "decide")
  /\ IF TransitionAccepted(i, version, "DIAGNOSED", NoPlan)
       THEN /\ Transition(i, version, "DIAGNOSED", NoPlan)
            /\ \E pc \in {"approval", "deny"} :
                 Go(r, [cycle[r] EXCEPT !.pc = pc, !.version = version + 1])
       ELSE Stop(r) /\ UNCHANGED registryVars
  /\ UNCHANGED <<clusterVars, memoryVars, plans, executions, worker>>

(* Faulty: the validity window is not looked at. *)
StoredApprovalFound(r) == approvals[ActionOf(r)] # NoApproval

(* checkStoredApproval: what is stored must be valid at this moment; absent,*)
(* expired and future approvals all mean that the incident has to wait.     *)
StoredApprovalGranted(r) == ApprovalValid(ActionOf(r), now)

(* Stored approval and policy: target, owner, confidence and risk are data  *)
(* (eligible), the budget is what the snapshot said.                        *)
CheckApproval(r) ==
  /\ At(r, "approval")
  /\ \E eligible \in BOOLEAN :
       Go(r, [cycle[r] EXCEPT
         !.pc = IF ~ (eligible /\ cycle[r].budget) THEN "deny"
                ELSE IF StoredApprovalGranted(r) THEN "record" ELSE "publish",
         !.checkedAt = now])
  /\ UNCHANGED <<registryVars, clusterVars, memoryVars, plans, executions, worker>>

Deny(r) ==
  /\ At(r, "deny")
  /\ RecordHandled(cycle[r].key, cycle[r].at)
  /\ Stop(r)
  /\ UNCHANGED <<registryVars, clusterVars, plans, executions, worker>>

(* Faulty: the plan is shown to the operator but not published. *)
PublishPlanUnstored(r) ==
  /\ At(r, "publish")
  /\ Go(r, [cycle[r] EXCEPT !.pc = "await"])
  /\ UNCHANGED <<registryVars, clusterVars, memoryVars, plans, executions, worker>>

PublishPlan(r) ==
  /\ At(r, "publish")
  /\ plans' = plans \cup {ActionOf(r)}
  /\ Go(r, [cycle[r] EXCEPT !.pc = "await"])
  /\ UNCHANGED <<registryVars, clusterVars, memoryVars, executions, worker>>

AwaitApproval(r) ==
  LET k == ActionOf(r) IN
  /\ At(r, "await")
  /\ IF TransitionAccepted(k.incident, cycle[r].version, "WAITING_APPROVAL", k.plan)
       THEN Transition(k.incident, cycle[r].version, "WAITING_APPROVAL", k.plan)
       ELSE UNCHANGED registryVars
  /\ Stop(r)
  /\ UNCHANGED <<clusterVars, memoryVars, plans, executions, worker>>

(* recoverWaitingApprovalPlan: the binding names a published plan.          *)
WaitingPlanRecovered(r) ==
  cycle[r].binding = ActionOf(r).plan /\ ActionOf(r) \in plans

(* Faulty: the published plan is taken for an approved one. *)
WaitingApprovalAssumed(r) == ActionOf(r) \in plans

(* waitingApprovalGranted: the approval as of the time of the snapshot.     *)
WaitingApprovalGranted(r) == ApprovalValid(ActionOf(r), cycle[r].at)

(* resumeWaitingApproval up to the action: plan, approval and policy.       *)
Resume(r) ==
  /\ At(r, "resume")
  /\ \E eligible \in BOOLEAN :
       IF /\ WaitingPlanRecovered(r) /\ WaitingApprovalGranted(r)
          /\ eligible /\ cycle[r].budget
         THEN Go(r, [cycle[r] EXCEPT !.pc = "record", !.checkedAt = cycle[r].at])
         ELSE Stop(r)
  /\ UNCHANGED <<registryVars, clusterVars, memoryVars, plans, executions, worker>>

RecordAttempt(r) ==
  /\ At(r, "record")
  /\ RecordAction(cycle[r].key, cycle[r].at)
  /\ Go(r, [cycle[r] EXCEPT !.pc = "fence"])
  /\ UNCHANGED <<registryVars, clusterVars, plans, executions, worker>>

-----------------------------------------------------------------------------
(* Faulty: the attempt begins under the version of before the claim. *)
ClaimActionKeepingVersion(r) ==
  LET i == cycle[r].id
      version == cycle[r].version
  IN
  /\ At(r, "fence")
  /\ plans' = plans \cup {ActionOf(r)}
  /\ IF ClaimAccepted(i, version, r, now)
       THEN /\ Claim(i, version, r, now, LeaseDuration)
            /\ Go(r, [cycle[r] EXCEPT !.pc = "begin"])
       ELSE Stop(r) /\ UNCHANGED registryVars
  /\ UNCHANGED <<clusterVars, memoryVars, executions, worker>>

(* beginActionAttempt: publish the plan, re-claim the incident, and only    *)
(* under that claim begin the attempt.  Publishing is idempotent and        *)
(* nothing withdraws a plan, so it shares a step with the claim.            *)
ClaimAction(r) ==
  LET i == cycle[r].id
      version == cycle[r].version
  IN
  /\ At(r, "fence")
  /\ plans' = plans \cup {ActionOf(r)}
  /\ IF ClaimAccepted(i, version, r, now)
       THEN /\ Claim(i, version, r, now, LeaseDuration)
            /\ Go(r, [cycle[r] EXCEPT !.pc = "begin", !.version = version + 1])
       ELSE Stop(r) /\ UNCHANGED registryVars
  /\ UNCHANGED <<clusterVars, memoryVars, executions, worker>>

(* Faulty: an attempt left STARTED by another is executed again. *)
BeginExecutingAgain(r) ==
  LET k == ActionOf(r)
      a == attempts[k]
      token == cycle[r].version
  IN
  /\ At(r, "begin")
  /\ BeginAttempt(k, token, now)
  /\ IF a.status \in TerminalAttempt
       THEN Go(r, [cycle[r] EXCEPT !.pc = "verify", !.attempt = a])
       ELSE Go(r, [cycle[r] EXCEPT !.pc = "delete"])
  /\ UNCHANGED <<incidents, activeByKey, claims, claimHistory, nextSequence, verifications>>
  /\ UNCHANGED <<clusterVars, memoryVars, plans, executions, worker>>

(* Only the replica that created the attempt executes.  An attempt left     *)
(* STARTED by an earlier token is recovered, a terminal one is verified.    *)
Begin(r) ==
  LET k == ActionOf(r)
      a == attempts[k]
      token == cycle[r].version
  IN
  /\ At(r, "begin")
  /\ BeginAttempt(k, token, now)
  /\ IF ~ AttemptExists(k) THEN Go(r, [cycle[r] EXCEPT !.pc = "delete"])
     ELSE IF a.status \in TerminalAttempt
       THEN Go(r, [cycle[r] EXCEPT !.pc = "verify", !.attempt = a])
     ELSE IF token > a.token THEN Go(r, [cycle[r] EXCEPT !.pc = "recover"])
     ELSE Stop(r)
  /\ UNCHANGED <<incidents, activeByKey, claims, claimHistory, nextSequence, verifications>>
  /\ UNCHANGED <<clusterVars, memoryVars, plans, executions, worker>>

Recover(r) ==
  LET k == ActionOf(r) IN
  /\ At(r, "recover")
  /\ IF RecoveryAccepted(k, cycle[r].version, now)
       THEN /\ RecoverAttempt(k, cycle[r].version, now)
            /\ Go(r, [cycle[r] EXCEPT !.pc = "verify", !.attempt = attempts'[k]])
       ELSE Stop(r) /\ UNCHANGED attempts
  /\ UNCHANGED <<incidents, activeByKey, claims, claimHistory, nextSequence, verifications>>
  /\ UNCHANGED <<clusterVars, memoryVars, plans, executions, worker>>

(* The pod is deleted on condition that it still has the plan's UID.  The   *)
(* error may hide a deletion that happened.                                 *)
Delete(r) ==
  LET k == ActionOf(r)
      key == cycle[r].key
  IN
  /\ At(r, "delete")
  /\ executions' = [executions EXCEPT ![k] = Append(@,
       [by |-> r, token |-> cycle[r].version, checkedAt |-> cycle[r].checkedAt, at |-> now])]
  /\ \/ /\ key \in pods
        /\ pods' = pods \ {key}
        /\ \E status \in CompletedStatus :
             Go(r, [cycle[r] EXCEPT !.pc = "complete", !.state = status])
     \/ /\ UNCHANGED pods
        /\ Go(r, [cycle[r] EXCEPT !.pc = "complete", !.state = "FAILED"])
  /\ UNCHANGED <<registryVars, now, approvals, memoryVars, plans, worker>>

Complete(r) ==
  LET k == ActionOf(r) IN
  /\ At(r, "complete")
  /\ IF CompletionAccepted(k, cycle[r].version, 1, cycle[r].state, now)
       THEN /\ CompleteAttempt(k, cycle[r].version, 1, cycle[r].state, now)
            /\ Go(r, [cycle[r] EXCEPT !.pc = "verify", !.attempt = attempts'[k]])
       ELSE Stop(r) /\ UNCHANGED attempts
  /\ UNCHANGED <<incidents, activeByKey, claims, claimHistory, nextSequence, verifications>>
  /\ UNCHANGED <<clusterVars, memoryVars, plans, executions, worker>>

(* beginVerification, with the token of the action claim. *)
Verify(r) ==
  LET k == ActionOf(r)
      subject == OwnerOf[cycle[r].key]
      version == cycle[r].version
  IN
  /\ At(r, "verify")
  /\ IF FencedBeginAccepted(k, version, r, now, cycle[r].attempt, subject)
       THEN BeginFencedVerification(k, version, r, now, cycle[r].attempt, subject)
       ELSE UNCHANGED registryVars
  /\ Stop(r)
  /\ UNCHANGED <<clusterVars, memoryVars, plans, executions, worker>>

CycleStep(r) ==
  \/ Collect(r) \/ ObserveIncident(r) \/ ClaimIncident(r) \/ Snapshot(r)
  \/ Decide(r) \/ CheckApproval(r) \/ Deny(r) \/ PublishPlan(r) \/ AwaitApproval(r)
  \/ Resume(r) \/ RecordAttempt(r) \/ ClaimAction(r) \/ Begin(r) \/ Recover(r)
  \/ Delete(r) \/ Complete(r) \/ Verify(r)
-----------------------------------------------------------------------------
(* The verification worker: first a resolution that is owed to a RECOVERED  *)
(* verification, then a pending verification.                               *)

WorkerAt(r, pc) == worker[r].pc = pc

WorkerGo(r, next) == worker' = [worker EXCEPT ![r] = next]

WorkerStop(r) == WorkerGo(r, IdleWorker)

UNCHANGEDByWorker == UNCHANGED <<clusterVars, memoryVars, plans, executions, cycle>>

ClaimResolution(r) ==
  /\ WorkerAt(r, "idle")
  /\ \E k \in ActionKey :
       /\ ClaimRecoveredVerificationResolution(k, r, now, LeaseDuration)
       /\ WorkerGo(r,
            [pc |-> "resolveClaimed", k |-> k, version |-> incidents'[k.incident].version,
             vversion |-> verifications[k].version])
  /\ UNCHANGEDByWorker

(* Resolve, for claimed resolution work or for the result just completed.   *)
(* A failure to resolve claimed work does not end the iteration.            *)
ResolveIncident(r) ==
  LET k == worker[r].k IN
  /\ WorkerAt(r, "resolveClaimed") \/ WorkerAt(r, "resolveCompleted")
  /\ IF ResolveAccepted(k.incident, worker[r].version, k, r, now)
       THEN Resolve(k.incident, worker[r].version, k, r, now) /\ WorkerStop(r)
       ELSE /\ IF WorkerAt(r, "resolveClaimed")
                 THEN WorkerGo(r, [IdleWorker EXCEPT !.pc = "pending"])
                 ELSE WorkerStop(r)
            /\ UNCHANGED registryVars
  /\ UNCHANGEDByWorker

(* From idle: the claim of recovered work found nothing or failed, and the  *)
(* iteration goes on either way.                                            *)
ClaimPending(r) ==
  /\ WorkerAt(r, "idle") \/ WorkerAt(r, "pending")
  /\ \/ \E k \in ActionKey :
          /\ ClaimPendingVerification(k, r, now, LeaseDuration)
          /\ WorkerGo(r,
               [pc |-> "execute", k |-> k, version |-> incidents'[k.incident].version,
                vversion |-> verifications[k].version])
     \/ /\ WorkerAt(r, "pending")
        /\ \A k \in ActionKey : ~ PendingWork(k, now)
        /\ WorkerStop(r)
        /\ UNCHANGED registryVars
  /\ UNCHANGEDByWorker

(* The check, and its result under the fence of the claim.  The Kubernetes  *)
(* executor never answers INCONCLUSIVE; what it sees is not constrained.    *)
CompleteWork(r) ==
  LET w == worker[r] IN
  /\ WorkerAt(r, "execute")
  /\ \E result \in {"RECOVERED", "NOT_RECOVERED"} :
       IF FencedCompletionAccepted(w.k, w.version, r, now, w.vversion, result)
         THEN /\ CompleteFencedVerification(w.k, w.version, r, now, w.vversion, result)
              /\ IF result = "RECOVERED"
                   THEN WorkerGo(r, [w EXCEPT !.pc = "resolveCompleted"])
                   ELSE WorkerStop(r)
         ELSE WorkerStop(r) /\ UNCHANGED registryVars
  /\ UNCHANGEDByWorker

WorkerStep(r) ==
  \/ ClaimResolution(r) \/ ResolveIncident(r) \/ ClaimPending(r) \/ CompleteWork(r)

-----------------------------------------------------------------------------
(* The environment *)

Tick ==
  /\ now + 1 \in Time
  /\ now' = now + 1
  /\ UNCHANGED <<registryVars, pods, approvals, memoryVars, plans, executions, cycle, worker>>

(* An operator grants an approval: once per action, never replaced.  The    *)
(* store asks only that the incident exists.  The window is the operator's, *)
(* so it may have begun before or, by a clock that is ahead, begin later.   *)
Grant(k) ==
  /\ IncidentExists(k.incident)
  /\ approvals[k] = NoApproval
  /\ \E from \in {now - 1, now, now + 1} :
       approvals' = [approvals EXCEPT ![k] = [from |-> from, until |-> from + ApprovalWindow]]
  /\ UNCHANGED <<registryVars, now, pods, memoryVars, plans, executions, cycle, worker>>

(* A goroutine gives up where it stands: a call failed or timed out, its    *)
(* answer was lost, or the process was killed and started again.            *)
CycleAborts(r) ==
  /\ ~ At(r, "idle")
  /\ Stop(r)
  /\ UNCHANGED <<registryVars, clusterVars, memoryVars, plans, executions, worker>>

WorkerAborts(r) ==
  /\ ~ WorkerAt(r, "idle")
  /\ WorkerStop(r)
  /\ UNCHANGED registryVars
  /\ UNCHANGEDByWorker

AgentInit ==
  /\ RegistryInit
  /\ now = 1
  /\ pods = Key
  /\ approvals = [k \in ActionKey |-> NoApproval]
  /\ plans = {}
  /\ handledAt = [key \in Key |-> 0]
  /\ lastActionAt = [s \in Subject |-> 0]
  /\ attemptTimes = [s \in Subject |-> <<>>]
  /\ executions = [k \in ActionKey |-> <<>>]
  /\ cycle = [r \in Holder |-> IdleCycle]
  /\ worker = [r \in Holder |-> IdleWorker]

(* Without faults every call answers; what it answers is still open.        *)
FaultlessNext ==
  \/ \E r \in Holder : CycleStep(r) \/ WorkerStep(r)
  \/ \E k \in ActionKey : Grant(k)
  \/ Tick

AgentNext ==
  \/ FaultlessNext
  \/ \E r \in Holder : CycleAborts(r) \/ WorkerAborts(r)

AgentSpec == AgentInit /\ [][AgentNext]_agentVars

FaultlessSpec == AgentInit /\ [][FaultlessNext]_agentVars

-----------------------------------------------------------------------------
(* Properties *)

CyclePC ==
  {"idle", "observe", "claim", "snapshot", "decide", "approval", "deny", "publish",
   "await", "resume", "record", "fence", "begin", "recover", "delete", "complete", "verify"}

WorkerPC ==
  {"idle", "resolveClaimed", "pending", "execute", "resolveCompleted"}

(* Types of what the replicas and the shared stores hold. *)
AgentTypeOK ==
  /\ now \in Time /\ pods \subseteq Key /\ plans \subseteq ActionKey
  /\ handledAt \in [Key -> Time \cup {0}]
  /\ lastActionAt \in [Subject -> Time \cup {0}]
  /\ \A r \in Holder :
       /\ cycle[r].pc \in CyclePC
       /\ cycle[r].key \in Key \cup {NoKey}
       /\ cycle[r].id \in IncidentID \cup {0}
       /\ worker[r].pc \in WorkerPC
       /\ worker[r].k \in ActionKey \cup {NoAction}

(* An action is executed at most once, by whichever replica, after however  *)
(* many crashes, lost answers and takeovers; and what was executed had been *)
(* authorised: the executor owns the persisted attempt, under a token of an *)
(* audited claim of its own, for a published plan whose approval was in     *)
(* force when it was checked.  (It may have run out between the check and   *)
(* the call.)                                                               *)
ExecutionAuthorised ==
  \A k \in ActionKey : executions[k] # <<>> =>
    LET e == executions[k][1] IN
      /\ Len(executions[k]) = 1
      /\ AttemptExists(k) /\ attempts[k].token = e.token
      /\ \E event \in claimHistory[k.incident] :
           event.version = e.token /\ event.holder = e.by
      /\ k \in plans
      /\ ApprovalValid(k, e.checkedAt) /\ e.checkedAt <= e.at

(* A waiting incident can be resumed: a cycle that claimed it holds the     *)
(* binding it waits under, and the plan so named had been published.        *)
ResumeFindsPlan ==
  /\ \A r \in Holder : At(r, "resume") =>
       cycle[r].binding = ActionOf(r).plan /\ ActionOf(r) \in plans
  /\ \A i \in IncidentID : incidents[i].state = "WAITING_APPROVAL" =>
       [incident |-> i, plan |-> incidents[i].binding] \in plans

(* Under verification there is something to verify, and what is resolved    *)
(* was resolved by evidence: the agent never uses the registry's other ways *)
(* into VERIFYING and RESOLVED.                                             *)
VerifyingHasWork ==
  \A i \in IncidentID :
    /\ incidents[i].state = "VERIFYING" =>
         \E k \in ActionKey : k.incident = i /\ VerificationExists(k)
    /\ incidents[i].state = "RESOLVED" => incidents[i].resolvedBy # NoPlan

(* Whoever moves an incident to another state holds its latest claim: a     *)
(* goroutine that kept an older token, stalled between two calls while      *)
(* another took over, gets nowhere.                                         *)
Moves(r) == cycle'[r] # cycle[r] \/ worker'[r] # worker[r]

AdvancedByLatestHolder ==
  [][\A i \in IncidentID, r \in Holder :
       (/\ IncidentExists(i) /\ Moves(r)
        /\ incidents'[i].state # incidents[i].state) => claims[i].holder = r]_agentVars

(* The agent calls the registry and the attempt store only as RegistrySpec  *)
(* lets callers call them, so what holds of RegistrySpec holds here.        *)
AgentUsesRegistry == RegistrySpec

(* The agent implements the lifecycle it promises. *)
TheAction(i) == [incident |-> i, plan |-> CHOOSE p \in Plan : TRUE]

StageOf(i) ==
  CASE ~ IncidentExists(i) -> "absent"
    [] incidents[i].state = "VERIFYING" -> "verifying"
    [] incidents[i].state = "RESOLVED" -> "closed"
    [] OTHER -> "open"

AttemptStageOf(i) ==
  CASE ~ AttemptExists(TheAction(i)) -> "none"
    [] attempts[TheAction(i)].status = "STARTED" -> "running"
    [] OTHER -> "over"

VerdictOf(i) ==
  CASE verifications[TheAction(i)].status = "RECOVERED" -> "recovered"
    [] verifications[TheAction(i)].status \in VerificationResult \ {"RECOVERED"} -> "other"
    [] OTHER -> "none"

Lifecycle == INSTANCE IncidentLifecycle WITH
  Incidents <- IncidentID,
  stage <- [i \in IncidentID |-> StageOf(i)],
  approved <- [i \in IncidentID |-> approvals[TheAction(i)] # NoApproval],
  attempt <- [i \in IncidentID |-> AttemptStageOf(i)],
  acted <- [i \in IncidentID |-> executions[TheAction(i)] # <<>>],
  verdict <- [i \in IncidentID |-> VerdictOf(i)]

AgentImplementsLifecycle == Lifecycle!LifecycleSpec

(* An action that was begun comes to verification: a terminal attempt is   *)
(* put under verification, and one left STARTED by a replica that was lost  *)
(* is recovered first.  Only a cycle does either, and a cycle starts from a *)
(* pod it can read; so once the pod is gone some cycle must be on its way,  *)
(* or the attempt stays where it is.                                        *)
OnItsWay(k) == \E r \in Holder : ~ At(r, "idle") /\ cycle[r].id \in {0, k.incident}

AttemptReachesVerification ==
  \A k \in ActionKey :
    (/\ AttemptExists(k)
     /\ incidents[k.incident].state \notin {"VERIFYING", "RESOLVED"}
     /\ incidents[k.incident].key \notin pods) => OnItsWay(k)

(* An incident with a published plan is taken up again by the cycle that    *)
(* comes for its pod, whatever became of the cycle that published it: a     *)
(* cycle resumes a waiting incident and can diagnose a detected one, but a  *)
(* diagnosed one stops it (agent.go:520).                                   *)
CycleGetsThrough(i) ==
  \/ incidents[i].state = "WAITING_APPROVAL"
  \/ TransitionAccepted(i, incidents[i].version, "DIAGNOSED", NoPlan)

PlannedIncidentIsResumable ==
  \A k \in plans :
    (/\ incidents[k.incident].state \notin {"VERIFYING", "RESOLVED"}
     /\ incidents[k.incident].key \in pods) => OnItsWay(k) \/ CycleGetsThrough(k.incident)
=============================================================================
