------------------------ MODULE RemediationAgentProofs ------------------------
(***************************************************************************)
(* What the remediation agent guarantees for any number of replicas, pods   *)
(* and incidents, whatever calls fail and whichever replica is lost: that   *)
(* it keeps to the rules of the registry, and that an action is executed at *)
(* most once and only when it was authorised.                               *)
(***************************************************************************)
EXTENDS RemediationAgent, IncidentRegistryProofs, SequenceTheorems

(* What a replica remembers, by type.                                       *)
CycleRecord ==
  [pc: CyclePC, key: Key \cup {NoKey}, id: IncidentID \cup {0}, version: Version \cup {0},
   state: State \cup CompletedStatus \cup {"NONE"}, binding: Plan \cup {NoPlan},
   at: Time \cup {0}, checkedAt: Time \cup {0}, budget: BOOLEAN,
   attempt: Attempt \cup {NoAttempt}]

WorkerRecord ==
  [pc: WorkerPC, k: ActionKey \cup {NoAction}, version: Version \cup {0}, vversion: {0, 1, 2}]

MemoryTypes ==
  /\ AgentTypeOK
  /\ approvals \in [ActionKey -> [from: Nat, until: Nat]]
  /\ executions \in [ActionKey -> Seq([by: Holder, token: Version, checkedAt: Time, at: Time])]
  /\ cycle \in [Holder -> CycleRecord]
  /\ worker \in [Holder -> WorkerRecord]

(* From the claim of the action on, the version a cycle holds is the token  *)
(* of a claim it was granted, for a plan that was published.                *)
Owning(r) == cycle[r].pc \in {"begin", "recover", "delete", "complete", "verify"}

HoldsToken(r) ==
  /\ ActionOf(r) \in plans
  /\ \E event \in claimHistory[cycle[r].id] :
       event.version = cycle[r].version /\ event.holder = r

(* On the way to the action the approval that was found stays found.        *)
Approved(r) == cycle[r].pc \in {"record", "fence", "begin", "delete"}

ApprovalFound(r) ==
  /\ ApprovalValid(ActionOf(r), cycle[r].checkedAt)
  /\ cycle[r].checkedAt <= now

CycleOK(r) ==
  /\ cycle[r].pc # "idle" => cycle[r].key \in Key
  /\ cycle[r].pc \notin {"idle", "observe"} =>
       cycle[r].id \in IncidentID /\ IncidentExists(cycle[r].id) /\ cycle[r].version \in Version
  /\ cycle[r].pc \notin {"idle", "observe", "claim", "snapshot"} =>
       cycle[r].at \in Time /\ cycle[r].at <= now
  /\ cycle[r].pc \in {"record", "fence", "begin", "delete"} => cycle[r].checkedAt \in Time
  /\ Owning(r) => HoldsToken(r)
  /\ Approved(r) => ApprovalFound(r)
  /\ cycle[r].pc = "delete" =>
       /\ AttemptExists(ActionOf(r))
       /\ attempts[ActionOf(r)].token = cycle[r].version
       /\ executions[ActionOf(r)] = <<>>
  /\ cycle[r].pc = "complete" => cycle[r].state \in CompletedStatus
  /\ cycle[r].pc = "verify" =>
       /\ cycle[r].attempt = attempts[ActionOf(r)]
       /\ attempts[ActionOf(r)].status \in TerminalAttempt

WorkerOK(r) ==
  /\ worker[r].pc \notin {"idle", "pending"} => worker[r].k \in ActionKey
  /\ worker[r].pc = "execute" => worker[r].vversion = 1

(* A verification is completed from its first version.                      *)
PendingIsFirst ==
  \A k \in ActionKey : verifications[k].status = "PENDING" => verifications[k].version = 1

(* The inductive invariant.                                                 *)
AgentInv ==
  /\ RegistryInv
  /\ PendingIsFirst
  /\ MemoryTypes
  /\ \A r \in Holder : CycleOK(r)
  /\ \A r \in Holder : WorkerOK(r)
  /\ ExecutionAuthorised

-----------------------------------------------------------------------------
(* The plan of an incident is the only one. *)
LEMMA ThePlan ==
  ASSUME NEW r \in Holder
  PROVE  /\ ActionOf(r).plan \in Plan
         /\ ActionOf(r).incident = cycle[r].id
         /\ cycle[r].id \in IncidentID => ActionOf(r) \in ActionKey
  BY OnePlanAssumption, ActionKeyOf DEF ActionOf

LEMMA AgentInvInit == AgentInit => AgentInv
<1> SUFFICES ASSUME AgentInit PROVE AgentInv
  OBVIOUS
<1>1. RegistryInv
  BY RegistryInvInit DEF AgentInit
<1>2. PendingIsFirst
  BY DEF AgentInit, RegistryInit, VerificationInit, NoVerification, PendingIsFirst
<1>3. \A r \in Holder : cycle[r] = IdleCycle /\ worker[r] = IdleWorker
  BY DEF AgentInit
<1>4. IdleCycle \in CycleRecord /\ IdleWorker \in WorkerRecord
  BY DEF IdleCycle, IdleWorker, CycleRecord, WorkerRecord, CyclePC, WorkerPC
<1>5. MemoryTypes
  <2>1. <<>> \in Seq([by: Holder, token: Version, checkedAt: Time, at: Time])
    OBVIOUS
  <2>2. 1 \in Time
    BY ClockAssumption
  <2>3. AgentTypeOK
    BY <1>3, <2>2 DEF AgentInit, AgentTypeOK, IdleCycle, IdleWorker, CyclePC, WorkerPC
  <2>4. QED
    BY <1>4, <2>1, <2>3 DEF AgentInit, MemoryTypes, NoApproval
<1>6. ASSUME NEW r \in Holder PROVE CycleOK(r) /\ WorkerOK(r)
  BY <1>3 DEF CycleOK, WorkerOK, Owning, Approved, IdleCycle, IdleWorker
<1>7. ExecutionAuthorised
  BY DEF AgentInit, ExecutionAuthorised
<1>8. QED
  BY <1>1, <1>2, <1>5, <1>6, <1>7 DEF AgentInv

-----------------------------------------------------------------------------
(* What every step of the registry keeps. *)
RegistryKeeps ==
  /\ \A i \in IncidentID :
       /\ claimHistory[i] \subseteq claimHistory'[i]
       /\ IncidentExists(i) => IncidentExists(i)'
  /\ \A k \in ActionKey : AttemptExists(k) =>
       /\ AttemptExists(k)'
       /\ attempts'[k].token = attempts[k].token
       /\ attempts[k].status \in TerminalAttempt => attempts'[k] = attempts[k]

LEMMA HistoryKept ==
  ASSUME RegistryInv, RegistryNext, NEW i \in IncidentID
  PROVE  claimHistory[i] \subseteq claimHistory'[i]
<1>1. CASE UNCHANGED claimHistory
  BY <1>1
<1>2. CASE ClaimGranted
  BY <1>2 DEF ClaimGranted, GrantClaim, Audited, RegistryInv, RegistryTypeOK
<1>3. QED
  BY <1>1, <1>2, RegistryStep
  DEF Observe, Transitioned, Transition, BegunFenced, BeginFencedVerification,
      CompletedFenced, CompleteFencedVerification, Resolved, Resolve, AttemptStep

LEMMA IncidentsStay ==
  ASSUME RegistryInv, RegistryNext, NEW i \in IncidentID, IncidentExists(i)
  PROVE  IncidentExists(i)'
<1>1. nextSequence \in Nat /\ nextSequence' \in Nat /\ nextSequence' >= nextSequence
  <2>1. nextSequence \in Nat
    BY DEF RegistryInv, RegistryTypeOK
  <2>2. nextSequence' = nextSequence \/ nextSequence' = nextSequence + 1
    BY RegistryStep
    DEF Observe, Transitioned, Transition, ClaimGranted, GrantClaim, BegunFenced,
        BeginFencedVerification, CompletedFenced, CompleteFencedVerification, Resolved, Resolve,
        AttemptStep
  <2>3. QED
    BY <2>1, <2>2
<1>2. RegistryInv'
  BY RegistryInvInductive
<1>3. QED
  BY <1>1, <1>2 DEF RegistryInv, IDsInSequence, IncidentID

LEMMA AttemptsStay ==
  ASSUME RegistryInv, RegistryNext, NEW k \in ActionKey, AttemptExists(k)
  PROVE  /\ AttemptExists(k)'
         /\ attempts'[k].token = attempts[k].token
         /\ attempts[k].status \in TerminalAttempt => attempts'[k] = attempts[k]
<1>1. CASE UNCHANGED attempts
  BY <1>1 DEF AttemptExists
<1>2. CASE \E j \in ActionKey, at \in Time : AttemptStep(j, at)
  <2>1. AttemptInv /\ AttemptNext
    BY <1>2, AttemptStepIsAttemptNext DEF RegistryInv, RegistryTypeOK, AttemptInv
  <2>2. AttemptInv'
    BY <2>1, AttemptInvInductive
  <2>3. /\ attempts'[k].token = attempts[k].token
        /\ attempts[k].status \in TerminalAttempt => attempts'[k] = attempts[k]
    BY <2>1, FinalStep
  <2>4. attempts[k] \in Attempt /\ attempts'[k] \in Attempt \cup {NoAttempt}
    BY <2>1, <2>2 DEF AttemptInv, AttemptTypeOK, AttemptExists, NoAttempt
  <2>5. attempts[k].token \in Nat \ {0}
    BY <2>4, VersionAssumption DEF Attempt
  <2>6. attempts'[k] # NoAttempt
    BY <2>3, <2>5 DEF NoAttempt
  <2>7. attempts'[k].status # "NONE"
    BY <2>4, <2>6 DEF Attempt, TerminalAttempt, CompletedStatus
  <2>8. QED
    BY <2>3, <2>7 DEF AttemptExists
<1>3. QED
  BY <1>1, <1>2, RegistryStep
  DEF Observe, Transitioned, Transition, ClaimGranted, GrantClaim, BegunFenced,
      BeginFencedVerification, CompletedFenced, CompleteFencedVerification, Resolved, Resolve

LEMMA PendingStaysFirst ==
  ASSUME RegistryInv, PendingIsFirst, RegistryNext
  PROVE  PendingIsFirst'
<1>0. verifications \in [ActionKey -> Verification \cup {NoVerification}]
  BY DEF RegistryInv, RegistryTypeOK, VerificationTypeOK
<1>1. CASE UNCHANGED verifications
  BY <1>1 DEF PendingIsFirst
<1>2. CASE BegunFenced
  <2>1. PICK k \in ActionKey, at \in Time, subject \in Subject :
          /\ BegunVerification(k, subject, at).status = "PENDING"
          /\ verifications' = [verifications EXCEPT ![k] = BegunVerification(k, subject, at)]
    BY <1>2 DEF BegunFenced, BeginFencedVerification, FencedBeginAccepted, BeginVerification
  <2>2. BegunVerification(k, subject, at).version = 1
    BY <2>1 DEF BegunVerification, NewVerification, PendingIsFirst
  <2>3. QED
    BY <1>0, <2>1, <2>2 DEF PendingIsFirst
<1>3. CASE CompletedFenced
  <2>1. PICK k \in ActionKey, at \in Time, to \in VerificationResult :
          CompleteVerification(k, 1, to, at)
    BY <1>3 DEF CompletedFenced, CompleteFencedVerification
  <2>2. CASE VerificationCompletionMatches(verifications[k], 1, to, at)
    BY <2>1, <2>2 DEF CompleteVerification, PendingIsFirst
  <2>3. CASE ~ VerificationCompletionMatches(verifications[k], 1, to, at)
    <3>1. verifications[k] \in Verification
      BY <2>1, ExistingVerification
      DEF CompleteVerification, VerificationCompletionAccepted, RegistryInv
    <3>2. verifications' = [verifications EXCEPT ![k].status = to, ![k].version = @ + 1,
                                                 ![k].finishedAt = at]
      BY <2>1, <2>3 DEF CompleteVerification
    <3>3. verifications'[k].status = to
      BY <1>0, <3>1, <3>2 DEF Verification
    <3>4. \A j \in ActionKey \ {k} : verifications'[j] = verifications[j]
      BY <1>0, <3>2
    <3>5. QED
      BY <3>3, <3>4 DEF PendingIsFirst, VerificationResult
  <2>4. QED
    BY <2>2, <2>3
<1>4. QED
  BY <1>1, <1>2, <1>3, RegistryStep
  DEF Observe, Transitioned, Transition, ClaimGranted, GrantClaim, Resolved, Resolve, AttemptStep

LEMMA RegistryStepKeeps ==
  ASSUME RegistryInv, PendingIsFirst, [RegistryNext]_registryVars
  PROVE  RegistryInv' /\ PendingIsFirst' /\ RegistryKeeps
<1>1. RegistryInv'
  BY RegistryInvInductive
<1>2. CASE RegistryNext
  BY <1>1, <1>2, HistoryKept, IncidentsStay, AttemptsStay, PendingStaysFirst DEF RegistryKeeps
<1>3. CASE UNCHANGED registryVars
  BY <1>1, <1>3 DEF registryVars, PendingIsFirst, RegistryKeeps, IncidentExists, AttemptExists
<1>4. QED
  BY <1>2, <1>3

-----------------------------------------------------------------------------
(* What every step of the agent keeps.                                      *)
AgentKeeps ==
  /\ RegistryKeeps
  /\ now' \in Time /\ now <= now'
  /\ plans \subseteq plans'
  /\ \A k \in ActionKey : approvals[k] # NoApproval => approvals'[k] = approvals[k]

LEMMA Earlier ==
  ASSUME AgentInv, AgentKeeps, NEW at \in Time, at <= now
  PROVE  at <= now'
<1>1. now \in Time /\ now' \in Time /\ now <= now'
  BY DEF AgentInv, MemoryTypes, AgentTypeOK, AgentKeeps
<1>2. at \in Nat /\ now \in Nat /\ now' \in Nat
  BY <1>1, TimeAssumption
<1>3. QED
  BY <1>1, <1>2

LEMMA ApprovalKept ==
  ASSUME AgentKeeps, NEW k \in ActionKey, NEW at, ApprovalValid(k, at)
  PROVE  /\ approvals'[k] # NoApproval
         /\ at >= approvals'[k].from
         /\ at < approvals'[k].until
  BY DEF AgentKeeps, ApprovalValid

(* A replica that does nothing is not disturbed by the others, unless one   *)
(* of them executes the action it is about to execute.                      *)
LEMMA CycleKept ==
  ASSUME AgentInv, AgentKeeps, NEW r \in Holder, cycle'[r] = cycle[r],
         cycle[r].pc = "delete" => executions'[ActionOf(r)] = executions[ActionOf(r)]
  PROVE  CycleOK(r)'
<1> DEFINE c == cycle[r]
           k == ActionOf(r)
<1>0. CycleOK(r) /\ c \in CycleRecord /\ ActionOf(r)' = k
  BY DEF AgentInv, MemoryTypes, ActionOf
<1>1. c.pc \notin {"idle", "observe"} => c.id \in IncidentID /\ k \in ActionKey
  BY <1>0, ThePlan DEF CycleOK
<1>2. c.pc \notin {"idle", "observe"} => IncidentExists(c.id)'
  BY <1>0, <1>1 DEF CycleOK, AgentKeeps, RegistryKeeps, IncidentExists
<1>3. c.pc \notin {"idle", "observe", "claim", "snapshot"} => c.at \in Time /\ c.at <= now'
  BY <1>0, Earlier DEF CycleOK
<1>4. Owning(r)' => HoldsToken(r)'
  BY <1>0, <1>1 DEF Owning, HoldsToken, CycleOK, AgentKeeps, RegistryKeeps
<1>5. Approved(r)' => ApprovalFound(r)'
  <2> SUFFICES ASSUME Approved(r) PROVE ApprovalFound(r)'
    BY DEF Approved
  <2>1. ApprovalFound(r) /\ k \in ActionKey /\ c.checkedAt \in Time
    BY <1>0, <1>1 DEF CycleOK, Approved
  <2>2. /\ approvals'[k] # NoApproval
        /\ c.checkedAt >= approvals'[k].from
        /\ c.checkedAt < approvals'[k].until
    BY <2>1, ApprovalKept DEF ApprovalFound
  <2>3. c.checkedAt <= now'
    BY <2>1, Earlier DEF ApprovalFound
  <2>4. QED
    BY <1>0, <2>2, <2>3 DEF ApprovalFound, ApprovalValid
<1>6. c.pc = "delete" =>
        /\ AttemptExists(k)'
        /\ attempts'[k].token = c.version
        /\ executions'[k] = <<>>
  BY <1>0, <1>1 DEF CycleOK, AgentKeeps, RegistryKeeps, AttemptExists
<1>7. c.pc = "verify" =>
        /\ c.attempt = attempts'[k]
        /\ attempts'[k].status \in TerminalAttempt
  <2>1. ASSUME c.pc = "verify" PROVE AttemptExists(k)
    BY <1>0, <2>1 DEF CycleOK, AttemptExists, TerminalAttempt, CompletedStatus
  <2>2. QED
    BY <1>0, <1>1, <2>1 DEF CycleOK, AgentKeeps, RegistryKeeps
<1>8. QED
  BY <1>0, <1>1, <1>2, <1>3, <1>4, <1>5, <1>6, <1>7 DEF CycleOK, AttemptExists, IncidentExists

(* What ExecutionAuthorised says of one action.                             *)
Authorised(k) ==
  executions[k] # <<>> =>
    LET e == executions[k][1] IN
      /\ Len(executions[k]) = 1
      /\ AttemptExists(k) /\ attempts[k].token = e.token
      /\ \E event \in claimHistory[k.incident] :
           event.version = e.token /\ event.holder = e.by
      /\ k \in plans
      /\ ApprovalValid(k, e.checkedAt) /\ e.checkedAt <= e.at

LEMMA AuthorisedKept ==
  ASSUME AgentInv, AgentKeeps, NEW k \in ActionKey, executions'[k] = executions[k]
  PROVE  Authorised(k)'
<1> SUFFICES ASSUME executions[k] # <<>>
             PROVE  Authorised(k)'
  BY DEF Authorised
<1> DEFINE e == executions[k][1]
<1>1. /\ Len(executions[k]) = 1
      /\ AttemptExists(k) /\ attempts[k].token = e.token
      /\ \E event \in claimHistory[k.incident] :
           event.version = e.token /\ event.holder = e.by
      /\ k \in plans
      /\ ApprovalValid(k, e.checkedAt) /\ e.checkedAt <= e.at
  BY DEF AgentInv, ExecutionAuthorised
<1>3. attempts'[k].status # "NONE" /\ attempts'[k].token = e.token
  BY <1>1 DEF AgentKeeps, RegistryKeeps, AttemptExists
<1>4. claimHistory[k.incident] \subseteq claimHistory'[k.incident]
  BY ActionKeyOf DEF AgentKeeps, RegistryKeeps
<1>5. /\ approvals'[k] # NoApproval
      /\ e.checkedAt >= approvals'[k].from
      /\ e.checkedAt < approvals'[k].until
  BY <1>1, ApprovalKept
<1>6. k \in plans'
  BY <1>1 DEF AgentKeeps
<1>7. executions'[k][1] = e
  OBVIOUS
<1>8. QED
  BY <1>1, <1>3, <1>4, <1>5, <1>6, <1>7 DEF Authorised, ApprovalValid, AttemptExists

(* A replica that goes on with the same incident takes along what it knows. *)
LEMMA Carried ==
  ASSUME AgentInv, AgentKeeps, NEW r \in Holder,
         cycle'[r].key = cycle[r].key, cycle'[r].id = cycle[r].id,
         cycle[r].pc \notin {"idle", "observe"}
  PROVE  /\ ActionOf(r) \in ActionKey /\ ActionOf(r)' = ActionOf(r)
         /\ cycle'[r].key \in Key
         /\ cycle'[r].id \in IncidentID /\ IncidentExists(cycle[r].id)'
         /\ cycle[r].version \in Version
         /\ cycle[r].pc \notin {"claim", "snapshot"} =>
              cycle[r].at \in Time /\ cycle[r].at <= now'
         /\ Approved(r) /\ cycle'[r].checkedAt = cycle[r].checkedAt =>
              ApprovalFound(r)' /\ cycle[r].checkedAt \in Time
         /\ Owning(r) /\ cycle'[r].version = cycle[r].version => HoldsToken(r)'
<1> DEFINE c == cycle[r]
           k == ActionOf(r)
<1>0. CycleOK(r) /\ c \in CycleRecord /\ ActionOf(r)' = k
  BY DEF AgentInv, MemoryTypes, ActionOf
<1>1. c.key \in Key /\ c.id \in IncidentID /\ k \in ActionKey /\ c.version \in Version
  BY <1>0, ThePlan DEF CycleOK
<1>2. IncidentExists(c.id)'
  BY <1>0, <1>1 DEF CycleOK, AgentKeeps, RegistryKeeps, IncidentExists
<1>3. c.pc \notin {"claim", "snapshot"} => c.at \in Time /\ c.at <= now'
  BY <1>0, Earlier DEF CycleOK
<1>4. Owning(r) /\ cycle'[r].version = c.version => HoldsToken(r)'
  BY <1>0, <1>1 DEF HoldsToken, CycleOK, AgentKeeps, RegistryKeeps
<1>5. ASSUME Approved(r), cycle'[r].checkedAt = c.checkedAt
      PROVE  ApprovalFound(r)' /\ c.checkedAt \in Time
  <2>1. ApprovalFound(r) /\ c.checkedAt \in Time
    BY <1>0, <1>1, <1>5 DEF CycleOK, Approved
  <2>2. /\ approvals'[k] # NoApproval
        /\ c.checkedAt >= approvals'[k].from
        /\ c.checkedAt < approvals'[k].until
    BY <1>1, <2>1, ApprovalKept DEF ApprovalFound
  <2>3. c.checkedAt <= now'
    BY <2>1, Earlier DEF ApprovalFound
  <2>4. QED
    BY <1>0, <1>5, <2>1, <2>2, <2>3 DEF ApprovalFound, ApprovalValid
<1>6. QED
  BY <1>0, <1>1, <1>2, <1>3, <1>4, <1>5

(* The tables of the remediation state, by type. *)
MemoryTablesOK ==
  /\ handledAt \in [Key -> Time \cup {0}]
  /\ lastActionAt \in [Subject -> Time \cup {0}]

(* A step of a cycle that executes nothing. *)
LEMMA CycleStepKeepsInv ==
  ASSUME AgentInv, [RegistryNext]_registryVars, NEW r \in Holder, NEW c \in CycleRecord,
         cycle' = [cycle EXCEPT ![r] = c], CycleOK(r)',
         UNCHANGED <<now, pods, approvals, executions, worker>>,
         plans \subseteq plans', plans' \subseteq ActionKey, MemoryTablesOK'
  PROVE  AgentInv'
<1>1. RegistryInv' /\ PendingIsFirst' /\ RegistryKeeps
  BY RegistryStepKeeps DEF AgentInv
<1>2. now \in Nat
  BY TimeAssumption DEF AgentInv, MemoryTypes, AgentTypeOK
<1>3. AgentKeeps
  BY <1>1, <1>2 DEF AgentKeeps, AgentInv, MemoryTypes, AgentTypeOK
<1>4. cycle' \in [Holder -> CycleRecord]
  BY DEF AgentInv, MemoryTypes
<1>5. \A q \in Holder : cycle'[q] \in CycleRecord /\ worker'[q] \in WorkerRecord
  BY <1>4 DEF AgentInv, MemoryTypes
<1>6. AgentTypeOK'
  BY <1>5 DEF AgentInv, MemoryTypes, AgentTypeOK, MemoryTablesOK, CycleRecord, WorkerRecord
<1>7. MemoryTypes'
  BY <1>4, <1>6 DEF AgentInv, MemoryTypes
<1>8. \A q \in Holder : CycleOK(q)'
  <2>1. ASSUME NEW q \in Holder, q # r PROVE CycleOK(q)'
    <3>1. cycle'[q] = cycle[q]
      BY <2>1 DEF AgentInv, MemoryTypes
    <3>2. QED
      BY <1>3, <3>1, CycleKept
  <2>2. QED
    BY <2>1
<1>9. \A q \in Holder : WorkerOK(q)'
  BY DEF AgentInv, WorkerOK
<1>10. ExecutionAuthorised'
  BY <1>3, AuthorisedKept DEF Authorised, ExecutionAuthorised
<1>11. QED
  BY <1>1, <1>7, <1>8, <1>9, <1>10 DEF AgentInv

-----------------------------------------------------------------------------
(* The steps of the cycle: each is a step of the registry or leaves it      *)
(* alone, and keeps the invariant.                                          *)

Uses == [RegistryNext]_registryVars

(* What is known of the replica that is about to take a step. *)
LEMMA Before ==
  ASSUME AgentInv, NEW r \in Holder
  PROVE  /\ cycle[r] \in CycleRecord /\ CycleOK(r)
         /\ now \in Time /\ plans \subseteq ActionKey /\ MemoryTablesOK
         /\ cycle[r].pc \notin {"idle", "observe"} =>
              cycle[r].id \in IncidentID /\ cycle[r].key \in Key /\ ActionOf(r) \in ActionKey
  BY ThePlan DEF AgentInv, MemoryTypes, AgentTypeOK, MemoryTablesOK, CycleOK

LEMMA KeepsWhenUsing ==
  ASSUME AgentInv, Uses, UNCHANGED <<now, approvals>>, plans \subseteq plans'
  PROVE  AgentKeeps /\ RegistryInv'
<1>1. RegistryInv' /\ RegistryKeeps
  BY RegistryStepKeeps DEF AgentInv, Uses
<1>2. now \in Time /\ now \in Nat
  BY TimeAssumption DEF AgentInv, MemoryTypes, AgentTypeOK
<1>3. QED
  BY <1>1, <1>2 DEF AgentKeeps

LEMMA IdleIsOK == IdleCycle \in CycleRecord /\ IdleCycle.pc = "idle"
  BY DEF IdleCycle, CycleRecord, CyclePC

(* A cycle that ends. *)
LEMMA StopKeepsInv ==
  ASSUME AgentInv, Uses, NEW r \in Holder, Stop(r),
         UNCHANGED <<now, pods, approvals, executions, worker, plans>>, MemoryTablesOK'
  PROVE  AgentInv'
<1>1. cycle' = [cycle EXCEPT ![r] = IdleCycle] /\ cycle'[r] = IdleCycle
  BY DEF Stop, Go, AgentInv, MemoryTypes
<1>2. CycleOK(r)'
  BY <1>1, IdleIsOK DEF CycleOK, Owning, Approved
<1>3. plans' \subseteq ActionKey
  BY Before
<1>4. QED
  BY <1>1, <1>2, <1>3, IdleIsOK, CycleStepKeepsInv DEF Uses

LEMMA CollectStep ==
  ASSUME AgentInv, NEW r \in Holder, Collect(r)
  PROVE  Uses /\ AgentInv'
<1>1. UNCHANGED <<registryVars, clusterVars, memoryVars, plans, executions, worker>>
  BY DEF Collect
<1>2. Uses
  BY <1>1 DEF Uses
<1>3. PICK key \in pods : Go(r, [IdleCycle EXCEPT !.pc = "observe", !.key = key])
  BY DEF Collect
<1> DEFINE c == [IdleCycle EXCEPT !.pc = "observe", !.key = key]
<1>4. key \in Key
  BY <1>3 DEF AgentInv, MemoryTypes, AgentTypeOK
<1>5. c \in CycleRecord /\ c.pc = "observe" /\ c.key = key
  BY <1>4 DEF IdleCycle, CycleRecord, CyclePC
<1> HIDE DEF c
<1>6. cycle' = [cycle EXCEPT ![r] = c] /\ cycle'[r] = c
  BY <1>3 DEF Go, AgentInv, MemoryTypes, c
<1>7. CycleOK(r)'
  BY <1>4, <1>5, <1>6 DEF CycleOK, Owning, Approved
<1>8. QED
  BY <1>1, <1>2, <1>5, <1>6, <1>7, Before, CycleStepKeepsInv
  DEF clusterVars, memoryVars, MemoryTablesOK, Uses

LEMMA ObserveIncidentStep ==
  ASSUME AgentInv, NEW r \in Holder, ObserveIncident(r)
  PROVE  Uses /\ AgentInv'
<1> DEFINE key == cycle[r].key
<1>1. /\ cycle[r].pc = "observe" /\ Observe(key)
      /\ UNCHANGED <<clusterVars, memoryVars, plans, executions, worker>>
  BY DEF ObserveIncident, At
<1>2. key \in Key
  BY <1>1, Before DEF CycleOK
<1>3. Uses
  BY <1>1, <1>2 DEF Uses, RegistryNext
<1>4. AgentKeeps /\ RegistryInv'
  BY <1>1, <1>3, KeepsWhenUsing DEF clusterVars
<1>5. activeByKey'[key] \in IncidentID
  <2>1. /\ activeByKey \in [Key -> IncidentID \cup {0}] /\ nextSequence \in Nat
        /\ activeByKey' \in [Key -> IncidentID \cup {0}]
    BY <1>4 DEF AgentInv, RegistryInv, RegistryTypeOK
  <2>2. activeByKey'[key] # 0
    BY <1>1, <1>2, <2>1 DEF Observe
  <2>3. QED
    BY <1>2, <2>1, <2>2
<1>6. PICK id \in IncidentID : id = activeByKey'[key]
  BY <1>5
<1>7. incidents'[id].state # "NONE"
  BY <1>2, <1>4, <1>6 DEF RegistryInv, ActiveIncidentUnique, IncidentExists
<1>8. incidents'[id].version \in Version
  <2>1. incidents'[id] \in Incident
    BY <1>4, <1>7 DEF RegistryInv, RegistryTypeOK, NoIncident
  <2>2. QED
    BY <2>1 DEF Incident
<1>9. PICK version \in Version : version = incidents'[id].version
  BY <1>8
<1> DEFINE c == [cycle[r] EXCEPT !.pc = "claim", !.id = id, !.version = version]
<1>10. c \in CycleRecord /\ c.pc = "claim" /\ c.key = key /\ c.id = id /\ c.version = version
  BY Before DEF CycleRecord, CyclePC
<1>11. cycle' = [cycle EXCEPT ![r] = c]
  BY <1>6, <1>9 DEF ObserveIncident, Go
<1> HIDE DEF c
<1>12. cycle'[r] = c
  BY <1>11 DEF AgentInv, MemoryTypes
<1>13. CycleOK(r)'
  BY <1>2, <1>7, <1>10, <1>12 DEF CycleOK, Owning, Approved, IncidentExists
<1>14. QED
  BY <1>1, <1>3, <1>10, <1>11, <1>13, Before, CycleStepKeepsInv
  DEF clusterVars, memoryVars, MemoryTablesOK, Uses

(* An accepted claim is one of the registry's. *)
LEMMA ClaimIsUse ==
  ASSUME AgentInv, NEW r \in Holder, NEW i \in IncidentID, NEW version,
         Claim(i, version, r, now, LeaseDuration)
  PROVE  /\ Uses
         /\ incidents[i].version = version /\ version + 1 \in Version
         /\ \E event \in claimHistory'[i] : event.version = version + 1 /\ event.holder = r
<1>1. now \in Time /\ LeaseDuration \in Lease
  BY DurationAssumption, Before
<1>2. incidents[i].version = version
  BY DEF Claim, ClaimAccepted
<1>3. Claim(i, incidents[i].version, r, now, LeaseDuration)
  BY <1>2
<1>4. RegistryNext
  BY <1>1, <1>3, Zenon DEF RegistryNext, IncidentStep
<1>5. version + 1 \in Version
  BY <1>2 DEF Claim, GrantClaim, AuditEvent
<1>6. \E event \in claimHistory'[i] : event.version = version + 1 /\ event.holder = r
  <2> DEFINE event == AuditEvent(version + 1, r, now, LeaseDuration)
  <2>1. claimHistory' = [claimHistory EXCEPT ![i] = @ \cup {event}]
    BY <1>2 DEF Claim, GrantClaim, Audited
  <2>2. claimHistory'[i] = claimHistory[i] \cup {event}
    BY <2>1 DEF AgentInv, RegistryInv, RegistryTypeOK
  <2>3. event.version = version + 1 /\ event.holder = r
    BY DEF AuditEvent
  <2>4. QED
    BY <2>2, <2>3
<1>7. QED
  BY <1>2, <1>4, <1>5, <1>6 DEF Uses

LEMMA ClaimIncidentStep ==
  ASSUME AgentInv, NEW r \in Holder, ClaimIncident(r)
  PROVE  Uses /\ AgentInv'
<1> DEFINE i == cycle[r].id
           version == cycle[r].version
<1>1. cycle[r].pc = "claim" /\ UNCHANGED <<clusterVars, memoryVars, plans, executions, worker>>
  BY DEF ClaimIncident, At
<1>2. cycle[r] \in CycleRecord /\ i \in IncidentID
  BY <1>1, Before
<1>3. CASE ClaimAccepted(i, version, r, now)
  <2>1. Claim(i, version, r, now, LeaseDuration)
    BY <1>3 DEF ClaimIncident
  <2>2. Uses /\ version + 1 \in Version
    BY <1>2, <2>1, ClaimIsUse
  <2>3. AgentKeeps
    BY <1>1, <2>2, KeepsWhenUsing DEF clusterVars
  <2>4. incidents[i] \in Incident
    BY <1>2, <2>1, ExistingIncident DEF Claim, ClaimAccepted, AgentInv, RegistryInv
  <2>5. PICK state \in State, binding \in Plan \cup {NoPlan} :
          /\ state = incidents[i].state
          /\ binding = IF ClaimReturnsBinding THEN incidents[i].binding ELSE NoPlan
    BY <2>4 DEF Incident
  <2>6. PICK v \in Version : v = version + 1
    BY <2>2
  <2> DEFINE c == [cycle[r] EXCEPT !.pc = "snapshot", !.version = v, !.state = state,
                                   !.binding = binding]
  <2>7. /\ c \in CycleRecord /\ c.pc = "snapshot" /\ c.key = cycle[r].key /\ c.id = i
        /\ c.version = v
    <3>1. c.pc = "snapshot" /\ c.key = cycle[r].key /\ c.id = i /\ c.version = v
      BY <1>2 DEF CycleRecord
    <3>2. [cycle[r] EXCEPT !.pc = "snapshot", !.version = v] \in CycleRecord
      BY <1>2 DEF CycleRecord, CyclePC
    <3>3. ASSUME NEW d \in CycleRecord
          PROVE  [d EXCEPT !.state = state, !.binding = binding] \in CycleRecord
      BY DEF CycleRecord
    <3>4. c = [[cycle[r] EXCEPT !.pc = "snapshot", !.version = v]
                 EXCEPT !.state = state, !.binding = binding]
      BY <1>2 DEF CycleRecord
    <3>5. QED
      BY <3>1, <3>2, <3>3, <3>4
  <2>8. cycle' = [cycle EXCEPT ![r] = c]
    BY <1>3, <2>5, <2>6 DEF ClaimIncident, Go
  <2> HIDE DEF c
  <2>9. cycle'[r] = c
    BY <2>8 DEF AgentInv, MemoryTypes
  <2>10. c.key \in Key /\ IncidentExists(i)'
    BY <1>1, <2>3, <2>7, <2>9, Carried
  <2>11. CycleOK(r)'
    BY <1>2, <2>7, <2>9, <2>10 DEF CycleOK, Owning, Approved, IncidentExists
  <2>12. QED
    BY <1>1, <2>2, <2>7, <2>8, <2>11, Before, CycleStepKeepsInv
    DEF clusterVars, memoryVars, MemoryTablesOK, Uses
<1>4. CASE ~ ClaimAccepted(i, version, r, now)
  <2>1. Stop(r) /\ Uses
    BY <1>4 DEF ClaimIncident, Uses
  <2>2. QED
    BY <1>1, <2>1, Before, StopKeepsInv DEF clusterVars, memoryVars, MemoryTablesOK
<1>5. QED
  BY <1>3, <1>4

LEMMA PruneKeepsTables ==
  ASSUME MemoryTablesOK, PruneMemory
  PROVE  MemoryTablesOK'
  BY DEF MemoryTablesOK, PruneMemory

LEMMA SnapshotStep ==
  ASSUME AgentInv, NEW r \in Holder, Snapshot(r)
  PROVE  Uses /\ AgentInv'
<1>1. /\ cycle[r].pc = "snapshot" /\ PruneMemory
      /\ UNCHANGED <<registryVars, clusterVars, plans, executions, worker>>
  BY DEF Snapshot, At
<1>2. Uses
  BY <1>1 DEF Uses
<1>3. MemoryTablesOK'
  BY <1>1, Before, PruneKeepsTables
<1>4. CASE Duplicate(cycle[r].key)
  <2>1. Stop(r)
    BY <1>4 DEF Snapshot
  <2>2. QED
    BY <1>1, <1>2, <1>3, <2>1, StopKeepsInv DEF clusterVars
<1>5. CASE ~ Duplicate(cycle[r].key)
  <2>1. WithinBudget(OwnerOf[cycle[r].key]) \in BOOLEAN
    BY DEF WithinBudget
  <2>2. PICK budget \in BOOLEAN : budget = WithinBudget(OwnerOf[cycle[r].key])
    BY <2>1
  <2>3. PICK pc \in {"resume", "decide"} :
          pc = IF cycle[r].state = "WAITING_APPROVAL" THEN "resume" ELSE "decide"
    OBVIOUS
  <2> DEFINE c == [cycle[r] EXCEPT !.pc = pc, !.at = now, !.budget = budget]
  <2>4. /\ c \in CycleRecord /\ c.pc = pc /\ c.key = cycle[r].key /\ c.id = cycle[r].id
        /\ c.version = cycle[r].version /\ c.at = now
    BY Before DEF CycleRecord, CyclePC
  <2>5. cycle' = [cycle EXCEPT ![r] = c]
    BY <1>5, <2>2, <2>3 DEF Snapshot, Go
  <2> HIDE DEF c
  <2>6. cycle'[r] = c
    BY <2>5 DEF AgentInv, MemoryTypes
  <2>7. AgentKeeps
    BY <1>1, <1>2, KeepsWhenUsing DEF clusterVars
  <2>8. /\ c.key \in Key /\ c.id \in IncidentID /\ c.version \in Version
        /\ incidents'[c.id].state # "NONE"
    BY <1>1, <2>4, <2>6, <2>7, Carried DEF IncidentExists
  <2>9. now \in Time /\ now <= now /\ now' = now
    <3>1. now \in Time
      BY Before
    <3>2. QED
      BY <1>1, <3>1, TimeAssumption DEF clusterVars
  <2>10. CycleOK(r)'
    BY <1>1, <2>3, <2>4, <2>6, <2>8, <2>9, Before
    DEF CycleOK, Owning, Approved, IncidentExists, clusterVars
  <2>11. QED
    BY <1>1, <1>2, <1>3, <2>4, <2>5, <2>10, Before, CycleStepKeepsInv DEF clusterVars, Uses
<1>6. QED
  BY <1>4, <1>5

(* An accepted transition is one of the registry's. *)
LEMMA TransitionIsUse ==
  ASSUME AgentInv, NEW i \in IncidentID, NEW version, NEW to \in State,
         NEW binding \in Plan \cup {NoPlan}, Transition(i, version, to, binding)
  PROVE  Uses /\ incidents[i].version = version /\ version + 1 \in Version
<1>1. now \in Time
  BY DEF AgentInv, MemoryTypes, AgentTypeOK
<1>2. incidents[i].version = version /\ version + 1 \in Version
  BY DEF Transition, TransitionAccepted
<1>3. Transition(i, incidents[i].version, to, binding)
  BY <1>2
<1>4. RegistryNext
  BY <1>1, <1>3, Zenon DEF RegistryNext, IncidentStep
<1>5. QED
  BY <1>2, <1>4 DEF Uses

LEMMA DecideStep ==
  ASSUME AgentInv, NEW r \in Holder, Decide(r)
  PROVE  Uses /\ AgentInv'
<1> DEFINE i == cycle[r].id
           version == cycle[r].version
<1>1. cycle[r].pc = "decide" /\ UNCHANGED <<clusterVars, memoryVars, plans, executions, worker>>
  BY DEF Decide, At
<1>2. cycle[r] \in CycleRecord /\ i \in IncidentID
  BY <1>1, Before
<1>3. CASE TransitionAccepted(i, version, "DIAGNOSED", NoPlan)
  <2>1. Transition(i, version, "DIAGNOSED", NoPlan)
    BY <1>3 DEF Decide
  <2>2. Uses /\ version + 1 \in Version
    BY <1>2, <2>1, TransitionIsUse DEF State
  <2>3. AgentKeeps
    BY <1>1, <2>2, KeepsWhenUsing DEF clusterVars
  <2>4. PICK v \in Version : v = version + 1
    BY <2>2
  <2>5. PICK pc \in {"approval", "deny"} : Go(r, [cycle[r] EXCEPT !.pc = pc, !.version = v])
    BY <1>3, <2>4 DEF Decide
  <2> DEFINE c == [cycle[r] EXCEPT !.pc = pc, !.version = v]
  <2>6. /\ c \in CycleRecord /\ c.pc = pc /\ c.key = cycle[r].key /\ c.id = i
        /\ c.version = v /\ c.at = cycle[r].at
    BY Before DEF CycleRecord, CyclePC
  <2>7. cycle' = [cycle EXCEPT ![r] = c] /\ cycle'[r] = c
    BY <2>5 DEF Go, AgentInv, MemoryTypes
  <2> HIDE DEF c
  <2>8. /\ c.key \in Key /\ incidents'[i].state # "NONE"
        /\ c.at \in Time /\ c.at <= now'
    BY <1>1, <2>3, <2>6, <2>7, Carried DEF IncidentExists
  <2>9. CycleOK(r)'
    BY <1>2, <2>5, <2>6, <2>7, <2>8 DEF CycleOK, Owning, Approved, IncidentExists
  <2>10. QED
    BY <1>1, <2>2, <2>6, <2>7, <2>9, Before, CycleStepKeepsInv
    DEF clusterVars, memoryVars, MemoryTablesOK, Uses
<1>4. CASE ~ TransitionAccepted(i, version, "DIAGNOSED", NoPlan)
  <2>1. Stop(r) /\ Uses
    BY <1>4 DEF Decide, Uses
  <2>2. QED
    BY <1>1, <2>1, Before, StopKeepsInv DEF clusterVars, memoryVars, MemoryTablesOK
<1>5. QED
  BY <1>3, <1>4

LEMMA CheckApprovalStep ==
  ASSUME AgentInv, NEW r \in Holder, CheckApproval(r)
  PROVE  Uses /\ AgentInv'
<1>1. /\ cycle[r].pc = "approval"
      /\ UNCHANGED <<registryVars, clusterVars, memoryVars, plans, executions, worker>>
  BY DEF CheckApproval, At
<1>2. Uses
  BY <1>1 DEF Uses
<1>3. PICK pc \in {"deny", "record", "publish"} :
        /\ pc = "record" => ApprovalValid(ActionOf(r), now)
        /\ Go(r, [cycle[r] EXCEPT !.pc = pc, !.checkedAt = now])
  BY Zenon DEF CheckApproval, StoredApprovalGranted
<1> DEFINE c == [cycle[r] EXCEPT !.pc = pc, !.checkedAt = now]
<1>4. /\ c \in CycleRecord /\ c.pc = pc /\ c.key = cycle[r].key /\ c.id = cycle[r].id
      /\ c.version = cycle[r].version /\ c.at = cycle[r].at /\ c.checkedAt = now
  BY Before DEF CycleRecord, CyclePC
<1>5. cycle' = [cycle EXCEPT ![r] = c] /\ cycle'[r] = c
  BY <1>3 DEF Go, AgentInv, MemoryTypes
<1> HIDE DEF c
<1>6. AgentKeeps
  BY <1>1, <1>2, KeepsWhenUsing DEF clusterVars
<1>7. /\ c.key \in Key /\ c.id \in IncidentID /\ c.version \in Version
      /\ incidents'[c.id].state # "NONE" /\ c.at \in Time /\ c.at <= now'
      /\ ActionOf(r)' = ActionOf(r)
  BY <1>1, <1>4, <1>5, <1>6, Carried DEF IncidentExists
<1>8. now \in Time /\ now <= now /\ now' = now
  <2>1. now \in Time
    BY Before
  <2>2. QED
    BY <1>1, <2>1, TimeAssumption DEF clusterVars
<1>9. Approved(r)' => ApprovalFound(r)'
  BY <1>1, <1>3, <1>4, <1>5, <1>7, <1>8 DEF Approved, ApprovalFound, ApprovalValid, clusterVars
<1>10. CycleOK(r)'
  BY <1>3, <1>4, <1>5, <1>7, <1>8, <1>9 DEF CycleOK, Owning, IncidentExists
<1>11. QED
  BY <1>1, <1>2, <1>4, <1>5, <1>10, Before, CycleStepKeepsInv
  DEF clusterVars, memoryVars, MemoryTablesOK, Uses

LEMMA DenyStep ==
  ASSUME AgentInv, NEW r \in Holder, Deny(r)
  PROVE  Uses /\ AgentInv'
<1>1. /\ cycle[r].pc = "deny" /\ RecordHandled(cycle[r].key, cycle[r].at) /\ Stop(r)
      /\ UNCHANGED <<registryVars, clusterVars, plans, executions, worker>>
  BY DEF Deny, At
<1>2. Uses
  BY <1>1 DEF Uses
<1>3. cycle[r].at \in Time
  BY <1>1, Before DEF CycleOK
<1>4. MemoryTablesOK'
  BY <1>1, <1>3, Before DEF MemoryTablesOK, RecordHandled
<1>5. QED
  BY <1>1, <1>2, <1>4, StopKeepsInv DEF clusterVars

LEMMA PublishPlanStep ==
  ASSUME AgentInv, NEW r \in Holder, PublishPlan(r)
  PROVE  Uses /\ AgentInv'
<1> DEFINE c == [cycle[r] EXCEPT !.pc = "await"]
<1>1. /\ cycle[r].pc = "publish" /\ plans' = plans \cup {ActionOf(r)} /\ Go(r, c)
      /\ UNCHANGED <<registryVars, clusterVars, memoryVars, executions, worker>>
  BY DEF PublishPlan, At
<1>2. Uses
  BY <1>1 DEF Uses
<1>3. /\ c \in CycleRecord /\ c.pc = "await" /\ c.key = cycle[r].key /\ c.id = cycle[r].id
      /\ c.version = cycle[r].version /\ c.at = cycle[r].at
  BY Before DEF CycleRecord, CyclePC
<1>4. cycle' = [cycle EXCEPT ![r] = c] /\ cycle'[r] = c
  BY <1>1 DEF Go, AgentInv, MemoryTypes
<1> HIDE DEF c
<1>5. AgentKeeps
  BY <1>1, <1>2, KeepsWhenUsing DEF clusterVars
<1>6. /\ c.key \in Key /\ c.id \in IncidentID /\ c.version \in Version
      /\ incidents'[c.id].state # "NONE" /\ c.at \in Time /\ c.at <= now'
  BY <1>1, <1>3, <1>4, <1>5, Carried DEF IncidentExists
<1>7. CycleOK(r)'
  BY <1>3, <1>4, <1>6 DEF CycleOK, Owning, Approved, IncidentExists
<1>8. plans' \subseteq ActionKey /\ plans \subseteq plans'
  BY <1>1, Before
<1>9. QED
  BY <1>1, <1>2, <1>3, <1>4, <1>7, <1>8, Before, CycleStepKeepsInv
  DEF clusterVars, memoryVars, MemoryTablesOK, Uses

LEMMA AwaitApprovalStep ==
  ASSUME AgentInv, NEW r \in Holder, AwaitApproval(r)
  PROVE  Uses /\ AgentInv'
<1> DEFINE k == ActionOf(r)
<1>1. /\ cycle[r].pc = "await" /\ Stop(r)
      /\ UNCHANGED <<clusterVars, memoryVars, plans, executions, worker>>
  BY DEF AwaitApproval, At
<1>2. k.incident \in IncidentID /\ k.plan \in Plan
  BY <1>1, Before, ActionKeyOf
<1>3. Uses
  <2>1. CASE TransitionAccepted(k.incident, cycle[r].version, "WAITING_APPROVAL", k.plan)
    <3>1. Transition(k.incident, cycle[r].version, "WAITING_APPROVAL", k.plan)
      BY <2>1 DEF AwaitApproval
    <3>2. QED
      BY <1>2, <3>1, TransitionIsUse DEF State
  <2>2. CASE ~ TransitionAccepted(k.incident, cycle[r].version, "WAITING_APPROVAL", k.plan)
    BY <2>2 DEF AwaitApproval, Uses
  <2>3. QED
    BY <2>1, <2>2
<1>4. QED
  BY <1>1, <1>3, Before, StopKeepsInv DEF clusterVars, memoryVars, MemoryTablesOK

LEMMA ResumeStep ==
  ASSUME AgentInv, NEW r \in Holder, Resume(r)
  PROVE  Uses /\ AgentInv'
<1>1. /\ cycle[r].pc = "resume"
      /\ UNCHANGED <<registryVars, clusterVars, memoryVars, plans, executions, worker>>
  BY DEF Resume, At
<1>2. Uses
  BY <1>1 DEF Uses
<1> DEFINE c == [cycle[r] EXCEPT !.pc = "record", !.checkedAt = cycle[r].at]
<1>3. Stop(r) \/ (ApprovalValid(ActionOf(r), cycle[r].at) /\ Go(r, c))
  BY Zenon DEF Resume, WaitingApprovalGranted
<1>4. CASE Stop(r)
  BY <1>1, <1>2, <1>4, Before, StopKeepsInv DEF clusterVars, memoryVars, MemoryTablesOK
<1>5. CASE ApprovalValid(ActionOf(r), cycle[r].at) /\ Go(r, c)
  <2>1. /\ c \in CycleRecord /\ c.pc = "record" /\ c.key = cycle[r].key /\ c.id = cycle[r].id
        /\ c.version = cycle[r].version /\ c.at = cycle[r].at /\ c.checkedAt = cycle[r].at
    BY Before DEF CycleRecord, CyclePC
  <2>2. cycle' = [cycle EXCEPT ![r] = c] /\ cycle'[r] = c
    BY <1>5 DEF Go, AgentInv, MemoryTypes
  <2> HIDE DEF c
  <2>3. AgentKeeps
    BY <1>1, <1>2, KeepsWhenUsing DEF clusterVars
  <2>4. /\ c.key \in Key /\ c.id \in IncidentID /\ c.version \in Version
        /\ incidents'[c.id].state # "NONE" /\ c.at \in Time /\ c.at <= now'
        /\ ActionOf(r)' = ActionOf(r)
    BY <1>1, <2>1, <2>2, <2>3, Carried DEF IncidentExists
  <2>5. ApprovalFound(r)'
    BY <1>1, <1>5, <2>1, <2>2, <2>4 DEF ApprovalFound, ApprovalValid, clusterVars
  <2>6. CycleOK(r)'
    BY <2>1, <2>2, <2>4, <2>5 DEF CycleOK, Owning, Approved, IncidentExists
  <2>7. QED
    BY <1>1, <1>2, <2>1, <2>2, <2>6, Before, CycleStepKeepsInv
    DEF clusterVars, memoryVars, MemoryTablesOK, Uses
<1>6. QED
  BY <1>3, <1>4, <1>5

LEMMA RecordAttemptStep ==
  ASSUME AgentInv, NEW r \in Holder, RecordAttempt(r)
  PROVE  Uses /\ AgentInv'
<1> DEFINE c == [cycle[r] EXCEPT !.pc = "fence"]
<1>1. /\ cycle[r].pc = "record" /\ RecordAction(cycle[r].key, cycle[r].at) /\ Go(r, c)
      /\ UNCHANGED <<registryVars, clusterVars, plans, executions, worker>>
  BY DEF RecordAttempt, At
<1>2. Uses
  BY <1>1 DEF Uses
<1>3. /\ c \in CycleRecord /\ c.pc = "fence" /\ c.key = cycle[r].key /\ c.id = cycle[r].id
      /\ c.version = cycle[r].version /\ c.at = cycle[r].at /\ c.checkedAt = cycle[r].checkedAt
  BY Before DEF CycleRecord, CyclePC
<1>4. cycle' = [cycle EXCEPT ![r] = c] /\ cycle'[r] = c
  BY <1>1 DEF Go, AgentInv, MemoryTypes
<1> HIDE DEF c
<1>5. AgentKeeps
  BY <1>1, <1>2, KeepsWhenUsing DEF clusterVars
<1>6. /\ c.key \in Key /\ c.id \in IncidentID /\ c.version \in Version
      /\ incidents'[c.id].state # "NONE" /\ c.at \in Time /\ c.at <= now'
      /\ ApprovalFound(r)' /\ c.checkedAt \in Time
  BY <1>1, <1>3, <1>4, <1>5, Carried DEF IncidentExists, Approved
<1>7. CycleOK(r)'
  BY <1>3, <1>4, <1>6 DEF CycleOK, Owning, Approved, IncidentExists
<1>8. MemoryTablesOK'
  BY <1>1, <1>3, <1>6, Before DEF MemoryTablesOK, RecordAction
<1>9. QED
  BY <1>1, <1>2, <1>3, <1>4, <1>7, <1>8, Before, CycleStepKeepsInv DEF clusterVars, Uses

-----------------------------------------------------------------------------
(* From the claim of the action on.                                         *)

LEMMA ClaimActionStep ==
  ASSUME AgentInv, NEW r \in Holder, ClaimAction(r)
  PROVE  Uses /\ AgentInv'
<1> DEFINE i == cycle[r].id
           version == cycle[r].version
<1>1. /\ cycle[r].pc = "fence" /\ plans' = plans \cup {ActionOf(r)}
      /\ UNCHANGED <<clusterVars, memoryVars, executions, worker>>
  BY DEF ClaimAction, At
<1>2. cycle[r] \in CycleRecord /\ i \in IncidentID /\ ActionOf(r) \in ActionKey
  BY <1>1, Before
<1>3. plans \subseteq plans' /\ plans' \subseteq ActionKey
  BY <1>1, <1>2, Before
<1>4. CASE ClaimAccepted(i, version, r, now)
  <2>1. Claim(i, version, r, now, LeaseDuration)
    BY <1>4 DEF ClaimAction
  <2>2. /\ Uses /\ version + 1 \in Version
        /\ \E event \in claimHistory'[i] : event.version = version + 1 /\ event.holder = r
    BY <1>2, <2>1, ClaimIsUse
  <2>3. AgentKeeps
    BY <1>1, <1>3, <2>2, KeepsWhenUsing DEF clusterVars
  <2>4. PICK v \in Version : v = version + 1
    BY <2>2
  <2> DEFINE c == [cycle[r] EXCEPT !.pc = "begin", !.version = v]
  <2>5. /\ c \in CycleRecord /\ c.pc = "begin" /\ c.key = cycle[r].key /\ c.id = i
        /\ c.version = v /\ c.at = cycle[r].at /\ c.checkedAt = cycle[r].checkedAt
    BY Before DEF CycleRecord, CyclePC
  <2>6. cycle' = [cycle EXCEPT ![r] = c] /\ cycle'[r] = c
    BY <1>4, <2>4 DEF ClaimAction, Go, AgentInv, MemoryTypes
  <2> HIDE DEF c
  <2>7. /\ c.key \in Key /\ incidents'[i].state # "NONE"
        /\ c.at \in Time /\ c.at <= now'
        /\ ApprovalFound(r)' /\ c.checkedAt \in Time
        /\ ActionOf(r)' = ActionOf(r)
    BY <1>1, <2>3, <2>5, <2>6, Carried DEF IncidentExists, Approved
  <2>8. HoldsToken(r)'
    BY <1>1, <2>2, <2>4, <2>5, <2>6, <2>7 DEF HoldsToken
  <2>9. CycleOK(r)'
    BY <1>2, <2>5, <2>6, <2>7, <2>8 DEF CycleOK, Owning, Approved, IncidentExists
  <2>10. QED
    BY <1>1, <1>3, <2>2, <2>5, <2>6, <2>9, Before, CycleStepKeepsInv
    DEF clusterVars, memoryVars, MemoryTablesOK, Uses
<1>5. CASE ~ ClaimAccepted(i, version, r, now)
  <2>1. Uses /\ cycle' = [cycle EXCEPT ![r] = IdleCycle] /\ cycle'[r] = IdleCycle
    BY <1>5 DEF ClaimAction, Uses, Stop, Go, AgentInv, MemoryTypes
  <2>2. CycleOK(r)'
    BY <2>1, IdleIsOK DEF CycleOK, Owning, Approved
  <2>3. QED
    BY <1>1, <1>3, <2>1, <2>2, IdleIsOK, Before, CycleStepKeepsInv
    DEF clusterVars, memoryVars, MemoryTablesOK, Uses
<1>6. QED
  BY <1>4, <1>5

(* What an owner does to its attempt is one of the registry's steps.        *)
LEMMA AttemptIsUse ==
  ASSUME AgentInv, NEW r \in Holder, Owning(r),
         \/ BeginAttempt(ActionOf(r), cycle[r].version, now)
         \/ RecoverAttempt(ActionOf(r), cycle[r].version, now)
         \/ \E to \in CompletedStatus : CompleteAttempt(ActionOf(r), cycle[r].version, 1, to, now),
         UNCHANGED <<incidents, activeByKey, claims, claimHistory, nextSequence, verifications>>
  PROVE  Uses
<1>1. now \in Time /\ ActionOf(r) \in ActionKey /\ ActionOf(r).incident = cycle[r].id
  BY Before, ThePlan DEF Owning
<1>2. PICK event \in claimHistory[cycle[r].id] : event.version = cycle[r].version
  BY Before DEF CycleOK, HoldsToken
<1>3. AttemptStep(ActionOf(r), now)
  BY <1>1, <1>2 DEF AttemptStep
<1>4. RegistryNext
  BY <1>1, <1>3, Zenon DEF RegistryNext
<1>5. QED
  BY <1>4 DEF Uses

LEMMA BeginStep ==
  ASSUME AgentInv, NEW r \in Holder, Begin(r)
  PROVE  Uses /\ AgentInv'
<1> DEFINE k == ActionOf(r)
           a == attempts[k]
<1>1. /\ cycle[r].pc = "begin" /\ BeginAttempt(k, cycle[r].version, now)
      /\ UNCHANGED <<incidents, activeByKey, claims, claimHistory, nextSequence, verifications>>
      /\ UNCHANGED <<clusterVars, memoryVars, plans, executions, worker>>
  BY DEF Begin, At
<1>2. cycle[r] \in CycleRecord /\ cycle[r].id \in IncidentID /\ k \in ActionKey
  BY <1>1, Before
<1>3. Uses
  BY <1>1, AttemptIsUse DEF Owning
<1>4. AgentKeeps
  BY <1>1, <1>3, KeepsWhenUsing DEF clusterVars
<1>5. a \in Attempt \cup {NoAttempt}
  BY <1>2 DEF AgentInv, RegistryInv, RegistryTypeOK, AttemptTypeOK
<1>6. PICK pc \in {"delete", "verify", "recover"}, b \in Attempt \cup {NoAttempt} :
        /\ Stop(r) \/ Go(r, [cycle[r] EXCEPT !.pc = pc, !.attempt = b])
        /\ pc = "delete" => ~ AttemptExists(k)
        /\ pc = "verify" => AttemptExists(k) /\ a.status \in TerminalAttempt /\ b = a
  <2>1. cycle[r].attempt \in Attempt \cup {NoAttempt}
    BY <1>2 DEF CycleRecord
  <2>2. \A pc \in CyclePC : [cycle[r] EXCEPT !.pc = pc]
          = [cycle[r] EXCEPT !.pc = pc, !.attempt = cycle[r].attempt]
    BY <1>2 DEF CycleRecord
  <2>3. CASE ~ AttemptExists(k)
    <3>1. Go(r, [cycle[r] EXCEPT !.pc = "delete"])
      BY <2>3 DEF Begin
    <3>2. QED
      BY <2>1, <2>2, <2>3, <3>1 DEF CyclePC
  <2>4. CASE AttemptExists(k) /\ a.status \in TerminalAttempt
    <3>1. Go(r, [cycle[r] EXCEPT !.pc = "verify", !.attempt = a])
      BY <2>4 DEF Begin
    <3>2. QED
      BY <1>5, <2>4, <3>1
  <2>5. CASE AttemptExists(k) /\ a.status \notin TerminalAttempt
    <3>1. Stop(r) \/ Go(r, [cycle[r] EXCEPT !.pc = "recover"])
      BY <2>5 DEF Begin
    <3>2. QED
      BY <2>1, <2>2, <3>1 DEF CyclePC
  <2>6. QED
    BY <2>3, <2>4, <2>5
<1>7. CASE Stop(r)
  BY <1>1, <1>3, <1>7, Before, StopKeepsInv DEF clusterVars, memoryVars, MemoryTablesOK
<1>8. CASE Go(r, [cycle[r] EXCEPT !.pc = pc, !.attempt = b])
  <2> DEFINE c == [cycle[r] EXCEPT !.pc = pc, !.attempt = b]
  <2>1. /\ c \in CycleRecord /\ c.pc = pc /\ c.key = cycle[r].key /\ c.id = cycle[r].id
        /\ c.version = cycle[r].version /\ c.at = cycle[r].at
        /\ c.checkedAt = cycle[r].checkedAt /\ c.attempt = b
    BY Before DEF CycleRecord, CyclePC
  <2>2. cycle' = [cycle EXCEPT ![r] = c] /\ cycle'[r] = c
    BY <1>8 DEF Go, AgentInv, MemoryTypes
  <2> HIDE DEF c
  <2>3. /\ c.key \in Key /\ c.id \in IncidentID /\ c.version \in Version
        /\ incidents'[c.id].state # "NONE" /\ c.at \in Time /\ c.at <= now'
        /\ ApprovalFound(r)' /\ c.checkedAt \in Time
        /\ HoldsToken(r)' /\ ActionOf(r)' = k
    BY <1>1, <1>4, <2>1, <2>2, Carried DEF IncidentExists, Approved, Owning
  <2>4. ASSUME pc = "delete"
        PROVE  /\ attempts'[k].status = "STARTED" /\ attempts'[k].token = c.version
               /\ executions'[k] = <<>>
    <3>1. attempts' = [attempts EXCEPT ![k] = NewAttempt(c.version, now)]
      BY <1>1, <1>6, <2>1, <2>4 DEF BeginAttempt
    <3>2. attempts'[k] = NewAttempt(c.version, now)
      BY <1>2, <3>1 DEF AgentInv, RegistryInv, RegistryTypeOK, AttemptTypeOK
    <3>3. executions[k] = <<>>
      BY <1>2, <1>6, <2>4 DEF AgentInv, ExecutionAuthorised
    <3>4. QED
      BY <1>1, <3>2, <3>3 DEF NewAttempt
  <2>5. ASSUME pc = "verify"
        PROVE  c.attempt = attempts'[k] /\ attempts'[k].status \in TerminalAttempt
    BY <1>1, <1>6, <2>1, <2>5 DEF BeginAttempt
  <2>6. CycleOK(r)'
    BY <1>6, <2>1, <2>2, <2>3, <2>4, <2>5
    DEF CycleOK, Owning, Approved, IncidentExists, AttemptExists
  <2>7. QED
    BY <1>1, <1>3, <2>1, <2>2, <2>6, Before, CycleStepKeepsInv
    DEF clusterVars, memoryVars, MemoryTablesOK, Uses
<1>9. QED
  BY <1>6, <1>7, <1>8

(* A cycle that ended its attempt, or found that it had.                    *)
LEMMA ToVerifyKeepsInv ==
  ASSUME AgentInv, Uses, NEW r \in Holder, Owning(r), NEW b \in Attempt,
         b = attempts'[ActionOf(r)], b.status \in TerminalAttempt,
         Go(r, [cycle[r] EXCEPT !.pc = "verify", !.attempt = b]),
         UNCHANGED <<clusterVars, memoryVars, plans, executions, worker>>
  PROVE  AgentInv'
<1> DEFINE c == [cycle[r] EXCEPT !.pc = "verify", !.attempt = b]
<1>1. /\ c \in CycleRecord /\ c.pc = "verify" /\ c.key = cycle[r].key /\ c.id = cycle[r].id
      /\ c.version = cycle[r].version /\ c.at = cycle[r].at /\ c.attempt = b
  BY Before DEF CycleRecord, CyclePC
<1>2. cycle' = [cycle EXCEPT ![r] = c] /\ cycle'[r] = c
  BY DEF Go, AgentInv, MemoryTypes
<1> HIDE DEF c
<1>3. AgentKeeps
  BY KeepsWhenUsing DEF clusterVars
<1>4. /\ c.key \in Key /\ c.id \in IncidentID /\ c.version \in Version
      /\ incidents'[c.id].state # "NONE" /\ c.at \in Time /\ c.at <= now'
      /\ HoldsToken(r)' /\ ActionOf(r)' = ActionOf(r)
  BY <1>1, <1>2, <1>3, Carried DEF IncidentExists, Owning
<1>5. CycleOK(r)'
  BY <1>1, <1>2, <1>4 DEF CycleOK, Owning, Approved, IncidentExists
<1>6. QED
  BY <1>1, <1>2, <1>5, Before, CycleStepKeepsInv
  DEF clusterVars, memoryVars, MemoryTablesOK, Uses

(* An attempt the store has is of its type.                                 *)
LEMMA NextAttemptType ==
  ASSUME AgentInv, Uses, NEW k \in ActionKey, attempts'[k].status # "NONE"
  PROVE  attempts'[k] \in Attempt
<1>1. RegistryInv'
  BY RegistryStepKeeps DEF AgentInv, Uses
<1>2. QED
  BY <1>1 DEF RegistryInv, RegistryTypeOK, AttemptTypeOK, NoAttempt

LEMMA RecoverStep ==
  ASSUME AgentInv, NEW r \in Holder, Recover(r)
  PROVE  Uses /\ AgentInv'
<1> DEFINE k == ActionOf(r)
<1>1. /\ cycle[r].pc = "recover"
      /\ UNCHANGED <<incidents, activeByKey, claims, claimHistory, nextSequence, verifications>>
      /\ UNCHANGED <<clusterVars, memoryVars, plans, executions, worker>>
  BY DEF Recover, At
<1>2. Owning(r) /\ k \in ActionKey
  BY <1>1, Before DEF Owning
<1>3. CASE RecoveryAccepted(k, cycle[r].version, now)
  <2>1. /\ RecoverAttempt(k, cycle[r].version, now)
        /\ Go(r, [cycle[r] EXCEPT !.pc = "verify", !.attempt = attempts'[k]])
    BY <1>3 DEF Recover
  <2>2. Uses
    BY <1>1, <1>2, <2>1, AttemptIsUse
  <2>3. attempts'[k].status = "UNKNOWN"
    <3>1. CASE RecoveryMatches(attempts[k], cycle[r].version, now)
      BY <2>1, <3>1 DEF RecoverAttempt, RecoveryMatches
    <3>2. CASE ~ RecoveryMatches(attempts[k], cycle[r].version, now)
      <4>1. attempts[k] \in Attempt
        BY <1>2, <1>3
        DEF RecoveryAccepted, AttemptExists, AgentInv, RegistryInv, RegistryTypeOK,
            AttemptTypeOK, NoAttempt
      <4>2. attempts' = [attempts EXCEPT ![k].status = "UNKNOWN", ![k].version = @ + 1,
                           ![k].finishedAt = now, ![k].recoveredBy = cycle[r].version]
        BY <2>1, <3>2 DEF RecoverAttempt
      <4>3. attempts \in [ActionKey -> Attempt \cup {NoAttempt}]
        BY DEF AgentInv, RegistryInv, RegistryTypeOK, AttemptTypeOK
      <4>4. QED
        BY <1>2, <4>1, <4>2, <4>3 DEF Attempt
    <3>3. QED
      BY <3>1, <3>2
  <2>4. attempts'[k] \in Attempt
    BY <1>2, <2>2, <2>3, NextAttemptType
  <2>5. QED
    BY <1>1, <1>2, <2>1, <2>2, <2>3, <2>4, ToVerifyKeepsInv DEF TerminalAttempt
<1>4. CASE ~ RecoveryAccepted(k, cycle[r].version, now)
  <2>1. Stop(r) /\ Uses
    BY <1>1, <1>4 DEF Recover, Uses, registryVars
  <2>2. QED
    BY <1>1, <2>1, Before, StopKeepsInv DEF clusterVars, memoryVars, MemoryTablesOK
<1>5. QED
  BY <1>3, <1>4

LEMMA CompleteStep ==
  ASSUME AgentInv, NEW r \in Holder, Complete(r)
  PROVE  Uses /\ AgentInv'
<1> DEFINE k == ActionOf(r)
           to == cycle[r].state
<1>1. /\ cycle[r].pc = "complete"
      /\ UNCHANGED <<incidents, activeByKey, claims, claimHistory, nextSequence, verifications>>
      /\ UNCHANGED <<clusterVars, memoryVars, plans, executions, worker>>
  BY DEF Complete, At
<1>2. Owning(r) /\ k \in ActionKey /\ to \in CompletedStatus
  BY <1>1, Before DEF Owning, CycleOK
<1>3. CASE CompletionAccepted(k, cycle[r].version, 1, to, now)
  <2>1. /\ CompleteAttempt(k, cycle[r].version, 1, to, now)
        /\ Go(r, [cycle[r] EXCEPT !.pc = "verify", !.attempt = attempts'[k]])
    BY <1>3 DEF Complete
  <2>2. Uses
    BY <1>1, <1>2, <2>1, AttemptIsUse
  <2>3. attempts'[k].status = to
    <3>1. CASE CompletionMatches(attempts[k], cycle[r].version, to, now)
      BY <2>1, <3>1 DEF CompleteAttempt, CompletionMatches
    <3>2. CASE ~ CompletionMatches(attempts[k], cycle[r].version, to, now)
      <4>1. attempts[k] \in Attempt
        BY <1>2, <1>3
        DEF CompletionAccepted, AttemptExists, AgentInv, RegistryInv, RegistryTypeOK,
            AttemptTypeOK, NoAttempt
      <4>2. attempts' = [attempts EXCEPT ![k].status = to, ![k].version = @ + 1,
                           ![k].finishedAt = now, ![k].recoveredBy = 0]
        BY <2>1, <3>2 DEF CompleteAttempt
      <4>3. attempts \in [ActionKey -> Attempt \cup {NoAttempt}]
        BY DEF AgentInv, RegistryInv, RegistryTypeOK, AttemptTypeOK
      <4>4. QED
        BY <1>2, <4>1, <4>2, <4>3 DEF Attempt
    <3>3. QED
      BY <3>1, <3>2
  <2>4. attempts'[k] \in Attempt
    BY <1>2, <2>2, <2>3, NextAttemptType DEF CompletedStatus
  <2>5. QED
    BY <1>1, <1>2, <2>1, <2>2, <2>3, <2>4, ToVerifyKeepsInv DEF TerminalAttempt
<1>4. CASE ~ CompletionAccepted(k, cycle[r].version, 1, to, now)
  <2>1. Stop(r) /\ Uses
    BY <1>1, <1>4 DEF Complete, Uses, registryVars
  <2>2. QED
    BY <1>1, <2>1, Before, StopKeepsInv DEF clusterVars, memoryVars, MemoryTablesOK
<1>5. QED
  BY <1>3, <1>4

LEMMA VerifyStep ==
  ASSUME AgentInv, NEW r \in Holder, Verify(r)
  PROVE  Uses /\ AgentInv'
<1> DEFINE k == ActionOf(r)
           subject == OwnerOf[cycle[r].key]
           version == cycle[r].version
<1>1. /\ cycle[r].pc = "verify" /\ Stop(r)
      /\ UNCHANGED <<clusterVars, memoryVars, plans, executions, worker>>
  BY DEF Verify, At
<1>2. /\ k \in ActionKey /\ k.incident = cycle[r].id /\ now \in Time
      /\ subject \in Subject /\ cycle[r].attempt = attempts[k]
  BY <1>1, Before, ThePlan, OwnerAssumption DEF CycleOK
<1>3. Uses
  <2>1. CASE FencedBeginAccepted(k, version, r, now, cycle[r].attempt, subject)
    <3>1. BeginFencedVerification(k, version, r, now, attempts[k], subject)
      BY <1>2, <2>1 DEF Verify
    <3>2. incidents[k.incident].version = version
      BY <3>1 DEF BeginFencedVerification, FencedBeginAccepted, FencePassed
    <3>3. VerificationStep(k, r, now)
      BY <1>2, <3>1, <3>2, Zenon DEF VerificationStep
    <3>4. RegistryNext
      BY <1>2, <3>3, Zenon DEF RegistryNext
    <3>5. QED
      BY <3>4 DEF Uses
  <2>2. CASE ~ FencedBeginAccepted(k, version, r, now, cycle[r].attempt, subject)
    BY <2>2 DEF Verify, Uses
  <2>3. QED
    BY <2>1, <2>2
<1>4. QED
  BY <1>1, <1>3, Before, StopKeepsInv DEF clusterVars, memoryVars, MemoryTablesOK

(* Two replicas are never about to execute the same action: both would hold *)
(* the token of its attempt, and a token names one claim.                   *)
LEMMA OneExecutor ==
  ASSUME AgentInv, NEW q \in Holder, NEW r \in Holder,
         cycle[q].pc = "delete", cycle[r].pc = "delete", ActionOf(q) = ActionOf(r)
  PROVE  q = r
<1>1. CycleOK(q) /\ CycleOK(r) /\ cycle[r].id \in IncidentID
  BY Before
<1>2. cycle[q].id = cycle[r].id
  BY ThePlan
<1>3. cycle[q].version = cycle[r].version
  BY <1>1 DEF CycleOK
<1>4. PICK e \in claimHistory[cycle[r].id] : e.version = cycle[r].version /\ e.holder = q
  BY <1>1, <1>2, <1>3 DEF CycleOK, Owning, HoldsToken
<1>5. PICK f \in claimHistory[cycle[r].id] : f.version = cycle[r].version /\ f.holder = r
  BY <1>1 DEF CycleOK, Owning, HoldsToken
<1>6. e = f
  BY <1>1, <1>4, <1>5 DEF AgentInv, RegistryInv, ClaimIsLatestAudited
<1>7. QED
  BY <1>4, <1>5, <1>6

(* The deletion is the first execution of its action, and an authorised one.*)
LEMMA DeleteStep ==
  ASSUME AgentInv, NEW r \in Holder, Delete(r)
  PROVE  Uses /\ AgentInv'
<1>0. cycle[r].pc = "delete" /\ ActionOf(r) \in ActionKey
  BY Before DEF Delete, At
<1> PICK k \in ActionKey : k = ActionOf(r)
  BY <1>0
<1> DEFINE e == [by |-> r, token |-> cycle[r].version, checkedAt |-> cycle[r].checkedAt,
                 at |-> now]
           Executions == Seq([by: Holder, token: Version, checkedAt: Time, at: Time])
<1>1. /\ cycle[r].pc = "delete"
      /\ executions' = [executions EXCEPT ![k] = Append(@, e)]
      /\ UNCHANGED <<registryVars, now, approvals, memoryVars, plans, worker>>
      /\ pods' \subseteq pods
  BY DEF Delete, At
<1>2. /\ cycle[r] \in CycleRecord /\ k.incident = cycle[r].id
      /\ CycleOK(r) /\ now \in Time
  BY <1>1, Before, ThePlan
<1>3. PICK status \in CompletedStatus :
        Go(r, [cycle[r] EXCEPT !.pc = "complete", !.state = status])
  BY DEF Delete, CompletedStatus
<1> DEFINE c == [cycle[r] EXCEPT !.pc = "complete", !.state = status]
<1>4. /\ c \in CycleRecord /\ c.pc = "complete" /\ c.key = cycle[r].key /\ c.id = cycle[r].id
      /\ c.version = cycle[r].version /\ c.at = cycle[r].at /\ c.state = status
  BY Before DEF CycleRecord, CyclePC
<1>5. cycle' = [cycle EXCEPT ![r] = c]
  BY <1>3 DEF Go
<1> HIDE DEF c
<1>6. cycle'[r] = c /\ cycle' \in [Holder -> CycleRecord]
  BY <1>4, <1>5 DEF AgentInv, MemoryTypes
<1>7. Uses
  BY <1>1 DEF Uses
<1>8. AgentKeeps /\ RegistryInv'
  BY <1>1, <1>7, KeepsWhenUsing
<1>9. /\ e \in [by: Holder, token: Version, checkedAt: Time, at: Time]
      /\ executions[k] = <<>>
  BY <1>1, <1>2 DEF CycleOK
<1>10. /\ executions'[k] \in Executions /\ Len(executions'[k]) = 1 /\ executions'[k][1] = e
       /\ executions' \in [ActionKey -> Executions]
       /\ \A j \in ActionKey \ {k} : executions'[j] = executions[j]
  <2>1. executions \in [ActionKey -> Executions]
    BY DEF AgentInv, MemoryTypes
  <2> HIDE DEF e
  <2>2. executions'[k] = Append(<<>>, e)
    BY <1>1, <1>2, <1>9, <2>1
  <2>3. Append(<<>>, e) = <<e>>
    OBVIOUS
  <2>4. <<e>> \in Executions /\ Len(<<e>>) = 1 /\ <<e>>[1] = e
    BY <1>9
  <2>5. QED
    BY <1>1, <1>2, <2>1, <2>2, <2>3, <2>4
<1>11. Authorised(k)'
  <2>1. /\ AttemptExists(k) /\ attempts[k].token = e.token /\ HoldsToken(r)
        /\ ApprovalValid(k, e.checkedAt) /\ e.checkedAt <= e.at
    BY <1>1, <1>2 DEF CycleOK, Owning, Approved, ApprovalFound
  <2>2. k \in plans /\ \E event \in claimHistory[k.incident] :
          event.version = e.token /\ event.holder = e.by
    BY <1>2, <2>1 DEF HoldsToken
  <2>3. /\ attempts' = attempts /\ claimHistory' = claimHistory
        /\ plans' = plans /\ approvals' = approvals
    BY <1>1 DEF registryVars
  <2> HIDE DEF e
  <2>4. QED
    BY <1>10, <2>1, <2>2, <2>3 DEF Authorised, AttemptExists, ApprovalValid
<1>12. ExecutionAuthorised'
  <2>1. \A j \in ActionKey \ {k} : Authorised(j)'
    BY <1>8, <1>10, AuthorisedKept
  <2>2. QED
    BY <1>11, <2>1 DEF ExecutionAuthorised, Authorised
<1>13. CycleOK(r)'
  <2>1. /\ c.key \in Key /\ c.id \in IncidentID /\ c.version \in Version
        /\ incidents'[c.id].state # "NONE" /\ c.at \in Time /\ c.at <= now'
        /\ HoldsToken(r)'
    BY <1>1, <1>4, <1>6, <1>8, Carried DEF IncidentExists, Owning
  <2>2. QED
    BY <1>4, <1>6, <2>1 DEF CycleOK, Owning, Approved, IncidentExists
<1>14. \A q \in Holder : CycleOK(q)'
  <2>1. ASSUME NEW q \in Holder, q # r PROVE CycleOK(q)'
    <3>1. cycle'[q] = cycle[q]
      BY <1>5, <2>1 DEF AgentInv, MemoryTypes
    <3>2. ASSUME cycle[q].pc = "delete" PROVE executions'[ActionOf(q)] = executions[ActionOf(q)]
      <4>1. ActionOf(q) \in ActionKey /\ ActionOf(q) # k
        BY <1>1, <2>1, <3>2, Before, OneExecutor
      <4>2. QED
        BY <1>10, <4>1
    <3>3. QED
      BY <1>8, <3>1, <3>2, CycleKept
  <2>2. QED
    BY <1>13, <2>1
<1>15. MemoryTypes'
  <2>1. \A q \in Holder : cycle'[q] \in CycleRecord /\ worker'[q] \in WorkerRecord
    BY <1>1, <1>6 DEF AgentInv, MemoryTypes
  <2>2. AgentTypeOK'
    BY <1>1, <2>1 DEF memoryVars, AgentInv, MemoryTypes, AgentTypeOK, CycleRecord, WorkerRecord
  <2>3. QED
    BY <1>1, <1>6, <1>10, <2>2 DEF AgentInv, MemoryTypes
<1>16. \A q \in Holder : WorkerOK(q)'
  BY <1>1 DEF AgentInv, WorkerOK
<1>17. PendingIsFirst'
  BY <1>1 DEF AgentInv, PendingIsFirst, registryVars
<1>18. QED
  BY <1>7, <1>8, <1>12, <1>14, <1>15, <1>16, <1>17 DEF AgentInv

-----------------------------------------------------------------------------
(* The steps of the verification worker.                                    *)

WorkerKnows(w) ==
  /\ w \in WorkerRecord
  /\ w.pc \notin {"idle", "pending"} => w.k \in ActionKey
  /\ w.pc = "execute" => w.vversion = 1

LEMMA WorkerStepKeepsInv ==
  ASSUME AgentInv, Uses, NEW r \in Holder, NEW w, WorkerKnows(w),
         WorkerGo(r, w), UNCHANGEDByWorker
  PROVE  AgentInv'
<1>1. UNCHANGED <<now, pods, approvals, handledAt, lastActionAt, plans, executions, cycle>>
  BY DEF UNCHANGEDByWorker, clusterVars, memoryVars
<1>2. AgentKeeps /\ RegistryInv'
  BY <1>1, KeepsWhenUsing
<1>3. PendingIsFirst'
  BY RegistryStepKeeps DEF AgentInv, Uses
<1>4. /\ worker' \in [Holder -> WorkerRecord] /\ worker'[r] = w
      /\ \A q \in Holder \ {r} : worker'[q] = worker[q]
  BY DEF WorkerGo, WorkerKnows, AgentInv, MemoryTypes
<1>5. MemoryTypes'
  <2>1. \A q \in Holder : cycle'[q] \in CycleRecord /\ worker'[q] \in WorkerRecord
    BY <1>1, <1>4 DEF AgentInv, MemoryTypes
  <2>2. AgentTypeOK'
    BY <1>1, <2>1 DEF AgentInv, MemoryTypes, AgentTypeOK, CycleRecord, WorkerRecord
  <2>3. QED
    BY <1>1, <1>4, <2>2 DEF AgentInv, MemoryTypes
<1>6. \A q \in Holder : CycleOK(q)'
  BY <1>1, <1>2, CycleKept
<1>7. \A q \in Holder : WorkerOK(q)'
  BY <1>4 DEF AgentInv, WorkerOK, WorkerKnows
<1>8. ExecutionAuthorised'
  BY <1>1, <1>2, AuthorisedKept DEF Authorised, ExecutionAuthorised
<1>9. QED
  BY <1>2, <1>3, <1>5, <1>6, <1>7, <1>8 DEF AgentInv

(* A worker that ends, or turns to the pending verifications.               *)
LEMMA IdleWorkerKnows ==
  WorkerKnows(IdleWorker) /\ WorkerKnows([IdleWorker EXCEPT !.pc = "pending"])
  BY DEF WorkerKnows, IdleWorker, WorkerRecord, WorkerPC

(* What a worker notes of the work it claimed is of its type.               *)
LEMMA ClaimedWorkKnown ==
  ASSUME AgentInv, Uses, NEW k \in ActionKey, IncidentExists(k.incident), VerificationExists(k)
  PROVE  /\ incidents'[k.incident].version \in Version
         /\ verifications[k].version \in {1, 2}
<1>1. RegistryInv' /\ RegistryKeeps /\ k.incident \in IncidentID
  BY RegistryStepKeeps, ActionKeyOf DEF AgentInv, Uses
<1>2. incidents'[k.incident].state # "NONE"
  BY <1>1 DEF RegistryKeeps, IncidentExists
<1>3. incidents'[k.incident] \in Incident
  BY <1>1, <1>2 DEF RegistryInv, RegistryTypeOK, NoIncident
<1>4. verifications[k] \in Verification
  BY ExistingVerification DEF AgentInv, RegistryInv
<1>5. QED
  BY <1>3, <1>4 DEF Incident, Verification

LEMMA ClaimResolutionStep ==
  ASSUME AgentInv, NEW r \in Holder, ClaimResolution(r)
  PROVE  Uses /\ AgentInv'
<1>1. PICK k \in ActionKey :
        /\ ClaimRecoveredVerificationResolution(k, r, now, LeaseDuration)
        /\ WorkerGo(r,
             [pc |-> "resolveClaimed", k |-> k, version |-> incidents'[k.incident].version,
              vversion |-> verifications[k].version])
  BY DEF ClaimResolution
<1>2. now \in Time /\ LeaseDuration \in Lease /\ UNCHANGEDByWorker
  BY DurationAssumption, Before DEF ClaimResolution
<1>3. VerificationStep(k, r, now)
  BY <1>1, <1>2, Zenon DEF VerificationStep
<1>4. Uses
  BY <1>2, <1>3, Zenon DEF Uses, RegistryNext
<1>5. IncidentExists(k.incident) /\ VerificationExists(k)
  BY <1>1
  DEF ClaimRecoveredVerificationResolution, RecoveredWork, ListRecovered, IncidentExists,
      VerificationExists
<1>6. PICK version \in Version, vversion \in {1, 2} :
        version = incidents'[k.incident].version /\ vversion = verifications[k].version
  BY <1>4, <1>5, ClaimedWorkKnown
<1> DEFINE w == [pc |-> "resolveClaimed", k |-> k, version |-> version, vversion |-> vversion]
<1>7. WorkerGo(r, w)
  BY <1>1, <1>6
<1>8. WorkerKnows(w)
  BY DEF WorkerKnows, WorkerRecord, WorkerPC
<1>9. QED
  BY <1>2, <1>4, <1>7, <1>8, WorkerStepKeepsInv

LEMMA ResolveIncidentStep ==
  ASSUME AgentInv, NEW r \in Holder, ResolveIncident(r)
  PROVE  Uses /\ AgentInv'
<1> DEFINE k == worker[r].k
           version == worker[r].version
<1>1. /\ worker[r].pc \in {"resolveClaimed", "resolveCompleted"} /\ UNCHANGEDByWorker
      /\ now \in Time
  BY Before DEF ResolveIncident, WorkerAt
<1>2. k \in ActionKey
  BY <1>1 DEF AgentInv, WorkerOK
<1>3. CASE ResolveAccepted(k.incident, version, k, r, now)
  <2>1. Resolve(k.incident, version, k, r, now) /\ WorkerGo(r, IdleWorker)
    BY <1>3 DEF ResolveIncident, WorkerStop
  <2>2. incidents[k.incident].version = version
    BY <1>3 DEF ResolveAccepted, FencePassed
  <2>3. VerificationStep(k, r, now)
    BY <2>1, <2>2, Zenon DEF VerificationStep
  <2>4. Uses
    BY <1>1, <1>2, <2>3, Zenon DEF Uses, RegistryNext
  <2>5. QED
    BY <1>1, <2>1, <2>4, IdleWorkerKnows, WorkerStepKeepsInv
<1>4. CASE ~ ResolveAccepted(k.incident, version, k, r, now)
  <2>1. /\ UNCHANGED registryVars
        /\ WorkerGo(r, IdleWorker) \/ WorkerGo(r, [IdleWorker EXCEPT !.pc = "pending"])
    BY <1>4 DEF ResolveIncident, WorkerStop
  <2>2. QED
    BY <1>1, <2>1, IdleWorkerKnows, WorkerStepKeepsInv DEF Uses
<1>5. QED
  BY <1>3, <1>4

LEMMA ClaimPendingStep ==
  ASSUME AgentInv, NEW r \in Holder, ClaimPending(r)
  PROVE  Uses /\ AgentInv'
<1>1. now \in Time /\ LeaseDuration \in Lease /\ UNCHANGEDByWorker
  BY DurationAssumption, Before DEF ClaimPending
<1>2. ASSUME NEW k \in ActionKey,
             ClaimPendingVerification(k, r, now, LeaseDuration),
             WorkerGo(r,
               [pc |-> "execute", k |-> k, version |-> incidents'[k.incident].version,
                vversion |-> verifications[k].version])
      PROVE  Uses /\ AgentInv'
  <2>1. VerificationStep(k, r, now)
    BY <1>1, <1>2, Zenon DEF VerificationStep
  <2>2. Uses
    BY <1>1, <2>1, Zenon DEF Uses, RegistryNext
  <2>3. IncidentExists(k.incident) /\ VerificationExists(k) /\ verifications[k].version = 1
    BY <1>2
    DEF ClaimPendingVerification, PendingWork, ListPending, IncidentExists, VerificationExists,
        AgentInv, PendingIsFirst
  <2>4. PICK version \in Version : version = incidents'[k.incident].version
    BY <2>2, <2>3, ClaimedWorkKnown
  <2> DEFINE w == [pc |-> "execute", k |-> k, version |-> version, vversion |-> 1]
  <2>5. WorkerGo(r, w)
    BY <1>2, <2>3, <2>4
  <2>6. WorkerKnows(w)
    BY DEF WorkerKnows, WorkerRecord, WorkerPC
  <2>7. QED
    BY <1>1, <2>2, <2>5, <2>6, WorkerStepKeepsInv
<1>3. CASE WorkerStop(r) /\ UNCHANGED registryVars
  BY <1>1, <1>3, IdleWorkerKnows, WorkerStepKeepsInv DEF Uses, WorkerStop
<1>4. QED
  BY <1>2, <1>3 DEF ClaimPending

LEMMA CompleteWorkStep ==
  ASSUME AgentInv, NEW r \in Holder, CompleteWork(r)
  PROVE  Uses /\ AgentInv'
<1> DEFINE w == worker[r]
<1>1. w.pc = "execute" /\ UNCHANGEDByWorker /\ now \in Time
  BY Before DEF CompleteWork, WorkerAt
<1>2. w \in WorkerRecord /\ w.k \in ActionKey /\ w.vversion = 1
  BY <1>1 DEF AgentInv, MemoryTypes, WorkerOK
<1>3. PICK result \in {"RECOVERED", "NOT_RECOVERED"} :
        IF FencedCompletionAccepted(w.k, w.version, r, now, w.vversion, result)
          THEN /\ CompleteFencedVerification(w.k, w.version, r, now, w.vversion, result)
               /\ \/ WorkerGo(r, [w EXCEPT !.pc = "resolveCompleted"])
                  \/ WorkerGo(r, IdleWorker)
          ELSE WorkerGo(r, IdleWorker) /\ UNCHANGED registryVars
  BY DEF CompleteWork, WorkerStop
<1>4. WorkerKnows([w EXCEPT !.pc = "resolveCompleted"])
  BY <1>2 DEF WorkerKnows, WorkerRecord, WorkerPC
<1>5. CASE FencedCompletionAccepted(w.k, w.version, r, now, w.vversion, result)
  <2>1. CompleteFencedVerification(w.k, w.version, r, now, 1, result)
    BY <1>2, <1>3, <1>5
  <2>2. incidents[w.k.incident].version = w.version
    BY <1>5 DEF FencedCompletionAccepted, FencePassed
  <2>3. result \in VerificationResult
    BY DEF VerificationResult
  <2>4. VerificationStep(w.k, r, now)
    BY <2>1, <2>2, <2>3, Zenon DEF VerificationStep
  <2>5. Uses
    BY <1>1, <1>2, <2>4, Zenon DEF Uses, RegistryNext
  <2>6. QED
    BY <1>1, <1>3, <1>4, <1>5, <2>5, IdleWorkerKnows, WorkerStepKeepsInv
<1>6. CASE ~ FencedCompletionAccepted(w.k, w.version, r, now, w.vversion, result)
  BY <1>1, <1>3, <1>6, IdleWorkerKnows, WorkerStepKeepsInv DEF Uses
<1>7. QED
  BY <1>5, <1>6

LEMMA WorkerAbortsStep ==
  ASSUME AgentInv, NEW r \in Holder, WorkerAborts(r)
  PROVE  Uses /\ AgentInv'
  BY IdleWorkerKnows, WorkerStepKeepsInv DEF WorkerAborts, WorkerStop, Uses

LEMMA CycleAbortsStep ==
  ASSUME AgentInv, NEW r \in Holder, CycleAborts(r)
  PROVE  Uses /\ AgentInv'
<1>1. /\ Stop(r)
      /\ UNCHANGED <<registryVars, clusterVars, memoryVars, plans, executions, worker>>
  BY DEF CycleAborts
<1>2. QED
  BY <1>1, Before, StopKeepsInv DEF clusterVars, memoryVars, MemoryTablesOK, Uses

-----------------------------------------------------------------------------
(* The clock and the operator: nothing the replicas know is disturbed.      *)
LEMMA EnvironmentKeepsInv ==
  ASSUME AgentInv,
         UNCHANGED <<registryVars, pods, memoryVars, plans, executions, cycle, worker>>,
         AgentKeeps, approvals' \in [ActionKey -> [from: Nat, until: Nat]]
  PROVE  Uses /\ AgentInv'
<1>1. Uses
  BY DEF Uses
<1>2. RegistryInv' /\ PendingIsFirst'
  BY <1>1, RegistryStepKeeps DEF AgentInv, Uses
<1>3. MemoryTypes'
  <2>1. AgentTypeOK'
    BY DEF memoryVars, AgentInv, MemoryTypes, AgentTypeOK, AgentKeeps
  <2>2. QED
    BY <2>1 DEF AgentInv, MemoryTypes
<1>4. \A q \in Holder : CycleOK(q)'
  BY CycleKept
<1>5. \A q \in Holder : WorkerOK(q)'
  BY DEF AgentInv, WorkerOK
<1>6. ExecutionAuthorised'
  BY AuthorisedKept DEF Authorised, ExecutionAuthorised
<1>7. QED
  BY <1>1, <1>2, <1>3, <1>4, <1>5, <1>6 DEF AgentInv

LEMMA TickStep ==
  ASSUME AgentInv, Tick
  PROVE  Uses /\ AgentInv'
<1>1. now \in Time /\ now \in Nat
  BY Before, TimeAssumption DEF AgentInv, MemoryTypes, AgentTypeOK
<1>2. Uses
  BY DEF Tick, Uses
<1>3. RegistryKeeps
  BY <1>2, RegistryStepKeeps DEF AgentInv, Uses
<1>4. AgentKeeps
  BY <1>1, <1>3 DEF Tick, AgentKeeps
<1>5. approvals' \in [ActionKey -> [from: Nat, until: Nat]]
  BY DEF Tick, AgentInv, MemoryTypes
<1>6. QED
  BY <1>4, <1>5, EnvironmentKeepsInv DEF Tick

LEMMA GrantStep ==
  ASSUME AgentInv, NEW k \in ActionKey, Grant(k)
  PROVE  Uses /\ AgentInv'
<1>1. now \in Time /\ now \in Nat \ {0}
  BY TimeAssumption DEF AgentInv, MemoryTypes, AgentTypeOK
<1>2. Uses
  BY DEF Grant, Uses
<1>3. RegistryKeeps
  BY <1>2, RegistryStepKeeps DEF AgentInv, Uses
<1>4. PICK from \in {now - 1, now, now + 1} :
        approvals' = [approvals EXCEPT ![k] = [from |-> from, until |-> from + ApprovalWindow]]
  BY DEF Grant
<1>5. from \in Nat /\ from + ApprovalWindow \in Nat
  BY <1>1, DurationAssumption
<1>6. approvals' \in [ActionKey -> [from: Nat, until: Nat]]
  BY <1>4, <1>5 DEF AgentInv, MemoryTypes
<1>7. \A j \in ActionKey : approvals[j] # NoApproval => approvals'[j] = approvals[j]
  BY <1>4 DEF Grant, AgentInv, MemoryTypes
<1>8. AgentKeeps
  BY <1>1, <1>3, <1>7 DEF Grant, AgentKeeps
<1>9. QED
  BY <1>6, <1>8, EnvironmentKeepsInv DEF Grant

-----------------------------------------------------------------------------
(* Every step of the agent is a step of the registry, or leaves it alone,   *)
(* and keeps the invariant.                                                 *)
LEMMA AgentStep ==
  ASSUME AgentInv, [AgentNext]_agentVars
  PROVE  Uses /\ AgentInv'
<1>1. ASSUME NEW r \in Holder, CycleStep(r) PROVE Uses /\ AgentInv'
  BY <1>1, CollectStep, ObserveIncidentStep, ClaimIncidentStep, SnapshotStep, DecideStep,
     CheckApprovalStep, DenyStep, PublishPlanStep, AwaitApprovalStep, ResumeStep,
     RecordAttemptStep, ClaimActionStep, BeginStep, RecoverStep, DeleteStep, CompleteStep,
     VerifyStep, Zenon
  DEF CycleStep
<1>2. ASSUME NEW r \in Holder, WorkerStep(r) PROVE Uses /\ AgentInv'
  BY <1>2, ClaimResolutionStep, ResolveIncidentStep, ClaimPendingStep, CompleteWorkStep, Zenon
  DEF WorkerStep
<1>3. ASSUME NEW r \in Holder, CycleAborts(r) \/ WorkerAborts(r) PROVE Uses /\ AgentInv'
  BY <1>3, CycleAbortsStep, WorkerAbortsStep
<1>4. ASSUME NEW k \in ActionKey, Grant(k) PROVE Uses /\ AgentInv'
  BY <1>4, GrantStep
<1>5. CASE Tick
  BY <1>5, TickStep
<1>6. CASE UNCHANGED agentVars
  <2>1. UNCHANGED <<registryVars, now, pods, approvals, memoryVars, plans, executions, cycle, worker>>
    BY <1>6 DEF agentVars, clusterVars
  <2>2. Uses
    BY <2>1 DEF Uses
  <2>3. AgentKeeps
    BY <2>1, <2>2, KeepsWhenUsing
  <2>4. approvals' \in [ActionKey -> [from: Nat, until: Nat]]
    BY <2>1 DEF AgentInv, MemoryTypes
  <2>5. QED
    BY <2>1, <2>3, <2>4, EnvironmentKeepsInv
<1>7. QED
  BY <1>1, <1>2, <1>3, <1>4, <1>5, <1>6, Zenon DEF AgentNext, FaultlessNext

(* The conjuncts of AgentInv hold in every state of every behaviour: what a *)
(* replica remembers from its earlier calls is still true when it acts on   *)
(* it, wherever it must be for the action to be safe.                       *)
THEOREM AgentInvariant == AgentSpec => []AgentInv
  BY AgentInvInit, AgentStep, PTL DEF AgentSpec

(* The agent uses the registry and the attempt store only as RegistrySpec   *)
(* lets callers use them: every attempt call is made under a token of an    *)
(* audited claim, every completion from the first version.  So the          *)
(* registry's theorems hold of the deployed agent.                          *)
THEOREM AgentKeepsToRegistry == AgentSpec => AgentUsesRegistry
<1>1. AgentInit => RegistryInit
  BY DEF AgentInit
<1>2. AgentInv /\ [AgentNext]_agentVars => [RegistryNext]_registryVars
  BY AgentStep DEF Uses
<1>3. QED
  BY <1>1, <1>2, AgentInvariant, PTL DEF AgentSpec, AgentUsesRegistry, RegistrySpec

(* An action is executed at most once and only when it was authorised, for  *)
(* any number of replicas, whatever fails and whoever takes over.           *)
THEOREM ExecutionsAreAuthorised == AgentSpec => []ExecutionAuthorised
<1>1. AgentInv => ExecutionAuthorised
  BY DEF AgentInv
<1>2. QED
  BY <1>1, AgentInvariant, PTL

(* The shared stores and the replicas' memories hold what they are made for.*)
THEOREM AgentTypes == AgentSpec => []AgentTypeOK
<1>1. AgentInv => AgentTypeOK
  BY DEF AgentInv, MemoryTypes
<1>2. QED
  BY <1>1, AgentInvariant, PTL
=============================================================================
