-------------------------- MODULE IncidentRegistry --------------------------
(***************************************************************************)
(* The incident registry: incidents deduplicated by key, advanced by        *)
(* compare-and-set on their version, claimed under leases, and moved        *)
(* through verification behind a fence.  One mutex guards every operation,  *)
(* so each operation is one atomic step; the verification store it calls is *)
(* changed in the same step.                                                *)
(*                                                                         *)
(* RegistrySpec drives the registry and the attempt store by callers that   *)
(* are only assumed to name tokens they obtained from a claim: they may     *)
(* call in any order, hold different clocks, and stop at any moment.        *)
(***************************************************************************)
EXTENDS VerificationStore

CONSTANTS
  Key,            \* idempotency keys of observations
  MaxIncidents,   \* bound on the incidents ever created
  Plan,           \* identities of plans: plan hash and target UID
  NoPlan,         \* the empty ApprovalBinding, the empty verification ID
  Holder,         \* lease holders: the identities of agent instances
  Lease           \* lease durations

ASSUME MaxIncidentsAssumption == MaxIncidents \in Nat
ASSUME NoPlanAssumption == NoPlan \notin Plan
ASSUME LeaseAssumption == Lease \subseteq Nat \ {0}

(* An incident's ID is a hash of its key and a sequence number that is      *)
(* never reused, so the number alone identifies it.                         *)
IncidentID == 1..MaxIncidents

ASSUME ActionKeyAssumption == ActionKey = [incident: IncidentID, plan: Plan]
ASSUME VersionOneAssumption == 1 \in Version

VARIABLES
  incidents,      \* Registry.incidentsByID
  activeByKey,    \* Registry.activeByKey; 0 for a key that is not in the map
  claims,         \* Registry.claimsByIncidentID
  claimHistory,   \* Registry.claimHistoryByIncidentID
  nextSequence    \* Registry.nextSequence

registryVars ==
  <<incidents, activeByKey, claims, claimHistory, nextSequence,
    verifications, attempts>>

State == {"DETECTED", "DIAGNOSED", "WAITING_APPROVAL", "VERIFYING", "RESOLVED"}

Incident ==
  [state: State, version: Version, key: Key,
   binding: Plan \cup {NoPlan}, resolvedBy: Plan \cup {NoPlan}]

NoIncident == [state |-> "NONE", version |-> 0]

ClaimRecord == [version: Version, holder: Holder, expiresAt: Nat]

NoClaim == [version |-> 0]

ClaimAuditEvent ==
  [version: Version, holder: Holder, acquiredAt: Time, expiresAt: Nat]

IncidentExists(i) == incidents[i].state # "NONE"

Claimed(i) == claims[i].version # 0

(* Faulty: a lease runs out one unit early. *)
LeaseExpiredEarly(i, now) == Claimed(i) => now + 1 >= claims[i].expiresAt

LeaseExpired(i, now) == Claimed(i) => now >= claims[i].expiresAt

-----------------------------------------------------------------------------
(* Faulty: the first version is Go's zero value. *)
NewIncidentUnversioned(key) ==
  [state |-> "DETECTED", version |-> 0, key |-> key,
   binding |-> NoPlan, resolvedBy |-> NoPlan]

(* Observe: a repeated observation of an active incident changes nothing;   *)
(* after the incident is resolved the same key starts another one.          *)
NewIncident(key) ==
  [state |-> "DETECTED", version |-> 1, key |-> key,
   binding |-> NoPlan, resolvedBy |-> NoPlan]

(* Faulty: every observation starts an incident. *)
ObserveAlwaysNew(key) ==
  /\ nextSequence < MaxIncidents
  /\ nextSequence' = nextSequence + 1
  /\ incidents' = [incidents EXCEPT ![nextSequence'] = NewIncident(key)]
  /\ activeByKey' = [activeByKey EXCEPT ![key] = nextSequence']
  /\ UNCHANGED <<claims, claimHistory, verifications, attempts>>

(* Faulty: the sequence number is not consumed, so an ID is used twice. *)
ObserveReusingID(key) ==
  /\ activeByKey[key] = 0 /\ nextSequence < MaxIncidents
  /\ incidents' = [incidents EXCEPT ![nextSequence + 1] = NewIncident(key)]
  /\ activeByKey' = [activeByKey EXCEPT ![key] = nextSequence + 1]
  /\ UNCHANGED <<claims, claimHistory, nextSequence, verifications, attempts>>

Observe(key) ==
  /\ IF activeByKey[key] # 0
       THEN UNCHANGED <<incidents, activeByKey, nextSequence>>
       ELSE /\ nextSequence < MaxIncidents
            /\ nextSequence' = nextSequence + 1
            /\ incidents' = [incidents EXCEPT ![nextSequence'] = NewIncident(key)]
            /\ activeByKey' = [activeByKey EXCEPT ![key] = nextSequence']
  /\ UNCHANGED <<claims, claimHistory, verifications, attempts>>

(* What every successful claim does: advance the version, which is the new  *)
(* fencing token, replace the claim and append the audit event.  The rest   *)
(* of the incident is what it was.                                          *)
AuditEvent(version, holder, now, lease) ==
  [version |-> version, holder |-> holder,
   acquiredAt |-> now, expiresAt |-> now + lease]

(* Faulty: the claimed incident is rebuilt without its binding. *)
ClaimedWithoutBinding(incident) ==
  [incident EXCEPT !.version = @ + 1, !.binding = NoPlan]

ClaimedIncident(incident) == [incident EXCEPT !.version = @ + 1]

(* Faulty: the claim is not audited; the audit keeps only the last claim.   *)
Unaudited(history, event) == history
LastAudited(history, event) == {event}

Audited(history, event) == history \cup {event}

GrantClaim(i, holder, now, lease) ==
  LET event == AuditEvent(incidents[i].version + 1, holder, now, lease) IN
    /\ event.version \in Version
    /\ incidents' = [incidents EXCEPT ![i] = ClaimedIncident(@)]
    /\ claims' = [claims EXCEPT ![i] =
         [version |-> event.version, holder |-> holder, expiresAt |-> event.expiresAt]]
    /\ claimHistory' = [claimHistory EXCEPT ![i] = Audited(@, event)]
    /\ UNCHANGED <<activeByKey, nextSequence, verifications, attempts>>

ClaimAccepted(i, version, holder, now) ==
  /\ IncidentExists(i)
  /\ incidents[i].version = version
  /\ \/ LeaseExpired(i, now)
     \/ Claimed(i) /\ claims[i].holder = holder

Claim(i, version, holder, now, lease) ==
  /\ ClaimAccepted(i, version, holder, now)
  /\ GrantClaim(i, holder, now, lease)

(* Faulty: an incident under verification may simply be resolved. *)
ValidTransitionWithShortcut ==
  {<<"DETECTED", "DIAGNOSED">>, <<"DETECTED", "RESOLVED">>,
   <<"DIAGNOSED", "WAITING_APPROVAL">>, <<"DIAGNOSED", "VERIFYING">>,
   <<"DIAGNOSED", "RESOLVED">>, <<"WAITING_APPROVAL", "VERIFYING">>,
   <<"VERIFYING", "RESOLVED">>}

(* Transition: compare-and-set on the version; neither claim nor lease is   *)
(* looked at.                                                               *)
ValidTransition ==
  {<<"DETECTED", "DIAGNOSED">>, <<"DETECTED", "RESOLVED">>,
   <<"DIAGNOSED", "WAITING_APPROVAL">>, <<"DIAGNOSED", "VERIFYING">>,
   <<"DIAGNOSED", "RESOLVED">>, <<"WAITING_APPROVAL", "VERIFYING">>}

(* The command must carry a binding for WAITING_APPROVAL and only then. *)
ValidTransitionCommand(to, binding) ==
  to = "WAITING_APPROVAL" <=> binding # NoPlan

(* Faulty: a resolved incident stays in the index of active ones. *)
NeverDeactivated(i, to) == activeByKey

Deactivated(i, to) ==
  IF to = "RESOLVED"
    THEN [activeByKey EXCEPT ![incidents[i].key] = 0]
    ELSE activeByKey

(* Faulty: the version is not compared. *)
TransitionAcceptedStale(i, version, to, binding) ==
  /\ ValidTransitionCommand(to, binding)
  /\ IncidentExists(i)
  /\ <<incidents[i].state, to>> \in ValidTransition

TransitionAccepted(i, version, to, binding) ==
  /\ ValidTransitionCommand(to, binding)
  /\ IncidentExists(i)
  /\ incidents[i].version = version
  /\ <<incidents[i].state, to>> \in ValidTransition

Transition(i, version, to, binding) ==
  /\ TransitionAccepted(i, version, to, binding)
  /\ version + 1 \in Version
  /\ incidents' = [incidents EXCEPT
       ![i].state = to,
       ![i].version = @ + 1,
       ![i].binding = IF to = "WAITING_APPROVAL" THEN binding ELSE @]
  /\ activeByKey' = Deactivated(i, to)
  /\ UNCHANGED <<claims, claimHistory, nextSequence, verifications, attempts>>

-----------------------------------------------------------------------------
(* The fence: the caller must present the incident's version and that must  *)
(* be the version of an audited, unexpired claim the caller holds.          *)
ClaimAudited(i, version, holder) ==
  \E event \in claimHistory[i] :
    /\ event.version = version
    /\ event.holder = holder
    /\ event.expiresAt = claims[i].expiresAt

FencePassed(i, version, holder, now) ==
  /\ IncidentExists(i)
  /\ incidents[i].version = version
  /\ Claimed(i)
  /\ claims[i].holder = holder
  /\ claims[i].version = version
  /\ ClaimAudited(i, version, holder)
  /\ now < claims[i].expiresAt

(* Faulty: the state is not looked at. *)
FencedBeginAcceptedAnywhere(k, version, holder, now, attempt, subject) ==
  /\ FencePassed(k.incident, version, holder, now)
  /\ VerificationBeginAccepted(k, attempt, subject, now)
  /\ BegunVerification(k, subject, now).status = "PENDING"

(* BeginFencedVerification: enter VERIFYING and create the verification, or *)
(* confirm VERIFYING and reuse it, in one step.                             *)
FencedBeginAccepted(k, version, holder, now, attempt, subject) ==
  /\ FencePassed(k.incident, version, holder, now)
  /\ incidents[k.incident].state \in {"DIAGNOSED", "WAITING_APPROVAL", "VERIFYING"}
  /\ VerificationBeginAccepted(k, attempt, subject, now)
  /\ BegunVerification(k, subject, now).status = "PENDING"

BeginFencedVerification(k, version, holder, now, attempt, subject) ==
  /\ FencedBeginAccepted(k, version, holder, now, attempt, subject)
  /\ BeginVerification(k, attempt, subject, now)
  /\ IF incidents[k.incident].state = "VERIFYING"
       THEN UNCHANGED incidents
       ELSE /\ version + 1 \in Version
            /\ incidents' = [incidents EXCEPT
                 ![k.incident].state = "VERIFYING",
                 ![k.incident].version = @ + 1]
  /\ UNCHANGED <<activeByKey, claims, claimHistory, nextSequence, attempts>>

(* CompleteFencedVerification: record the result; the incident stays. *)
FencedCompletionAccepted(k, version, holder, now, vversion, to) ==
  /\ FencePassed(k.incident, version, holder, now)
  /\ incidents[k.incident].state = "VERIFYING"
  /\ VerificationCompletionAccepted(k, vversion, to, now)

CompleteFencedVerification(k, version, holder, now, vversion, to) ==
  /\ FencedCompletionAccepted(k, version, holder, now, vversion, to)
  /\ CompleteVerification(k, vversion, to, now)
  /\ UNCHANGED <<incidents, activeByKey, claims, claimHistory, nextSequence, attempts>>

(* Faulty: any verification that is over will do. *)
RequireFinished(k, i) ==
  k.incident = i /\ verifications[k].status \in VerificationResult

(* Resolve: the evidence is read before the registry's mutex is taken.  A   *)
(* RECOVERED verification never changes again (RecoveredIsFinal below), so  *)
(* the reading still holds when the rest runs and one step stands for both. *)
RequireRecovered(k, i) ==
  /\ k.incident = i
  /\ verifications[k].status = "RECOVERED"

ResolveAccepted(i, version, k, holder, now) ==
  /\ RequireRecovered(k, i)
  /\ FencePassed(i, version, holder, now)
  /\ incidents[i].state = "VERIFYING"

Resolve(i, version, k, holder, now) ==
  /\ ResolveAccepted(i, version, k, holder, now)
  /\ version + 1 \in Version
  /\ incidents' = [incidents EXCEPT
       ![i].state = "RESOLVED",
       ![i].version = @ + 1,
       ![i].resolvedBy = k.plan,
       ![i].binding = NoPlan]
  /\ activeByKey' = Deactivated(i, "RESOLVED")
  /\ UNCHANGED <<claims, claimHistory, nextSequence, verifications, attempts>>

(* The two schedulers hand out work whose incident is VERIFYING and whose   *)
(* lease has run out, even the caller's own lease; which work is picked     *)
(* follows Go's map order, that is, any.                                    *)
PendingWork(k, now) ==
  /\ k \in ListPending
  /\ incidents[k.incident].state = "VERIFYING"
  /\ LeaseExpired(k.incident, now)

ClaimPendingVerification(k, holder, now, lease) ==
  /\ PendingWork(k, now)
  /\ GrantClaim(k.incident, holder, now, lease)

RecoveredWork(k, now) ==
  /\ k \in ListRecovered
  /\ incidents[k.incident].state = "VERIFYING"
  /\ incidents[k.incident].resolvedBy = NoPlan
  /\ LeaseExpired(k.incident, now)

ClaimRecoveredVerificationResolution(k, holder, now, lease) ==
  /\ RecoveredWork(k, now)
  /\ GrantClaim(k.incident, holder, now, lease)

-----------------------------------------------------------------------------
RegistryInit ==
  /\ incidents = [i \in IncidentID |-> NoIncident]
  /\ activeByKey = [key \in Key |-> 0]
  /\ claims = [i \in IncidentID |-> NoClaim]
  /\ claimHistory = [i \in IncidentID |-> {}]
  /\ nextSequence = 0
  /\ VerificationInit
  /\ AttemptInit

(* An executor begins or recovers an attempt under a token it was granted. *)
AttemptStep(k, now) ==
  /\ \E event \in claimHistory[k.incident] :
       \/ BeginAttempt(k, event.version, now)
       \/ RecoverAttempt(k, event.version, now)
       \/ \E to \in CompletedStatus : CompleteAttempt(k, event.version, 1, to, now)
  /\ UNCHANGED <<incidents, activeByKey, claims, claimHistory, nextSequence, verifications>>

IncidentStep(i, now) ==
  LET version == incidents[i].version IN
    \/ \E to \in State, binding \in Plan \cup {NoPlan} : Transition(i, version, to, binding)
    \/ \E holder \in Holder, lease \in Lease : Claim(i, version, holder, now, lease)

VerificationStep(k, holder, now) ==
  LET version == incidents[k.incident].version IN
    \/ \E subject \in Subject :
         BeginFencedVerification(k, version, holder, now, attempts[k], subject)
    \/ \E to \in VerificationResult :
         CompleteFencedVerification(k, version, holder, now, 1, to)
    \/ Resolve(k.incident, version, k, holder, now)
    \/ \E lease \in Lease :
         \/ ClaimPendingVerification(k, holder, now, lease)
         \/ ClaimRecoveredVerificationResolution(k, holder, now, lease)

RegistryNext ==
  \/ \E key \in Key : Observe(key)
  \/ \E i \in IncidentID, now \in Time : IncidentStep(i, now)
  \/ \E k \in ActionKey, now \in Time : AttemptStep(k, now)
  \/ \E k \in ActionKey, holder \in Holder, now \in Time : VerificationStep(k, holder, now)

RegistrySpec == RegistryInit /\ [][RegistryNext]_registryVars

-----------------------------------------------------------------------------
(* Properties *)

(* Types of the state: the bounds on the numbers come from Version, Time    *)
(* and MaxIncidents.                                                        *)
RegistryTypeOK ==
  /\ incidents \in [IncidentID -> Incident \cup {NoIncident}]
  /\ activeByKey \in [Key -> IncidentID \cup {0}]
  /\ claims \in [IncidentID -> ClaimRecord \cup {NoClaim}]
  /\ claimHistory \in [IncidentID -> SUBSET ClaimAuditEvent]
  /\ nextSequence \in 0..MaxIncidents
  /\ VerificationTypeOK
  /\ AttemptTypeOK

(* At most one incident per key is active, and the index that deduplicates  *)
(* observations names exactly that one: an observation never splits a live  *)
(* incident in two and never lands on a resolved one, whichever of the two  *)
(* paths to RESOLVED (Transition, Resolve) was taken.                       *)
ActiveIncidentUnique ==
  \A key \in Key, i \in IncidentID :
    activeByKey[key] = i <=>
      /\ IncidentExists(i)
      /\ incidents[i].key = key
      /\ incidents[i].state # "RESOLVED"

(* A fencing token names one claim, for ever: no two audited claims of an   *)
(* incident share a version, the claim in force is the audited claim with   *)
(* the highest version, and no claim is ahead of the incident.              *)
ClaimIsLatestAudited ==
  \A i \in IncidentID :
    /\ \A e, f \in claimHistory[i] : e.version = f.version => e = f
    /\ \A e \in claimHistory[i] : e.version <= claims[i].version
    /\ Claimed(i) =>
         /\ claims[i].version <= incidents[i].version
         /\ \E e \in claimHistory[i] :
              /\ e.version = claims[i].version
              /\ e.holder = claims[i].holder
              /\ e.expiresAt = claims[i].expiresAt

(* The right to advance an incident is exclusive while its lease runs: when *)
(* it passes from one holder to another, the later claim was acquired no    *)
(* earlier than the lease it displaced ran out, even though the holders     *)
(* read clocks that do not agree and re-claim as they please.               *)
NextAudited(i, e, f) ==
  /\ e.version < f.version
  /\ ~ \E g \in claimHistory[i] : e.version < g.version /\ g.version < f.version

LeasesNeverOverlap ==
  \A i \in IncidentID : \A e, f \in claimHistory[i] :
    NextAudited(i, e, f) /\ e.holder # f.holder => f.acquiredAt >= e.expiresAt

(* The audit is append-only, and each claim in it bumped the version: a     *)
(* holder can always prove later which token it had.                        *)
AuditIsAppendOnly ==
  [][\A i \in IncidentID :
       /\ claimHistory[i] \subseteq claimHistory'[i]
       /\ \A e \in claimHistory'[i] \ claimHistory[i] :
            e.version = incidents[i].version + 1 /\ e.version = incidents'[i].version
    ]_registryVars

(* Only persisted recovery evidence closes an incident under verification:  *)
(* a resolution names a RECOVERED verification of that incident, begun      *)
(* after its action attempt had ended, and the incident's way there is the  *)
(* only one that leaves VERIFYING.                                          *)
ResolutionIsEvidenced ==
  \A i \in IncidentID :
    (IncidentExists(i) /\ incidents[i].resolvedBy # NoPlan) =>
      LET k == [incident |-> i, plan |-> incidents[i].resolvedBy] IN
        /\ incidents[i].state = "RESOLVED"
        /\ verifications[k].status = "RECOVERED"
        /\ attempts[k].status \in TerminalAttempt
        /\ attempts[k].finishedAt <= verifications[k].startedAt

VerifyingLeftOnlyByEvidence ==
  [][\A i \in IncidentID :
       incidents[i].state = "VERIFYING" /\ incidents'[i].state # "VERIFYING"
         => incidents'[i].state = "RESOLVED" /\ incidents'[i].resolvedBy # NoPlan
    ]_registryVars

(* A verification exists only for an attempt that is over, and starts no    *)
(* earlier than the attempt finished, although the caller hands in a copy   *)
(* of the attempt and nothing ties the two stores together.                 *)
VerificationFollowsAttempt ==
  \A k \in ActionKey : VerificationExists(k) =>
    /\ attempts[k].status \in TerminalAttempt
    /\ verifications[k].startedAt >= attempts[k].finishedAt
    /\ incidents[k.incident].state \in {"VERIFYING", "RESOLVED"}

(* A result is final: RECOVERED evidence is never withdrawn and a negative  *)
(* or inconclusive observation never turns into recovery.  Resolve relies   *)
(* on it: it reads the evidence before it takes the registry's mutex.       *)
RecoveredIsFinal ==
  [][\A k \in ActionKey :
       verifications[k].status \in VerificationResult
         => verifications'[k] = verifications[k]]_registryVars

(* A resolved incident is closed: whatever late callers try, its state, its *)
(* evidence and its key stay.  (Its version may move: Claim does not look   *)
(* at the state.)                                                           *)
ResolvedIncidentIsFinal ==
  [][\A i \in IncidentID : incidents[i].state = "RESOLVED" =>
       incidents'[i] = [incidents[i] EXCEPT !.version = incidents'[i].version]
    ]_registryVars

(* The approval binding is carried by every claim and fenced step from the  *)
(* transition to WAITING_APPROVAL until evidence resolves the incident, and *)
(* a waiting incident is never without one: the plan it waits for is how    *)
(* the agent finds it again.                                                *)
WaitingKeepsBinding ==
  [][\A i \in IncidentID : IncidentExists(i) =>
       /\ incidents'[i].state = "WAITING_APPROVAL" => incidents'[i].binding # NoPlan
       /\ (incidents[i].state = "WAITING_APPROVAL" /\ incidents'[i].state # "RESOLVED")
            => incidents'[i].binding = incidents[i].binding]_registryVars
=============================================================================
