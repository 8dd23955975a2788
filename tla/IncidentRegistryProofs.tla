------------------------ MODULE IncidentRegistryProofs ------------------------
(***************************************************************************)
(* What the incident registry guarantees for any number of incidents, keys, *)
(* holders, plans, leases and clock readings.                               *)
(***************************************************************************)
EXTENDS IncidentRegistry, ActionAttemptStoreProofs, TLAPS

(* IDs are handed out in sequence, so the next one is not in use.           *)
IDsInSequence == \A i \in IncidentID : IncidentExists(i) <=> i <= nextSequence

(* A waiting incident has the binding it waits under.                       *)
WaitingIsBound ==
  \A i \in IncidentID : incidents[i].state = "WAITING_APPROVAL" => incidents[i].binding # NoPlan

(* The inductive invariant.  The attempts are well formed, so terminal ones *)
(* are final and a verification that follows one keeps following it; the    *)
(* latest audited claim is the one in force, so the lease a new holder must *)
(* wait out is the lease of the event before its own; IDs are not reused,   *)
(* so the index of active incidents is not confused by a new one.           *)
RegistryInv ==
  /\ RegistryTypeOK
  /\ AttemptWellFormed
  /\ IDsInSequence
  /\ WaitingIsBound
  /\ ActiveIncidentUnique
  /\ ClaimIsLatestAudited
  /\ LeasesNeverOverlap
  /\ VerificationFollowsAttempt
  /\ ResolutionIsEvidenced

LEMMA RegistryInvInit == RegistryInit => RegistryInv
<1> SUFFICES ASSUME RegistryInit PROVE RegistryInv
  OBVIOUS
<1> USE DEF RegistryInit, IncidentExists, NoIncident
<1>1. RegistryTypeOK
  BY MaxIncidentsAssumption
  DEF RegistryTypeOK, VerificationTypeOK, VerificationInit, AttemptTypeOK, AttemptInit
<1>2. AttemptWellFormed
  BY AttemptInvInit DEF AttemptInv
<1>3. IDsInSequence /\ WaitingIsBound
  BY DEF IDsInSequence, WaitingIsBound, IncidentID
<1>4. ActiveIncidentUnique
  BY DEF ActiveIncidentUnique, IncidentID
<1>5. ClaimIsLatestAudited /\ LeasesNeverOverlap
  BY DEF ClaimIsLatestAudited, LeasesNeverOverlap, Claimed, NoClaim
<1>6. VerificationFollowsAttempt
  BY DEF VerificationFollowsAttempt, VerificationInit, VerificationExists, NoVerification
<1>7. ResolutionIsEvidenced
  BY DEF ResolutionIsEvidenced
<1>8. QED
  BY <1>1, <1>2, <1>3, <1>4, <1>5, <1>6, <1>7 DEF RegistryInv

-----------------------------------------------------------------------------
(* Facts used for every action.                                             *)

LEMMA ExistingIncident ==
  ASSUME RegistryTypeOK, NEW i \in IncidentID, IncidentExists(i)
  PROVE  incidents[i] \in Incident
  BY DEF RegistryTypeOK, IncidentExists, NoIncident

LEMMA ExistingVerification ==
  ASSUME RegistryTypeOK, NEW k \in ActionKey, VerificationExists(k)
  PROVE  verifications[k] \in Verification
  BY DEF RegistryTypeOK, VerificationTypeOK, VerificationExists, NoVerification

Numbers ==
  \A i \in IncidentID :
    /\ incidents[i].version \in Nat
    /\ claims[i].version \in Nat
    /\ \A e \in claimHistory[i] : e \in ClaimAuditEvent /\ e.version \in Nat \ {0}

LEMMA VersionsAreNumbers == RegistryTypeOK => Numbers
<1> SUFFICES ASSUME RegistryTypeOK, NEW i \in IncidentID
             PROVE  /\ incidents[i].version \in Nat
                    /\ claims[i].version \in Nat
                    /\ \A e \in claimHistory[i] : e \in ClaimAuditEvent /\ e.version \in Nat \ {0}
  BY DEF Numbers
<1>1. incidents[i].version \in Nat
  <2>1. CASE incidents[i] \in Incident
    BY <2>1, VersionAssumption DEF Incident
  <2>2. CASE incidents[i] = NoIncident
    BY <2>2 DEF NoIncident
  <2>3. QED
    BY <2>1, <2>2 DEF RegistryTypeOK
<1>2. claims[i].version \in Nat
  <2>1. CASE claims[i] \in ClaimRecord
    BY <2>1, VersionAssumption DEF ClaimRecord
  <2>2. CASE claims[i] = NoClaim
    BY <2>2 DEF NoClaim
  <2>3. QED
    BY <2>1, <2>2 DEF RegistryTypeOK
<1>3. ASSUME NEW e \in claimHistory[i]
      PROVE  e \in ClaimAuditEvent /\ e.version \in Nat \ {0}
  <2>1. e \in ClaimAuditEvent
    BY DEF RegistryTypeOK
  <2>2. e.version \in Version
    BY <2>1 DEF ClaimAuditEvent
  <2>3. QED
    BY <2>1, <2>2, VersionAssumption
<1>4. QED
  BY <1>1, <1>2, <1>3

LEMMA ActionKeyOf ==
  /\ \A k \in ActionKey : k.incident \in IncidentID /\ k.plan \in Plan
  /\ \A i \in IncidentID, p \in Plan :
       /\ [incident |-> i, plan |-> p] \in ActionKey
       /\ [incident |-> i, plan |-> p].incident = i
  BY ActionKeyAssumption

(* A step that leaves the claims alone and lets no version go back.         *)
LEMMA ClaimsUndisturbed ==
  ASSUME RegistryInv, RegistryTypeOK', UNCHANGED <<claims, claimHistory>>,
         \A i \in IncidentID : incidents'[i].version >= incidents[i].version
  PROVE  ClaimIsLatestAudited' /\ LeasesNeverOverlap'
<1>1. Numbers /\ Numbers'
  BY VersionsAreNumbers, PTL DEF RegistryInv
<1>2. ClaimIsLatestAudited'
  <2> SUFFICES ASSUME NEW i \in IncidentID, Claimed(i)
               PROVE  claims[i].version <= incidents'[i].version
    BY DEF RegistryInv, ClaimIsLatestAudited, Claimed
  <2>1. claims[i].version <= incidents[i].version
    BY DEF RegistryInv, ClaimIsLatestAudited
  <2>2. QED
    BY <1>1, <2>1 DEF Numbers
<1>3. LeasesNeverOverlap'
  BY DEF RegistryInv, LeasesNeverOverlap, NextAudited
<1>4. QED
  BY <1>2, <1>3

-----------------------------------------------------------------------------
(* One lemma per action: it keeps the invariant.                            *)

LEMMA ObserveKeepsInv ==
  ASSUME RegistryInv, NEW key \in Key, Observe(key)
  PROVE  RegistryInv'
<1> DEFINE new == nextSequence + 1
<1>0. RegistryTypeOK /\ nextSequence \in Nat
  BY DEF RegistryInv, RegistryTypeOK
<1>1. CASE activeByKey[key] # 0
  <2>1. UNCHANGED registryVars
    BY <1>1 DEF Observe, registryVars
  <2>2. QED
    BY <2>1
    DEF registryVars, RegistryInv, RegistryTypeOK, VerificationTypeOK, AttemptTypeOK,
        AttemptWellFormed, AttemptExists, IDsInSequence, WaitingIsBound, ActiveIncidentUnique,
        IncidentExists, ClaimIsLatestAudited, Claimed, LeasesNeverOverlap, NextAudited,
        VerificationFollowsAttempt, VerificationExists, ResolutionIsEvidenced
<1>2. CASE activeByKey[key] = 0
  <2>1. /\ new \in IncidentID
        /\ nextSequence' = new
        /\ incidents' = [incidents EXCEPT ![new] = NewIncident(key)]
        /\ activeByKey' = [activeByKey EXCEPT ![key] = new]
        /\ UNCHANGED <<claims, claimHistory, verifications, attempts>>
    BY <1>2, <1>0, MaxIncidentsAssumption DEF Observe, IncidentID
  <2>2. NewIncident(key) \in Incident
    BY VersionOneAssumption DEF NewIncident, Incident, State
  <2>3. ~ IncidentExists(new) /\ incidents[new] = NoIncident
    BY <2>1, <1>0 DEF RegistryInv, RegistryTypeOK, IDsInSequence, IncidentExists, Incident, State
  <2>4. RegistryTypeOK'
    BY <1>0, <2>1, <2>2, MaxIncidentsAssumption
    DEF RegistryTypeOK, VerificationTypeOK, AttemptTypeOK, IncidentID
  <2>5. /\ \A i \in IncidentID \ {new} : incidents'[i] = incidents[i]
        /\ incidents'[new] = NewIncident(key)
    BY <1>0, <2>1 DEF RegistryTypeOK
  <2>6. AttemptWellFormed'
    BY <2>1 DEF RegistryInv, AttemptWellFormed, AttemptExists
  <2>7. IDsInSequence'
    BY <1>0, <2>1, <2>5 DEF RegistryInv, IDsInSequence, IncidentExists, IncidentID, NewIncident
  <2>8. WaitingIsBound'
    BY <2>5 DEF RegistryInv, WaitingIsBound, NewIncident
  <2>9. ActiveIncidentUnique'
    BY <1>0, <1>2, <2>1, <2>3, <2>5
    DEF RegistryInv, RegistryTypeOK, ActiveIncidentUnique, IncidentExists, NewIncident, IncidentID
  <2>10. ClaimIsLatestAudited' /\ LeasesNeverOverlap'
    <3>1. \A i \in IncidentID : incidents'[i].version >= incidents[i].version
      BY <1>0, <2>3, <2>5, VersionsAreNumbers DEF Numbers, NewIncident, NoIncident
    <3>2. QED
      BY <2>1, <2>4, <3>1, ClaimsUndisturbed
  <2>11. VerificationFollowsAttempt'
    BY <2>1, <2>3, <2>5, ActionKeyOf
    DEF RegistryInv, VerificationFollowsAttempt, VerificationExists, IncidentExists, NoIncident
  <2>12. ResolutionIsEvidenced'
    BY <2>1, <2>3, <2>5, NoPlanAssumption
    DEF RegistryInv, ResolutionIsEvidenced, IncidentExists, NewIncident
  <2>13. QED
    BY <2>4, <2>6, <2>7, <2>8, <2>9, <2>10, <2>11, <2>12 DEF RegistryInv
<1>3. QED
  BY <1>1, <1>2

LEMMA TransitionKeepsInv ==
  ASSUME RegistryInv, NEW i \in IncidentID, NEW to \in State, NEW binding \in Plan \cup {NoPlan},
         Transition(i, incidents[i].version, to, binding)
  PROVE  RegistryInv'
<1> DEFINE old == incidents[i]
           next == incidents'[i]
<1>0. RegistryTypeOK /\ old \in Incident /\ old.version + 1 \in Version
  BY ExistingIncident DEF RegistryInv, Transition, TransitionAccepted
<1>1. /\ next = [old EXCEPT !.state = to, !.version = @ + 1,
                            !.binding = IF to = "WAITING_APPROVAL" THEN binding ELSE @]
      /\ \A j \in IncidentID \ {i} : incidents'[j] = incidents[j]
      /\ activeByKey' = Deactivated(i, to)
      /\ UNCHANGED <<claims, claimHistory, nextSequence, verifications, attempts>>
  BY <1>0 DEF Transition, RegistryTypeOK
<1>2. /\ next.state = to
      /\ next.version = old.version + 1
      /\ next.key = old.key
      /\ next.resolvedBy = old.resolvedBy
      /\ to = "WAITING_APPROVAL" => next.binding = binding
      /\ to # "WAITING_APPROVAL" => next.binding = old.binding
  BY <1>0, <1>1 DEF Incident
<1>3. /\ IncidentExists(i) /\ IncidentExists(i)'
      /\ old.state \in {"DETECTED", "DIAGNOSED", "WAITING_APPROVAL"}
      /\ to # "DETECTED"
      /\ to = "WAITING_APPROVAL" <=> binding # NoPlan
  BY <1>2
  DEF Transition, TransitionAccepted, ValidTransition, ValidTransitionCommand, State,
      IncidentExists
<1>4. next \in Incident
  <2>1. ASSUME NEW version \in Version, NEW b \in Plan \cup {NoPlan}
        PROVE  [old EXCEPT !.state = to, !.version = version, !.binding = b] \in Incident
    BY <1>0 DEF Incident
  <2>2. old.binding \in Plan \cup {NoPlan}
    BY <1>0 DEF Incident
  <2>3. next = [old EXCEPT !.state = to, !.version = old.version + 1,
                           !.binding = IF to = "WAITING_APPROVAL" THEN binding ELSE old.binding]
    BY <1>1
  <2>4. PICK b \in Plan \cup {NoPlan} :
          next = [old EXCEPT !.state = to, !.version = old.version + 1, !.binding = b]
    <3>1. CASE to = "WAITING_APPROVAL"
      BY <2>3, <3>1
    <3>2. CASE to # "WAITING_APPROVAL"
      BY <2>2, <2>3, <3>2
    <3>3. QED
      BY <3>1, <3>2
  <2>5. QED
    BY <1>0, <2>1, <2>4
<1>5. RegistryTypeOK'
  <2>1. incidents' \in [IncidentID -> Incident \cup {NoIncident}]
    BY <1>0, <1>1, <1>4 DEF RegistryTypeOK, Transition
  <2>2. activeByKey' \in [Key -> IncidentID \cup {0}]
    BY <1>0, <1>1 DEF RegistryTypeOK, Deactivated
  <2>3. QED
    BY <1>0, <1>1, <2>1, <2>2 DEF RegistryTypeOK, VerificationTypeOK, AttemptTypeOK
<1>6. AttemptWellFormed'
  BY <1>1 DEF RegistryInv, AttemptWellFormed, AttemptExists
<1>7. IDsInSequence'
  BY <1>1, <1>3 DEF RegistryInv, IDsInSequence, IncidentExists
<1>8. WaitingIsBound'
  BY <1>1, <1>2, <1>3 DEF RegistryInv, WaitingIsBound
<1>9. ActiveIncidentUnique'
  <2>1. old.key \in Key /\ activeByKey[old.key] = i
    BY <1>0, <1>3 DEF RegistryInv, ActiveIncidentUnique, Incident
  <2>2. ASSUME NEW key \in Key, NEW j \in IncidentID
        PROVE  activeByKey'[key] = j <=>
                 IncidentExists(j)' /\ incidents'[j].key = key /\ incidents'[j].state # "RESOLVED"
    <3>1. CASE j = i
      <4>1. IncidentExists(i)' /\ incidents'[i].key = old.key /\ incidents'[i].state = to
        BY <1>2, <1>3
      <4>2. activeByKey[key] = i <=> key = old.key
        BY <1>3 DEF RegistryInv, ActiveIncidentUnique
      <4>3. activeByKey'[key] = i <=> key = old.key /\ to # "RESOLVED"
        BY <1>0, <1>1, <2>1, <4>2 DEF RegistryTypeOK, Deactivated, IncidentID
      <4>4. QED
        BY <3>1, <4>1, <4>3
    <3>2. CASE j # i
      BY <1>0, <1>1, <2>1, <3>2
      DEF RegistryInv, RegistryTypeOK, ActiveIncidentUnique, Deactivated, IncidentID, IncidentExists
    <3>3. QED
      BY <3>1, <3>2
  <2>3. QED
    BY <2>2 DEF ActiveIncidentUnique
<1>10. ClaimIsLatestAudited' /\ LeasesNeverOverlap'
  <2>1. ASSUME NEW j \in IncidentID PROVE incidents'[j].version >= incidents[j].version
    <3>1. incidents[j].version \in Nat
      BY <1>0, VersionsAreNumbers DEF Numbers
    <3>2. CASE j = i
      BY <1>2, <3>1, <3>2
    <3>3. CASE j # i
      BY <1>1, <3>1, <3>3
    <3>4. QED
      BY <3>2, <3>3
  <2>2. QED
    BY <1>1, <1>5, <2>1, ClaimsUndisturbed
<1>11. VerificationFollowsAttempt'
  BY <1>1, <1>3, ActionKeyOf DEF RegistryInv, VerificationFollowsAttempt, VerificationExists
<1>12. ResolutionIsEvidenced'
  BY <1>1, <1>2, <1>3 DEF RegistryInv, ResolutionIsEvidenced, IncidentExists
<1>13. QED
  BY <1>5, <1>6, <1>7, <1>8, <1>9, <1>10, <1>11, <1>12 DEF RegistryInv

(* Every claim, whichever of the three operations grants it.                *)
LEMMA GrantClaimKeepsInv ==
  ASSUME RegistryInv, NEW i \in IncidentID, NEW holder \in Holder, NEW now \in Time,
         NEW lease \in Lease, IncidentExists(i),
         LeaseExpired(i, now) \/ (Claimed(i) /\ claims[i].holder = holder),
         GrantClaim(i, holder, now, lease)
  PROVE  RegistryInv'
<1> DEFINE event == AuditEvent(incidents[i].version + 1, holder, now, lease)
<1>0. RegistryTypeOK /\ Numbers /\ incidents[i] \in Incident
  BY ExistingIncident, VersionsAreNumbers DEF RegistryInv
<1>1. /\ event.version = incidents[i].version + 1
      /\ event.version \in Version
      /\ event.holder = holder
      /\ event.acquiredAt = now
      /\ event.expiresAt = now + lease
      /\ event \in ClaimAuditEvent
  BY TimeAssumption, LeaseAssumption DEF GrantClaim, AuditEvent, ClaimAuditEvent
<1>2. /\ incidents'[i] = [incidents[i] EXCEPT !.version = event.version]
      /\ \A j \in IncidentID \ {i} : incidents'[j] = incidents[j]
      /\ UNCHANGED <<activeByKey, nextSequence, verifications, attempts>>
  BY <1>0, <1>1 DEF GrantClaim, ClaimedIncident, RegistryTypeOK
<1>3. /\ claims'[i] = [version |-> event.version, holder |-> holder, expiresAt |-> event.expiresAt]
      /\ claimHistory'[i] = claimHistory[i] \cup {event}
      /\ \A j \in IncidentID \ {i} : claims'[j] = claims[j] /\ claimHistory'[j] = claimHistory[j]
  BY <1>0 DEF GrantClaim, Audited, RegistryTypeOK
<1>4. /\ incidents'[i] \in Incident
      /\ incidents'[i].version = event.version
      /\ incidents'[i].state = incidents[i].state
      /\ incidents'[i].key = incidents[i].key
      /\ incidents'[i].binding = incidents[i].binding
      /\ incidents'[i].resolvedBy = incidents[i].resolvedBy
  BY <1>0, <1>1, <1>2 DEF Incident
<1>14. \A j \in IncidentID :
         /\ incidents'[j].state = incidents[j].state
         /\ IncidentExists(j)' <=> IncidentExists(j)
         /\ IncidentExists(j) => /\ incidents'[j].key = incidents[j].key
                                 /\ incidents'[j].binding = incidents[j].binding
                                 /\ incidents'[j].resolvedBy = incidents[j].resolvedBy
  BY <1>2, <1>4 DEF IncidentExists
<1>5. RegistryTypeOK'
  <2>1. incidents' \in [IncidentID -> Incident \cup {NoIncident}]
    BY <1>0, <1>2, <1>4 DEF RegistryTypeOK, GrantClaim
  <2>2. claims' \in [IncidentID -> ClaimRecord \cup {NoClaim}]
    BY <1>0, <1>1, <1>3 DEF RegistryTypeOK, GrantClaim, ClaimRecord, ClaimAuditEvent
  <2>3. claimHistory' \in [IncidentID -> SUBSET ClaimAuditEvent]
    BY <1>0, <1>1, <1>3 DEF RegistryTypeOK, GrantClaim
  <2>4. QED
    BY <1>0, <1>2, <2>1, <2>2, <2>3 DEF RegistryTypeOK, VerificationTypeOK, AttemptTypeOK
<1>6. AttemptWellFormed'
  BY <1>2 DEF RegistryInv, AttemptWellFormed, AttemptExists
<1>7. IDsInSequence' /\ WaitingIsBound'
  BY <1>2, <1>14 DEF RegistryInv, IDsInSequence, WaitingIsBound, IncidentExists
<1>8. ActiveIncidentUnique'
  BY <1>2, <1>14 DEF RegistryInv, ActiveIncidentUnique
<1>9. \A e \in claimHistory[i] : e.version <= claims[i].version /\ e.version < event.version
  <2>1. ASSUME NEW e \in claimHistory[i]
        PROVE  e.version <= claims[i].version /\ e.version < event.version
    <3>1. e.version <= claims[i].version /\ e.version \in Nat \ {0}
      BY <1>0 DEF RegistryInv, ClaimIsLatestAudited, Numbers
    <3>2. claims[i].version <= incidents[i].version
      BY <1>0, <3>1 DEF RegistryInv, ClaimIsLatestAudited, Claimed, Numbers
    <3>3. QED
      BY <1>0, <1>1, <3>1, <3>2 DEF Numbers
  <2>2. QED
    BY <2>1
<1>10. ClaimIsLatestAudited'
  <2>1. ASSUME NEW j \in IncidentID, j # i
        PROVE  /\ claims'[j] = claims[j]
               /\ claimHistory'[j] = claimHistory[j]
               /\ incidents'[j].version = incidents[j].version
    BY <1>2, <1>3, <2>1
  <2>2. /\ \A e, f \in claimHistory'[i] : e.version = f.version => e = f
        /\ \A e \in claimHistory'[i] : e.version <= event.version
    <3>1. \A e \in claimHistory[i] : e.version # event.version /\ e.version <= event.version
      BY <1>0, <1>1, <1>9 DEF Numbers
    <3>2. event.version <= event.version
      BY <1>0, <1>1 DEF Numbers
    <3>3. QED
      BY <1>3, <3>1, <3>2 DEF RegistryInv, ClaimIsLatestAudited
  <2>3. /\ claims'[i].version = event.version
        /\ claims'[i].version <= incidents'[i].version
        /\ \E e \in claimHistory'[i] :
             /\ e.version = claims'[i].version
             /\ e.holder = claims'[i].holder
             /\ e.expiresAt = claims'[i].expiresAt
    BY <1>0, <1>1, <1>3, <1>4 DEF Numbers
  <2>4. QED
    BY <2>1, <2>2, <2>3 DEF RegistryInv, ClaimIsLatestAudited, Claimed
<1>11. LeasesNeverOverlap'
  <2> SUFFICES ASSUME NEW e \in claimHistory'[i], NEW f \in claimHistory'[i],
                      NextAudited(i, e, f)', e.holder # f.holder
               PROVE  f.acquiredAt >= e.expiresAt
    BY <1>3 DEF RegistryInv, LeasesNeverOverlap, NextAudited
  <2>1. CASE f \in claimHistory[i]
    <3>1. e \in claimHistory[i]
      BY <1>0, <1>1, <1>3, <1>9, <2>1 DEF NextAudited, Numbers
    <3>2. NextAudited(i, e, f)
      BY <1>3 DEF NextAudited
    <3>3. QED
      BY <2>1, <3>1, <3>2 DEF RegistryInv, LeasesNeverOverlap
  <2>2. CASE f = event
    (* The event before the new one is that of the claim it displaces. *)
    <3>1. e \in claimHistory[i] /\ e.version \in Nat \ {0}
      BY <1>0, <1>1, <1>3, <2>2 DEF NextAudited, Numbers
    <3>2. Claimed(i)
      BY <1>0, <1>9, <3>1 DEF Claimed, Numbers
    <3>3. PICK c \in claimHistory[i] :
            /\ c.version = claims[i].version
            /\ c.holder = claims[i].holder
            /\ c.expiresAt = claims[i].expiresAt
      BY <3>2 DEF RegistryInv, ClaimIsLatestAudited
    <3>4. e.version = c.version
      BY <1>0, <1>3, <1>9, <2>2, <3>1, <3>3 DEF NextAudited, Numbers
    <3>5. e = c
      BY <3>1, <3>3, <3>4 DEF RegistryInv, ClaimIsLatestAudited
    <3>6. now >= claims[i].expiresAt
      BY <1>1, <2>2, <3>2, <3>3, <3>5 DEF LeaseExpired
    <3>7. QED
      BY <1>1, <2>2, <3>3, <3>5, <3>6
  <2>3. QED
    BY <1>3, <2>1, <2>2
<1>12. VerificationFollowsAttempt'
  BY <1>2, <1>14, ActionKeyOf DEF RegistryInv, VerificationFollowsAttempt, VerificationExists
<1>13. ResolutionIsEvidenced'
  BY <1>2, <1>14 DEF RegistryInv, ResolutionIsEvidenced
<1>15. QED
  BY <1>5, <1>6, <1>7, <1>8, <1>10, <1>11, <1>12, <1>13 DEF RegistryInv

(* Beginning a verification creates one that is PENDING or finds it so.     *)
LEMMA BeginFencedKeepsInv ==
  ASSUME RegistryInv, NEW k \in ActionKey, NEW holder \in Holder, NEW now \in Time,
         NEW subject \in Subject,
         BeginFencedVerification(k, incidents[k.incident].version, holder, now, attempts[k], subject)
  PROVE  RegistryInv'
<1> DEFINE i == k.incident
           old == incidents[i]
           v == BegunVerification(k, subject, now)
<1>0. /\ i \in IncidentID
      /\ RegistryTypeOK
      /\ IncidentExists(i)
      /\ old \in Incident
  BY ActionKeyOf, ExistingIncident
  DEF RegistryInv, BeginFencedVerification, FencedBeginAccepted, FencePassed
<1>1. /\ attempts[k].status \in TerminalAttempt
      /\ now >= attempts[k].finishedAt
      /\ v.status = "PENDING"
      /\ old.state \in {"DIAGNOSED", "WAITING_APPROVAL", "VERIFYING"}
      /\ verifications' = [verifications EXCEPT ![k] = v]
      /\ UNCHANGED <<activeByKey, claims, claimHistory, nextSequence, attempts>>
  BY DEF BeginFencedVerification, FencedBeginAccepted, BeginVerification,
         VerificationBeginAccepted, ValidVerificationSource
<1>2. /\ v \in Verification
      /\ v.startedAt >= attempts[k].finishedAt
  <2>1. CASE VerificationExists(k)
    BY <1>0, <2>1, ExistingVerification
    DEF BegunVerification, RegistryInv, VerificationFollowsAttempt
  <2>2. CASE ~ VerificationExists(k)
    <3>1. v = NewVerification(subject, now)
      BY <2>2 DEF BegunVerification
    <3>2. v \in Verification /\ v.startedAt = now
      BY <3>1 DEF NewVerification, Verification
    <3>3. QED
      BY <1>1, <3>2
  <2>3. QED
    BY <2>1, <2>2
<1>3. /\ verifications'[k] = v
      /\ \A j \in ActionKey \ {k} : verifications'[j] = verifications[j]
  BY <1>0, <1>1 DEF RegistryTypeOK, VerificationTypeOK
<1>4. /\ incidents'[i] \in Incident
      /\ incidents'[i].state = "VERIFYING"
      /\ incidents'[i].version >= old.version
      /\ incidents'[i].key = old.key
      /\ incidents'[i].resolvedBy = old.resolvedBy
      /\ incidents' \in [IncidentID -> Incident \cup {NoIncident}]
      /\ \A j \in IncidentID \ {i} : incidents'[j] = incidents[j]
  <2>1. CASE old.state = "VERIFYING"
    BY <1>0, <2>1, VersionsAreNumbers
    DEF BeginFencedVerification, RegistryTypeOK, Numbers
  <2>2. CASE old.state # "VERIFYING"
    <3>1. /\ old.version + 1 \in Version
          /\ incidents' = [incidents EXCEPT ![i] =
               [old EXCEPT !.state = "VERIFYING", !.version = old.version + 1]]
      BY <1>0, <2>2 DEF BeginFencedVerification, RegistryTypeOK
    <3>2. ASSUME NEW version \in Version
          PROVE  [old EXCEPT !.state = "VERIFYING", !.version = version] \in Incident
      BY <1>0 DEF Incident, State
    <3>3. incidents'[i] = [old EXCEPT !.state = "VERIFYING", !.version = old.version + 1]
      BY <1>0, <3>1 DEF RegistryTypeOK
    <3>4. incidents'[i] \in Incident
      BY <3>1, <3>2, <3>3
    <3>5. /\ incidents'[i].state = "VERIFYING"
          /\ incidents'[i].version = old.version + 1
          /\ incidents'[i].key = old.key
          /\ incidents'[i].resolvedBy = old.resolvedBy
      BY <1>0, <3>3 DEF Incident
    <3>6. incidents' \in [IncidentID -> Incident \cup {NoIncident}]
      BY <1>0, <3>1, <3>3, <3>4 DEF RegistryTypeOK
    <3>7. \A j \in IncidentID \ {i} : incidents'[j] = incidents[j]
      BY <1>0, <3>1 DEF RegistryTypeOK
    <3>8. old.version + 1 >= old.version
      BY <1>0, VersionsAreNumbers DEF Numbers
    <3>9. QED
      BY <3>4, <3>5, <3>6, <3>7, <3>8
  <2>3. QED
    BY <2>1, <2>2
<1>5. RegistryTypeOK'
  BY <1>0, <1>1, <1>2, <1>4 DEF RegistryTypeOK, VerificationTypeOK, AttemptTypeOK
<1>6. AttemptWellFormed'
  BY <1>1 DEF RegistryInv, AttemptWellFormed, AttemptExists
<1>7. IDsInSequence' /\ WaitingIsBound'
  BY <1>0, <1>1, <1>4 DEF RegistryInv, IDsInSequence, WaitingIsBound, IncidentExists
<1>8. ActiveIncidentUnique'
  BY <1>0, <1>1, <1>4 DEF RegistryInv, ActiveIncidentUnique, IncidentExists
<1>9. ClaimIsLatestAudited' /\ LeasesNeverOverlap'
  <2>1. \A j \in IncidentID : incidents'[j].version >= incidents[j].version
    BY <1>0, <1>4, VersionsAreNumbers DEF Numbers
  <2>2. QED
    BY <1>1, <1>5, <2>1, ClaimsUndisturbed
<1>10. VerificationFollowsAttempt'
  BY <1>0, <1>1, <1>2, <1>3, <1>4, ActionKeyOf
  DEF RegistryInv, VerificationFollowsAttempt, VerificationExists
<1>11. ResolutionIsEvidenced'
  <2> SUFFICES ASSUME NEW j \in IncidentID, IncidentExists(j)', incidents'[j].resolvedBy # NoPlan
               PROVE  LET kj == [incident |-> j, plan |-> incidents'[j].resolvedBy] IN
                        /\ incidents'[j].state = "RESOLVED"
                        /\ verifications'[kj].status = "RECOVERED"
                        /\ attempts'[kj].status \in TerminalAttempt
                        /\ attempts'[kj].finishedAt <= verifications'[kj].startedAt
    BY DEF ResolutionIsEvidenced
  <2>1. j # i
    BY <1>0, <1>1, <1>4 DEF RegistryInv, ResolutionIsEvidenced
  <2>2. incidents'[j] = incidents[j] /\ IncidentExists(j) /\ incidents[j].resolvedBy \in Plan
    BY <1>0, <1>4, <2>1, ExistingIncident DEF IncidentExists, Incident
  <2>3. [incident |-> j, plan |-> incidents[j].resolvedBy] \in ActionKey \ {k}
    BY <2>1, <2>2, ActionKeyOf
  <2>4. QED
    BY <1>1, <1>3, <2>2, <2>3 DEF RegistryInv, ResolutionIsEvidenced
<1>12. QED
  BY <1>5, <1>6, <1>7, <1>8, <1>9, <1>10, <1>11 DEF RegistryInv

(* Completing one leaves everything but the verification alone.             *)
LEMMA CompleteFencedKeepsInv ==
  ASSUME RegistryInv, NEW k \in ActionKey, NEW holder \in Holder, NEW now \in Time,
         NEW to \in VerificationResult,
         CompleteFencedVerification(k, incidents[k.incident].version, holder, now, 1, to)
  PROVE  RegistryInv'
<1> DEFINE v == verifications[k]
<1>0. /\ RegistryTypeOK
      /\ v \in Verification
      /\ UNCHANGED <<incidents, activeByKey, claims, claimHistory, nextSequence, attempts>>
  BY ExistingVerification
  DEF RegistryInv, CompleteFencedVerification, CompleteVerification, VerificationCompletionAccepted
<1>1. CASE VerificationCompletionMatches(v, 1, to, now)
  <2>1. UNCHANGED registryVars
    BY <1>0, <1>1 DEF CompleteFencedVerification, CompleteVerification, registryVars
  <2>2. QED
    BY <2>1
    DEF registryVars, RegistryInv, RegistryTypeOK, VerificationTypeOK, AttemptTypeOK,
        AttemptWellFormed, AttemptExists, IDsInSequence, WaitingIsBound, ActiveIncidentUnique,
        IncidentExists, ClaimIsLatestAudited, Claimed, LeasesNeverOverlap, NextAudited,
        VerificationFollowsAttempt, VerificationExists, ResolutionIsEvidenced
<1>2. CASE ~ VerificationCompletionMatches(v, 1, to, now)
  <2>1. v.version = 1 /\ v.status = "PENDING"
    BY <1>2
    DEF CompleteFencedVerification, CompleteVerification, VerificationCompletionAccepted,
        CompletesVerification
  <2>2. /\ verifications' = [verifications EXCEPT ![k] = verifications'[k]]
        /\ verifications'[k] = [v EXCEPT !.status = to, !.version = v.version + 1, !.finishedAt = now]
    BY <1>0, <1>2
    DEF CompleteFencedVerification, CompleteVerification, RegistryTypeOK, VerificationTypeOK
  <2>3. /\ verifications'[k] \in Verification
        /\ verifications'[k].startedAt = v.startedAt
    <3>1. ASSUME NEW version \in {1, 2}
          PROVE  LET w == [v EXCEPT !.status = to, !.version = version, !.finishedAt = now] IN
                   w \in Verification /\ w.startedAt = v.startedAt
      BY <1>0 DEF Verification
    <3>2. v.version + 1 \in {1, 2}
      BY <2>1
    <3>3. QED
      BY <2>2, <3>1, <3>2
  <2>4. RegistryTypeOK'
    BY <1>0, <2>2, <2>3 DEF RegistryTypeOK, VerificationTypeOK, AttemptTypeOK
  <2>5. \A j \in ActionKey : j # k => verifications'[j] = verifications[j]
    BY <1>0, <2>2 DEF RegistryTypeOK, VerificationTypeOK
  <2>6. AttemptWellFormed' /\ IDsInSequence' /\ WaitingIsBound' /\ ActiveIncidentUnique'
    BY <1>0
    DEF RegistryInv, AttemptWellFormed, AttemptExists, IDsInSequence, WaitingIsBound,
        ActiveIncidentUnique, IncidentExists
  <2>7. ClaimIsLatestAudited' /\ LeasesNeverOverlap'
    BY <1>0 DEF RegistryInv, ClaimIsLatestAudited, LeasesNeverOverlap, NextAudited, Claimed
  <2>8. VerificationFollowsAttempt'
    <3>1. VerificationExists(k)
      BY <2>1 DEF VerificationExists
    <3>2. QED
      BY <1>0, <2>3, <2>5, <3>1 DEF RegistryInv, VerificationFollowsAttempt, VerificationExists
  <2>9. ResolutionIsEvidenced'
    <3> SUFFICES ASSUME NEW j \in IncidentID, IncidentExists(j), incidents[j].resolvedBy # NoPlan
                 PROVE  LET kj == [incident |-> j, plan |-> incidents[j].resolvedBy] IN
                          /\ incidents[j].state = "RESOLVED"
                          /\ verifications'[kj].status = "RECOVERED"
                          /\ attempts[kj].status \in TerminalAttempt
                          /\ attempts[kj].finishedAt <= verifications'[kj].startedAt
      BY <1>0 DEF ResolutionIsEvidenced, IncidentExists
    <3>1. incidents[j].resolvedBy \in Plan
      BY <1>0, ExistingIncident DEF Incident
    <3>2. [incident |-> j, plan |-> incidents[j].resolvedBy] \in ActionKey
      BY <3>1, ActionKeyOf
    <3>3. k # [incident |-> j, plan |-> incidents[j].resolvedBy]
      BY <2>1 DEF RegistryInv, ResolutionIsEvidenced
    <3>4. QED
      BY <2>5, <3>2, <3>3 DEF RegistryInv, ResolutionIsEvidenced
  <2>10. QED
    BY <2>4, <2>6, <2>7, <2>8, <2>9 DEF RegistryInv
<1>3. QED
  BY <1>1, <1>2

LEMMA ResolveKeepsInv ==
  ASSUME RegistryInv, NEW k \in ActionKey, NEW holder \in Holder, NEW now \in Time,
         Resolve(k.incident, incidents[k.incident].version, k, holder, now)
  PROVE  RegistryInv'
<1> DEFINE i == k.incident
           old == incidents[i]
           next == incidents'[i]
<1>0. /\ i \in IncidentID
      /\ k.plan \in Plan
      /\ k = [incident |-> i, plan |-> k.plan]
      /\ RegistryTypeOK
      /\ IncidentExists(i)
      /\ old \in Incident
      /\ old.version + 1 \in Version
      /\ old.state = "VERIFYING"
      /\ verifications[k].status = "RECOVERED"
  BY ActionKeyAssumption, ExistingIncident
  DEF RegistryInv, Resolve, ResolveAccepted, FencePassed, RequireRecovered
<1>1. /\ next = [old EXCEPT !.state = "RESOLVED", !.version = old.version + 1,
                            !.resolvedBy = k.plan, !.binding = NoPlan]
      /\ incidents' = [incidents EXCEPT ![i] = next]
      /\ \A j \in IncidentID \ {i} : incidents'[j] = incidents[j]
      /\ activeByKey' = [activeByKey EXCEPT ![old.key] = 0]
      /\ UNCHANGED <<claims, claimHistory, nextSequence, verifications, attempts>>
  BY <1>0 DEF Resolve, RegistryTypeOK, Deactivated
<1>2. /\ next \in Incident
      /\ next.state = "RESOLVED"
      /\ next.version = old.version + 1
      /\ next.key = old.key
      /\ next.resolvedBy = k.plan
  <2> DEFINE version == old.version + 1
  <2>1. version \in Version /\ next = [old EXCEPT !.state = "RESOLVED", !.version = version,
                                         !.resolvedBy = k.plan, !.binding = NoPlan]
    BY <1>0, <1>1
  <2> HIDE DEF version
  <2>2. /\ next \in Incident
        /\ next.state = "RESOLVED"
        /\ next.version = version
        /\ next.key = old.key
        /\ next.resolvedBy = k.plan
    BY <1>0, <2>1 DEF Incident, State
  <2>3. QED
    BY <2>2 DEF version
<1>3. RegistryTypeOK'
  <2>1. incidents' \in [IncidentID -> Incident \cup {NoIncident}]
    BY <1>0, <1>1, <1>2 DEF RegistryTypeOK
  <2>2. activeByKey' \in [Key -> IncidentID \cup {0}]
    BY <1>0, <1>1 DEF RegistryTypeOK
  <2>3. QED
    BY <1>0, <1>1, <2>1, <2>2 DEF RegistryTypeOK, VerificationTypeOK, AttemptTypeOK
<1>4. AttemptWellFormed'
  BY <1>1 DEF RegistryInv, AttemptWellFormed, AttemptExists
<1>5. IDsInSequence' /\ WaitingIsBound'
  BY <1>0, <1>1, <1>2 DEF RegistryInv, IDsInSequence, WaitingIsBound, IncidentExists
<1>6. ActiveIncidentUnique'
  <2>1. old.key \in Key /\ activeByKey[old.key] = i
    BY <1>0 DEF RegistryInv, ActiveIncidentUnique, Incident
  <2>2. ASSUME NEW key \in Key, NEW j \in IncidentID
        PROVE  activeByKey'[key] = j <=>
                 IncidentExists(j)' /\ incidents'[j].key = key /\ incidents'[j].state # "RESOLVED"
    <3>1. CASE j = i
      <4>1. activeByKey[key] = i <=> key = old.key
        BY <1>0 DEF RegistryInv, ActiveIncidentUnique
      <4>2. activeByKey'[key] # i
        BY <1>0, <1>1, <2>1, <4>1 DEF RegistryTypeOK, IncidentID
      <4>3. QED
        BY <1>2, <3>1, <4>2
    <3>2. CASE j # i
      BY <1>0, <1>1, <2>1, <3>2
      DEF RegistryInv, RegistryTypeOK, ActiveIncidentUnique, IncidentID, IncidentExists
    <3>3. QED
      BY <3>1, <3>2
  <2>3. QED
    BY <2>2 DEF ActiveIncidentUnique
<1>7. ClaimIsLatestAudited' /\ LeasesNeverOverlap'
  <2>1. ASSUME NEW j \in IncidentID PROVE incidents'[j].version >= incidents[j].version
    <3>1. incidents[j].version \in Nat
      BY <1>0, VersionsAreNumbers DEF Numbers
    <3>2. CASE j = i
      BY <1>2, <3>1, <3>2
    <3>3. CASE j # i
      BY <1>1, <3>1, <3>3
    <3>4. QED
      BY <3>2, <3>3
  <2>2. QED
    BY <1>1, <1>3, <2>1, ClaimsUndisturbed
<1>8. VerificationFollowsAttempt'
  BY <1>1, <1>2, ActionKeyOf DEF RegistryInv, VerificationFollowsAttempt, VerificationExists
<1>9. ResolutionIsEvidenced'
  <2>1. /\ attempts[k].status \in TerminalAttempt
        /\ attempts[k].finishedAt <= verifications[k].startedAt
    <3>1. VerificationExists(k)
      BY <1>0 DEF VerificationExists
    <3>2. /\ attempts[k].status \in TerminalAttempt
          /\ verifications[k].startedAt >= attempts[k].finishedAt
      BY <3>1 DEF RegistryInv, VerificationFollowsAttempt
    <3>3. verifications[k] \in Verification /\ attempts[k] \in Attempt
      BY <1>0, <3>1, <3>2, ExistingVerification
      DEF RegistryTypeOK, AttemptTypeOK, NoAttempt, TerminalAttempt, CompletedStatus
    <3>4. verifications[k].startedAt \in Time /\ attempts[k].finishedAt \in Time \cup {0}
      BY <3>3 DEF Verification, Attempt
    <3>5. QED
      BY <3>2, <3>4, TimeAssumption
  <2>2. ASSUME NEW j \in IncidentID, IncidentExists(j)', incidents'[j].resolvedBy # NoPlan
        PROVE  LET kj == [incident |-> j, plan |-> incidents'[j].resolvedBy] IN
                 /\ incidents'[j].state = "RESOLVED"
                 /\ verifications'[kj].status = "RECOVERED"
                 /\ attempts'[kj].status \in TerminalAttempt
                 /\ attempts'[kj].finishedAt <= verifications'[kj].startedAt
    <3>1. CASE j = i
      <4>1. [incident |-> j, plan |-> incidents'[j].resolvedBy] = k
        BY <1>0, <1>2, <3>1
      <4>2. QED
        BY <1>0, <1>1, <1>2, <2>1, <3>1, <4>1
    <3>2. CASE j # i
      <4>1. incidents'[j] = incidents[j]
        BY <1>1, <3>2
      <4>2. QED
        BY <1>1, <2>2, <4>1 DEF RegistryInv, ResolutionIsEvidenced, IncidentExists
    <3>3. QED
      BY <3>1, <3>2
  <2>3. QED
    BY <2>2 DEF ResolutionIsEvidenced
<1>10. QED
  BY <1>3, <1>4, <1>5, <1>6, <1>7, <1>8, <1>9 DEF RegistryInv

(* The callers of the attempt store use it as AttemptSpec lets them.        *)
LEMMA AttemptStepIsAttemptNext ==
  ASSUME RegistryTypeOK, NEW k \in ActionKey, NEW now \in Time, AttemptStep(k, now)
  PROVE  AttemptNext
<1>1. PICK event \in claimHistory[k.incident] :
        \/ BeginAttempt(k, event.version, now)
        \/ RecoverAttempt(k, event.version, now)
        \/ \E to \in CompletedStatus : CompleteAttempt(k, event.version, 1, to, now)
  BY DEF AttemptStep
<1>2. event.version \in Version
  BY ActionKeyOf DEF RegistryTypeOK, ClaimAuditEvent
<1>3. QED
  BY <1>1, <1>2 DEF AttemptNext

LEMMA AttemptStepKeepsInv ==
  ASSUME RegistryInv, NEW k \in ActionKey, NEW now \in Time, AttemptStep(k, now)
  PROVE  RegistryInv'
<1>1. AttemptInv /\ AttemptNext
  BY AttemptStepIsAttemptNext DEF RegistryInv, RegistryTypeOK, AttemptInv
<1>2. AttemptInv'
  BY <1>1, AttemptInvInductive
<1>3. UNCHANGED <<incidents, activeByKey, claims, claimHistory, nextSequence, verifications>>
  BY DEF AttemptStep
<1>4. \A j \in ActionKey : attempts[j].status \in TerminalAttempt => attempts'[j] = attempts[j]
  <2>1. ASSUME NEW j \in ActionKey, attempts[j].status \in TerminalAttempt
        PROVE  attempts'[j] = attempts[j]
    <3>1. AttemptExists(j)
      BY <2>1 DEF AttemptExists, TerminalAttempt, CompletedStatus
    <3>2. QED
      BY <1>1, <2>1, <3>1, FinalStep
  <2>2. QED
    BY <2>1
<1>5. RegistryTypeOK'
  BY <1>2, <1>3 DEF RegistryInv, RegistryTypeOK, VerificationTypeOK, AttemptInv
<1>6. IDsInSequence' /\ WaitingIsBound' /\ ActiveIncidentUnique'
  BY <1>3 DEF RegistryInv, IDsInSequence, WaitingIsBound, ActiveIncidentUnique, IncidentExists
<1>7. ClaimIsLatestAudited' /\ LeasesNeverOverlap'
  BY <1>3 DEF RegistryInv, ClaimIsLatestAudited, LeasesNeverOverlap, NextAudited, Claimed
<1>8. VerificationFollowsAttempt'
  BY <1>3, <1>4 DEF RegistryInv, VerificationFollowsAttempt, VerificationExists
<1>9. ResolutionIsEvidenced'
  <2>1. \A j \in IncidentID : IncidentExists(j) /\ incidents[j].resolvedBy # NoPlan =>
          [incident |-> j, plan |-> incidents[j].resolvedBy] \in ActionKey
    BY ExistingIncident, ActionKeyOf DEF RegistryInv, Incident
  <2>2. QED
    BY <1>3, <1>4, <2>1 DEF RegistryInv, ResolutionIsEvidenced, IncidentExists
<1>10. QED
  BY <1>2, <1>5, <1>6, <1>7, <1>8, <1>9 DEF RegistryInv, AttemptInv

LEMMA StutterKeepsInv == RegistryInv /\ UNCHANGED registryVars => RegistryInv'
  BY DEF registryVars, RegistryInv, RegistryTypeOK, VerificationTypeOK, AttemptTypeOK,
         AttemptWellFormed, AttemptExists, IDsInSequence, WaitingIsBound, ActiveIncidentUnique,
         IncidentExists, ClaimIsLatestAudited, Claimed, LeasesNeverOverlap, NextAudited,
         VerificationFollowsAttempt, VerificationExists, ResolutionIsEvidenced

-----------------------------------------------------------------------------
(* A step of the registry is one of these seven; the three ways to claim    *)
(* are one.                                                                 *)
ClaimGranted ==
  \E i \in IncidentID, holder \in Holder, now \in Time, lease \in Lease :
    /\ IncidentExists(i)
    /\ LeaseExpired(i, now) \/ (Claimed(i) /\ claims[i].holder = holder)
    /\ GrantClaim(i, holder, now, lease)

Transitioned ==
  \E i \in IncidentID, to \in State, binding \in Plan \cup {NoPlan} :
    Transition(i, incidents[i].version, to, binding)

BegunFenced ==
  \E k \in ActionKey, holder \in Holder, now \in Time, subject \in Subject :
    BeginFencedVerification(k, incidents[k.incident].version, holder, now, attempts[k], subject)

CompletedFenced ==
  \E k \in ActionKey, holder \in Holder, now \in Time, to \in VerificationResult :
    CompleteFencedVerification(k, incidents[k.incident].version, holder, now, 1, to)

Resolved ==
  \E k \in ActionKey, holder \in Holder, now \in Time :
    Resolve(k.incident, incidents[k.incident].version, k, holder, now)

LEMMA RegistryStep ==
  ASSUME RegistryNext
  PROVE  \/ \E key \in Key : Observe(key)
         \/ Transitioned
         \/ ClaimGranted
         \/ BegunFenced
         \/ CompletedFenced
         \/ Resolved
         \/ \E k \in ActionKey, now \in Time : AttemptStep(k, now)
<1>1. CASE \E key \in Key : Observe(key)
  BY <1>1
<1>2. ASSUME NEW i \in IncidentID, NEW now \in Time, IncidentStep(i, now)
      PROVE  Transitioned \/ ClaimGranted
  <2>1. CASE \E to \in State, binding \in Plan \cup {NoPlan} :
               Transition(i, incidents[i].version, to, binding)
    BY <2>1 DEF Transitioned
  <2>2. ASSUME NEW holder \in Holder, NEW lease \in Lease,
               Claim(i, incidents[i].version, holder, now, lease)
        PROVE  ClaimGranted
    <3>1. /\ IncidentExists(i)
          /\ LeaseExpired(i, now) \/ (Claimed(i) /\ claims[i].holder = holder)
          /\ GrantClaim(i, holder, now, lease)
      BY <2>2 DEF Claim, ClaimAccepted
    <3>2. QED
      BY <3>1, Zenon DEF ClaimGranted
  <2>3. QED
    BY <1>2, <2>1, <2>2 DEF IncidentStep
<1>3. ASSUME NEW k \in ActionKey, NEW holder \in Holder, NEW now \in Time,
             VerificationStep(k, holder, now)
      PROVE  BegunFenced \/ CompletedFenced \/ Resolved \/ ClaimGranted
  <2> DEFINE version == incidents[k.incident].version
  <2>1. CASE \E subject \in Subject :
               BeginFencedVerification(k, version, holder, now, attempts[k], subject)
    BY <2>1 DEF BegunFenced
  <2>2. CASE \E to \in VerificationResult :
               CompleteFencedVerification(k, version, holder, now, 1, to)
    BY <2>2 DEF CompletedFenced
  <2>3. CASE Resolve(k.incident, version, k, holder, now)
    BY <2>3 DEF Resolved
  <2>4. ASSUME NEW lease \in Lease,
               \/ ClaimPendingVerification(k, holder, now, lease)
               \/ ClaimRecoveredVerificationResolution(k, holder, now, lease)
        PROVE  ClaimGranted
    <3>1. /\ incidents[k.incident].state = "VERIFYING"
          /\ LeaseExpired(k.incident, now)
          /\ GrantClaim(k.incident, holder, now, lease)
      BY <2>4
      DEF ClaimPendingVerification, ClaimRecoveredVerificationResolution, PendingWork, RecoveredWork
    <3>2. IncidentExists(k.incident) /\ k.incident \in IncidentID
      BY <3>1, ActionKeyOf DEF IncidentExists
    <3>3. QED
      BY <3>1, <3>2, Zenon DEF ClaimGranted
  <2>5. QED
    BY <1>3, <2>1, <2>2, <2>3, <2>4 DEF VerificationStep
<1>4. CASE \E k \in ActionKey, now \in Time : AttemptStep(k, now)
  BY <1>4
<1>5. QED
  BY <1>1, <1>2, <1>3, <1>4 DEF RegistryNext

LEMMA RegistryInvInductive == RegistryInv /\ [RegistryNext]_registryVars => RegistryInv'
<1> SUFFICES ASSUME RegistryInv, [RegistryNext]_registryVars PROVE RegistryInv'
  OBVIOUS
<1>1. CASE UNCHANGED registryVars
  BY <1>1, StutterKeepsInv
<1>2. CASE \E key \in Key : Observe(key)
  BY <1>2, ObserveKeepsInv
<1>3. CASE Transitioned
  BY <1>3, TransitionKeepsInv DEF Transitioned
<1>4. CASE ClaimGranted
  BY <1>4, GrantClaimKeepsInv DEF ClaimGranted
<1>5. CASE BegunFenced
  BY <1>5, BeginFencedKeepsInv DEF BegunFenced
<1>6. CASE CompletedFenced
  BY <1>6, CompleteFencedKeepsInv DEF CompletedFenced
<1>7. CASE Resolved
  BY <1>7, ResolveKeepsInv DEF Resolved
<1>8. CASE \E k \in ActionKey, now \in Time : AttemptStep(k, now)
  BY <1>8, AttemptStepKeepsInv
<1>9. QED
  BY <1>1, <1>2, <1>3, <1>4, <1>5, <1>6, <1>7, <1>8, RegistryStep

(* The registry's inductive invariant, for every value of the constants.    *)
THEOREM RegistryInvariant == RegistrySpec => []RegistryInv
  BY RegistryInvInit, RegistryInvInductive, PTL DEF RegistrySpec

(* The state keeps its type.                                                *)
THEOREM RegistryTypes == RegistrySpec => []RegistryTypeOK
<1>1. RegistryInv => RegistryTypeOK
  BY DEF RegistryInv
<1>2. QED
  BY <1>1, RegistryInvariant, PTL

(* One active incident per key, the one the index names, however incidents  *)
(* are observed, resolved and observed again.                               *)
THEOREM DeduplicationIsSound == RegistrySpec => []ActiveIncidentUnique
<1>1. RegistryInv => ActiveIncidentUnique
  BY DEF RegistryInv
<1>2. QED
  BY <1>1, RegistryInvariant, PTL

(* A fencing token names one audited claim, and the claim in force is the   *)
(* latest of them.                                                          *)
THEOREM TokensAreUnique == RegistrySpec => []ClaimIsLatestAudited
<1>1. RegistryInv => ClaimIsLatestAudited
  BY DEF RegistryInv
<1>2. QED
  BY <1>1, RegistryInvariant, PTL

(* An incident passes to another holder only when the lease in force has    *)
(* run out, whatever clocks the holders read.                               *)
THEOREM LeasesAreExclusive == RegistrySpec => []LeasesNeverOverlap
<1>1. RegistryInv => LeasesNeverOverlap
  BY DEF RegistryInv
<1>2. QED
  BY <1>1, RegistryInvariant, PTL

(* An incident resolved after verification was recovered, on evidence       *)
(* collected after its action was over.                                     *)
THEOREM EvidenceIsSound == RegistrySpec => []ResolutionIsEvidenced
<1>1. RegistryInv => ResolutionIsEvidenced
  BY DEF RegistryInv
<1>2. QED
  BY <1>1, RegistryInvariant, PTL

(* A verification is only ever of an attempt that is over, and begins after *)
(* its end, although the two stores know nothing of each other.             *)
THEOREM VerificationsFollow == RegistrySpec => []VerificationFollowsAttempt
<1>1. RegistryInv => VerificationFollowsAttempt
  BY DEF RegistryInv
<1>2. QED
  BY <1>1, RegistryInvariant, PTL

-----------------------------------------------------------------------------
(* What no step ever does.                                                  *)

(* The ways an incident changes.                                            *)
Appears(i) ==
  ~ IncidentExists(i) /\ incidents'[i].state = "DETECTED"

IsClaimed(i) ==
  /\ IncidentExists(i)
  /\ incidents'[i] = [incidents[i] EXCEPT !.version = incidents'[i].version]
  /\ incidents'[i].state = incidents[i].state
  /\ incidents'[i].binding = incidents[i].binding

StateMoves(i) ==
  /\ incidents[i].state \in {"DETECTED", "DIAGNOSED", "WAITING_APPROVAL"}
  /\ incidents'[i].state = "WAITING_APPROVAL" => incidents'[i].binding # NoPlan
  /\ incidents[i].state = "WAITING_APPROVAL" => incidents'[i].binding = incidents[i].binding

IsResolved(i) ==
  /\ incidents[i].state = "VERIFYING"
  /\ incidents'[i].state = "RESOLVED"
  /\ incidents'[i].resolvedBy # NoPlan

LEMMA IncidentChange ==
  ASSUME RegistryInv, RegistryNext, NEW i \in IncidentID, incidents'[i] # incidents[i]
  PROVE  Appears(i) \/ IsClaimed(i) \/ StateMoves(i) \/ IsResolved(i)
<1>0. RegistryTypeOK
  BY DEF RegistryInv
<1>1. ASSUME NEW key \in Key, Observe(key)
      PROVE  Appears(i)
  <2>1. nextSequence' = nextSequence + 1 /\ incidents' = [incidents EXCEPT ![nextSequence'] = NewIncident(key)]
    BY <1>1 DEF Observe
  <2>2. i = nextSequence + 1 /\ incidents'[i] = NewIncident(key)
    BY <1>0, <2>1 DEF RegistryTypeOK
  <2>3. nextSequence \in Nat
    BY <1>0 DEF RegistryTypeOK
  <2>4. ~ IncidentExists(i)
    BY <2>2, <2>3 DEF RegistryInv, IDsInSequence
  <2>5. QED
    BY <2>2, <2>4 DEF Appears, NewIncident
<1>2. CASE Transitioned
  <2>1. PICK j \in IncidentID, to \in State, binding \in Plan \cup {NoPlan} :
          Transition(j, incidents[j].version, to, binding)
    BY <1>2 DEF Transitioned
  <2> DEFINE old == incidents[i]
  <2>2. /\ IncidentExists(i)
        /\ <<old.state, to>> \in ValidTransition
        /\ to = "WAITING_APPROVAL" <=> binding # NoPlan
        /\ incidents'[i] = [old EXCEPT !.state = to, !.version = @ + 1,
                                       !.binding = IF to = "WAITING_APPROVAL" THEN binding ELSE @]
    BY <1>0, <2>1
    DEF Transition, TransitionAccepted, ValidTransitionCommand, RegistryTypeOK
  <2>3. old \in Incident
    BY <1>0, <2>2, ExistingIncident
  <2>4. /\ incidents'[i].state = to
        /\ to = "WAITING_APPROVAL" => incidents'[i].binding = binding
        /\ to # "WAITING_APPROVAL" => incidents'[i].binding = old.binding
    BY <2>2, <2>3 DEF Incident
  <2>5. QED
    BY <2>2, <2>4 DEF StateMoves, ValidTransition
<1>3. CASE ClaimGranted
  <2>1. PICK j \in IncidentID, holder \in Holder, now \in Time, lease \in Lease :
          IncidentExists(j) /\ GrantClaim(j, holder, now, lease)
    BY <1>3 DEF ClaimGranted
  <2>2. j = i /\ incidents'[i] = ClaimedIncident(incidents[i])
    BY <1>0, <2>1 DEF GrantClaim, RegistryTypeOK
  <2>3. incidents[i] \in Incident
    BY <1>0, <2>1, <2>2, ExistingIncident
  <2> DEFINE version == incidents[i].version + 1
  <2>4. incidents'[i] = [incidents[i] EXCEPT !.version = version]
    BY <2>2 DEF ClaimedIncident
  <2> HIDE DEF version
  <2>5. /\ incidents'[i].version = version
        /\ incidents'[i].state = incidents[i].state
        /\ incidents'[i].binding = incidents[i].binding
    BY <2>3, <2>4 DEF Incident
  <2>6. QED
    BY <2>1, <2>2, <2>4, <2>5 DEF IsClaimed
<1>4. CASE BegunFenced
  <2>1. PICK k \in ActionKey, holder \in Holder, now \in Time, subject \in Subject :
          BeginFencedVerification(k, incidents[k.incident].version, holder, now, attempts[k], subject)
    BY <1>4 DEF BegunFenced
  <2>2. /\ k.incident = i
        /\ IncidentExists(i)
        /\ incidents[i].state \in {"DIAGNOSED", "WAITING_APPROVAL"}
        /\ incidents'[i] = [incidents[i] EXCEPT !.state = "VERIFYING", !.version = @ + 1]
    BY <1>0, <2>1 DEF BeginFencedVerification, FencedBeginAccepted, FencePassed, RegistryTypeOK
  <2>3. incidents[i] \in Incident
    BY <1>0, <2>2, ExistingIncident
  <2>4. incidents'[i].state = "VERIFYING" /\ incidents'[i].binding = incidents[i].binding
    BY <2>2, <2>3 DEF Incident
  <2>5. QED
    BY <2>2, <2>4 DEF StateMoves
<1>5. CASE Resolved
  <2>1. PICK k \in ActionKey, holder \in Holder, now \in Time :
          Resolve(k.incident, incidents[k.incident].version, k, holder, now)
    BY <1>5 DEF Resolved
  <2>2. /\ k.incident = i
        /\ IncidentExists(i)
        /\ incidents[i].state = "VERIFYING"
        /\ incidents'[i] = [incidents[i] EXCEPT !.state = "RESOLVED", !.version = @ + 1,
                                                !.resolvedBy = k.plan, !.binding = NoPlan]
    BY <1>0, <2>1, ActionKeyOf DEF Resolve, ResolveAccepted, FencePassed, RegistryTypeOK
  <2>3. incidents[i] \in Incident
    BY <1>0, <2>2, ExistingIncident
  <2>4. incidents'[i].state = "RESOLVED" /\ incidents'[i].resolvedBy = k.plan
    BY <2>2, <2>3 DEF Incident
  <2>5. k.plan # NoPlan
    BY <2>1, ActionKeyOf, NoPlanAssumption
  <2>6. QED
    BY <2>2, <2>4, <2>5 DEF IsResolved
<1>6. ~ CompletedFenced /\ ~ \E k \in ActionKey, now \in Time : AttemptStep(k, now)
  BY DEF CompletedFenced, CompleteFencedVerification, AttemptStep
<1>7. QED
  BY <1>1, <1>2, <1>3, <1>4, <1>5, <1>6, RegistryStep

-----------------------------------------------------------------------------
(* Only persisted evidence takes an incident out of VERIFYING.              *)
THEOREM VerifyingNeedsEvidence == RegistrySpec => VerifyingLeftOnlyByEvidence
<1> DEFINE Step ==
      \A i \in IncidentID :
        incidents[i].state = "VERIFYING" /\ incidents'[i].state # "VERIFYING"
          => incidents'[i].state = "RESOLVED" /\ incidents'[i].resolvedBy # NoPlan
<1>1. ASSUME RegistryInv, RegistryNext PROVE Step
  BY <1>1, IncidentChange DEF Appears, IsClaimed, StateMoves, IsResolved, IncidentExists
<1>2. RegistryInv /\ [RegistryNext]_registryVars => [Step]_registryVars
  BY <1>1
<1>3. QED
  BY <1>2, RegistryInvariant, PTL DEF RegistrySpec, VerifyingLeftOnlyByEvidence

(* A resolved incident never changes but for its version.                   *)
THEOREM ResolvedIsFinal == RegistrySpec => ResolvedIncidentIsFinal
<1> DEFINE Step ==
      \A i \in IncidentID : incidents[i].state = "RESOLVED" =>
        incidents'[i] = [incidents[i] EXCEPT !.version = incidents'[i].version]
<1>1. ASSUME RegistryInv, RegistryNext, NEW i \in IncidentID, incidents[i].state = "RESOLVED"
      PROVE  incidents'[i] = [incidents[i] EXCEPT !.version = incidents'[i].version]
  <2>1. CASE incidents'[i] = incidents[i]
    <3>1. incidents[i] \in Incident
      BY <1>1, ExistingIncident DEF RegistryInv, IncidentExists
    <3>2. QED
      BY <2>1, <3>1 DEF Incident
  <2>2. CASE incidents'[i] # incidents[i]
    BY <1>1, <2>2, IncidentChange DEF Appears, IsClaimed, StateMoves, IsResolved, IncidentExists
  <2>3. QED
    BY <2>1, <2>2
<1>2. RegistryInv /\ [RegistryNext]_registryVars => [Step]_registryVars
  BY <1>1
<1>3. QED
  BY <1>2, RegistryInvariant, PTL DEF RegistrySpec, ResolvedIncidentIsFinal

(* A waiting incident keeps the binding it waits under, through every claim *)
(* and into verification.                                                   *)
THEOREM BindingIsKept == RegistrySpec => WaitingKeepsBinding
<1> DEFINE Step ==
      \A i \in IncidentID : IncidentExists(i) =>
        /\ incidents'[i].state = "WAITING_APPROVAL" => incidents'[i].binding # NoPlan
        /\ (incidents[i].state = "WAITING_APPROVAL" /\ incidents'[i].state # "RESOLVED")
             => incidents'[i].binding = incidents[i].binding
<1>1. ASSUME RegistryInv, RegistryNext, NEW i \in IncidentID, IncidentExists(i)
      PROVE  /\ incidents'[i].state = "WAITING_APPROVAL" => incidents'[i].binding # NoPlan
             /\ (incidents[i].state = "WAITING_APPROVAL" /\ incidents'[i].state # "RESOLVED")
                  => incidents'[i].binding = incidents[i].binding
  <2>1. incidents[i].state = "WAITING_APPROVAL" => incidents[i].binding # NoPlan
    BY <1>1 DEF RegistryInv, WaitingIsBound
  <2>2. CASE incidents'[i] = incidents[i]
    BY <2>1, <2>2
  <2>3. CASE incidents'[i] # incidents[i]
    BY <1>1, <2>1, <2>3, IncidentChange DEF Appears, IsClaimed, StateMoves, IsResolved
  <2>4. QED
    BY <2>2, <2>3
<1>2. RegistryInv /\ [RegistryNext]_registryVars => [Step]_registryVars
  BY <1>1
<1>3. QED
  BY <1>2, RegistryInvariant, PTL DEF RegistrySpec, WaitingKeepsBinding

-----------------------------------------------------------------------------
(* The audit only grows, by a claim whose version is the next one.          *)
THEOREM AuditGrows == RegistrySpec => AuditIsAppendOnly
<1> DEFINE Appends(i) ==
      /\ claimHistory[i] \subseteq claimHistory'[i]
      /\ \A e \in claimHistory'[i] \ claimHistory[i] :
           e.version = incidents[i].version + 1 /\ e.version = incidents'[i].version
<1>1. ASSUME RegistryInv, RegistryNext, NEW i \in IncidentID
      PROVE  Appends(i)
  <2>1. CASE UNCHANGED claimHistory
    BY <2>1
  <2>2. CASE ClaimGranted
    <3>1. PICK j \in IncidentID, holder \in Holder, now \in Time, lease \in Lease :
            IncidentExists(j) /\ GrantClaim(j, holder, now, lease)
      BY <2>2 DEF ClaimGranted
    <3> DEFINE event == AuditEvent(incidents[j].version + 1, holder, now, lease)
    <3>2. /\ incidents'[j] = ClaimedIncident(incidents[j])
          /\ claimHistory'[j] = claimHistory[j] \cup {event}
          /\ j # i => claimHistory'[i] = claimHistory[i]
      BY <1>1, <3>1 DEF GrantClaim, Audited, RegistryInv, RegistryTypeOK
    <3>3. incidents[j] \in Incident
      BY <1>1, <3>1, ExistingIncident DEF RegistryInv
    <3>4. event.version = incidents[j].version + 1 /\ incidents'[j].version = incidents[j].version + 1
      BY <3>2, <3>3 DEF AuditEvent, ClaimedIncident, Incident
    <3>5. QED
      BY <3>2, <3>4
  <2>3. QED
    BY <1>1, <2>1, <2>2, RegistryStep
    DEF Observe, Transitioned, Transition, BegunFenced, BeginFencedVerification,
        CompletedFenced, CompleteFencedVerification, Resolved, Resolve, AttemptStep
<1>2. RegistryInv /\ [RegistryNext]_registryVars => [\A i \in IncidentID : Appends(i)]_registryVars
  BY <1>1
<1>3. QED
  BY <1>2, RegistryInvariant, PTL DEF RegistrySpec, AuditIsAppendOnly

(* A verification that has a result keeps it.                               *)
THEOREM ResultsAreFinal == RegistrySpec => RecoveredIsFinal
<1> DEFINE Step ==
      \A k \in ActionKey :
        verifications[k].status \in VerificationResult => verifications'[k] = verifications[k]
<1>1. ASSUME RegistryInv, RegistryNext, NEW k \in ActionKey,
             verifications[k].status \in VerificationResult
      PROVE  verifications'[k] = verifications[k]
  <2>0. verifications = [j \in ActionKey |-> verifications[j]]
    BY <1>1 DEF RegistryInv, RegistryTypeOK, VerificationTypeOK
  <2>1. CASE UNCHANGED verifications
    BY <2>1
  <2>2. CASE BegunFenced
    <3>1. PICK j \in ActionKey, now \in Time, subject \in Subject :
            /\ BegunVerification(j, subject, now).status = "PENDING"
            /\ verifications' = [verifications EXCEPT ![j] = BegunVerification(j, subject, now)]
      BY <2>2 DEF BegunFenced, BeginFencedVerification, FencedBeginAccepted, BeginVerification
    <3>2. CASE j = k
      BY <1>1, <3>1, <3>2 DEF BegunVerification, VerificationExists, VerificationResult
    <3>3. CASE j # k
      BY <2>0, <3>1, <3>3
    <3>4. QED
      BY <3>2, <3>3
  <2>3. CASE CompletedFenced
    <3>1. PICK j \in ActionKey, now \in Time, to \in VerificationResult :
            CompleteVerification(j, 1, to, now)
      BY <2>3 DEF CompletedFenced, CompleteFencedVerification
    <3>2. CASE VerificationCompletionMatches(verifications[j], 1, to, now)
      BY <3>1, <3>2 DEF CompleteVerification
    <3>3. CASE ~ VerificationCompletionMatches(verifications[j], 1, to, now)
      <4>1. verifications[j].status = "PENDING"
        BY <3>1, <3>3
        DEF CompleteVerification, VerificationCompletionAccepted, CompletesVerification
      <4>2. j # k
        BY <1>1, <4>1 DEF VerificationResult
      <4>3. QED
        BY <2>0, <3>1, <3>3, <4>2 DEF CompleteVerification
    <3>4. QED
      BY <3>2, <3>3
  <2>4. QED
    BY <1>1, <2>1, <2>2, <2>3, RegistryStep
    DEF Observe, Transitioned, Transition, ClaimGranted, GrantClaim, Resolved, Resolve, AttemptStep
<1>2. RegistryInv /\ [RegistryNext]_registryVars => [Step]_registryVars
  BY <1>1
<1>3. QED
  BY <1>2, RegistryInvariant, PTL DEF RegistrySpec, RecoveredIsFinal
=============================================================================
