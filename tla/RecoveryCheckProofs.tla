-------------------------- MODULE RecoveryCheckProofs --------------------------
(***************************************************************************)
(* That a recovery is never answered while the pod acted on still serves,   *)
(* for any number of pods and replicas.                                     *)
(***************************************************************************)
EXTENDS RecoveryCheck, FiniteSetTheorems, TLAPS

(* The status is never ahead of the specification, and one that is current  *)
(* comes from a controller that left no more pods than are wanted.          *)
SubjectStands == rs.uid = "subject" /\ ~ rs.terminating

StatusNotAhead == rs.observed <= rs.generation

NoMoreThanWanted ==
  (SubjectStands /\ rs.observed = rs.generation) => Cardinality(ActiveOwned) <= rs.desired

(* What the check remembers of its first read is the ReplicaSet as it is,   *)
(* for as long as the generation is the same.                               *)
ReadIsCurrent ==
  check.pc = "list" =>
    /\ check.rs.uid = "subject"
    /\ check.rs.generation <= rs.generation
    /\ (check.rs.generation = rs.generation /\ SubjectStands) =>
         check.rs.desired = rs.desired /\ rs.observed = rs.generation

RecoveryInv == RecoveryTypeOK /\ StatusNotAhead /\ NoMoreThanWanted /\ ReadIsCurrent

USE RecoveryConstants

-----------------------------------------------------------------------------
(* Sets of pods are finite.                                                 *)
LEMMA PodSets ==
  ASSUME NEW S \in SUBSET Pod
  PROVE  IsFiniteSet(S) /\ Cardinality(S) \in 0..Cardinality(Pod)
<1>1. IsFiniteSet(S) /\ Cardinality(S) <= Cardinality(Pod)
  BY FS_Subset
<1>2. Cardinality(S) \in Nat /\ Cardinality(Pod) \in Nat
  BY <1>1, FS_CardinalityType
<1> QED
  BY <1>1, <1>2

LEMMA InitRecovery == RecoveryInit => RecoveryInv
<1> SUFFICES ASSUME RecoveryInit PROVE RecoveryInv
  OBVIOUS
<1>1. PICK n \in 1..MaxReplicas, running \in SUBSET Owned :
         /\ Target \in running /\ Cardinality(running) = n
         /\ rs = [uid |-> "subject", terminating |-> FALSE, desired |-> n,
                  generation |-> 1, observed |-> 1, available |-> n]
         /\ phase = [p \in Pod |-> IF p \in running \cup Foreign THEN "ready" ELSE "unborn"]
  BY DEF RecoveryInit
<1>2. check = Unchecked /\ failures = 0
  BY DEF RecoveryInit
<1>3. n \in 0..Cardinality(Pod)
  BY <1>1, PodSets DEF Owned
<1>4. ActiveOwned = running
  BY <1>1 DEF ActiveOwned, Active, Owned
<1>5. RecoveryTypeOK
  <2>1. rs \in ReplicaSet
    BY <1>1, <1>3 DEF ReplicaSet, Uid
  <2>2. phase \in [Pod -> Phase]
    BY <1>1 DEF Phase
  <2> QED
    BY <2>1, <2>2, <1>2 DEF RecoveryTypeOK
<1>6. NoMoreThanWanted
  BY <1>1, <1>4 DEF NoMoreThanWanted
<1>7. StatusNotAhead
  BY <1>1 DEF StatusNotAhead
<1>8. ReadIsCurrent
  BY <1>2 DEF ReadIsCurrent, Unchecked
<1> QED
  BY <1>5, <1>6, <1>7, <1>8 DEF RecoveryInv

-----------------------------------------------------------------------------
(* Steps of the cluster.  A new specification is one the status has not     *)
(* seen yet, so the invariant says nothing of it until the controller has.  *)
LEMMA ScaleStep ==
  ASSUME RecoveryInv, NEW n \in 0..MaxReplicas, Scale(n)
  PROVE  RecoveryInv'
<1>1. /\ rs \in ReplicaSet /\ rs.generation < MaxGeneration
      /\ rs' = [rs EXCEPT !.desired = n, !.generation = @ + 1]
  BY DEF Scale, RecoveryInv, RecoveryTypeOK
<1>2. rs.generation \in Nat /\ rs.observed \in Nat /\ rs.generation + 1 \in 1..MaxGeneration
  BY <1>1 DEF ReplicaSet
<1>3. /\ rs' \in ReplicaSet
      /\ rs'.generation = rs.generation + 1 /\ rs'.observed = rs.observed
  <2> DEFINE g == rs.generation + 1
  <2>1. rs' = [rs EXCEPT !.desired = n, !.generation = g]
    BY <1>1
  <2>2. rs \in ReplicaSet /\ g \in 1..MaxGeneration
    BY <1>1, <1>2
  <2> HIDE DEF g
  <2>3. rs' \in ReplicaSet /\ rs'.generation = g /\ rs'.observed = rs.observed
    BY <2>1, <2>2 DEF ReplicaSet
  <2> QED
    BY <2>3 DEF g
<1>4. RecoveryTypeOK'
  BY <1>3 DEF RecoveryInv, RecoveryTypeOK, Scale, UNCHANGEDByCluster
<1>5. StatusNotAhead' /\ rs'.observed # rs'.generation
  BY <1>2, <1>3 DEF RecoveryInv, StatusNotAhead
<1>6. NoMoreThanWanted'
  BY <1>5 DEF NoMoreThanWanted
<1>7. ReadIsCurrent'
  <2> SUFFICES ASSUME check'.pc = "list"
               PROVE  /\ check'.rs.uid = "subject"
                      /\ check'.rs.generation <= rs'.generation
                      /\ check'.rs.generation # rs'.generation
    BY DEF ReadIsCurrent
  <2>1. /\ check' = check /\ check.rs.uid = "subject"
        /\ check.rs.generation <= rs.generation
    BY DEF Scale, UNCHANGEDByCluster, RecoveryInv, ReadIsCurrent
  <2>2. check.rs.generation \in Nat
    BY <2>1 DEF RecoveryInv, RecoveryTypeOK, ReplicaSet, Unchecked, Verdict
  <2> QED
    BY <1>2, <1>3, <2>1, <2>2
<1> QED
  BY <1>4, <1>5, <1>6, <1>7 DEF RecoveryInv

(* After the controller's step no more pods are active than are wanted.     *)
LEMMA ReconcileStep ==
  ASSUME RecoveryInv, Reconcile
  PROVE  RecoveryInv'
<1>1. PICK born \in SUBSET {p \in Owned : phase[p] = "unborn"}, surplus \in SUBSET ActiveOwned :
        /\ Cardinality(ActiveOwned) < rs.desired =>
             surplus = {} /\ Cardinality(ActiveOwned) + Cardinality(born) <= rs.desired
        /\ Cardinality(ActiveOwned) >= rs.desired =>
             born = {} /\ Cardinality(surplus) = Cardinality(ActiveOwned) - rs.desired
        /\ phase' = [p \in Pod |->
             IF p \in born THEN "running" ELSE IF p \in surplus THEN "terminating" ELSE phase[p]]
  BY DEF Reconcile
<1>2. /\ rs \in ReplicaSet /\ phase \in [Pod -> Phase]
      /\ rs' = [rs EXCEPT !.observed = rs.generation, !.available = Cardinality(ReadyOwned)]
      /\ check' = check /\ failures' = failures
  BY DEF Reconcile, UNCHANGEDByCluster, RecoveryInv, RecoveryTypeOK
<1>3. ReadyOwned \in SUBSET Pod /\ ActiveOwned \in SUBSET Pod /\ born \in SUBSET Pod
      /\ surplus \in SUBSET Pod
  BY DEF ReadyOwned, ActiveOwned, Owned
<1>4. /\ rs' \in ReplicaSet
      /\ rs'.uid = rs.uid /\ rs'.terminating = rs.terminating /\ rs'.desired = rs.desired
      /\ rs'.generation = rs.generation /\ rs'.observed = rs.generation
  <2> DEFINE o == rs.generation
             a == Cardinality(ReadyOwned)
  <2>1. rs' = [rs EXCEPT !.observed = o, !.available = a]
    BY <1>2
  <2>2. rs \in ReplicaSet /\ o \in 0..MaxGeneration /\ a \in 0..Cardinality(Pod)
    BY <1>2, <1>3, PodSets DEF ReplicaSet
  <2> HIDE DEF o, a
  <2>3. /\ rs' \in ReplicaSet /\ rs'.observed = o
        /\ rs'.uid = rs.uid /\ rs'.terminating = rs.terminating
        /\ rs'.desired = rs.desired /\ rs'.generation = rs.generation
    BY <2>1, <2>2 DEF ReplicaSet
  <2> QED
    BY <2>3 DEF o
<1>5. RecoveryTypeOK'
  <2>1. phase' \in [Pod -> Phase]
    BY <1>1, <1>2 DEF Phase
  <2> QED
    BY <1>2, <1>4, <2>1 DEF RecoveryInv, RecoveryTypeOK
<1>6. StatusNotAhead'
  BY <1>4 DEF StatusNotAhead, ReplicaSet
<1>7. Cardinality(ActiveOwned') <= rs.desired
  <2>1. ActiveOwned' = (ActiveOwned \cup born) \ surplus
    BY <1>1 DEF ActiveOwned, Active, Owned
  <2>2. /\ IsFiniteSet(ActiveOwned) /\ Cardinality(ActiveOwned) \in Nat
        /\ IsFiniteSet(born) /\ Cardinality(born) \in Nat
        /\ IsFiniteSet(surplus) /\ Cardinality(surplus) \in Nat
    BY <1>3, PodSets
  <2>3. rs.desired \in Nat
    BY <1>2 DEF ReplicaSet
  <2>4. CASE Cardinality(ActiveOwned) < rs.desired
    <3>1. ActiveOwned' = ActiveOwned \cup born
      BY <1>1, <2>1, <2>4
    <3>2. Cardinality(ActiveOwned \cup born) =
            Cardinality(ActiveOwned) + Cardinality(born) - Cardinality(ActiveOwned \cap born)
      BY <2>2, FS_Union
    <3>3. Cardinality(ActiveOwned \cap born) \in Nat
      BY <1>3, PodSets
    <3> QED
      BY <1>1, <2>2, <2>3, <2>4, <3>1, <3>2, <3>3
  <2>5. CASE Cardinality(ActiveOwned) >= rs.desired
    <3>1. ActiveOwned' = ActiveOwned \ surplus /\ ActiveOwned \cap surplus = surplus
      BY <1>1, <2>1, <2>5
    <3>2. Cardinality(ActiveOwned \ surplus) =
            Cardinality(ActiveOwned) - Cardinality(ActiveOwned \cap surplus)
      BY <2>2, FS_Difference
    <3> QED
      BY <1>1, <2>2, <2>3, <2>5, <3>1, <3>2
  <2> QED
    BY <2>2, <2>3, <2>4, <2>5
<1>8. NoMoreThanWanted'
  BY <1>4, <1>7 DEF NoMoreThanWanted
<1>9. ReadIsCurrent'
  BY <1>2, <1>4 DEF RecoveryInv, ReadIsCurrent, SubjectStands
<1> QED
  BY <1>5, <1>6, <1>8, <1>9 DEF RecoveryInv

(* A pod that changes by itself never becomes active.                       *)
LEMMA PodChangesStep ==
  ASSUME RecoveryInv, NEW p \in Pod, PodChanges(p)
  PROVE  RecoveryInv'
<1>1. phase \in [Pod -> Phase] /\ rs' = rs /\ check' = check /\ failures' = failures
  BY DEF PodChanges, UNCHANGEDByCluster, RecoveryInv, RecoveryTypeOK
<1>2. phase' \in [Pod -> Phase]
  BY <1>1 DEF PodChanges, Phase
<1>3. ActiveOwned' \in SUBSET ActiveOwned
  BY <1>1 DEF PodChanges, ActiveOwned, Active, Owned
<1>4. Cardinality(ActiveOwned') <= Cardinality(ActiveOwned)
  <2>1. ActiveOwned \in SUBSET Pod
    BY DEF ActiveOwned, Owned
  <2> QED
    BY <1>3, <2>1, PodSets, FS_Subset
<1>5. /\ Cardinality(ActiveOwned') \in Nat /\ Cardinality(ActiveOwned) \in Nat
      /\ rs.desired \in Nat
  <2>1. ActiveOwned \in SUBSET Pod /\ ActiveOwned' \in SUBSET Pod
    BY DEF ActiveOwned, Owned
  <2> QED
    BY <2>1, PodSets DEF RecoveryInv, RecoveryTypeOK, ReplicaSet
<1>6. NoMoreThanWanted'
  BY <1>1, <1>4, <1>5 DEF RecoveryInv, NoMoreThanWanted, SubjectStands
<1> QED
  BY <1>1, <1>2, <1>6
  DEF RecoveryInv, RecoveryTypeOK, StatusNotAhead, ReadIsCurrent, SubjectStands

(* Deleted or replaced, the subject no longer stands.                       *)
LEMMA SubjectEndsStep ==
  ASSUME RecoveryInv, DeleteReplicaSet \/ ReplaceReplicaSet
  PROVE  RecoveryInv'
<1>1. /\ rs \in ReplicaSet /\ check' = check /\ failures' = failures /\ phase' = phase
  BY DEF DeleteReplicaSet, ReplaceReplicaSet, UNCHANGEDByCluster, RecoveryInv, RecoveryTypeOK
<1>2. /\ rs' \in ReplicaSet /\ ~ SubjectStands'
      /\ rs'.generation = rs.generation /\ rs'.observed = rs.observed
  <2>1. CASE DeleteReplicaSet
    BY <1>1, <2>1 DEF DeleteReplicaSet, ReplicaSet, SubjectStands
  <2>2. CASE ReplaceReplicaSet
    BY <1>1, <2>2 DEF ReplaceReplicaSet, ReplicaSet, SubjectStands, Uid
  <2> QED
    BY <2>1, <2>2
<1> QED
  BY <1>1, <1>2
  DEF RecoveryInv, RecoveryTypeOK, StatusNotAhead, NoMoreThanWanted, ReadIsCurrent

-----------------------------------------------------------------------------
(* Steps of the check.                                                      *)
LEMMA CheckStep ==
  ASSUME RecoveryInv, GetReplicaSet \/ ListPods \/ ReadFails
  PROVE  RecoveryInv'
<1>1. rs' = rs /\ phase' = phase
  BY DEF GetReplicaSet, ListPods, ReadFails
<1>2. failures' \in 0..MaxFailures
  BY DEF GetReplicaSet, ListPods, ReadFails, RecoveryInv, RecoveryTypeOK
<1>3. \/ check' \in {Unchecked, Verdict("RECOVERED"), Verdict("NOT_RECOVERED")}
      \/ check' = [pc |-> "list", rs |-> rs] /\ rs.observed >= rs.generation
         /\ rs.uid = "subject"
  BY DEF GetReplicaSet, ListPods, ReadFails, Checkable, StatusCurrent
<1>4. RecoveryTypeOK'
  BY <1>1, <1>2, <1>3 DEF RecoveryInv, RecoveryTypeOK
<1>5. ReadIsCurrent'
  <2>1. CASE check' \in {Unchecked, Verdict("RECOVERED"), Verdict("NOT_RECOVERED")}
    BY <2>1 DEF ReadIsCurrent, Unchecked, Verdict
  <2>2. CASE check' = [pc |-> "list", rs |-> rs] /\ rs.observed >= rs.generation
         /\ rs.uid = "subject"
    <3>1. rs.observed \in Nat /\ rs.generation \in Nat /\ rs.observed <= rs.generation
      BY DEF RecoveryInv, RecoveryTypeOK, ReplicaSet, StatusNotAhead
    <3> QED
      BY <1>1, <2>2, <3>1 DEF ReadIsCurrent
  <2> QED
    BY <1>3, <2>1, <2>2
<1>6. NoMoreThanWanted' /\ StatusNotAhead'
  BY <1>1 DEF RecoveryInv, NoMoreThanWanted, StatusNotAhead, SubjectStands, ActiveOwned, Active
<1> QED
  BY <1>4, <1>5, <1>6 DEF RecoveryInv

(* Every step keeps the invariant.                                          *)
LEMMA StepRecovery == RecoveryInv /\ [RecoveryNext]_recoveryVars => RecoveryInv'
<1> SUFFICES ASSUME RecoveryInv, [RecoveryNext]_recoveryVars PROVE RecoveryInv'
  OBVIOUS
<1>1. CASE UNCHANGED recoveryVars
  BY <1>1
  DEF recoveryVars, RecoveryInv, RecoveryTypeOK, StatusNotAhead, NoMoreThanWanted,
      ReadIsCurrent, SubjectStands, ActiveOwned, Active
<1> QED
  BY <1>1, ScaleStep, ReconcileStep, PodChangesStep, SubjectEndsStep, CheckStep DEF RecoveryNext

(* Types of the check and of the cluster it reads.                          *)
THEOREM RecoveryTypes == RecoverySpec => []RecoveryTypeOK
<1>1. RecoverySpec => []RecoveryInv
  BY InitRecovery, StepRecovery, PTL DEF RecoverySpec
<1>2. RecoveryInv => RecoveryTypeOK
  BY DEF RecoveryInv
<1> QED
  BY <1>1, <1>2, PTL

-----------------------------------------------------------------------------
(* The replacements counted and the target would be one more than wanted.   *)
LEMMA TargetIsNotSpare ==
  ASSUME RecoveryInv, check.pc = "list", Active(Target), SubjectStands,
         check.rs.generation = rs.generation
  PROVE  Cardinality(ReadyReplacements(check.rs)) < check.rs.desired
<1> DEFINE counted == ReadyReplacements(check.rs)
<1>1. counted \in SUBSET Pod /\ ActiveOwned \in SUBSET Pod
  BY DEF ReadyReplacements, ActiveOwned, Owned
<1>2. Target \notin counted /\ counted \cup {Target} \in SUBSET ActiveOwned
  BY DEF ReadyReplacements, ActiveOwned, Active, Owned
<1>3. Cardinality(counted \cup {Target}) = Cardinality(counted) + 1
  BY <1>1, <1>2, PodSets, FS_AddElement
<1>4. Cardinality(counted \cup {Target}) <= Cardinality(ActiveOwned)
  BY <1>1, <1>2, PodSets, FS_Subset
<1>5. Cardinality(ActiveOwned) <= check.rs.desired /\ check.rs.desired \in Nat
  BY DEF RecoveryInv, RecoveryTypeOK, ReplicaSet, NoMoreThanWanted, ReadIsCurrent
<1>6. Cardinality(counted) \in Nat /\ Cardinality(ActiveOwned) \in Nat
  BY <1>1, PodSets
<1> QED
  BY <1>3, <1>4, <1>5, <1>6

(* kubernetes_verification_executor.go answers RECOVERED only when the pod  *)
(* acted on is no longer an active one, unless the ReplicaSet was changed   *)
(* between its two reads.                                                   *)
THEOREM RecoveryReplacesTarget == RecoverySpec => TargetIsReplaced
<1> DEFINE Step ==
      (/\ Judges("RECOVERED")
       /\ check.rs.generation = rs.generation
       /\ check.rs.uid = rs.uid /\ ~ rs.terminating) => ~ Active(Target)
<1>1. ASSUME RecoveryInv, [RecoveryNext]_recoveryVars, Judges("RECOVERED"),
             check.rs.generation = rs.generation, check.rs.uid = rs.uid, ~ rs.terminating
      PROVE  ~ Active(Target)
  <2>1. ListPods
    <3>1. check' # check /\ check'.pc = "judged" /\ check'.result = "RECOVERED"
      BY <1>1 DEF Judges, Verdict
    <3>2. ~ (UNCHANGED check)
      BY <3>1
    <3>3. ~ \E n \in 0..MaxReplicas : Scale(n)
      BY <3>2 DEF Scale, UNCHANGEDByCluster
    <3>4. ~ Reconcile /\ ~ \E p \in Pod : PodChanges(p)
      BY <3>2 DEF Reconcile, PodChanges, UNCHANGEDByCluster
    <3>5. ~ DeleteReplicaSet /\ ~ ReplaceReplicaSet /\ ~ UNCHANGED recoveryVars
      BY <3>2 DEF DeleteReplicaSet, ReplaceReplicaSet, UNCHANGEDByCluster, recoveryVars
    <3>6. ~ GetReplicaSet /\ ~ ReadFails
      BY <3>1 DEF GetReplicaSet, ReadFails, Verdict, Unchecked
    <3> QED
      BY <1>1, <3>3, <3>4, <3>5, <3>6 DEF RecoveryNext
  <2>2. check.pc = "list" /\ ~ (Cardinality(ReadyReplacements(check.rs)) < check.rs.desired)
    BY <1>1, <2>1 DEF ListPods, Judges, Verdict
  <2> QED
    BY <1>1, <2>2, TargetIsNotSpare DEF SubjectStands, RecoveryInv, ReadIsCurrent
<1>2. RecoveryInv /\ [RecoveryNext]_recoveryVars => [Step]_recoveryVars
  BY <1>1
<1>3. RecoverySpec => []RecoveryInv
  BY InitRecovery, StepRecovery, PTL DEF RecoverySpec
<1>4. QED
  BY <1>2, <1>3, PTL DEF RecoverySpec, TargetIsReplaced
=============================================================================
