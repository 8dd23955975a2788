---------------------------- MODULE RecoveryCheck ----------------------------
(***************************************************************************)
(* The Kubernetes check behind a verification                              *)
(* (kubernetes_verification_executor.go): two reads of a cluster that goes  *)
(* on changing, first the ReplicaSet, then the pods its selector finds.     *)
(* The verdict is final, so what matters is what the two reads, taken       *)
(* together, can be wrong about.                                            *)
(*                                                                         *)
(* The cluster is not this program's: it is modelled as far as the check    *)
(* reads it.  Every pod matches the selector, another controller's too.     *)
(***************************************************************************)
EXTENDS Naturals, FiniteSets

CONSTANTS
  Pod,             \* pods, by UID: one that is gone never comes back
  Target,          \* the pod the action was taken on
  Foreign,         \* the pods of another controller
  MaxReplicas,     \* bound: what the ReplicaSet is scaled to
  MaxGeneration,   \* bound: changes of its specification
  MaxFailures      \* bound: calls that fail

ASSUME RecoveryConstants ==
  /\ IsFiniteSet(Pod) /\ Target \in Pod /\ Foreign \subseteq Pod \ {Target}
  /\ MaxReplicas \in Nat /\ MaxGeneration \in Nat \ {0} /\ MaxFailures \in Nat

VARIABLES
  rs,        \* the ReplicaSet of the subject's name
  phase,     \* the life of each pod
  check,     \* where the check is, and the ReplicaSet it has read
  failures

recoveryVars == <<rs, phase, check, failures>>

-----------------------------------------------------------------------------
(* The cluster *)

(* UIDs of the name's ReplicaSets; a successor owns none of the pods. *)
Uid == {"subject", "successor"}

Phase == {"unborn", "running", "ready", "terminating", "gone"}

Active(p) == phase[p] \in {"running", "ready"}

Owned == Pod \ Foreign

ActiveOwned == {p \in Owned : Active(p)}

ReadyOwned == {p \in Owned : phase[p] = "ready"}

ReplicaSet ==
  [uid: Uid, terminating: BOOLEAN, desired: 0..MaxReplicas,
   generation: 1..MaxGeneration, observed: 0..MaxGeneration,
   available: 0..Cardinality(Pod)]

UNCHANGEDByCluster == UNCHANGED <<check, failures>>

(* kubectl scale, or an autoscaler. *)
Scale(n) ==
  /\ rs.generation < MaxGeneration /\ n # rs.desired
  /\ rs' = [rs EXCEPT !.desired = n, !.generation = @ + 1]
  /\ UNCHANGED phase /\ UNCHANGEDByCluster

(* The controller: it creates what is missing, deletes what is too much,    *)
(* and writes a status with the counts of before and the generation it saw. *)
Reconcile ==
  /\ rs.uid = "subject" /\ ~ rs.terminating
  /\ \E born \in SUBSET {p \in Owned : phase[p] = "unborn"}, surplus \in SUBSET ActiveOwned :
       /\ Cardinality(ActiveOwned) < rs.desired =>
            /\ surplus = {}
            /\ Cardinality(ActiveOwned) + Cardinality(born) <= rs.desired
       /\ Cardinality(ActiveOwned) >= rs.desired =>
            /\ born = {}
            /\ Cardinality(surplus) = Cardinality(ActiveOwned) - rs.desired
       /\ phase' = [p \in Pod |->
            IF p \in born THEN "running" ELSE IF p \in surplus THEN "terminating" ELSE phase[p]]
  /\ rs' = [rs EXCEPT !.observed = rs.generation, !.available = Cardinality(ReadyOwned)]
  /\ UNCHANGEDByCluster

(* A container starts, crashes, is deleted (by the action, by hand, with    *)
(* its node) or has stopped.                                                *)
PodChanges(p) ==
  /\ \/ phase[p] = "running" /\ phase' = [phase EXCEPT ![p] = "ready"]
     \/ phase[p] = "ready" /\ phase' = [phase EXCEPT ![p] = "running"]
     \/ Active(p) /\ phase' = [phase EXCEPT ![p] = "terminating"]
     \/ phase[p] = "terminating" /\ phase' = [phase EXCEPT ![p] = "gone"]
  /\ UNCHANGED rs /\ UNCHANGEDByCluster

(* The ReplicaSet is deleted, and another one takes its name.               *)
DeleteReplicaSet ==
  /\ rs.uid = "subject" /\ ~ rs.terminating
  /\ rs' = [rs EXCEPT !.terminating = TRUE]
  /\ UNCHANGED phase /\ UNCHANGEDByCluster

ReplaceReplicaSet ==
  /\ rs.uid = "subject" /\ rs.terminating
  /\ rs' = [rs EXCEPT !.uid = "successor", !.terminating = FALSE]
  /\ UNCHANGED phase /\ UNCHANGEDByCluster

-----------------------------------------------------------------------------
(* The check *)

Unchecked == [pc |-> "get"]

Verdict(result) == [pc |-> "judged", result |-> result]

(* Faulty: a status that lags behind the specification is believed. *)
StatusCurrentAssumed == rs.observed <= rs.generation

(* Faulty: the generation itself counts as not observed. *)
StatusPastCurrent == rs.observed > rs.generation

StatusCurrent == rs.observed >= rs.generation

(* What the check insists on before it judges; anything else is an error,   *)
(* which leaves the verification PENDING.                                   *)
Checkable == rs.uid = "subject" /\ ~ rs.terminating /\ rs.desired > 0 /\ StatusCurrent

(* The first read.  Replicas, ReadyReplicas and AvailableReplicas must all  *)
(* suffice; the last is the least of them.                                  *)
GetReplicaSet ==
  /\ check.pc = "get" /\ Checkable
  /\ check' = IF rs.available < rs.desired
                THEN Verdict("NOT_RECOVERED")
                ELSE [pc |-> "list", rs |-> rs]
  /\ UNCHANGED <<rs, phase, failures>>

(* Faulty: the pod acted on is counted. *)
ReadyControlledPods(read) ==
  {p \in Pod : phase[p] = "ready" /\ p \in Owned /\ read.uid = "subject"}

(* Faulty: whoever controls it, a pod the selector finds is counted. *)
ReadySelectedPods(read) == {p \in Pod : phase[p] = "ready" /\ p # Target}

(* readyControlledReplacementPod, of the ReplicaSet that was read.          *)
ReadyReplacements(read) ==
  {p \in Pod : phase[p] = "ready" /\ p # Target /\ p \in Owned /\ read.uid = "subject"}

(* The second read, measured by the first one's replica count. *)
ListPods ==
  /\ check.pc = "list"
  /\ check' = IF Cardinality(ReadyReplacements(check.rs)) < check.rs.desired
                THEN Verdict("NOT_RECOVERED") ELSE Verdict("RECOVERED")
  /\ UNCHANGED <<rs, phase, failures>>

(* Faulty: a failed read is made a verdict. *)
ReadFailsInconclusive ==
  /\ check.pc = "list" /\ failures < MaxFailures
  /\ check' = Verdict("INCONCLUSIVE")
  /\ failures' = failures + 1
  /\ UNCHANGED <<rs, phase>>

(* A read fails, or the request's deadline passes: the work is claimed      *)
(* again later and starts from the beginning.                               *)
ReadFails ==
  /\ check.pc = "list" /\ failures < MaxFailures
  /\ check' = Unchecked
  /\ failures' = failures + 1
  /\ UNCHANGED <<rs, phase>>

Check == GetReplicaSet \/ ListPods

-----------------------------------------------------------------------------
(* At the start the target and enough other pods of the ReplicaSet run.     *)
RecoveryInit ==
  /\ \E n \in 1..MaxReplicas, running \in SUBSET Owned :
       /\ Target \in running /\ Cardinality(running) = n
       /\ rs = [uid |-> "subject", terminating |-> FALSE, desired |-> n,
                generation |-> 1, observed |-> 1, available |-> n]
       /\ phase = [p \in Pod |-> IF p \in running \cup Foreign THEN "ready" ELSE "unborn"]
  /\ check = Unchecked
  /\ failures = 0

RecoveryNext ==
  \/ \E n \in 0..MaxReplicas : Scale(n)
  \/ Reconcile
  \/ \E p \in Pod : PodChanges(p)
  \/ DeleteReplicaSet \/ ReplaceReplicaSet
  \/ GetReplicaSet \/ ListPods \/ ReadFails

(* The worker comes back to work that was not judged (VerificationWorker),  *)
(* so a read that stays possible is made.                                   *)
RecoverySpec ==
  RecoveryInit /\ [][RecoveryNext]_recoveryVars /\ WF_recoveryVars(Check)

-----------------------------------------------------------------------------
(* Properties *)

(* Types of the cluster and the check. *)
RecoveryTypeOK ==
  /\ rs \in ReplicaSet
  /\ phase \in [Pod -> Phase]
  /\ check \in {Unchecked, Verdict("RECOVERED"), Verdict("NOT_RECOVERED")}
       \cup [pc: {"list"}, rs: ReplicaSet]
  /\ failures \in 0..MaxFailures

Judges(result) == check.pc # "judged" /\ check' = Verdict(result)

(* RECOVERED is never answered while the pod acted on still serves, neither *)
(* by counting it nor by a count it was never part of: unless the           *)
(* specification was changed between the two reads, the target is no longer *)
(* an active pod.  It takes the comparison of generations: the controller   *)
(* keeps as many pods as the status it wrote was about.                     *)
TargetIsReplaced ==
  [][(/\ Judges("RECOVERED")
      /\ check.rs.generation = rs.generation
      /\ check.rs.uid = rs.uid /\ ~ rs.terminating) => ~ Active(Target)]_recoveryVars

(* A workload that comes to rest with its replacements up is judged: the    *)
(* refusals of the check all pass.                                          *)
Settled ==
  /\ rs.uid = "subject" /\ ~ rs.terminating
  /\ rs.observed = rs.generation /\ rs.available = rs.desired /\ rs.desired > 0
  /\ ActiveOwned = ReadyOwned /\ Cardinality(ActiveOwned) = rs.desired
  /\ ~ Active(Target)

SettledIsJudged == <>[]Settled => <>(check.pc = "judged")
=============================================================================
