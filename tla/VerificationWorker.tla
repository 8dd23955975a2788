-------------------------- MODULE VerificationWorker --------------------------
(***************************************************************************)
(* The loop around the verification worker (agent_verification_worker.go,   *)
(* runVerificationWorker and runVerificationWorkerOnce) and what time does  *)
(* to it: leases that run out, checks with a deadline, the wait between     *)
(* iterations that grows with consecutive failures, and the agent's cycle,  *)
(* which claims again every incident whose pod still fires.                 *)
(*                                                                         *)
(* The registry is reduced to what decides who gets work when: the status   *)
(* of each verification and the claim on its incident.  RemediationAgent    *)
(* and IncidentRegistry have the rest.  Time is a Tick that counts down     *)
(* leases and timers; calls to the store take less than a tick, and timers  *)
(* that are due go off before the next one.                                 *)
(***************************************************************************)
EXTENDS Naturals, FiniteSets

CONSTANTS
  Replica, NoReplica,
  MaxWork,          \* verifications; the number of one is its age
  Lease,            \* INCIDENT_CLAIM_LEASE_DURATION in ticks
  Poll,             \* POLL_INTERVAL
  Timeout,          \* KUBERNETES_REQUEST_TIMEOUT
  MaxDrain,         \* verificationWorkerMaxDrainItems
  MaxMultiplier,    \* verificationWorkerMaxBackoffMultiplier
  Uncheckable,      \* verifications whose check always answers with an error
  Unresolvable,     \* verifications whose incident never takes the resolution
  Firing,           \* verifications whose original pod still fires the alert
  MaxFaults         \* bound: failed calls and crashes

Work == 1..MaxWork

(* config.go: positive durations, and a lease longer than one check.        *)
ASSUME WorkerDurations ==
  /\ Poll \in Nat \ {0} /\ Timeout \in Nat \ {0} /\ Lease \in Nat
  /\ Timeout < Lease
  /\ MaxDrain \in Nat \ {0} /\ MaxMultiplier \in Nat \ {0}
  /\ MaxWork \in Nat /\ MaxFaults \in Nat
  /\ Uncheckable \subseteq Work /\ Unresolvable \subseteq Work /\ Firing \subseteq Work

VARIABLES
  status,     \* of each verification; NONE before it begins
  resolved,   \* verifications whose incident is RESOLVED by them
  claim,      \* the claim on each incident: holder, who took it, ticks left
  worker,     \* one worker loop per replica
  cycleIn,    \* ticks to each replica's next cycle
  faults      \* failed calls and crashes so far

workerVars == <<status, resolved, claim, worker, cycleIn, faults>>

Open(w) == status[w] # "NONE" /\ w \notin resolved

-----------------------------------------------------------------------------
(* Claims *)

Claimed(w, r, by) == claim' = [claim EXCEPT ![w] = [holder |-> r, by |-> by, left |-> Lease]]

(* The version a worker's command names is still the incident's: nobody has *)
(* claimed it since, and the lease runs.                                    *)
Current(r, w) == claim[w].holder = r /\ claim[w].by = "worker" /\ claim[w].left > 0

(* Faulty: a lease that ran out is not open to others. *)
RecoveredWorkUnclaimed ==
  {w \in Work : status[w] = "RECOVERED" /\ w \notin resolved /\ claim[w].holder = NoReplica}

RecoveredWork ==
  {w \in Work : status[w] = "RECOVERED" /\ w \notin resolved /\ claim[w].left = 0}

(* Faulty: work that was ever claimed is not handed out again. *)
PendingWorkUnclaimed ==
  {w \in Work : status[w] = "PENDING" /\ claim[w].holder = NoReplica}

(* Faulty: the lease is not looked at. *)
PendingWorkLeased == {w \in Work : status[w] = "PENDING"}

PendingWork == {w \in Work : status[w] = "PENDING" /\ claim[w].left = 0}

(* ORDER BY started_at LIMIT 1.                                             *)
Oldest(works) == {w \in works : \A v \in works : w <= v}

-----------------------------------------------------------------------------
(* The loop *)

At(r, pc) == worker[r].pc = pc

Goes(r, next) == worker' = [worker EXCEPT ![r] = next]

(* verificationWorkerBackoffDelay: doubled with every failure after the     *)
(* first, up to the multiplier.                                             *)
Multiplier(failures) ==
  LET after[n \in Nat] ==
        IF n <= 1 THEN 1
        ELSE IF after[n - 1] < MaxMultiplier THEN 2 * after[n - 1] ELSE after[n - 1]
  IN after[failures]

Delay(failures) == Poll * Multiplier(failures)

(* The limit is 8, which doubling meets exactly.                            *)
ASSUME DoublingMeetsLimit ==
  /\ \A n \in 0..MaxMultiplier : Multiplier(n) \in 1..MaxMultiplier
  /\ Multiplier(MaxMultiplier) = MaxMultiplier

(* Counting stops where the delay no longer grows.                          *)
CountFailure(failures) == IF Multiplier(failures) < MaxMultiplier THEN failures + 1 ELSE failures

(* Faulty: an error neither ends the iteration nor counts towards its limit. *)
EndItemSpinning(r, didWork, failed) ==
  LET me == worker[r] IN
    IF failed \/ (didWork /\ me.drained + 1 < MaxDrain)
      THEN Goes(r, [me EXCEPT !.pc = "recovered", !.item = 0,
                              !.drained = IF failed THEN @ ELSE @ + 1, !.failed = failed])
      ELSE Goes(r, [me EXCEPT !.pc = "wait", !.item = 0, !.drained = 0, !.failed = FALSE,
                              !.failures = 0, !.clock = Delay(0)])

(* Faulty: one item more than the limit. *)
EndItemOneMore(r, didWork, failed) ==
  LET me == worker[r]
      failures == IF failed THEN CountFailure(me.failures) ELSE 0
  IN
    IF didWork /\ me.drained + 1 <= MaxDrain
      THEN Goes(r, [me EXCEPT !.pc = "recovered", !.item = 0,
                              !.drained = @ + 1, !.failed = failed])
      ELSE Goes(r, [me EXCEPT !.pc = "wait", !.item = 0, !.drained = 0, !.failed = FALSE,
                              !.failures = failures, !.clock = Delay(failures)])

(* One item is done: another one, or the wait.  An iteration with any error *)
(* counts as one failure, a clean one clears the count.                     *)
EndItem(r, didWork, failed) ==
  LET me == worker[r]
      failures == IF failed THEN CountFailure(me.failures) ELSE 0
  IN
    IF didWork /\ me.drained + 1 < MaxDrain
      THEN Goes(r, [me EXCEPT !.pc = "recovered", !.item = 0,
                              !.drained = @ + 1, !.failed = failed])
      ELSE Goes(r, [me EXCEPT !.pc = "wait", !.item = 0, !.drained = 0, !.failed = FALSE,
                              !.failures = failures, !.clock = Delay(failures)])

Fault == faults < MaxFaults /\ faults' = faults + 1

(* An error because the call is refused, or for no reason of the model's.   *)
CallFails(refused) == (refused /\ UNCHANGED faults) \/ Fault

(* ClaimRecoveredVerificationResolution.  Which of several is left open:    *)
(* they are ordered by finish time, not by age.                             *)
ClaimRecovered(r) ==
  /\ At(r, "recovered")
  /\ \/ /\ RecoveredWork = {}
        /\ Goes(r, [worker[r] EXCEPT !.pc = "pending"])
        /\ UNCHANGED <<claim, faults>>
     \/ \E w \in RecoveredWork :
          /\ Claimed(w, r, "worker")
          /\ Goes(r, [worker[r] EXCEPT !.pc = "resolve", !.item = w])
          /\ UNCHANGED faults
     \/ /\ Fault
        /\ Goes(r, [worker[r] EXCEPT !.pc = "pending", !.failed = TRUE])
        /\ UNCHANGED claim
  /\ UNCHANGED <<status, resolved, cycleIn>>

(* The fence holds and the store takes the resolution. *)
ResolveAccepted(r) == Current(r, worker[r].item) /\ worker[r].item \notin Unresolvable

(* Faulty: the item ends with the error. *)
ResolveRecoveredOrEnd(r) ==
  /\ At(r, "resolve")
  /\ \/ /\ ResolveAccepted(r)
        /\ resolved' = resolved \cup {worker[r].item}
        /\ EndItem(r, TRUE, worker[r].failed)
        /\ UNCHANGED faults
     \/ /\ CallFails(~ ResolveAccepted(r))
        /\ EndItem(r, FALSE, TRUE)
        /\ UNCHANGED resolved
  /\ UNCHANGED <<status, claim, cycleIn>>

(* Resolve on behalf of an earlier completion; an error does not end the    *)
(* item, the worker goes on to pending work.                                *)
ResolveRecovered(r) ==
  /\ At(r, "resolve")
  /\ \/ /\ ResolveAccepted(r)
        /\ resolved' = resolved \cup {worker[r].item}
        /\ EndItem(r, TRUE, worker[r].failed)
        /\ UNCHANGED faults
     \/ /\ CallFails(~ ResolveAccepted(r))
        /\ Goes(r, [worker[r] EXCEPT !.pc = "pending", !.item = 0, !.failed = TRUE])
        /\ UNCHANGED resolved
  /\ UNCHANGED <<status, claim, cycleIn>>

ClaimPending(r) ==
  /\ At(r, "pending")
  /\ \/ /\ PendingWork = {}
        /\ EndItem(r, FALSE, worker[r].failed)
        /\ UNCHANGED <<claim, faults>>
     \/ \E w \in Oldest(PendingWork) :
          /\ Claimed(w, r, "worker")
          /\ Goes(r, [worker[r] EXCEPT !.pc = "check", !.item = w, !.clock = Timeout])
          /\ UNCHANGED faults
     \/ /\ Fault
        /\ EndItem(r, FALSE, TRUE)
        /\ UNCHANGED claim
  /\ UNCHANGED <<status, resolved, cycleIn>>

(* The check on the cluster.  Its deadline, an error and an invalid answer  *)
(* all leave the verification pending.                                      *)
Check(r) ==
  /\ At(r, "check")
  /\ \/ /\ worker[r].item \notin Uncheckable
        /\ Goes(r, [worker[r] EXCEPT !.pc = "complete", !.clock = 0])
        /\ UNCHANGED faults
     \/ /\ CallFails(worker[r].item \in Uncheckable)
        /\ EndItem(r, FALSE, TRUE)
  /\ UNCHANGED <<status, resolved, claim, cycleIn>>

(* CompleteFencedVerification.  The call may fail before it reaches the     *)
(* store, or its answer may be lost on the way back.                        *)
Complete(r) ==
  LET w == worker[r].item IN
    /\ At(r, "complete")
    /\ \/ \E to \in {"RECOVERED", "NOT_RECOVERED"} :
            /\ Current(r, w)
            /\ status' = [status EXCEPT ![w] = to]
            /\ \/ /\ IF to = "RECOVERED"
                       THEN Goes(r, [worker[r] EXCEPT !.pc = "finish"])
                       ELSE EndItem(r, TRUE, worker[r].failed)
                  /\ UNCHANGED faults
               \/ Fault /\ EndItem(r, FALSE, TRUE)
       \/ /\ CallFails(~ Current(r, w))
          /\ EndItem(r, FALSE, TRUE)
          /\ UNCHANGED status
    /\ UNCHANGED <<resolved, claim, cycleIn>>

(* Resolve right after the completion.                                      *)
ResolveCompleted(r) ==
  /\ At(r, "finish")
  /\ \/ /\ ResolveAccepted(r)
        /\ resolved' = resolved \cup {worker[r].item}
        /\ EndItem(r, TRUE, worker[r].failed)
        /\ UNCHANGED faults
     \/ /\ CallFails(~ ResolveAccepted(r))
        /\ EndItem(r, FALSE, TRUE)
        /\ UNCHANGED resolved
  /\ UNCHANGED <<status, claim, cycleIn>>

(* The timer of waitForVerificationWorker.                                  *)
Wake(r) ==
  /\ At(r, "wait") /\ worker[r].clock = 0
  /\ Goes(r, [worker[r] EXCEPT !.pc = "recovered"])
  /\ UNCHANGED <<status, resolved, claim, cycleIn, faults>>

NewLoop == [pc |-> "recovered", item |-> 0, drained |-> 0, failed |-> FALSE,
            failures |-> 0, clock |-> 0]

(* A process that dies forgets its loop; its claim outlives it.  The next   *)
(* process starts over.                                                     *)
Crash(r) ==
  /\ ~ At(r, "down") /\ Fault
  /\ Goes(r, [NewLoop EXCEPT !.pc = "down"])
  /\ UNCHANGED <<status, resolved, claim, cycleIn>>

Restart(r) ==
  /\ At(r, "down")
  /\ Goes(r, NewLoop)
  /\ UNCHANGED <<status, resolved, claim, cycleIn, faults>>

-----------------------------------------------------------------------------
(* What the cycle does to the same incidents *)

(* Action attempt and BeginFencedVerification, under the cycle's claim.     *)
Begin(r, w) ==
  /\ status[w] = "NONE" /\ \A v \in 1..(w - 1) : status[v] # "NONE"
  /\ ~ At(r, "down")
  /\ status' = [status EXCEPT ![w] = "PENDING"]
  /\ Claimed(w, r, "cycle")
  /\ UNCHANGED <<resolved, worker, cycleIn, faults>>

(* Claim: by the holder at any time, by others when the lease is over.      *)
Reclaims(r) ==
  {w \in Firing : Open(w) /\ (claim[w].holder = r \/ claim[w].left = 0)}

CyclesRun == \E w \in Firing : Open(w)

Cycle(r) ==
  /\ CyclesRun /\ cycleIn[r] = 0 /\ ~ At(r, "down")
  /\ claim' = [w \in Work |->
       IF w \in Reclaims(r) THEN [holder |-> r, by |-> "cycle", left |-> Lease] ELSE claim[w]]
  /\ cycleIn' = [cycleIn EXCEPT ![r] = Poll]
  /\ UNCHANGED <<status, resolved, worker, faults>>

-----------------------------------------------------------------------------
(* Time *)

Less(n) == IF n = 0 THEN 0 ELSE n - 1

(* Faulty: the check has no deadline. *)
PatientForever(r) == At(r, "check") \/ At(r, "down") \/ (At(r, "wait") /\ worker[r].clock > 0)

(* Only waits and checks take ticks; a check no more than its deadline.     *)
Patient(r) == ((At(r, "check") \/ At(r, "wait")) /\ worker[r].clock > 0) \/ At(r, "down")

Tick ==
  /\ \A r \in Replica : Patient(r) /\ (CyclesRun => cycleIn[r] > 0 \/ At(r, "down"))
  /\ claim' = [w \in Work |-> [claim[w] EXCEPT !.left = Less(@)]]
  /\ worker' = [r \in Replica |-> [worker[r] EXCEPT !.clock = Less(@)]]
  /\ cycleIn' = [r \in Replica |-> Less(cycleIn[r])]
  /\ UNCHANGED <<status, resolved, faults>>

-----------------------------------------------------------------------------
WorkerInit ==
  /\ status = [w \in Work |-> "NONE"]
  /\ resolved = {}
  /\ claim = [w \in Work |-> [holder |-> NoReplica, by |-> "cycle", left |-> 0]]
  /\ worker = [r \in Replica |-> NewLoop]
  /\ cycleIn = [r \in Replica |-> 0]
  /\ faults = 0

WorkerStep(r) ==
  \/ ClaimRecovered(r) \/ ResolveRecovered(r) \/ ClaimPending(r) \/ Check(r)
  \/ Complete(r) \/ ResolveCompleted(r) \/ Wake(r) \/ Restart(r)

WorkerNext ==
  \/ \E r \in Replica : WorkerStep(r) \/ Crash(r) \/ Cycle(r) \/ \E w \in Work : Begin(r, w)
  \/ Tick

(* The goroutines run, the timers go off, the kubelet restarts the pod.     *)
(* Calls that fail and processes that die are bounded by MaxFaults.         *)
WorkerFairness ==
  /\ \A r \in Replica : WF_workerVars(WorkerStep(r)) /\ WF_workerVars(Cycle(r))
  /\ WF_workerVars(Tick)

WorkerSpec == WorkerInit /\ [][WorkerNext]_workerVars /\ WorkerFairness
-----------------------------------------------------------------------------
(* Properties *)

(* Types, no check longer than its deadline and no wait longer than the      *)
(* longest backoff.                                                         *)
WorkerTypeOK ==
  /\ status \in [Work -> {"NONE", "PENDING", "RECOVERED", "NOT_RECOVERED"}]
  /\ resolved \subseteq Work
  /\ \A w \in Work : claim[w].holder \in Replica \cup {NoReplica} /\ claim[w].left \in 0..Lease
  /\ \A r \in Replica :
       /\ worker[r].item \in Work \cup {0}
       /\ worker[r].drained \in 0..(MaxDrain - 1)
       /\ worker[r].clock \in 0..(IF At(r, "check") THEN Timeout ELSE Poll * MaxMultiplier)
       /\ cycleIn[r] \in 0..Poll
  /\ faults \in 0..MaxFaults

(* Two replicas never check the same verification at the same time, and one *)
(* that is being checked is pending under a lease that has not run out: the *)
(* lease is longer than the check's deadline.                               *)
ChecksExclusive ==
  /\ \A r \in Replica : At(r, "check") \/ At(r, "complete") =>
       status[worker[r].item] = "PENDING" /\ claim[worker[r].item].left > 0
  /\ \A r, s \in Replica :
       (r # s /\ worker[r].item = worker[s].item /\ worker[r].item # 0)
         => ~ (At(r, "check") /\ At(s, "check"))

(* Every verification that begins and whose check can answer is judged,     *)
(* whatever becomes of the others: a check that never answers costs its      *)
(* iteration, not the work behind it.                                       *)
PendingIsJudged ==
  \A w \in Work \ Uncheckable : status[w] = "PENDING" ~> status[w] # "PENDING"

(* Every recovery that is stored resolves its incident, also when the call  *)
(* after the completion failed, its answer was lost or its process died.    *)
RecoveredIsResolved ==
  \A w \in Work \ Unresolvable : status[w] = "RECOVERED" ~> w \in resolved

(* A worker that is up always comes to rest and waits: it does not spin     *)
(* over work it cannot finish.                                              *)
WorkerComesToRest == \A r \in Replica : []<>(At(r, "wait") /\ worker[r].clock > 0)
=============================================================================
