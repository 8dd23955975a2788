----------------------- MODULE VerificationWorkerProofs -----------------------
(***************************************************************************)
(* That a check of the cluster is one replica's alone, for any number of    *)
(* replicas and verifications and any durations a configuration accepts.    *)
(***************************************************************************)
EXTENDS VerificationWorker, TLAPS

(* What one worker loop is between two of its steps.  Only a check has a    *)
(* deadline to count down, and the places that handle one verification      *)
(* name it.                                                                 *)
Places == {"recovered", "resolve", "pending", "check", "complete", "finish", "wait", "down"}

AtWork == {"resolve", "check", "complete", "finish"}

LoopOK(loop) ==
  /\ loop \in [pc : Places, item : Work \cup {0}, drained : 0..(MaxDrain - 1),
               failed : BOOLEAN, failures : 0..MaxMultiplier, clock : Nat]
  /\ loop.pc \in AtWork => loop.item \in Work
  /\ loop.clock <= (IF loop.pc = "check" THEN Timeout ELSE Poll * MaxMultiplier)

ClaimOK(taken) ==
  taken \in [holder : Replica \cup {NoReplica}, by : {"worker", "cycle"}, left : 0..Lease]

TablesOK ==
  /\ status \in [Work -> {"NONE", "PENDING", "RECOVERED", "NOT_RECOVERED"}]
  /\ resolved \subseteq Work
  /\ DOMAIN claim = Work
  /\ \A w \in Work : ClaimOK(claim[w])
  /\ faults \in 0..MaxFaults

LoopsOK ==
  /\ DOMAIN worker = Replica
  /\ \A r \in Replica : LoopOK(worker[r])
  /\ cycleIn \in [Replica -> 0..Poll]

(* A loop that checks a verification, or has just checked it, is still the  *)
(* holder of the claim, with more of the lease left than of the deadline.   *)
(* The exclusion is not inductive without it: only a lease that outlasts    *)
(* the check keeps the verification out of the other replicas' hands.       *)
Covered(loop, r, st, cl) ==
  loop.pc \in {"check", "complete"} =>
    /\ st[loop.item] = "PENDING"
    /\ cl[loop.item].holder = r
    /\ cl[loop.item].left > loop.clock

ChecksCovered == \A r \in Replica : Covered(worker[r], r, status, claim)

WorkerInv == TablesOK /\ LoopsOK /\ ChecksCovered

-----------------------------------------------------------------------------
(* The operators of the loop *)

(* The count of failures stops where the delay stops growing, and no delay  *)
(* exceeds the longest.                                                     *)
LEMMA BackoffBounded ==
  ASSUME NEW failures \in 0..MaxMultiplier
  PROVE  /\ CountFailure(failures) \in 0..MaxMultiplier
         /\ Delay(failures) \in Nat
         /\ Delay(failures) <= Poll * MaxMultiplier
<1>1. /\ MaxMultiplier \in Nat \ {0} /\ Poll \in Nat \ {0}
      /\ Multiplier(failures) \in 1..MaxMultiplier
      /\ failures = MaxMultiplier => Multiplier(failures) = MaxMultiplier
  BY WorkerDurations, DoublingMeetsLimit
<1>2. CountFailure(failures) \in 0..MaxMultiplier
  BY <1>1 DEF CountFailure
<1>3. \A a, b, c \in Nat : a <= b => c * a \in Nat /\ c * a <= c * b
  OBVIOUS
<1>4. Delay(failures) \in Nat /\ Delay(failures) <= Poll * MaxMultiplier
  BY <1>1, <1>3 DEF Delay
<1> QED
  BY <1>2, <1>4

LEMMA LongestWaitIsNatural == Poll * MaxMultiplier \in Nat /\ Timeout \in Nat
<1>1. \A a, b \in Nat : a * b \in Nat
  OBVIOUS
<1> QED
  BY <1>1, WorkerDurations

LEMMA NextItemOK ==
  ASSUME NEW loop, LoopOK(loop), loop.pc # "check", NEW failed \in BOOLEAN,
         loop.drained + 1 < MaxDrain
  PROVE  LoopOK([loop EXCEPT !.pc = "recovered", !.item = 0,
                             !.drained = @ + 1, !.failed = failed])
<1>1. MaxDrain \in Nat \ {0}
  BY WorkerDurations
<1>2. loop.drained + 1 \in 0..(MaxDrain - 1)
  BY <1>1 DEF LoopOK
<1> QED
  BY <1>1, <1>2 DEF LoopOK, Places, AtWork

LEMMA WaitOK ==
  ASSUME NEW loop, LoopOK(loop), NEW failures \in 0..MaxMultiplier
  PROVE  LoopOK([loop EXCEPT !.pc = "wait", !.item = 0, !.drained = 0, !.failed = FALSE,
                             !.failures = failures, !.clock = Delay(failures)])
<1>1. MaxDrain \in Nat \ {0} /\ 0 \in 0..(MaxDrain - 1)
  BY WorkerDurations
<1>2. Delay(failures) \in Nat /\ Delay(failures) <= Poll * MaxMultiplier
  BY BackoffBounded
<1> QED
  BY <1>1, <1>2 DEF LoopOK, Places, AtWork

(* An item that ends leads to the next item or to the wait, with every      *)
(* field in bounds.                                                         *)
LEMMA EndItemGoes ==
  ASSUME NEW r \in Replica, LoopOK(worker[r]),
         NEW didWork \in BOOLEAN, NEW failed \in BOOLEAN, EndItem(r, didWork, failed),
         didWork => ~ At(r, "check")
  PROVE  \E next : /\ worker' = [worker EXCEPT ![r] = next]
                   /\ LoopOK(next) /\ next.pc \in {"recovered", "wait"}
<1> DEFINE me == worker[r]
           failures == IF failed THEN CountFailure(me.failures) ELSE 0
           more == [me EXCEPT !.pc = "recovered", !.item = 0,
                              !.drained = @ + 1, !.failed = failed]
           rest == [me EXCEPT !.pc = "wait", !.item = 0, !.drained = 0, !.failed = FALSE,
                              !.failures = failures, !.clock = Delay(failures)]
<1>1. failures \in 0..MaxMultiplier
  BY BackoffBounded, WorkerDurations DEF LoopOK
<1>2. CASE didWork /\ me.drained + 1 < MaxDrain
  <2>1. worker' = [worker EXCEPT ![r] = more]
    BY <1>2 DEF EndItem, Goes
  <2>2. LoopOK(more)
    BY <1>2, NextItemOK DEF At
  <2>3. more.pc = "recovered"
    BY DEF LoopOK
  <2> QED
    BY <2>1, <2>2, <2>3
<1>3. CASE ~ (didWork /\ me.drained + 1 < MaxDrain)
  <2>1. worker' = [worker EXCEPT ![r] = rest]
    BY <1>3 DEF EndItem, Goes
  <2>2. LoopOK(rest)
    BY <1>1, WaitOK
  <2>3. rest.pc = "wait"
    BY DEF LoopOK
  <2> QED
    BY <2>1, <2>2, <2>3
<1> QED
  BY <1>2, <1>3
-----------------------------------------------------------------------------
(* The steps *)

(* A step of one loop leaves the verifications another loop is sure of      *)
(* alone, and moves nothing but that loop.                                  *)
OthersKept(r) ==
  \A w \in Work : (status[w] = "PENDING" /\ claim[w].left > 0 /\ claim[w].holder # r)
                    => status'[w] = status[w] /\ claim'[w] = claim[w]

LEMMA OneLoopMoves ==
  ASSUME WorkerInv, NEW r \in Replica, NEW next, LoopOK(next),
         worker' = [worker EXCEPT ![r] = next], UNCHANGED cycleIn,
         TablesOK', OthersKept(r), Covered(next, r, status', claim')
  PROVE  WorkerInv'
<1>1. DOMAIN worker = Replica /\ \A s \in Replica : LoopOK(worker[s])
  BY DEF WorkerInv, LoopsOK
<1>2. DOMAIN worker' = Replica /\ worker'[r] = next
  BY <1>1
<1>3. \A s \in Replica : s # r => worker'[s] = worker[s]
  BY <1>1
<1>4. LoopsOK'
  BY <1>1, <1>2, <1>3 DEF WorkerInv, LoopsOK, LoopOK
<1>5. ASSUME NEW s \in Replica, s # r, worker[s].pc \in {"check", "complete"}
      PROVE  Covered(worker[s], s, status', claim')
  <2>1. worker[s].item \in Work /\ worker[s].clock \in Nat
    BY <1>1, <1>5 DEF LoopOK, AtWork
  <2>2. /\ status[worker[s].item] = "PENDING" /\ claim[worker[s].item].holder = s
        /\ claim[worker[s].item].left > worker[s].clock
    BY <1>5 DEF WorkerInv, ChecksCovered, Covered
  <2>3. claim[worker[s].item].left \in Nat
    BY <2>1, WorkerDurations DEF WorkerInv, TablesOK, ClaimOK
  <2>4. claim[worker[s].item].left > 0
    BY <2>1, <2>2, <2>3
  <2>5. /\ status'[worker[s].item] = status[worker[s].item]
        /\ claim'[worker[s].item] = claim[worker[s].item]
    BY <1>5, <2>1, <2>2, <2>4 DEF OthersKept
  <2> QED
    BY <2>2, <2>5 DEF Covered
<1>6. ChecksCovered'
  <2> SUFFICES ASSUME NEW s \in Replica PROVE Covered(worker'[s], s, status', claim')
    BY DEF ChecksCovered, Covered
  <2>1. CASE s = r
    BY <2>1, <1>2
  <2>2. CASE s # r
    BY <2>2, <1>3, <1>5 DEF Covered
  <2> QED
    BY <2>1, <2>2
<1> QED
  BY <1>4, <1>6 DEF WorkerInv

(* Where a loop is once its item is over, no check is covered.              *)
LEMMA ItemEnds ==
  ASSUME WorkerInv, NEW r \in Replica, NEW didWork \in BOOLEAN, NEW failed \in BOOLEAN,
         EndItem(r, didWork, failed), didWork => ~ At(r, "check"),
         UNCHANGED cycleIn, TablesOK', OthersKept(r)
  PROVE  WorkerInv'
<1>1. LoopOK(worker[r])
  BY DEF WorkerInv, LoopsOK
<1>2. PICK next : /\ worker' = [worker EXCEPT ![r] = next]
                  /\ LoopOK(next) /\ next.pc \in {"recovered", "wait"}
  BY <1>1, EndItemGoes
<1>3. Covered(next, r, status', claim')
  BY <1>2 DEF Covered
<1> QED
  BY <1>2, <1>3, OneLoopMoves

(* Failures and answers that leave the tables alone.                        *)
LEMMA FaultsCounted ==
  ASSUME WorkerInv, Fault \/ UNCHANGED faults
  PROVE  faults' \in 0..MaxFaults
<1>1. MaxFaults \in Nat /\ faults \in 0..MaxFaults
  BY WorkerDurations DEF WorkerInv, TablesOK
<1> QED
  BY <1>1 DEF Fault

LEMMA TablesKept ==
  ASSUME WorkerInv, UNCHANGED <<status, claim>>, resolved' \subseteq Work,
         Fault \/ UNCHANGED faults, NEW r
  PROVE  TablesOK' /\ OthersKept(r)
<1>1. faults' \in 0..MaxFaults
  BY FaultsCounted
<1> QED
  BY <1>1 DEF WorkerInv, TablesOK, ClaimOK, OthersKept

(* A claim for a loop's own replica, on an incident nobody holds.           *)
LEMMA ClaimTaken ==
  ASSUME WorkerInv, NEW r \in Replica, NEW by \in {"worker", "cycle"}, NEW w \in Work,
         Claimed(w, r, by)
  PROVE  /\ DOMAIN claim' = Work
         /\ claim'[w] = [holder |-> r, by |-> by, left |-> Lease]
         /\ \A v \in Work : v # w => claim'[v] = claim[v]
         /\ \A v \in Work : ClaimOK(claim[v])'
<1>1. DOMAIN claim = Work /\ \A v \in Work : ClaimOK(claim[v])
  BY DEF WorkerInv, TablesOK
<1>2. claim' = [claim EXCEPT ![w] = [holder |-> r, by |-> by, left |-> Lease]]
  BY DEF Claimed
<1>3. /\ DOMAIN claim' = Work
      /\ claim'[w] = [holder |-> r, by |-> by, left |-> Lease]
      /\ \A v \in Work : v # w => claim'[v] = claim[v]
  BY <1>1, <1>2
<1>4. ClaimOK([holder |-> r, by |-> by, left |-> Lease])
  BY WorkerDurations DEF ClaimOK
<1>5. \A v \in Work : ClaimOK(claim'[v])
  BY <1>1, <1>3, <1>4 DEF ClaimOK
<1> QED
  BY <1>3, <1>5 DEF ClaimOK
LEMMA LoopFacts ==
  ASSUME WorkerInv, NEW r \in Replica
  PROVE  /\ LoopOK(worker[r])
         /\ worker[r].pc \in AtWork => worker[r].item \in Work
         /\ worker[r].failed \in BOOLEAN
         /\ FALSE \in BOOLEAN /\ TRUE \in BOOLEAN
BY DEF WorkerInv, LoopsOK, LoopOK

LEMMA StepClaimRecovered ==
  ASSUME WorkerInv, NEW r \in Replica, ClaimRecovered(r)
  PROVE  WorkerInv'
<1> DEFINE me == worker[r]
<1>1. LoopOK(me) /\ me.pc = "recovered"
  BY LoopFacts DEF ClaimRecovered, At
<1>2. UNCHANGED <<status, resolved, cycleIn>> /\ resolved' \subseteq Work
  BY DEF ClaimRecovered, WorkerInv, TablesOK
<1>3. CASE Goes(r, [me EXCEPT !.pc = "pending"]) /\ UNCHANGED <<claim, faults>>
  <2>1. LoopOK([me EXCEPT !.pc = "pending"])
    BY <1>1 DEF LoopOK, Places, AtWork
  <2>2. Covered([me EXCEPT !.pc = "pending"], r, status', claim')
    BY <1>1 DEF LoopOK, Covered
  <2> QED
    BY <1>2, <1>3, <2>1, <2>2, OneLoopMoves, TablesKept DEF Goes
<1>4. CASE \E w \in RecoveredWork :
             /\ Claimed(w, r, "worker")
             /\ Goes(r, [me EXCEPT !.pc = "resolve", !.item = w])
             /\ UNCHANGED faults
  <2>1. PICK w \in RecoveredWork :
             /\ Claimed(w, r, "worker")
             /\ Goes(r, [me EXCEPT !.pc = "resolve", !.item = w])
             /\ UNCHANGED faults
    BY <1>4
  <2>2. w \in Work /\ status[w] = "RECOVERED"
    BY DEF RecoveredWork
  <2>3. /\ DOMAIN claim' = Work /\ \A v \in Work : ClaimOK(claim[v])'
        /\ \A v \in Work : v # w => claim'[v] = claim[v]
    BY <2>1, <2>2, ClaimTaken
  <2>4. TablesOK'
    BY <1>2, <2>1, <2>3 DEF WorkerInv, TablesOK
  <2>5. OthersKept(r)
    BY <1>2, <2>2, <2>3 DEF OthersKept
  <2>6. LoopOK([me EXCEPT !.pc = "resolve", !.item = w])
    BY <1>1, <2>2 DEF LoopOK, Places, AtWork
  <2>7. Covered([me EXCEPT !.pc = "resolve", !.item = w], r, status', claim')
    BY <1>1 DEF LoopOK, Covered
  <2> QED
    BY <1>2, <2>1, <2>4, <2>5, <2>6, <2>7, OneLoopMoves DEF Goes
<1>5. CASE /\ Fault
           /\ Goes(r, [me EXCEPT !.pc = "pending", !.failed = TRUE])
           /\ UNCHANGED claim
  <2>1. LoopOK([me EXCEPT !.pc = "pending", !.failed = TRUE])
    BY <1>1 DEF LoopOK, Places, AtWork
  <2>2. Covered([me EXCEPT !.pc = "pending", !.failed = TRUE], r, status', claim')
    BY <1>1 DEF LoopOK, Covered
  <2> QED
    BY <1>2, <1>5, <2>1, <2>2, OneLoopMoves, TablesKept DEF Goes
<1> QED
  BY <1>3, <1>4, <1>5 DEF ClaimRecovered

(* A resolution that is stored ends the item, one that is refused or fails  *)
(* leaves the tables as they are.                                           *)
LEMMA StepResolveRecovered ==
  ASSUME WorkerInv, NEW r \in Replica, ResolveRecovered(r)
  PROVE  WorkerInv'
<1> DEFINE me == worker[r]
<1>1. LoopOK(me) /\ me.pc = "resolve" /\ me.item \in Work /\ me.failed \in BOOLEAN
  BY LoopFacts DEF ResolveRecovered, At, AtWork
<1>2. UNCHANGED <<status, claim, cycleIn>>
  BY DEF ResolveRecovered
<1>3. CASE /\ resolved' = resolved \cup {me.item}
           /\ EndItem(r, TRUE, me.failed)
           /\ UNCHANGED faults
  <2>1. resolved' \subseteq Work
    BY <1>1, <1>3 DEF WorkerInv, TablesOK
  <2>2. TablesOK' /\ OthersKept(r)
    BY <1>2, <1>3, <2>1, TablesKept
  <2> QED
    BY <1>1, <1>2, <1>3, <2>2, ItemEnds DEF At
<1>4. CASE /\ Fault \/ UNCHANGED faults
           /\ Goes(r, [me EXCEPT !.pc = "pending", !.item = 0, !.failed = TRUE])
           /\ UNCHANGED resolved
  <2>1. LoopOK([me EXCEPT !.pc = "pending", !.item = 0, !.failed = TRUE])
    BY <1>1 DEF LoopOK, Places, AtWork
  <2>2. Covered([me EXCEPT !.pc = "pending", !.item = 0, !.failed = TRUE], r, status', claim')
    BY <1>1 DEF LoopOK, Covered
  <2>3. resolved' \subseteq Work
    BY <1>4 DEF WorkerInv, TablesOK
  <2>4. TablesOK' /\ OthersKept(r)
    BY <1>2, <1>4, <2>3, TablesKept
  <2> QED
    BY <1>2, <1>4, <2>1, <2>2, <2>4, OneLoopMoves DEF Goes
<1> QED
  BY <1>3, <1>4 DEF ResolveRecovered, CallFails

LEMMA StepResolveCompleted ==
  ASSUME WorkerInv, NEW r \in Replica, ResolveCompleted(r)
  PROVE  WorkerInv'
<1> DEFINE me == worker[r]
<1>1. LoopOK(me) /\ me.pc = "finish" /\ me.item \in Work /\ me.failed \in BOOLEAN
  BY LoopFacts DEF ResolveCompleted, At, AtWork
<1>2. UNCHANGED <<status, claim, cycleIn>>
  BY DEF ResolveCompleted
<1>3. CASE /\ resolved' = resolved \cup {me.item}
           /\ EndItem(r, TRUE, me.failed)
           /\ UNCHANGED faults
  <2>1. resolved' \subseteq Work
    BY <1>1, <1>3 DEF WorkerInv, TablesOK
  <2>2. TablesOK' /\ OthersKept(r)
    BY <1>2, <1>3, <2>1, TablesKept
  <2> QED
    BY <1>1, <1>2, <1>3, <2>2, ItemEnds DEF At
<1>4. CASE /\ Fault \/ UNCHANGED faults
           /\ EndItem(r, FALSE, TRUE)
           /\ UNCHANGED resolved
  <2>1. resolved' \subseteq Work
    BY <1>4 DEF WorkerInv, TablesOK
  <2>2. TablesOK' /\ OthersKept(r)
    BY <1>2, <1>4, <2>1, TablesKept
  <2> QED
    BY <1>2, <1>4, <2>2, ItemEnds
<1> QED
  BY <1>3, <1>4 DEF ResolveCompleted, CallFails

(* The clock of a check is its deadline; its answer stops the clock.         *)
LEMMA CheckLoops ==
  ASSUME NEW loop, LoopOK(loop)
  PROVE  /\ \A w \in Work : LoopOK([loop EXCEPT !.pc = "check", !.item = w, !.clock = Timeout])
         /\ loop.item \in Work => LoopOK([loop EXCEPT !.pc = "complete", !.clock = 0])
<1> DEFINE longest == Poll * MaxMultiplier
<1>1. longest \in Nat /\ Timeout \in Nat /\ Timeout <= Timeout /\ 0 <= longest
  BY LongestWaitIsNatural
<1>2. ASSUME NEW w \in Work
      PROVE  LoopOK([loop EXCEPT !.pc = "check", !.item = w, !.clock = Timeout])
  <2> HIDE DEF longest
  <2> QED
    BY <1>1, Zenon DEF LoopOK, Places, AtWork
<1>3. ASSUME loop.item \in Work
      PROVE  LoopOK([loop EXCEPT !.pc = "complete", !.clock = 0])
  BY <1>1, <1>3 DEF LoopOK, Places, AtWork
<1> QED
  BY <1>2, <1>3

(* The claim is what covers the check: its lease is longer than the check   *)
(* may take.                                                                *)
LEMMA StepClaimPending ==
  ASSUME WorkerInv, NEW r \in Replica, ClaimPending(r)
  PROVE  WorkerInv'
<1> DEFINE me == worker[r]
<1>1. LoopOK(me) /\ me.pc = "pending" /\ me.failed \in BOOLEAN
  BY LoopFacts DEF ClaimPending, At
<1>2. UNCHANGED <<status, resolved, cycleIn>> /\ resolved' \subseteq Work
  BY DEF ClaimPending, WorkerInv, TablesOK
<1>3. CASE /\ EndItem(r, FALSE, me.failed)
           /\ UNCHANGED <<claim, faults>>
  BY <1>1, <1>2, <1>3, TablesKept, ItemEnds
<1>4. CASE \E w \in Oldest(PendingWork) :
             /\ Claimed(w, r, "worker")
             /\ Goes(r, [me EXCEPT !.pc = "check", !.item = w, !.clock = Timeout])
             /\ UNCHANGED faults
  <2>1. PICK w \in Oldest(PendingWork) :
             /\ Claimed(w, r, "worker")
             /\ Goes(r, [me EXCEPT !.pc = "check", !.item = w, !.clock = Timeout])
             /\ UNCHANGED faults
    BY <1>4
  <2>2. w \in Work /\ status[w] = "PENDING" /\ claim[w].left = 0
    BY DEF Oldest, PendingWork
  <2>3. /\ DOMAIN claim' = Work /\ \A v \in Work : ClaimOK(claim[v])'
        /\ claim'[w] = [holder |-> r, by |-> "worker", left |-> Lease]
        /\ \A v \in Work : v # w => claim'[v] = claim[v]
    BY <2>1, <2>2, ClaimTaken
  <2>4. TablesOK'
    BY <1>2, <2>1, <2>3 DEF WorkerInv, TablesOK
  <2>5. OthersKept(r)
    BY <1>2, <2>2, <2>3 DEF OthersKept
  <2>6. LoopOK([me EXCEPT !.pc = "check", !.item = w, !.clock = Timeout])
    BY <1>1, <2>2, CheckLoops
  <2>7. Covered([me EXCEPT !.pc = "check", !.item = w, !.clock = Timeout], r, status', claim')
    BY <1>1, <1>2, <2>2, <2>3, WorkerDurations DEF LoopOK, Covered
  <2> QED
    BY <1>2, <2>1, <2>4, <2>5, <2>6, <2>7, OneLoopMoves DEF Goes
<1>5. CASE Fault /\ EndItem(r, FALSE, TRUE) /\ UNCHANGED claim
  BY <1>2, <1>5, TablesKept, ItemEnds
<1> QED
  BY <1>3, <1>4, <1>5 DEF ClaimPending

LEMMA StepCheck ==
  ASSUME WorkerInv, NEW r \in Replica, Check(r)
  PROVE  WorkerInv'
<1> DEFINE me == worker[r]
<1>1. LoopOK(me) /\ me.pc = "check" /\ me.item \in Work
  BY LoopFacts DEF Check, At, AtWork
<1>2. UNCHANGED <<status, resolved, claim, cycleIn>> /\ resolved' \subseteq Work
  BY DEF Check, WorkerInv, TablesOK
<1>3. CASE Goes(r, [me EXCEPT !.pc = "complete", !.clock = 0]) /\ UNCHANGED faults
  <2>1. LoopOK([me EXCEPT !.pc = "complete", !.clock = 0])
    BY <1>1, CheckLoops
  <2>2. /\ status[me.item] = "PENDING" /\ claim[me.item].holder = r
        /\ claim[me.item].left > me.clock
    BY <1>1 DEF WorkerInv, ChecksCovered, Covered
  <2>3. claim[me.item].left \in Nat /\ me.clock \in Nat
    BY <1>1, WorkerDurations DEF WorkerInv, TablesOK, ClaimOK, LoopOK
  <2>4. Covered([me EXCEPT !.pc = "complete", !.clock = 0], r, status', claim')
    BY <1>1, <1>2, <2>2, <2>3 DEF LoopOK, Covered
  <2> QED
    BY <1>2, <1>3, <2>1, <2>4, OneLoopMoves, TablesKept DEF Goes
<1>4. CASE (Fault \/ UNCHANGED faults) /\ EndItem(r, FALSE, TRUE)
  BY <1>2, <1>4, TablesKept, ItemEnds
<1> QED
  BY <1>3, <1>4 DEF Check, CallFails
(* Only the holder of the claim changes the status of what is pending.      *)
LEMMA StepComplete ==
  ASSUME WorkerInv, NEW r \in Replica, Complete(r)
  PROVE  WorkerInv'
<1> DEFINE me == worker[r]
           w == me.item
<1>1. LoopOK(me) /\ me.pc = "complete" /\ w \in Work /\ me.failed \in BOOLEAN
  BY LoopFacts DEF Complete, At, AtWork
<1>2. UNCHANGED <<resolved, claim, cycleIn>> /\ resolved' \subseteq Work
  BY DEF Complete, WorkerInv, TablesOK
<1>3. ASSUME NEW to \in {"RECOVERED", "NOT_RECOVERED"}, Current(r, w),
             status' = [status EXCEPT ![w] = to], Fault \/ UNCHANGED faults
      PROVE  TablesOK' /\ OthersKept(r)
  <2>1. faults' \in 0..MaxFaults
    BY <1>3, FaultsCounted
  <2>2. TablesOK'
    BY <1>1, <1>2, <1>3, <2>1 DEF WorkerInv, TablesOK, ClaimOK
  <2>3. claim[w].holder = r
    BY <1>3 DEF Current
  <2>4. OthersKept(r)
    BY <1>1, <1>2, <1>3, <2>3 DEF OthersKept, WorkerInv, TablesOK
  <2> QED
    BY <2>2, <2>4
<1>4. ASSUME NEW to \in {"RECOVERED", "NOT_RECOVERED"}, Current(r, w),
             status' = [status EXCEPT ![w] = to],
             Goes(r, [me EXCEPT !.pc = "finish"]), UNCHANGED faults
      PROVE  WorkerInv'
  <2>1. LoopOK([me EXCEPT !.pc = "finish"])
    BY <1>1 DEF LoopOK, Places, AtWork
  <2>2. Covered([me EXCEPT !.pc = "finish"], r, status', claim')
    BY <1>1 DEF LoopOK, Covered
  <2> QED
    BY <1>2, <1>3, <1>4, <2>1, <2>2, OneLoopMoves DEF Goes
<1>5. ASSUME NEW to \in {"RECOVERED", "NOT_RECOVERED"}, Current(r, w),
             status' = [status EXCEPT ![w] = to],
             \/ EndItem(r, TRUE, me.failed) /\ UNCHANGED faults
             \/ Fault /\ EndItem(r, FALSE, TRUE)
      PROVE  WorkerInv'
  <2>1. TablesOK' /\ OthersKept(r)
    BY <1>3, <1>5
  <2> QED
    BY <1>1, <1>2, <1>5, <2>1, ItemEnds DEF At
<1>6. ASSUME Fault \/ UNCHANGED faults, EndItem(r, FALSE, TRUE), UNCHANGED status
      PROVE  WorkerInv'
  BY <1>2, <1>6, TablesKept, ItemEnds
<1> QED
  BY <1>4, <1>5, <1>6 DEF Complete, CallFails

LEMMA NewLoopOK == LoopOK(NewLoop) /\ LoopOK([NewLoop EXCEPT !.pc = "down"])
<1>1. 0 \in 0..(MaxDrain - 1) /\ 0 \in 0..MaxMultiplier
  BY WorkerDurations
<1>2. 0 <= Poll * MaxMultiplier
  BY LongestWaitIsNatural
<1>3. /\ NewLoop.pc = "recovered" /\ NewLoop.clock = 0
      /\ [NewLoop EXCEPT !.pc = "down"].pc = "down" /\ [NewLoop EXCEPT !.pc = "down"].clock = 0
  BY DEF NewLoop
<1>4. \A pc \in Places :
        [NewLoop EXCEPT !.pc = pc] \in
          [pc : Places, item : Work \cup {0}, drained : 0..(MaxDrain - 1),
           failed : BOOLEAN, failures : 0..MaxMultiplier, clock : Nat]
  BY <1>1 DEF NewLoop
<1>5. NewLoop = [NewLoop EXCEPT !.pc = "recovered"]
  BY DEF NewLoop
<1> QED
  BY <1>2, <1>3, <1>4, <1>5 DEF LoopOK, Places, AtWork

(* The timer, a crash and a restart leave the tables as they are.           *)
LEMMA StepWakeCrashRestart ==
  ASSUME WorkerInv, NEW r \in Replica, Wake(r) \/ Crash(r) \/ Restart(r)
  PROVE  WorkerInv'
<1> DEFINE me == worker[r]
<1>1. /\ UNCHANGED <<status, resolved, claim, cycleIn>> /\ resolved' \subseteq Work
      /\ Fault \/ UNCHANGED faults
  BY DEF Wake, Crash, Restart, WorkerInv, TablesOK
<1>2. TablesOK' /\ OthersKept(r)
  BY <1>1, TablesKept
<1>3. CASE Wake(r)
  <2>1. LoopOK(me) /\ me.pc = "wait"
    BY <1>3, LoopFacts DEF Wake, At
  <2>2. LoopOK([me EXCEPT !.pc = "recovered"])
    BY <2>1 DEF LoopOK, Places, AtWork
  <2>3. Covered([me EXCEPT !.pc = "recovered"], r, status', claim')
    BY <2>1 DEF LoopOK, Covered
  <2> QED
    BY <1>1, <1>2, <1>3, <2>2, <2>3, OneLoopMoves DEF Wake, Goes
<1>4. CASE Crash(r)
  <2>1. Covered([NewLoop EXCEPT !.pc = "down"], r, status', claim')
    BY DEF NewLoop, Covered
  <2> QED
    BY <1>1, <1>2, <1>4, <2>1, NewLoopOK, OneLoopMoves DEF Crash, Goes
<1>5. CASE Restart(r)
  <2>1. Covered(NewLoop, r, status', claim')
    BY DEF NewLoop, Covered
  <2> QED
    BY <1>1, <1>2, <1>5, <2>1, NewLoopOK, OneLoopMoves DEF Restart, Goes
<1> QED
  BY <1>3, <1>4, <1>5

(* What the cycle does: a claim it takes is its own already or nobody's, so *)
(* a check under way keeps its holder and gains time.                       *)
LEMMA CycleKeepsChecks ==
  ASSUME WorkerInv, NEW r \in Replica, UNCHANGED worker,
         \A w \in Work : status[w] = "PENDING" => status'[w] = "PENDING",
         \A w \in Work : \/ claim'[w] = claim[w]
                         \/ status[w] # "PENDING"
                         \/ /\ claim[w].holder = r \/ claim[w].left = 0
                            /\ claim'[w].holder = r /\ claim'[w].left = Lease
  PROVE  ChecksCovered'
<1> SUFFICES ASSUME NEW s \in Replica, worker[s].pc \in {"check", "complete"}
             PROVE  Covered(worker[s], s, status', claim')
  BY DEF ChecksCovered, Covered
<1> DEFINE w == worker[s].item
<1>1. w \in Work /\ worker[s].clock \in Nat /\ claim[w].left \in 0..Lease /\ Lease \in Nat
  BY LoopFacts, WorkerDurations DEF WorkerInv, TablesOK, LoopsOK, LoopOK, ClaimOK, AtWork
<1>2. status[w] = "PENDING" /\ claim[w].holder = s /\ claim[w].left > worker[s].clock
  BY DEF WorkerInv, ChecksCovered, Covered
<1>3. claim[w].left # 0 /\ Lease > worker[s].clock
  BY <1>1, <1>2
<1> QED
  BY <1>1, <1>2, <1>3 DEF Covered

LEMMA StepBegin ==
  ASSUME WorkerInv, NEW r \in Replica, NEW w \in Work, Begin(r, w)
  PROVE  WorkerInv'
<1>1. /\ DOMAIN claim' = Work /\ \A v \in Work : ClaimOK(claim[v])'
      /\ \A v \in Work : v # w => claim'[v] = claim[v]
  BY ClaimTaken DEF Begin
<1>2. status[w] = "NONE" /\ status' = [status EXCEPT ![w] = "PENDING"]
      /\ UNCHANGED <<resolved, worker, cycleIn, faults>>
  BY DEF Begin
<1>3. TablesOK'
  BY <1>1, <1>2 DEF WorkerInv, TablesOK
<1>4. LoopsOK'
  BY <1>2 DEF WorkerInv, LoopsOK, LoopOK
<1>5. \A v \in Work : status[v] = "PENDING" => status'[v] = "PENDING" /\ claim'[v] = claim[v]
  BY <1>1, <1>2 DEF WorkerInv, TablesOK
<1>6. ChecksCovered'
  BY <1>2, <1>5, CycleKeepsChecks
<1> QED
  BY <1>3, <1>4, <1>6 DEF WorkerInv

LEMMA StepCycle ==
  ASSUME WorkerInv, NEW r \in Replica, Cycle(r)
  PROVE  WorkerInv'
<1> DEFINE mine == [holder |-> r, by |-> "cycle", left |-> Lease]
<1>1. /\ claim' = [w \in Work |-> IF w \in Reclaims(r) THEN mine ELSE claim[w]]
      /\ cycleIn' = [cycleIn EXCEPT ![r] = Poll]
      /\ UNCHANGED <<status, resolved, worker, faults>>
  BY DEF Cycle
<1>2. ClaimOK(mine)
  BY WorkerDurations DEF ClaimOK
<1>3. \A w \in Work : ClaimOK(claim[w])
  BY DEF WorkerInv, TablesOK
<1>4. DOMAIN claim' = Work /\ \A w \in Work : ClaimOK(claim'[w])
  <2> HIDE DEF mine
  <2> QED BY <1>1, <1>2, <1>3
<1>5. TablesOK'
  BY <1>1, <1>4 DEF WorkerInv, TablesOK, ClaimOK
<1>6. LoopsOK'
  BY <1>1, WorkerDurations DEF WorkerInv, LoopsOK, LoopOK
<1>7. \A w \in Work : \/ claim'[w] = claim[w]
                      \/ /\ claim[w].holder = r \/ claim[w].left = 0
                         /\ claim'[w].holder = r /\ claim'[w].left = Lease
  BY <1>1 DEF Reclaims
<1>8. ChecksCovered'
  BY <1>1, <1>7, CycleKeepsChecks
<1> QED
  BY <1>5, <1>6, <1>8 DEF WorkerInv

(* A tick takes as much from the deadline as from the lease, and there is   *)
(* none while a completed check is about to be stored.                      *)
LEMMA StepTick ==
  ASSUME WorkerInv, Tick
  PROVE  WorkerInv'
<1>1. /\ DOMAIN claim = Work /\ \A w \in Work : ClaimOK(claim[w])
      /\ DOMAIN worker = Replica /\ \A r \in Replica : LoopOK(worker[r])
  BY DEF WorkerInv, TablesOK, LoopsOK
<1>2. \A r \in Replica : Patient(r)
  BY DEF Tick
<1>3. /\ DOMAIN claim' = Work /\ DOMAIN worker' = Replica
      /\ \A w \in Work : claim'[w] = [claim[w] EXCEPT !.left = Less(@)]
      /\ \A r \in Replica : worker'[r] = [worker[r] EXCEPT !.clock = Less(@)]
      /\ cycleIn' = [r \in Replica |-> Less(cycleIn[r])]
      /\ UNCHANGED <<status, resolved, faults>>
  BY DEF Tick
<1>4. \A n \in Nat : Less(n) \in Nat /\ Less(n) <= n /\ (n > 0 => Less(n) = n - 1)
  BY DEF Less
<1>5. ASSUME NEW taken, ClaimOK(taken)
      PROVE  ClaimOK([taken EXCEPT !.left = Less(@)])
  <2>1. taken.left \in Nat /\ Less(taken.left) \in 0..Lease
    BY <1>4, <1>5, WorkerDurations DEF ClaimOK
  <2> QED
    BY <1>5, <2>1 DEF ClaimOK
<1>6. ASSUME NEW loop, LoopOK(loop)
      PROVE  LoopOK([loop EXCEPT !.clock = Less(@)])
  <2>1. loop.clock \in Nat /\ Less(loop.clock) \in Nat /\ Less(loop.clock) <= loop.clock
    BY <1>4, <1>6 DEF LoopOK
  <2>2. \A a, b, c \in Nat : a <= b /\ b <= c => a <= c
    OBVIOUS
  <2>3. Less(loop.clock) <= (IF loop.pc = "check" THEN Timeout ELSE Poll * MaxMultiplier)
    BY <1>6, <2>1, <2>2, LongestWaitIsNatural DEF LoopOK
  <2> QED
    BY <1>6, <2>1, <2>3, Zenon DEF LoopOK
<1>7. TablesOK'
  BY <1>1, <1>3, <1>5 DEF WorkerInv, TablesOK, ClaimOK
<1>8. LoopsOK'
  <2>1. cycleIn' \in [Replica -> 0..Poll]
    BY <1>3, <1>4, WorkerDurations DEF WorkerInv, LoopsOK
  <2>2. \A r \in Replica : LoopOK(worker'[r])
    BY <1>1, <1>3, <1>6
  <2> QED
    BY <1>3, <2>1, <2>2 DEF LoopsOK, LoopOK
<1>9. ChecksCovered'
  <2> SUFFICES ASSUME NEW s \in Replica, worker'[s].pc \in {"check", "complete"}
               PROVE  Covered(worker'[s], s, status', claim')
    BY DEF ChecksCovered, Covered
  <2> DEFINE w == worker[s].item
  <2>1. /\ worker'[s].pc = worker[s].pc /\ worker'[s].item = w
        /\ worker'[s].clock = Less(worker[s].clock)
    BY <1>1, <1>3 DEF LoopOK
  <2>2. worker[s].pc = "check" /\ worker[s].clock > 0
    BY <1>2, <2>1 DEF Patient, At
  <2>3. /\ w \in Work /\ worker[s].clock \in Nat /\ claim[w].left \in Nat
        /\ claim'[w].holder = claim[w].holder /\ claim'[w].left = Less(claim[w].left)
    BY <1>1, <1>3, <2>2, WorkerDurations DEF LoopOK, ClaimOK, AtWork
  <2>4. status[w] = "PENDING" /\ claim[w].holder = s /\ claim[w].left > worker[s].clock
    BY <2>2 DEF WorkerInv, ChecksCovered, Covered
  <2>5. Less(claim[w].left) > Less(worker[s].clock)
    BY <1>4, <2>2, <2>3, <2>4
  <2> QED
    BY <1>3, <2>1, <2>3, <2>4, <2>5 DEF Covered
<1> QED
  BY <1>7, <1>8, <1>9 DEF WorkerInv
-----------------------------------------------------------------------------
(* The theorems *)

LEMMA InitWorker == WorkerInit => WorkerInv
<1> SUFFICES ASSUME WorkerInit PROVE WorkerInv
  OBVIOUS
<1>1. \A w \in Work : ClaimOK([holder |-> NoReplica, by |-> "cycle", left |-> 0])
  BY WorkerDurations DEF ClaimOK
<1>2. TablesOK
  BY <1>1, WorkerDurations DEF WorkerInit, TablesOK, ClaimOK
<1>3. LoopsOK
  BY NewLoopOK, WorkerDurations DEF WorkerInit, LoopsOK
<1>4. ChecksCovered
  BY DEF WorkerInit, ChecksCovered, Covered, NewLoop
<1> QED
  BY <1>2, <1>3, <1>4 DEF WorkerInv

LEMMA StepWorker == WorkerInv /\ [WorkerNext]_workerVars => WorkerInv'
<1> SUFFICES ASSUME WorkerInv, [WorkerNext]_workerVars PROVE WorkerInv'
  OBVIOUS
<1>1. CASE \E r \in Replica : WorkerStep(r) \/ Crash(r)
  BY <1>1, StepClaimRecovered, StepResolveRecovered, StepClaimPending, StepCheck,
     StepComplete, StepResolveCompleted, StepWakeCrashRestart DEF WorkerStep
<1>2. CASE \E r \in Replica : Cycle(r) \/ \E w \in Work : Begin(r, w)
  BY <1>2, StepCycle, StepBegin
<1>3. CASE Tick
  BY <1>3, StepTick
<1>4. CASE UNCHANGED workerVars
  BY <1>4 DEF workerVars, WorkerInv, TablesOK, LoopsOK, ChecksCovered, Covered, LoopOK, ClaimOK
<1> QED
  BY <1>1, <1>2, <1>3, <1>4 DEF WorkerNext

(* The claim and the deadline cover every check under way, whatever the     *)
(* cycles, the crashes and the other workers do: runVerificationWorkerOnce   *)
(* checks under KUBERNETES_REQUEST_TIMEOUT, and config.go wants the lease   *)
(* longer.                                                                  *)
THEOREM WorkerInvariant == WorkerSpec => []WorkerInv
<1>1. WorkerInit => WorkerInv
  BY InitWorker
<1>2. WorkerInv /\ [WorkerNext]_workerVars => WorkerInv'
  BY StepWorker
<1> QED
  BY <1>1, <1>2, PTL DEF WorkerSpec

(* The types: no iteration takes more than its limit of items, no check     *)
(* outlives its deadline, and no wait is longer than the longest backoff    *)
(* (runVerificationWorkerOnce, verificationWorkerBackoffDelay).             *)
THEOREM WorkerTypes == WorkerSpec => []WorkerTypeOK
<1>1. WorkerInv => WorkerTypeOK
  <2> SUFFICES ASSUME WorkerInv PROVE WorkerTypeOK
    OBVIOUS
  <2>1. /\ status \in [Work -> {"NONE", "PENDING", "RECOVERED", "NOT_RECOVERED"}]
        /\ resolved \subseteq Work /\ faults \in 0..MaxFaults
        /\ \A w \in Work : /\ claim[w].holder \in Replica \cup {NoReplica}
                           /\ claim[w].left \in 0..Lease
    BY DEF WorkerInv, TablesOK, ClaimOK
  <2>2. ASSUME NEW r \in Replica
        PROVE  /\ worker[r].item \in Work \cup {0}
               /\ worker[r].drained \in 0..(MaxDrain - 1)
               /\ worker[r].clock \in 0..(IF At(r, "check") THEN Timeout ELSE Poll * MaxMultiplier)
               /\ cycleIn[r] \in 0..Poll
    <3> DEFINE longest == IF At(r, "check") THEN Timeout ELSE Poll * MaxMultiplier
    <3>1. LoopOK(worker[r]) /\ cycleIn[r] \in 0..Poll
      BY DEF WorkerInv, LoopsOK
    <3>2. longest \in Nat /\ worker[r].clock \in Nat /\ worker[r].clock <= longest
      BY <3>1, LongestWaitIsNatural DEF LoopOK, At
    <3>3. worker[r].clock \in 0..longest
      <4> HIDE DEF longest
      <4> QED BY <3>2
    <3> QED
      BY <3>1, <3>3 DEF LoopOK
  <2> QED
    BY <2>1, <2>2 DEF WorkerTypeOK
<1> QED
  BY <1>1, WorkerInvariant, PTL

(* Two replicas never check the same verification at the same time, and the *)
(* one that is checked is pending under a running lease: what the deadline  *)
(* of the check in runVerificationWorkerOnce is there for.                  *)
THEOREM OneChecks == WorkerSpec => []ChecksExclusive
<1>1. WorkerInv => ChecksExclusive
  <2> SUFFICES ASSUME WorkerInv PROVE ChecksExclusive
    OBVIOUS
  <2>1. ASSUME NEW r \in Replica, At(r, "check") \/ At(r, "complete")
        PROVE  /\ status[worker[r].item] = "PENDING" /\ claim[worker[r].item].left > 0
               /\ claim[worker[r].item].holder = r
    <3>1. /\ status[worker[r].item] = "PENDING" /\ claim[worker[r].item].holder = r
          /\ claim[worker[r].item].left > worker[r].clock
      BY <2>1 DEF WorkerInv, ChecksCovered, Covered, At
    <3>2. worker[r].clock \in Nat /\ claim[worker[r].item].left \in Nat
      BY <2>1, LoopFacts, WorkerDurations DEF WorkerInv, TablesOK, LoopOK, ClaimOK, AtWork, At
    <3> QED
      BY <3>1, <3>2
  <2> QED
    BY <2>1 DEF ChecksExclusive
<1> QED
  BY <1>1, WorkerInvariant, PTL

=============================================================================
