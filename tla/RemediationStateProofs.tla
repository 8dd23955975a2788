------------------------ MODULE RemediationStateProofs ------------------------
(***************************************************************************)
(* That no write of the shared remediation state loses another's, that no   *)
(* action is forgotten within its window, and how far several replicas can   *)
(* get past the limit of attempts, for any number of replicas, incidents,    *)
(* workloads and retries.                                                   *)
(***************************************************************************)
EXTENDS RemediationState, FiniteSetTheorems, FunctionTheorems, TLAPS

(* The copy a replica is about to write is what its call makes of the state *)
(* as it is, for as long as nobody has written since it was read.  The      *)
(* action property is not inductive without it: an update writes the copy.  *)
FreshCopies ==
  \A r \in Replica : (At(r, "update") /\ call[r].fresh) => call[r].copy = Changed(call[r])

CallsTyped == DOMAIN call = Replica

RemediationInv == CallsTyped /\ FreshCopies

(* No call is open at the start.                                            *)
LEMMA InitRemediation == RemediationInit => RemediationInv
<1> SUFFICES ASSUME RemediationInit PROVE RemediationInv
  OBVIOUS
<1>1. call = [r \in Replica |-> Idle]
  BY DEF RemediationInit
<1>2. CallsTyped
  BY <1>1 DEF CallsTyped
<1>3. \A r \in Replica : ~ At(r, "update")
  BY <1>1 DEF At, Idle
<1> QED
  BY <1>2, <1>3 DEF RemediationInv, FreshCopies

(* A step that leaves the state alone and moves one replica's call          *)
(* somewhere it does not hold a fresh copy.                                 *)
LEMMA OtherCallsStayFresh ==
  ASSUME NEW r \in Replica, NEW next, RemediationInv,
         call' = [call EXCEPT ![r] = next], UNCHANGED state,
         next.pc # "update"
  PROVE  RemediationInv'
<1>1. CallsTyped'
  BY DEF RemediationInv, CallsTyped
<1>2. ASSUME NEW s \in Replica, At(s, "update")', call'[s].fresh
      PROVE  call'[s].copy = Changed(call[s])'
  <2>1. s # r /\ call'[s] = call[s]
    BY <1>2 DEF At, RemediationInv, CallsTyped
  <2>2. call[s].copy = Changed(call[s])
    BY <1>2, <2>1 DEF At, RemediationInv, FreshCopies
  <2>3. Changed(call[s])' = Changed(call[s])
    BY <2>1 DEF Changed
  <2> QED
    BY <2>1, <2>2, <2>3
<1> QED
  BY <1>1, <1>2 DEF RemediationInv, FreshCopies

(* After a write no replica but the writer's holds a fresh copy, and the    *)
(* writer holds none.                                                       *)
LEMMA WriteLeavesNoFreshCopy ==
  ASSUME NEW r \in Replica, NEW mine, call' = AfterWrite(r, mine), mine.pc # "update"
  PROVE  RemediationInv'
<1>1. CallsTyped'
  BY DEF AfterWrite, CallsTyped
<1>2. ASSUME NEW s \in Replica, At(s, "update")', call'[s].fresh
      PROVE  FALSE
  <2>1. CASE s = r
    BY <1>2, <2>1 DEF AfterWrite, At
  <2>2. CASE s # r /\ At(s, "update")
    <3>1. call'[s] = [call[s] EXCEPT !.fresh = FALSE]
      BY <2>2 DEF AfterWrite
    <3>2. ~ call'[s].fresh
      BY <3>1
    <3> QED
      BY <1>2, <3>2
  <2>3. CASE s # r /\ ~ At(s, "update")
    BY <1>2, <2>3 DEF AfterWrite, At
  <2> QED
    BY <2>1, <2>2, <2>3
<1> QED
  BY <1>1, <1>2 DEF RemediationInv, FreshCopies

(* Every step keeps the invariant.                                          *)
LEMMA StepRemediation == RemediationInv /\ [RemediationNext]_remediationVars => RemediationInv'
<1> SUFFICES ASSUME RemediationInv, [RemediationNext]_remediationVars PROVE RemediationInv'
  OBVIOUS
<1>1. ASSUME NEW r \in Replica, NEW i \in Incident, TakeSnapshot(r, i) PROVE RemediationInv'
  <2>1. Call("snapshot", i, now).pc # "update"
    BY DEF Call
  <2> QED
    BY <1>1, <2>1, OtherCallsStayFresh DEF TakeSnapshot, Goes
<1>2. ASSUME NEW r \in Replica, Get(r) PROVE RemediationInv'
  <2> DEFINE c == call[r]
             mine == [pc |-> "update", kind |-> c.kind, incident |-> c.incident, at |-> c.at,
                      tries |-> c.tries, copy |-> Changed(c), fresh |-> TRUE]
  <2>1. CASE call' = [call EXCEPT ![r] = Decides(c, state)]
    <3>1. Decides(c, state).pc # "update"
      BY DEF Decides
    <3> QED
      BY <1>2, <2>1, <3>1, OtherCallsStayFresh DEF Get
  <2>2. CASE call' = [call EXCEPT ![r] = mine]
    <3>1. CallsTyped'
      BY <2>2 DEF RemediationInv, CallsTyped
    <3>2. ASSUME NEW s \in Replica, At(s, "update")', call'[s].fresh
          PROVE  call'[s].copy = Changed(call[s])'
      <4>1. state' = state
        BY <1>2 DEF Get
      <4>2. CASE s = r
        <5>1. call'[s] = mine
          BY <2>2, <4>2 DEF RemediationInv, CallsTyped
        <5>2. mine.kind = c.kind /\ mine.incident = c.incident /\ mine.at = c.at
          OBVIOUS
        <5>3. Changed(call[s])' = Changed(c)
          BY <4>1, <5>1, <5>2 DEF Changed
        <5> QED
          BY <5>1, <5>3
      <4>3. CASE s # r
        <5>1. call'[s] = call[s]
          BY <2>2, <4>3 DEF RemediationInv, CallsTyped
        <5>2. call[s].copy = Changed(call[s])
          BY <3>2, <5>1 DEF At, RemediationInv, FreshCopies
        <5>3. Changed(call[s])' = Changed(call[s])
          BY <4>1, <5>1 DEF Changed
        <5> QED
          BY <5>1, <5>2, <5>3
      <4> QED
        BY <4>2, <4>3
    <3> QED
      BY <3>1, <3>2 DEF RemediationInv, FreshCopies
  <2> QED
    BY <1>2, <2>1, <2>2 DEF Get, Goes
<1>3. ASSUME NEW r \in Replica, Update(r) PROVE RemediationInv'
  <2>1. Answered(r, call[r]).pc # "update"
    BY DEF Answered, Decides, Idle
  <2> QED
    BY <1>3, <2>1, WriteLeavesNoFreshCopy DEF Update
<1>4. ASSUME NEW r \in Replica, Conflict(r) PROVE RemediationInv'
  <2> DEFINE c == call[r]
  <2>1. CASE c.tries < MaxTries
    <3> DEFINE next == [Call(c.kind, c.incident, c.at) EXCEPT !.tries = c.tries + 1]
    <3>1. next.pc # "update"
      BY DEF Call
    <3>2. call' = [call EXCEPT ![r] = next] /\ UNCHANGED state
      BY <1>4, <2>1 DEF Conflict, Goes
    <3> QED
      BY <3>1, <3>2, OtherCallsStayFresh
  <2>2. CASE ~ (c.tries < MaxTries)
    <3>1. Idle.pc # "update"
      BY DEF Idle
    <3>2. call' = [call EXCEPT ![r] = Idle] /\ UNCHANGED state
      BY <1>4, <2>2 DEF Conflict, Goes
    <3> QED
      BY <3>1, <3>2, OtherCallsStayFresh
  <2> QED
    BY <2>1, <2>2
<1>5. ASSUME NEW r \in Replica, Fail(r) PROVE RemediationInv'
  <2>1. Idle.pc # "update"
    BY DEF Idle
  <2>2. CASE call' = [call EXCEPT ![r] = Idle] /\ UNCHANGED state
    BY <2>1, <2>2, OtherCallsStayFresh
  <2>3. CASE call' = AfterWrite(r, Idle)
    BY <2>1, <2>3, WriteLeavesNoFreshCopy
  <2> QED
    BY <1>5, <2>2, <2>3 DEF Fail
<1>6. ASSUME NEW r \in Replica, Decide(r) PROVE RemediationInv'
  <2>1. Idle.pc # "update"
    BY DEF Idle
  <2>2. \A kind : Call(kind, call[r].incident, call[r].at).pc # "update"
    BY DEF Call
  <2> QED
    BY <1>6, <2>1, <2>2, OtherCallsStayFresh DEF Decide, Goes
<1>7. CASE Tick
  BY <1>7 DEF Tick, RemediationInv, CallsTyped, FreshCopies, At, Changed
<1>8. CASE UNCHANGED remediationVars
  BY <1>8 DEF remediationVars, RemediationInv, CallsTyped, FreshCopies, At, Changed
<1> QED
  BY <1>1, <1>2, <1>3, <1>4, <1>5, <1>6, <1>7, <1>8 DEF RemediationNext

(* A write is one whole call, given that fresh copies are up to date.       *)
LEMMA WritesAreWholeCalls ==
  ASSUME RemediationInv, [RemediationNext]_remediationVars
  PROVE  [\E r \in Replica : At(r, "update") /\ state' = Changed(call[r])]_state
<1>1. ASSUME NEW r \in Replica, At(r, "update"), call[r].fresh, state' = call[r].copy
      PROVE  At(r, "update") /\ state' = Changed(call[r])
  BY <1>1 DEF RemediationInv, FreshCopies
<1>2. ASSUME NEW r \in Replica, Update(r)
      PROVE  \E s \in Replica : At(s, "update") /\ state' = Changed(call[s])
  BY <1>1, <1>2 DEF Update
<1>3. ASSUME NEW r \in Replica, Fail(r)
      PROVE  state' = state \/ \E s \in Replica : At(s, "update") /\ state' = Changed(call[s])
  BY <1>1, <1>3 DEF Fail
<1>4. CASE UNCHANGED remediationVars
  BY <1>4 DEF remediationVars
<1>5. ASSUME NEW r \in Replica,
             (\E i \in Incident : TakeSnapshot(r, i)) \/ Get(r) \/ Conflict(r) \/ Decide(r)
      PROVE  state' = state
  BY <1>5 DEF TakeSnapshot, Get, Conflict, Decide
<1>6. CASE Tick
  BY <1>6 DEF Tick
<1> QED
  BY <1>2, <1>3, <1>4, <1>5, <1>6 DEF RemediationNext

-----------------------------------------------------------------------------
(* The types of the state and of the calls *)

Attempt == [at : Time, nth : Nat \ {0}]

(* The entries of one time are numbered without gaps at the top: the next   *)
(* number is free.                                                          *)
AttemptsOK(attempts) ==
  /\ attempts \subseteq Attempt /\ IsFiniteSet(attempts)
  /\ \A a \in attempts : a.nth <= Cardinality(AttemptsAt(attempts, a.at))

StateOK(s) ==
  /\ s \in [handledAt : [Incident -> Time \cup {Never}],
            lastActionAt : [Target -> Time \cup {Never}],
            attempts : [Target -> SUBSET Attempt]]
  /\ \A t \in Target : AttemptsOK(s.attempts[t])

(* Whatever a call does, it does with a clock reading of the past.          *)
CallOK(c) ==
  /\ c.pc # "idle" => c.incident \in Incident /\ c.at \in Time /\ c.at <= now
  /\ c.pc = "decide" => c.snapshot.attemptsInWindow \in Nat

TypesInv ==
  /\ StateOK(state)
  /\ \A r \in Replica : CallOK(call[r])
  /\ now \in Time
  /\ acted \in Seq([by : Replica, target : Target, at : Time])

LEMMA AttemptsAtFinite ==
  ASSUME NEW attempts, IsFiniteSet(attempts), NEW at
  PROVE  /\ IsFiniteSet(AttemptsAt(attempts, at))
         /\ Cardinality(AttemptsAt(attempts, at)) \in Nat
<1>1. AttemptsAt(attempts, at) \in SUBSET attempts
  BY DEF AttemptsAt
<1> QED
  BY <1>1, FS_Subset, FS_CardinalityType

(* The next entry is not there yet, and is numbered as the ones before it.  *)
LEMMA NextAttemptIsNew ==
  ASSUME NEW attempts, AttemptsOK(attempts), NEW at \in Time
  PROVE  /\ NextAttempt(attempts, at) \notin attempts
         /\ NextAttempt(attempts, at).at = at
         /\ AttemptsOK(attempts \cup {NextAttempt(attempts, at)})
<1> DEFINE next == NextAttempt(attempts, at)
           more == attempts \cup {next}
           count == Cardinality(AttemptsAt(attempts, at))
<1>1. count \in Nat /\ IsFiniteSet(AttemptsAt(attempts, at))
  BY AttemptsAtFinite DEF AttemptsOK
<1>2. next = [at |-> at, nth |-> count + 1] /\ next.at = at /\ next.nth = count + 1
  BY DEF NextAttempt
<1>3. next \notin attempts
  BY <1>1, <1>2 DEF AttemptsOK
<1>4. next \in Attempt
  BY <1>1, <1>2 DEF Attempt
<1>5. more \subseteq Attempt /\ IsFiniteSet(more)
  BY <1>4, FS_AddElement DEF AttemptsOK
<1>6. AttemptsAt(more, at) = AttemptsAt(attempts, at) \cup {next}
  BY <1>2 DEF AttemptsAt
<1>7. Cardinality(AttemptsAt(more, at)) = count + 1
  BY <1>1, <1>3, <1>6, FS_AddElement DEF AttemptsAt
<1>8. ASSUME NEW a \in more
      PROVE  a.nth <= Cardinality(AttemptsAt(more, a.at))
  <2>1. CASE a = next
    BY <1>1, <1>2, <1>7, <2>1
  <2>2. CASE a # next /\ a.at = at
    <3>1. a \in attempts /\ a.nth <= count /\ a.nth \in Nat
      BY <2>2 DEF AttemptsOK, Attempt
    <3> QED
      BY <1>1, <1>7, <2>2, <3>1
  <2>3. CASE a # next /\ a.at # at
    <3>1. AttemptsAt(more, a.at) = AttemptsAt(attempts, a.at)
      BY <1>2, <2>3 DEF AttemptsAt
    <3> QED
      BY <2>3, <3>1 DEF AttemptsOK
  <2> QED
    BY <2>1, <2>2, <2>3
<1>9. AttemptsOK(more)
  <2> HIDE DEF more
  <2> QED BY <1>5, <1>8 DEF AttemptsOK
<1> QED
  BY <1>2, <1>3, <1>9

(* Pruning takes all entries of a time or none.                             *)
LEMMA PrunedAttemptsOK ==
  ASSUME NEW attempts, AttemptsOK(attempts), NEW time
  PROVE  AttemptsOK({a \in attempts : ~ Before(a.at, time, AttemptWindow)})
<1> DEFINE left == {a \in attempts : ~ Before(a.at, time, AttemptWindow)}
<1>1. left \in SUBSET attempts /\ left \subseteq Attempt /\ IsFiniteSet(left)
  BY FS_Subset DEF AttemptsOK
<1>2. ASSUME NEW a \in left
      PROVE  a.nth <= Cardinality(AttemptsAt(left, a.at))
  <2>1. AttemptsAt(left, a.at) = AttemptsAt(attempts, a.at)
    BY DEF AttemptsAt
  <2> QED
    BY <2>1 DEF AttemptsOK
<1>3. AttemptsOK(left)
  <2> HIDE DEF left
  <2> QED BY <1>1, <1>2 DEF AttemptsOK
<1> QED
  BY <1>3

LEMMA ChangedOK ==
  ASSUME StateOK(state), NEW c, c.incident \in Incident, c.at \in Time
  PROVE  StateOK(Changed(c))
<1> DEFINE target == TargetOf[c.incident]
<1>1. target \in Target /\ Never \in Time \cup {Never}
  BY RemediationConstants
<1>2. CASE c.kind = "snapshot"
  <2> DEFINE left(t) == {a \in state.attempts[t] : ~ Before(a.at, c.at, AttemptWindow)}
  <2>1. \A t \in Target : AttemptsOK(left(t))
    BY PrunedAttemptsOK DEF StateOK
  <2>2. \A t \in Target : left(t) \in SUBSET Attempt
    BY <2>1 DEF AttemptsOK
  <2>3. Changed(c) = [handledAt |-> [i \in Incident |-> KeptAt(state.handledAt[i], c.at, AttemptWindow)],
                      lastActionAt |-> [t \in Target |-> KeptAt(state.lastActionAt[t], c.at, Cooldown)],
                      attempts |-> [t \in Target |-> left(t)]]
    BY <1>2 DEF Changed, Pruned
  <2>4. \A i \in Incident : KeptAt(state.handledAt[i], c.at, AttemptWindow) \in Time \cup {Never}
    BY DEF StateOK, KeptAt
  <2>5. \A t \in Target : KeptAt(state.lastActionAt[t], c.at, Cooldown) \in Time \cup {Never}
    BY DEF StateOK, KeptAt
  <2> HIDE DEF left
  <2> QED
    BY <2>1, <2>2, <2>3, <2>4, <2>5 DEF StateOK
<1>3. CASE c.kind = "action"
  <2> DEFINE more == state.attempts[target] \cup {NextAttempt(state.attempts[target], c.at)}
  <2>1. AttemptsOK(more)
    BY <1>1, NextAttemptIsNew DEF StateOK
  <2>2. Changed(c) = [handledAt |-> [state.handledAt EXCEPT ![c.incident] = c.at],
                      lastActionAt |-> [state.lastActionAt EXCEPT ![target] = c.at],
                      attempts |-> [state.attempts EXCEPT ![target] = more]]
    BY <1>3 DEF Changed, Recorded
  <2> HIDE DEF more, target
  <2>3. more \in SUBSET Attempt
    BY <2>1 DEF AttemptsOK
  <2> QED
    BY <1>1, <2>1, <2>2, <2>3 DEF StateOK
<1>4. CASE c.kind # "snapshot" /\ c.kind # "action"
  <2>1. Changed(c) = [state EXCEPT !.handledAt[c.incident] = c.at]
    BY <1>4 DEF Changed, Recorded
  <2> QED
    BY <2>1 DEF StateOK
<1> QED
  BY <1>2, <1>3, <1>4
-----------------------------------------------------------------------------
(* The steps, by what they do to the state and to one replica's call        *)

(* A call that moves on keeps its incident and its clock reading.           *)
LEMMA OneCallTyped ==
  ASSUME TypesInv, RemediationInv, NEW r \in Replica, NEW next,
         call' = [call EXCEPT ![r] = next], CallOK(next), UNCHANGED now
  PROVE  \A s \in Replica : CallOK(call[s])'
<1>1. \A s \in Replica : call'[s] = IF s = r THEN next ELSE call[s]
  BY DEF RemediationInv, CallsTyped
<1> QED
  BY <1>1 DEF TypesInv, CallOK

LEMMA OthersOutdated ==
  ASSUME TypesInv, NEW r \in Replica, NEW next,
         call' = AfterWrite(r, next), CallOK(next), UNCHANGED now
  PROVE  \A s \in Replica : CallOK(call[s])'
<1> SUFFICES ASSUME NEW s \in Replica PROVE CallOK(call[s])'
  OBVIOUS
<1>1. CASE s = r
  BY <1>1 DEF AfterWrite, CallOK
<1>2. CASE s # r /\ At(s, "update")
  <2>1. call'[s] = [call[s] EXCEPT !.fresh = FALSE]
    BY <1>2 DEF AfterWrite
  <2>2. /\ call'[s].pc = call[s].pc /\ call'[s].incident = call[s].incident
        /\ call'[s].at = call[s].at /\ call'[s].snapshot = call[s].snapshot
    BY <2>1
  <2> QED
    BY <2>2 DEF TypesInv, CallOK
<1>3. CASE s # r /\ ~ At(s, "update")
  <2>1. call'[s] = call[s]
    BY <1>3 DEF AfterWrite
  <2> QED
    BY <2>1 DEF TypesInv, CallOK
<1> QED
  BY <1>1, <1>2, <1>3

LEMMA IdleOK == CallOK(Idle)
BY DEF CallOK, Idle

LEMMA DecidesOK ==
  ASSUME NEW c, c.incident \in Incident, c.at \in Time, c.at <= now,
         NEW s, StateOK(s)
  PROVE  /\ CallOK(Decides(c, s))
         /\ Decides(c, s).snapshot.attemptsInWindow
              = Cardinality(s.attempts[TargetOf[c.incident]])
<1>1. TargetOf[c.incident] \in Target
  BY RemediationConstants
<1>2. Cardinality(s.attempts[TargetOf[c.incident]]) \in Nat
  BY <1>1, FS_CardinalityType DEF StateOK, AttemptsOK
<1>3. /\ Decides(c, s).incident = c.incident /\ Decides(c, s).at = c.at
      /\ Decides(c, s).snapshot.attemptsInWindow
           = Cardinality(s.attempts[TargetOf[c.incident]])
  BY DEF Decides, SnapshotOf
<1> QED
  BY <1>2, <1>3 DEF CallOK

LEMMA NewCallOK ==
  ASSUME NEW kind, NEW i \in Incident, NEW at \in Time, at <= now, NEW tries
  PROVE  CallOK(Call(kind, i, at)) /\ CallOK([Call(kind, i, at) EXCEPT !.tries = tries])
BY DEF CallOK, Call

LEMMA StepTypes == TypesInv /\ RemediationInv /\ [RemediationNext]_remediationVars => TypesInv'
<1> SUFFICES ASSUME TypesInv, RemediationInv, [RemediationNext]_remediationVars
             PROVE  TypesInv'
  OBVIOUS
<1>1. \A r \in Replica : call[r].pc # "idle" =>
        call[r].incident \in Incident /\ call[r].at \in Time /\ call[r].at <= now
  BY DEF TypesInv, CallOK
<1>2. StateOK(state) /\ now \in Time /\ acted \in Seq([by : Replica, target : Target, at : Time])
  BY DEF TypesInv
<1>3. ASSUME UNCHANGED <<state, now, acted>>, \A s \in Replica : CallOK(call[s])'
      PROVE  TypesInv'
  BY <1>2, <1>3 DEF TypesInv, StateOK
<1>4. ASSUME NEW r \in Replica, NEW i \in Incident, TakeSnapshot(r, i) PROVE TypesInv'
  <2>1. CallOK(Call("snapshot", i, now))
    <3>1. now \in Time /\ now <= now
      BY <1>2, RemediationConstants DEF Time
    <3> QED
      BY <3>1, NewCallOK
  <2> QED
    BY <1>3, <1>4, <2>1, OneCallTyped DEF TakeSnapshot, Goes
<1>5. ASSUME NEW r \in Replica, Get(r) PROVE TypesInv'
  <2> DEFINE c == call[r]
             mine == [pc |-> "update", kind |-> c.kind, incident |-> c.incident, at |-> c.at,
                      tries |-> c.tries, copy |-> Changed(c), fresh |-> TRUE]
  <2>1. c.incident \in Incident /\ c.at \in Time /\ c.at <= now
    BY <1>1, <1>5 DEF Get, At
  <2>2. CallOK(Decides(c, state))
    BY <1>2, <2>1, DecidesOK
  <2>3. CallOK(mine)
    BY <2>1 DEF CallOK
  <2> HIDE DEF mine
  <2>4. call' = [call EXCEPT ![r] = Decides(c, state)] \/ call' = [call EXCEPT ![r] = mine]
    BY <1>5 DEF Get, Goes, mine
  <2> QED
    BY <1>3, <1>5, <2>2, <2>3, <2>4, OneCallTyped DEF Get
<1>6. ASSUME NEW r \in Replica, At(r, "update"), call[r].fresh
      PROVE  StateOK(call[r].copy) /\ CallOK(Answered(r, call[r]))
  <2>1. call[r].incident \in Incident /\ call[r].at \in Time /\ call[r].at <= now
    BY <1>1, <1>6 DEF At
  <2>2. StateOK(call[r].copy)
    BY <1>2, <1>6, <2>1, ChangedOK DEF RemediationInv, FreshCopies
  <2> QED
    BY <2>1, <2>2, DecidesOK, IdleOK DEF Answered
<1>7. ASSUME NEW r \in Replica, Update(r) PROVE TypesInv'
  <2> DEFINE c == call[r]
             action == [by |-> r, target |-> TargetOf[c.incident], at |-> c.at]
  <2>1. StateOK(c.copy) /\ CallOK(Answered(r, c))
    BY <1>6, <1>7 DEF Update
  <2>2. \A s \in Replica : CallOK(call[s])'
    BY <1>7, <2>1, OthersOutdated DEF Update
  <2>3. action \in [by : Replica, target : Target, at : Time]
    BY <1>1, <1>7, RemediationConstants DEF Update, At
  <2>4. acted' \in Seq([by : Replica, target : Target, at : Time])
    <3>1. acted' = acted \/ acted' = Append(acted, action)
      BY <1>7 DEF Update
    <3>2. \A S : \A seq \in Seq(S), e \in S : Append(seq, e) \in Seq(S)
      OBVIOUS
    <3> HIDE DEF action
    <3> QED BY <1>2, <2>3, <3>1, <3>2
  <2>5. state' = c.copy /\ now' = now
    BY <1>7 DEF Update
  <2> QED
    BY <1>2, <2>1, <2>2, <2>4, <2>5 DEF TypesInv, StateOK
<1>8. ASSUME NEW r \in Replica, Conflict(r) PROVE TypesInv'
  <2> DEFINE c == call[r]
             again == [Call(c.kind, c.incident, c.at) EXCEPT !.tries = c.tries + 1]
  <2>1. CallOK(again)
    BY <1>1, <1>8, NewCallOK DEF Conflict, At
  <2> HIDE DEF again
  <2>2. call' = [call EXCEPT ![r] = again] \/ call' = [call EXCEPT ![r] = Idle]
    BY <1>8 DEF Conflict, Goes, again
  <2> QED
    BY <1>3, <1>8, <2>1, <2>2, IdleOK, OneCallTyped DEF Conflict
<1>9. ASSUME NEW r \in Replica, Fail(r) PROVE TypesInv'
  <2>1. CASE call' = [call EXCEPT ![r] = Idle] /\ UNCHANGED state
    BY <1>3, <1>9, <2>1, IdleOK, OneCallTyped DEF Fail
  <2>2. CASE /\ At(r, "update") /\ call[r].fresh
             /\ state' = call[r].copy
             /\ call' = AfterWrite(r, Idle)
    <3>1. \A s \in Replica : CallOK(call[s])'
      BY <1>9, <2>2, IdleOK, OthersOutdated DEF Fail
    <3>2. StateOK(state')
      BY <1>6, <2>2
    <3> QED
      BY <1>2, <1>9, <3>1, <3>2 DEF Fail, TypesInv, StateOK
  <2> QED
    BY <1>9, <2>1, <2>2 DEF Fail
<1>10. ASSUME NEW r \in Replica, Decide(r) PROVE TypesInv'
  <2>1. \A kind : CallOK(Call(kind, call[r].incident, call[r].at))
    BY <1>1, <1>10, NewCallOK DEF Decide, At
  <2> QED
    BY <1>3, <1>10, <2>1, IdleOK, OneCallTyped DEF Decide, Goes
<1>11. CASE Tick
  <2>1. now \in Nat /\ now' \in Time /\ now <= now' /\ UNCHANGED <<state, call, acted>>
    BY <1>2, <1>11, RemediationConstants DEF Tick, Time
  <2>2. \A r \in Replica : CallOK(call[r])'
    BY <1>2, <2>1 DEF TypesInv, CallOK, Time
  <2> QED
    BY <1>2, <2>1, <2>2 DEF TypesInv, StateOK
<1>12. CASE UNCHANGED remediationVars
  BY <1>2, <1>12 DEF remediationVars, TypesInv, StateOK, CallOK
<1> QED
  BY <1>4, <1>5, <1>7, <1>8, <1>9, <1>10, <1>11, <1>12 DEF RemediationNext
-----------------------------------------------------------------------------
(* What a change does to the attempts of a window, and which changes there  *)
(* are                                                                      *)

Within(at, time) == ~ Before(at, time, AttemptWindow)

(* A call reads the clock before it changes anything: what is within the    *)
(* window now was within its window.  A new record takes no other's place.  *)
LEMMA ChangesKeepWindow ==
  ASSUME TypesInv, NEW c, c.incident \in Incident, c.at \in Time, c.at <= now,
         NEW t \in Target, NEW a \in state.attempts[t], Within(a.at, now)
  PROVE  a \in Changed(c).attempts[t]
<1> DEFINE target == TargetOf[c.incident]
<1>1. target \in Target /\ state.attempts \in [Target -> SUBSET Attempt]
  BY RemediationConstants DEF TypesInv, StateOK
<1>2. a.at \in Nat /\ now \in Nat /\ c.at \in Nat /\ AttemptWindow \in Nat
  BY <1>1, RemediationConstants DEF TypesInv, Attempt, Time
<1>3. CASE c.kind = "snapshot"
  <2>1. ~ Before(a.at, c.at, AttemptWindow)
    BY <1>2 DEF Within, Before
  <2>2. Changed(c).attempts[t] = {b \in state.attempts[t] : ~ Before(b.at, c.at, AttemptWindow)}
    BY <1>3 DEF Changed, Pruned
  <2> QED
    BY <2>1, <2>2
<1>4. CASE c.kind = "action"
  <2>1. Changed(c).attempts = [state.attempts EXCEPT ![target] =
                                 @ \cup {NextAttempt(@, c.at)}]
    BY <1>4 DEF Changed, Recorded
  <2> QED
    BY <1>1, <2>1
<1>5. CASE c.kind # "snapshot" /\ c.kind # "action"
  <2>1. Changed(c).attempts = state.attempts
    BY <1>5 DEF Changed, Recorded, TypesInv, StateOK
  <2> QED
    BY <2>1
<1> QED
  BY <1>3, <1>4, <1>5

LEMMA ActionAddsAttempt ==
  ASSUME TypesInv, NEW c, c.incident \in Incident, c.kind = "action"
  PROVE  NextAttempt(state.attempts[TargetOf[c.incident]], c.at)
           \in Changed(c).attempts[TargetOf[c.incident]]
<1>1. TargetOf[c.incident] \in Target /\ state.attempts \in [Target -> SUBSET Attempt]
  BY RemediationConstants DEF TypesInv, StateOK
<1>2. Changed(c).attempts =
        [state.attempts EXCEPT ![TargetOf[c.incident]] = @ \cup {NextAttempt(@, c.at)}]
  BY DEF Changed, Recorded
<1> QED
  BY <1>1, <1>2

(* A write of the call a replica is in.                                     *)
Writes(r) == At(r, "update") /\ call[r].fresh /\ state' = Changed(call[r])

(* The action a write acknowledges.                                         *)
ActionOf(r) ==
  [by |-> r, target |-> TargetOf[call[r].incident], at |-> call[r].at]

Acts(r) == Writes(r) /\ call[r].kind = "action" /\ acted' = Append(acted, ActionOf(r))

(* Every step leaves the state alone, or is a write, and only the writes of *)
(* acknowledged actions add to the history.                                 *)
LEMMA StepsWriteOrNot ==
  ASSUME TypesInv, RemediationInv, [RemediationNext]_remediationVars
  PROVE  /\ state' = state \/ \E r \in Replica : Writes(r)
         /\ acted' = acted \/ \E r \in Replica : Acts(r) /\ now' = now
         /\ now' \in Time /\ now <= now'
<1>1. now \in Time /\ now <= now
  BY RemediationConstants DEF TypesInv, Time
<1>2. \A r \in Replica : At(r, "update") /\ call[r].fresh => call[r].copy = Changed(call[r])
  BY DEF RemediationInv, FreshCopies
<1>3. ASSUME NEW r \in Replica, Update(r)
      PROVE  /\ Writes(r) /\ now' = now
             /\ acted' = acted \/ Acts(r)
  <2>1. At(r, "update") /\ call[r].fresh /\ state' = call[r].copy /\ now' = now
    BY <1>3 DEF Update
  <2>2. Writes(r)
    BY <1>2, <2>1 DEF Writes
  <2>3. acted' = acted \/ (call[r].kind = "action" /\ acted' = Append(acted, ActionOf(r)))
    BY <1>3 DEF Update, ActionOf
  <2> QED
    BY <2>1, <2>2, <2>3 DEF Acts
<1>4. ASSUME NEW r \in Replica, Fail(r)
      PROVE  UNCHANGED <<now, acted>> /\ (state' = state \/ Writes(r))
  BY <1>2, <1>4 DEF Fail, Writes
<1>5. ASSUME NEW r \in Replica,
             (\E i \in Incident : TakeSnapshot(r, i)) \/ Get(r) \/ Conflict(r) \/ Decide(r)
      PROVE  UNCHANGED <<state, now, acted>>
  BY <1>5 DEF TakeSnapshot, Get, Conflict, Decide
<1>6. CASE Tick
  BY <1>1, <1>6, RemediationConstants DEF Tick, Time
<1>7. CASE UNCHANGED remediationVars
  BY <1>1, <1>7 DEF remediationVars
<1> QED
  BY <1>1, <1>3, <1>4, <1>5, <1>6, <1>7 DEF RemediationNext

LEMMA CallIsTyped ==
  ASSUME TypesInv, NEW r \in Replica, call[r].pc # "idle"
  PROVE  /\ call[r].incident \in Incident /\ call[r].at \in Time /\ call[r].at <= now
         /\ TargetOf[call[r].incident] \in Target
BY RemediationConstants DEF TypesInv, CallOK

(* The history grows at its end.                                            *)
LEMMA HistoryGrows ==
  ASSUME TypesInv, NEW action, acted' = Append(acted, action)
  PROVE  /\ Len(acted) \in Nat /\ Len(acted') = Len(acted) + 1
         /\ DOMAIN acted = 1..Len(acted) /\ DOMAIN acted' = DOMAIN acted \cup {Len(acted) + 1}
         /\ Len(acted) + 1 \notin DOMAIN acted
         /\ \A n \in DOMAIN acted : acted'[n] = acted[n]
         /\ acted'[Len(acted) + 1] = action
<1>1. acted \in Seq([by : Replica, target : Target, at : Time])
  BY DEF TypesInv
<1>2. Len(acted) \in Nat /\ DOMAIN acted = 1..Len(acted)
  BY <1>1
<1>3. \A S : \A seq \in Seq(S) : \A e :
        /\ Len(Append(seq, e)) = Len(seq) + 1
        /\ \A n \in 1..Len(seq) : Append(seq, e)[n] = seq[n]
        /\ Append(seq, e)[Len(seq) + 1] = e
        /\ DOMAIN Append(seq, e) = 1..(Len(seq) + 1)
  OBVIOUS
<1>4. 1..(Len(acted) + 1) = 1..Len(acted) \cup {Len(acted) + 1}
  BY <1>2
<1> QED
  BY <1>1, <1>2, <1>3, <1>4
-----------------------------------------------------------------------------
(* Every acknowledged action within the window has an entry of its own      *)
(* among the attempts of its workload.  The counts of ActionsAreCounted are *)
(* not inductive as they stand: what is counted must be the same entries    *)
(* before and after a step.                                                 *)
EntriesOf(entry, actions, attempts, time) ==
  /\ \A n \in DOMAIN actions :
       /\ entry[n].at = actions[n].at
       /\ Within(actions[n].at, time) => entry[n] \in attempts[actions[n].target]
  /\ \A n, m \in DOMAIN actions :
       /\ n # m /\ actions[n].target = actions[m].target
       /\ Within(actions[n].at, time) /\ Within(actions[m].at, time)
       => entry[n] # entry[m]

EntriesInv ==
  \E entry \in [DOMAIN acted -> Attempt] : EntriesOf(entry, acted, state.attempts, now)

LEMMA ActedFacts ==
  ASSUME TypesInv, NEW n \in DOMAIN acted
  PROVE  acted[n].by \in Replica /\ acted[n].target \in Target /\ acted[n].at \in Time
<1>1. acted \in Seq([by : Replica, target : Target, at : Time])
  BY DEF TypesInv
<1>2. \A S : \A seq \in Seq(S) : \A m \in DOMAIN seq : seq[m] \in S
  OBVIOUS
<1>3. acted[n] \in [by : Replica, target : Target, at : Time]
  BY <1>1, <1>2
<1> QED
  BY <1>3

(* The window only loses times as the clock goes on.                        *)
LEMMA WithinBefore ==
  ASSUME TypesInv, now' \in Time, now <= now'
  PROVE  \A at \in Time : Within(at, now') => Within(at, now)
<1>1. now \in Nat /\ now' \in Nat /\ AttemptWindow \in Nat
  BY RemediationConstants DEF TypesInv, Time
<1> QED
  BY <1>1 DEF Within, Before, Time

(* A write of any kind, and the passing of time, keep the entries.          *)
LEMMA EntriesKept ==
  ASSUME TypesInv, now' \in Time, now <= now',
         state' = state \/ \E r \in Replica : Writes(r),
         NEW entry \in [DOMAIN acted -> Attempt], EntriesOf(entry, acted, state.attempts, now),
         NEW n \in DOMAIN acted, Within(acted[n].at, now')
  PROVE  entry[n] \in state'.attempts[acted[n].target]
<1>1. acted[n].target \in Target /\ acted[n].at \in Time
  BY ActedFacts
<1>2. Within(acted[n].at, now)
  BY <1>1, WithinBefore
<1>3. entry[n].at = acted[n].at /\ entry[n] \in state.attempts[acted[n].target]
  BY <1>2 DEF EntriesOf
<1>4. ASSUME NEW r \in Replica, Writes(r)
      PROVE  entry[n] \in state'.attempts[acted[n].target]
  <2>1. call[r].incident \in Incident /\ call[r].at \in Time /\ call[r].at <= now
    BY <1>4, CallIsTyped DEF Writes, At
  <2>2. entry[n] \in Changed(call[r]).attempts[acted[n].target]
    BY <1>1, <1>2, <1>3, <2>1, ChangesKeepWindow
  <2> QED
    BY <1>4, <2>2 DEF Writes
<1> QED
  BY <1>3, <1>4

LEMMA StepEntries ==
  ASSUME TypesInv, RemediationInv, EntriesInv, [RemediationNext]_remediationVars
  PROVE  EntriesInv'
<1>1. PICK entry \in [DOMAIN acted -> Attempt] : EntriesOf(entry, acted, state.attempts, now)
  BY DEF EntriesInv
<1>2. /\ state' = state \/ \E r \in Replica : Writes(r)
      /\ now' \in Time /\ now <= now'
  BY StepsWriteOrNot
<1>3. \A n \in DOMAIN acted : Within(acted[n].at, now') =>
        entry[n] \in state'.attempts[acted[n].target] /\ Within(acted[n].at, now)
  BY <1>1, <1>2, EntriesKept, ActedFacts, WithinBefore
<1>4. CASE acted' = acted
  <2>1. EntriesOf(entry, acted', state'.attempts, now')
    BY <1>1, <1>3, <1>4 DEF EntriesOf
  <2> QED
    BY <1>1, <1>4, <2>1 DEF EntriesInv
<1>5. ASSUME NEW r \in Replica, Acts(r), now' = now
      PROVE  EntriesInv'
  <2> DEFINE t == TargetOf[call[r].incident]
             last == Len(acted) + 1
             next == NextAttempt(state.attempts[t], call[r].at)
             entries == [n \in DOMAIN acted' |-> IF n = last THEN next ELSE entry[n]]
  <2>1. /\ call[r].incident \in Incident /\ call[r].at \in Time /\ call[r].at <= now
        /\ t \in Target
    BY <1>5, CallIsTyped DEF Acts, Writes, At
  <2>2. AttemptsOK(state.attempts[t])
    BY <2>1 DEF TypesInv, StateOK
  <2>3. /\ next \notin state.attempts[t] /\ next.at = call[r].at /\ next \in Attempt
    BY <2>1, <2>2, NextAttemptIsNew DEF AttemptsOK
  <2>4. next \in state'.attempts[t]
    BY <1>5, <2>1, ActionAddsAttempt DEF Acts, Writes
  <2>5. acted' = Append(acted, ActionOf(r))
    BY <1>5 DEF Acts
  <2>6. /\ DOMAIN acted' = DOMAIN acted \cup {last} /\ last \notin DOMAIN acted
        /\ \A n \in DOMAIN acted : acted'[n] = acted[n]
        /\ acted'[last] = ActionOf(r)
    BY <2>5, HistoryGrows
  <2>7. ActionOf(r).target = t /\ ActionOf(r).at = call[r].at
    BY DEF ActionOf
  <2> HIDE DEF last, next, t
  <2>8. entries \in [DOMAIN acted' -> Attempt]
    BY <1>1, <2>3, <2>6
  <2>9. entries[last] = next /\ \A n \in DOMAIN acted : entries[n] = entry[n]
    BY <2>6
  <2> HIDE DEF entries
  <2>10. ASSUME NEW n \in DOMAIN acted'
         PROVE  /\ entries[n].at = acted'[n].at
                /\ Within(acted'[n].at, now') => entries[n] \in state'.attempts[acted'[n].target]
    <3>1. CASE n = last
      BY <2>3, <2>4, <2>6, <2>7, <2>9, <3>1
    <3>2. CASE n \in DOMAIN acted
      BY <1>1, <1>3, <2>6, <2>9, <3>2 DEF EntriesOf
    <3> QED
      BY <2>6, <3>1, <3>2
  <2>11. ASSUME NEW n \in DOMAIN acted, Within(acted[n].at, now'), acted[n].target = t
         PROVE  entry[n] # next
    BY <1>1, <1>3, <2>3, <2>11 DEF EntriesOf
  <2>12. ASSUME NEW n \in DOMAIN acted', NEW m \in DOMAIN acted', n # m,
                acted'[n].target = acted'[m].target,
                Within(acted'[n].at, now'), Within(acted'[m].at, now')
         PROVE  entries[n] # entries[m]
    <3>1. CASE n = last
      <4>1. m \in DOMAIN acted /\ acted[m].target = t /\ Within(acted[m].at, now')
        BY <2>6, <2>7, <2>12, <3>1
      <4> QED
        BY <2>9, <2>11, <3>1, <4>1
    <3>2. CASE m = last
      <4>1. n \in DOMAIN acted /\ acted[n].target = t /\ Within(acted[n].at, now')
        BY <2>6, <2>7, <2>12, <3>2
      <4> QED
        BY <2>9, <2>11, <3>2, <4>1
    <3>3. CASE n \in DOMAIN acted /\ m \in DOMAIN acted
      BY <1>1, <1>3, <2>6, <2>9, <2>12, <3>3 DEF EntriesOf
    <3> QED
      BY <2>6, <3>1, <3>2, <3>3
  <2>13. EntriesOf(entries, acted', state'.attempts, now')
    BY <2>10, <2>12 DEF EntriesOf
  <2> QED
    BY <2>8, <2>13 DEF EntriesInv
<1> QED
  BY <1>4, <1>5, StepsWriteOrNot

(* A set of acknowledged actions on one workload, all within the window,    *)
(* is no larger than the set of attempts that has their entries.            *)
LEMMA ActionsFitAttempts ==
  ASSUME TypesInv, EntriesInv, NEW t \in Target, NEW actions \in SUBSET DOMAIN acted,
         \A n \in actions : acted[n].target = t /\ Within(acted[n].at, now),
         NEW attempts \in SUBSET state.attempts[t],
         \A n \in actions, a \in state.attempts[t] : a.at = acted[n].at => a \in attempts
  PROVE  /\ IsFiniteSet(actions) /\ IsFiniteSet(attempts)
         /\ Cardinality(actions) <= Cardinality(attempts)
<1>1. PICK entry \in [DOMAIN acted -> Attempt] : EntriesOf(entry, acted, state.attempts, now)
  BY DEF EntriesInv
<1>2. IsFiniteSet(attempts)
  BY FS_Subset DEF TypesInv, StateOK, AttemptsOK
<1> DEFINE f == [n \in actions |-> entry[n]]
<1>3. \A n \in actions : f[n] \in attempts
  BY <1>1 DEF EntriesOf
<1>4. \A n, m \in actions : f[n] = f[m] => n = m
  BY <1>1 DEF EntriesOf
<1>5. f \in Injection(actions, attempts)
  BY <1>3, <1>4 DEF Injection, IsInjective
<1> QED
  BY <1>2, <1>5, FS_Injection

-----------------------------------------------------------------------------
(* The limit of attempts.  The overshoot is not inductive: what an action   *)
(* adds depends on what its replica saw when it decided.  seen is the       *)
(* number of actions in the history when a replica took the snapshot it     *)
(* acts on; until is such a number for a workload, past every action on it  *)
(* that is not its replica's last, and fewer than the limit precede it.     *)

UpTo(t, n) == {m \in InWindow(t) : m <= n}

OnItsWay(r) == At(r, "decide") \/ ((At(r, "get") \/ At(r, "update")) /\ call[r].kind = "action")

(* How many attempts the snapshot may have shown, for the call to get here. *)
Shown(r) == IF At(r, "decide") THEN call[r].snapshot.attemptsInWindow ELSE MaximumAttempts - 1

UntilOK(t, until) ==
  /\ until <= Len(acted)
  /\ Cardinality(UpTo(t, until)) < MaximumAttempts
  /\ \A n, m \in InWindow(t) : n < m /\ acted[n].by = acted[m].by => n <= until

SeenOK(r, seen) ==
  /\ seen <= Len(acted)
  /\ \A n \in DOMAIN acted : acted[n].by = r => n <= seen
  /\ Cardinality(UpTo(TargetOf[call[r].incident], seen)) <= Shown(r)

LimitInv ==
  /\ \A t \in Target : \E until \in Nat : UntilOK(t, until)
  /\ \A r \in Replica : OnItsWay(r) => \E seen \in Nat : SeenOK(r, seen)

LEMMA ActedLength ==
  ASSUME TypesInv
  PROVE  Len(acted) \in Nat /\ DOMAIN acted = 1..Len(acted)
<1>1. \A S : \A seq \in Seq(S) : Len(seq) \in Nat /\ DOMAIN seq = 1..Len(seq)
  OBVIOUS
<1> QED
  BY <1>1 DEF TypesInv

LEMMA WindowFinite ==
  ASSUME TypesInv, NEW t, NEW n
  PROVE  /\ InWindow(t) \subseteq DOMAIN acted
         /\ IsFiniteSet(InWindow(t)) /\ Cardinality(InWindow(t)) \in Nat
         /\ IsFiniteSet(UpTo(t, n)) /\ Cardinality(UpTo(t, n)) \in Nat
         /\ Cardinality(UpTo(t, n)) <= Cardinality(InWindow(t))
<1>1. IsFiniteSet(DOMAIN acted)
  BY ActedLength, FS_Interval
<1>2. InWindow(t) \in SUBSET DOMAIN acted /\ UpTo(t, n) \in SUBSET InWindow(t)
  BY DEF InWindow, UpTo
<1> QED
  BY <1>1, <1>2, FS_Subset, FS_CardinalityType

(* Every action on a workload within the window is one of its attempts.     *)
LEMMA WindowCounted ==
  TypesInv /\ EntriesInv =>
    \A t \in Target : Cardinality(InWindow(t)) <= Cardinality(state.attempts[t])
<1> SUFFICES ASSUME TypesInv, EntriesInv, NEW t \in Target
             PROVE  Cardinality(InWindow(t)) <= Cardinality(state.attempts[t])
  OBVIOUS
<1>1. InWindow(t) \in SUBSET DOMAIN acted
  BY DEF InWindow
<1>2. \A n \in InWindow(t) : acted[n].target = t /\ Within(acted[n].at, now)
  BY DEF InWindow, Within
<1>3. state.attempts[t] \in SUBSET state.attempts[t]
  OBVIOUS
<1> QED
  BY <1>1, <1>2, <1>3, ActionsFitAttempts

LEMMA WindowCountedNext ==
  TypesInv' /\ EntriesInv' =>
    (\A t \in Target : Cardinality(InWindow(t)) <= Cardinality(state.attempts[t]))'
BY WindowCounted, PTL

LEMMA WindowShrinks ==
  ASSUME TypesInv, acted' = acted, now' \in Time, now <= now', NEW t, NEW n
  PROVE  /\ InWindow(t)' \subseteq InWindow(t)
         /\ UpTo(t, n)' \subseteq UpTo(t, n)
         /\ Cardinality(UpTo(t, n)') <= Cardinality(UpTo(t, n))
         /\ Cardinality(UpTo(t, n)') \in Nat /\ Cardinality(UpTo(t, n)) \in Nat
         /\ Cardinality(UpTo(t, n)') <= Cardinality(InWindow(t)')
         /\ Cardinality(InWindow(t)') \in Nat
<1>1. \A m \in DOMAIN acted : ~ Before(acted[m].at, now', AttemptWindow)
                                => ~ Before(acted[m].at, now, AttemptWindow)
  BY ActedFacts, WithinBefore DEF Within
<1>2. InWindow(t)' \subseteq InWindow(t)
  BY <1>1 DEF InWindow
<1>3. UpTo(t, n)' \in SUBSET UpTo(t, n)
  BY <1>2 DEF UpTo
<1>4. IsFiniteSet(UpTo(t, n)) /\ IsFiniteSet(InWindow(t))
  BY WindowFinite
<1>5. IsFiniteSet(UpTo(t, n)') /\ IsFiniteSet(InWindow(t)')
  BY <1>2, <1>3, <1>4, FS_Subset
<1>6. UpTo(t, n)' \in SUBSET InWindow(t)'
  BY DEF UpTo
<1> QED
  BY <1>2, <1>3, <1>4, <1>5, <1>6, FS_Subset, FS_CardinalityType

(* A step that adds no action, and after which each replica on its way to   *)
(* act was so before with no larger a number shown, or has just been shown  *)
(* all there is.                                                            *)
LEMMA NobodyActs ==
  ASSUME TypesInv, TypesInv', LimitInv, acted' = acted, now' \in Time, now <= now',
         \A r \in Replica : OnItsWay(r)' =>
           \/ /\ OnItsWay(r) /\ TargetOf[call'[r].incident] = TargetOf[call[r].incident]
              /\ Shown(r) <= Shown(r)'
           \/ \E t \in Target : /\ t = TargetOf[call'[r].incident]
                                /\ Cardinality(InWindow(t)') <= Shown(r)'
  PROVE  LimitInv'
<1>1. ASSUME NEW t \in Target
      PROVE  \E until \in Nat : UntilOK(t, until)'
  <2>1. PICK until \in Nat : UntilOK(t, until)
    BY DEF LimitInv
  <2>2. /\ InWindow(t)' \subseteq InWindow(t)
        /\ Cardinality(UpTo(t, until)') <= Cardinality(UpTo(t, until))
        /\ Cardinality(UpTo(t, until)') \in Nat /\ Cardinality(UpTo(t, until)) \in Nat
    BY WindowShrinks
  <2>3. UntilOK(t, until)'
    BY <2>1, <2>2, RemediationConstants DEF UntilOK
  <2> QED
    BY <2>3
<1>2. ASSUME NEW r \in Replica, OnItsWay(r)'
      PROVE  \E seen \in Nat : SeenOK(r, seen)'
  <2>1. At(r, "decide") => call[r].snapshot.attemptsInWindow \in Nat
    BY DEF TypesInv, CallOK, At
  <2>2. At(r, "decide")' => call'[r].snapshot.attemptsInWindow \in Nat
    BY DEF TypesInv, CallOK, At
  <2>3. Shown(r) \in Nat /\ Shown(r)' \in Nat
    BY <2>1, <2>2, RemediationConstants DEF Shown
  <2>4. Len(acted) \in Nat /\ DOMAIN acted = 1..Len(acted)
    BY ActedLength
  <2>5. CASE /\ OnItsWay(r) /\ TargetOf[call'[r].incident] = TargetOf[call[r].incident]
             /\ Shown(r) <= Shown(r)'
    <3>1. PICK seen \in Nat : SeenOK(r, seen)
      BY <2>5 DEF LimitInv
    <3>2. PICK t : t = TargetOf[call[r].incident]
      OBVIOUS
    <3>3. /\ Cardinality(UpTo(t, seen)') <= Cardinality(UpTo(t, seen))
          /\ Cardinality(UpTo(t, seen)') \in Nat /\ Cardinality(UpTo(t, seen)) \in Nat
      BY WindowShrinks
    <3>4. UpTo(TargetOf[call[r].incident], seen)' = UpTo(t, seen)'
      BY <2>5, <3>2 DEF UpTo, InWindow
    <3>5. Cardinality(UpTo(t, seen)) <= Shown(r)
      BY <3>1, <3>2 DEF SeenOK
    <3>6. SeenOK(r, seen)'
      BY <2>3, <2>5, <3>1, <3>3, <3>4, <3>5 DEF SeenOK
    <3> QED
      BY <3>6
  <2>6. CASE \E t \in Target : /\ t = TargetOf[call'[r].incident]
                               /\ Cardinality(InWindow(t)') <= Shown(r)'
    <3>1. PICK t \in Target : /\ t = TargetOf[call'[r].incident]
                              /\ Cardinality(InWindow(t)') <= Shown(r)'
      BY <2>6
    <3>2. PICK seen \in Nat : seen = Len(acted)
      BY <2>4
    <3>3. /\ Cardinality(UpTo(t, seen)') <= Cardinality(InWindow(t)')
          /\ Cardinality(UpTo(t, seen)') \in Nat /\ Cardinality(InWindow(t)') \in Nat
      BY WindowShrinks
    <3>4. UpTo(TargetOf[call[r].incident], seen)' = UpTo(t, seen)'
      BY <3>1 DEF UpTo, InWindow
    <3>5. SeenOK(r, seen)'
      BY <2>3, <2>4, <3>1, <3>2, <3>3, <3>4 DEF SeenOK
    <3> QED
      BY <3>5
  <2> QED
    BY <1>2, <2>5, <2>6
<1> QED
  BY <1>1, <1>2 DEF LimitInv
(* A write changes nothing of another's call but that its copy is out of    *)
(* date.                                                                    *)
LEMMA OthersGoOn ==
  ASSUME NEW r \in Replica, NEW next, call' = AfterWrite(r, next),
         NEW s \in Replica, s # r
  PROVE  /\ OnItsWay(s)' = OnItsWay(s)
         /\ call'[s].incident = call[s].incident /\ call'[s].pc = call[s].pc
         /\ Shown(s)' = Shown(s)
<1>1. CASE At(s, "update")
  <2>1. call'[s] = [call[s] EXCEPT !.fresh = FALSE]
    BY <1>1 DEF AfterWrite
  <2>2. /\ call'[s].pc = call[s].pc /\ call'[s].incident = call[s].incident
        /\ call'[s].kind = call[s].kind /\ call'[s].snapshot = call[s].snapshot
    BY <2>1
  <2> QED
    BY <2>2 DEF OnItsWay, Shown, At
<1>2. CASE ~ At(s, "update")
  <2>1. call'[s] = call[s]
    BY <1>2 DEF AfterWrite
  <2> QED
    BY <2>1 DEF OnItsWay, Shown, At
<1> QED
  BY <1>1, <1>2

(* An action of r, allowed for what r was shown: until moves to what r saw  *)
(* if that is further, and r's earlier actions are all before it.           *)
LEMMA SomebodyActs ==
  ASSUME TypesInv, LimitInv, NEW r \in Replica, Acts(r), now' = now,
         call' = AfterWrite(r, Idle)
  PROVE  LimitInv'
<1> DEFINE last == Len(acted) + 1
<1>1. acted' = Append(acted, ActionOf(r)) /\ OnItsWay(r) /\ Shown(r) = MaximumAttempts - 1
  BY DEF Acts, Writes, OnItsWay, Shown, At
<1>2. /\ Len(acted) \in Nat /\ Len(acted') = last /\ DOMAIN acted = 1..Len(acted)
      /\ DOMAIN acted' = DOMAIN acted \cup {last} /\ last \notin DOMAIN acted
      /\ \A n \in DOMAIN acted : acted'[n] = acted[n]
      /\ acted'[last].by = r /\ acted'[last].target = TargetOf[call[r].incident]
  BY <1>1, HistoryGrows DEF ActionOf
<1>3. ASSUME NEW t
      PROVE  /\ InWindow(t)' \subseteq InWindow(t) \cup {last}
             /\ \A n \in InWindow(t)' : n # last => n \in InWindow(t)
             /\ last \in InWindow(t)' => t = TargetOf[call[r].incident]
  BY <1>2 DEF InWindow
<1>4. ASSUME NEW t, NEW n \in Nat, n <= Len(acted)
      PROVE  UpTo(t, n)' = UpTo(t, n)
  <2>1. \A m \in DOMAIN acted : m \in InWindow(t)' <=> m \in InWindow(t)
    BY <1>2 DEF InWindow
  <2>2. ~ (last <= n)
    BY <1>2, <1>4
  <2>3. InWindow(t) \subseteq DOMAIN acted /\ InWindow(t)' \subseteq DOMAIN acted \cup {last}
    BY <1>2 DEF InWindow
  <2> HIDE DEF last
  <2> QED
    BY <2>1, <2>2, <2>3 DEF UpTo
<1>5. PICK seen \in Nat : SeenOK(r, seen)
  BY <1>1 DEF LimitInv
<1>6. TargetOf[call[r].incident] \in Target
  BY CallIsTyped DEF Acts, Writes, At
<1> HIDE DEF last
<1>7. ASSUME NEW t \in Target
      PROVE  \E until \in Nat : UntilOK(t, until)'
  <2>1. PICK until \in Nat : UntilOK(t, until)
    BY DEF LimitInv
  <2>2. \A n, m \in InWindow(t) : n < m /\ acted[n].by = acted[m].by => n <= until
    BY <2>1 DEF UntilOK
  <2>3. until <= Len(acted) /\ seen <= Len(acted) /\ Len(acted) <= Len(acted')
    BY <1>2, <1>5, <2>1 DEF UntilOK, SeenOK, last
  <2>4. InWindow(t) \subseteq DOMAIN acted
    BY DEF InWindow
  <2>5. CASE t # TargetOf[call[r].incident]
    <3>1. InWindow(t)' \subseteq InWindow(t)
      BY <1>3, <2>5
    <3>2. UntilOK(t, until)'
      BY <1>2, <1>4, <2>1, <2>2, <2>3, <2>4, <3>1 DEF UntilOK
    <3> QED
      BY <3>2
  <2>6. CASE t = TargetOf[call[r].incident]
    <3>1. PICK further \in Nat : /\ further \in {until, seen}
                                 /\ until <= further /\ seen <= further
      OBVIOUS
    <3>2. Cardinality(UpTo(t, further)) < MaximumAttempts
      <4>1. Cardinality(UpTo(t, until)) < MaximumAttempts
        BY <2>1 DEF UntilOK
      <4>2. Cardinality(UpTo(t, seen)) <= MaximumAttempts - 1
        BY <1>1, <1>5, <2>6 DEF SeenOK
      <4>3. Cardinality(UpTo(t, seen)) \in Nat
        BY WindowFinite
      <4>4. Cardinality(UpTo(t, seen)) < MaximumAttempts
        BY <4>2, <4>3, RemediationConstants
      <4> QED
        BY <3>1, <4>1, <4>4
    <3>3. ASSUME NEW n \in InWindow(t)', NEW m \in InWindow(t)', n < m,
                 acted'[n].by = acted'[m].by
          PROVE  n <= further
      <4>1. n # last
        <5>1. m \in 1..last
          BY <1>2, <1>3, <2>4, <3>3 DEF last
        <5> QED
          BY <1>2, <3>3, <5>1 DEF last
      <4>2. n \in InWindow(t) /\ n \in DOMAIN acted /\ n \in Nat
        BY <1>2, <1>3, <2>4, <4>1
      <4>3. CASE m = last
        <5>1. n <= seen
          BY <1>2, <1>5, <3>3, <4>2, <4>3 DEF SeenOK
        <5> QED
          BY <3>1, <4>2, <5>1
      <4>4. CASE m # last
        <5>1. m \in InWindow(t) /\ m \in DOMAIN acted
          BY <1>3, <2>4, <4>4
        <5>2. n <= until
          BY <1>2, <2>2, <3>3, <4>2, <5>1
        <5> QED
          BY <3>1, <4>2, <5>2
      <4> QED
        BY <4>3, <4>4
    <3>4. further <= Len(acted) /\ further <= Len(acted')
      BY <1>2, <2>3, <3>1 DEF last
    <3>5. Cardinality(UpTo(t, further)') < MaximumAttempts
      BY <1>4, <3>2, <3>4
    <3>6. UntilOK(t, further)'
      BY <3>3, <3>4, <3>5 DEF UntilOK
    <3> QED
      BY <3>6
  <2> QED
    BY <2>5, <2>6
<1>8. ASSUME NEW s \in Replica, OnItsWay(s)'
      PROVE  \E k \in Nat : SeenOK(s, k)'
  <2>1. s # r
    BY <1>8 DEF AfterWrite, Idle, OnItsWay, At
  <2>2. /\ OnItsWay(s) /\ call'[s].incident = call[s].incident /\ Shown(s)' = Shown(s)
    BY <1>8, <2>1, OthersGoOn
  <2>3. PICK k \in Nat : SeenOK(s, k)
    BY <2>2 DEF LimitInv
  <2>4. k <= Len(acted) /\ k <= Len(acted')
    BY <1>2, <2>3 DEF SeenOK, last
  <2>5. PICK t : t = TargetOf[call[s].incident]
    OBVIOUS
  <2>6. UpTo(TargetOf[call[s].incident], k)' = UpTo(t, k)'
    BY <2>2, <2>5 DEF UpTo, InWindow
  <2>7. UpTo(t, k)' = UpTo(t, k)
    BY <1>4, <2>4
  <2>8. \A n \in DOMAIN acted' : acted'[n].by = s => n <= k
    BY <1>2, <2>1, <2>3 DEF SeenOK
  <2>9. SeenOK(s, k)'
    BY <2>2, <2>3, <2>4, <2>5, <2>6, <2>7, <2>8 DEF SeenOK
  <2> QED
    BY <2>9
<1> QED
  BY <1>7, <1>8 DEF LimitInv

LEMMA StepLimit ==
  ASSUME TypesInv, TypesInv', RemediationInv, EntriesInv, EntriesInv', LimitInv,
         [RemediationNext]_remediationVars
  PROVE  LimitInv'
<1>1. now' \in Time /\ now <= now'
  BY StepsWriteOrNot
<1> DEFINE GoesOn(r) == /\ OnItsWay(r)
                        /\ TargetOf[call'[r].incident] = TargetOf[call[r].incident]
                        /\ Shown(r) <= Shown(r)'
           SeesAll(r) == \E t \in Target : /\ t = TargetOf[call'[r].incident]
                                           /\ Cardinality(InWindow(t)') <= Shown(r)'
<1>2. ASSUME acted' = acted, \A r \in Replica : OnItsWay(r)' => GoesOn(r) \/ SeesAll(r)
      PROVE  LimitInv'
  BY <1>1, <1>2, NobodyActs
<1>3. \A r \in Replica : OnItsWay(r) => Shown(r) \in Nat
  BY RemediationConstants DEF TypesInv, CallOK, Shown, At
<1>4. ASSUME NEW r \in Replica, call'[r] = call[r], OnItsWay(r)'
      PROVE  GoesOn(r)
  BY <1>3, <1>4 DEF OnItsWay, Shown, At
<1>5. ASSUME NEW r \in Replica, NEW next, call' = [call EXCEPT ![r] = next], acted' = acted,
             (OnItsWay(r)' => GoesOn(r) \/ SeesAll(r))
      PROVE  LimitInv'
  <2>1. \A s \in Replica : s # r => call'[s] = call[s]
    BY <1>5 DEF RemediationInv, CallsTyped
  <2> HIDE DEF GoesOn, SeesAll
  <2> QED
    BY <1>2, <1>4, <1>5, <2>1
<1>6. ASSUME NEW r \in Replica, NEW next, call' = AfterWrite(r, next), acted' = acted,
             (OnItsWay(r)' => SeesAll(r))
      PROVE  LimitInv'
  <2>1. ASSUME NEW s \in Replica, s # r, OnItsWay(s)'
        PROVE  GoesOn(s)
    BY <1>3, <1>6, <2>1, OthersGoOn
  <2> HIDE DEF GoesOn, SeesAll
  <2> QED
    BY <1>2, <1>6, <2>1
<1>7. ASSUME NEW r \in Replica, call'[r] = Idle
      PROVE  ~ OnItsWay(r)'
  BY <1>7 DEF OnItsWay, At, Idle
<1>8. \A r \in Replica : \A next : call' = [call EXCEPT ![r] = next] => call'[r] = next
  BY DEF RemediationInv, CallsTyped
(* What a snapshot answers with is what there is, and every action on the   *)
(* workload is among it.                                                    *)
<1>9. ASSUME NEW r \in Replica, NEW c, NEW s, c.incident \in Incident, c.at \in Time, c.at <= now,
             StateOK(s), s = state', call'[r] = Decides(c, s)
      PROVE  SeesAll(r)
  <2>1. TargetOf[c.incident] \in Target
    BY <1>9, RemediationConstants
  <2>2. PICK t \in Target : t = TargetOf[c.incident]
    BY <2>1
  <2>3. call'[r].incident = c.incident /\ call'[r].pc = "decide"
    BY <1>9 DEF Decides
  <2>4. call'[r].snapshot.attemptsInWindow = Cardinality(s.attempts[t])
    BY <1>9, <2>2, DecidesOK
  <2>5. Shown(r)' = Cardinality(state'.attempts[t])
    BY <1>9, <2>3, <2>4 DEF Shown, At
  <2>6. Cardinality(InWindow(t)') <= Cardinality(state'.attempts[t])
    BY WindowCountedNext
  <2> QED
    BY <2>2, <2>3, <2>5, <2>6
<1> HIDE DEF SeesAll
<1>10. ASSUME NEW r \in Replica, NEW i \in Incident, TakeSnapshot(r, i) PROVE LimitInv'
  <2>1. call' = [call EXCEPT ![r] = Call("snapshot", i, now)] /\ acted' = acted
    BY <1>10 DEF TakeSnapshot, Goes
  <2>2. ~ OnItsWay(r)'
    BY <1>8, <2>1 DEF OnItsWay, At, Call
  <2> QED
    BY <1>5, <2>1, <2>2
<1>11. ASSUME NEW r \in Replica, Get(r) PROVE LimitInv'
  <2> DEFINE c == call[r]
             mine == [pc |-> "update", kind |-> c.kind, incident |-> c.incident, at |-> c.at,
                      tries |-> c.tries, copy |-> Changed(c), fresh |-> TRUE]
  <2>1. c.incident \in Incident /\ c.at \in Time /\ c.at <= now /\ c.pc = "get"
        /\ acted' = acted /\ state' = state
    BY <1>11, CallIsTyped DEF Get, At
  <2>2. CASE call' = [call EXCEPT ![r] = Decides(c, state)]
    <3>1. call'[r] = Decides(c, state)
      BY <1>8, <2>2
    <3>2. SeesAll(r)
      BY <1>9, <2>1, <3>1 DEF TypesInv
    <3> QED
      BY <1>5, <2>1, <2>2, <3>2
  <2>3. CASE call' = [call EXCEPT ![r] = mine]
    <3>1. call'[r] = mine
      BY <1>8, <2>3
    <3>2. call'[r].pc = "update" /\ call'[r].kind = c.kind /\ call'[r].incident = c.incident
      BY <3>1
    <3>3. OnItsWay(r)' => GoesOn(r)
      BY <1>3, <2>1, <3>2 DEF OnItsWay, Shown, At
    <3> HIDE DEF mine, GoesOn
    <3> QED
      BY <1>5, <2>1, <2>3, <3>3
  <2> QED
    BY <1>11, <2>2, <2>3 DEF Get, Goes
<1>12. ASSUME NEW r \in Replica, Update(r) PROVE LimitInv'
  <2> DEFINE c == call[r]
  <2>1. /\ At(r, "update") /\ c.fresh /\ state' = c.copy /\ now' = now
        /\ call' = AfterWrite(r, Answered(r, c))
    BY <1>12 DEF Update
  <2>2. c.copy = Changed(c)
    BY <2>1 DEF RemediationInv, FreshCopies
  <2>3. c.incident \in Incident /\ c.at \in Time /\ c.at <= now
    BY <2>1, CallIsTyped DEF At
  <2>4. call'[r] = Answered(r, c)
    BY <2>1 DEF AfterWrite
  <2>5. CASE c.kind = "snapshot"
    <3>1. StateOK(state')
      BY DEF TypesInv, StateOK
    <3>2. call'[r] = Decides(c, c.copy)
      BY <2>4, <2>5 DEF Answered
    <3>3. SeesAll(r)
      BY <1>9, <2>1, <2>3, <3>1, <3>2
    <3>4. acted' = acted
      BY <1>12, <2>5 DEF Update
    <3> QED
      BY <1>6, <2>1, <3>3, <3>4
  <2>6. CASE c.kind = "action"
    <3>1. acted' = Append(acted, ActionOf(r))
      BY <1>12, <2>6 DEF Update, ActionOf
    <3>2. Acts(r)
      BY <2>1, <2>2, <2>6, <3>1 DEF Acts, Writes
    <3>3. Answered(r, c) = Idle
      BY <2>6 DEF Answered
    <3> QED
      BY <2>1, <3>2, <3>3, SomebodyActs
  <2>7. CASE c.kind # "snapshot" /\ c.kind # "action"
    <3>1. acted' = acted /\ Answered(r, c) = Idle
      BY <1>12, <2>7 DEF Update, Answered
    <3>2. ~ OnItsWay(r)'
      BY <1>7, <2>4, <3>1
    <3> QED
      BY <1>6, <2>1, <3>1, <3>2
  <2> QED
    BY <2>5, <2>6, <2>7
<1>13. ASSUME NEW r \in Replica, Conflict(r) PROVE LimitInv'
  <2> DEFINE c == call[r]
             again == [Call(c.kind, c.incident, c.at) EXCEPT !.tries = c.tries + 1]
  <2>1. At(r, "update") /\ acted' = acted
    BY <1>13 DEF Conflict
  <2>2. CASE call' = [call EXCEPT ![r] = again]
    <3>1. call'[r] = again
      BY <1>8, <2>2
    <3>2. call'[r].pc = "get" /\ call'[r].kind = c.kind /\ call'[r].incident = c.incident
      BY <3>1 DEF Call
    <3>3. OnItsWay(r)' => GoesOn(r)
      BY <1>3, <2>1, <3>2 DEF OnItsWay, Shown, At
    <3> HIDE DEF again, GoesOn
    <3> QED
      BY <1>5, <2>1, <2>2, <3>3
  <2>3. CASE call' = [call EXCEPT ![r] = Idle]
    BY <1>5, <1>7, <1>8, <2>1, <2>3
  <2> QED
    BY <1>13, <2>2, <2>3 DEF Conflict, Goes
<1>14. ASSUME NEW r \in Replica, Fail(r) PROVE LimitInv'
  <2>1. acted' = acted
    BY <1>14 DEF Fail
  <2>2. CASE call' = [call EXCEPT ![r] = Idle]
    BY <1>5, <1>7, <1>8, <2>1, <2>2
  <2>3. CASE call' = AfterWrite(r, Idle)
    <3>1. call'[r] = Idle
      BY <2>3 DEF AfterWrite
    <3> QED
      BY <1>6, <1>7, <2>1, <2>3, <3>1
  <2> QED
    BY <1>14, <2>2, <2>3 DEF Fail
<1>15. ASSUME NEW r \in Replica, Decide(r) PROVE LimitInv'
  <2> DEFINE c == call[r]
             next(kind) == Call(kind, c.incident, c.at)
  <2>1. At(r, "decide") /\ acted' = acted /\ OnItsWay(r)
    BY <1>15 DEF Decide, OnItsWay
  <2>2. CASE call' = [call EXCEPT ![r] = Idle]
    BY <1>5, <1>7, <1>8, <2>1, <2>2
  <2>3. CASE Allowed(c.snapshot) /\ call' = [call EXCEPT ![r] = next("action")]
    <3>1. call'[r] = next("action")
      BY <1>8, <2>3
    <3>2. call'[r].pc = "get" /\ call'[r].kind = "action" /\ call'[r].incident = c.incident
      BY <3>1 DEF Call
    <3>3. Shown(r) = c.snapshot.attemptsInWindow /\ Shown(r)' = MaximumAttempts - 1
      BY <2>1, <3>2 DEF Shown, At
    <3>4. Shown(r) <= Shown(r)'
      BY <1>3, <2>1, <2>3, <3>3, RemediationConstants DEF Allowed
    <3>5. GoesOn(r)
      BY <2>1, <3>2, <3>4
    <3> HIDE DEF next, GoesOn
    <3> QED
      BY <1>5, <2>1, <2>3, <3>5
  <2>4. CASE call' = [call EXCEPT ![r] = next("handled")]
    <3>1. call'[r] = next("handled")
      BY <1>8, <2>4
    <3>2. ~ OnItsWay(r)'
      BY <3>1 DEF OnItsWay, At, Call
    <3> HIDE DEF next
    <3> QED
      BY <1>5, <2>1, <2>4, <3>2
  <2> QED
    BY <1>15, <2>2, <2>3, <2>4 DEF Decide, Goes
<1>16. CASE Tick \/ UNCHANGED remediationVars
  <2>1. call' = call /\ acted' = acted
    BY <1>16 DEF Tick, remediationVars
  <2> HIDE DEF GoesOn
  <2> QED
    BY <1>2, <1>4, <2>1
<1> QED
  BY <1>10, <1>11, <1>12, <1>13, <1>14, <1>15, <1>16 DEF RemediationNext
-----------------------------------------------------------------------------
(* The theorems *)

(* Until counts all actions on a workload but one for each replica.         *)
LEMMA OvershootFollows ==
  ASSUME TypesInv, LimitInv
  PROVE  OvershootBounded
<1> SUFFICES ASSUME NEW t \in Target
             PROVE  Cardinality(InWindow(t)) < MaximumAttempts + Cardinality(ActingOn(t))
  BY DEF OvershootBounded
<1>1. PICK until \in Nat : UntilOK(t, until)
  BY DEF LimitInv
<1> DEFINE early == UpTo(t, until)
           late == InWindow(t) \ early
           by == [n \in InWindow(t) |-> acted[n].by]
           lateBy == [n \in late |-> acted[n].by]
<1>2. /\ IsFiniteSet(InWindow(t)) /\ Cardinality(InWindow(t)) \in Nat
      /\ Cardinality(early) \in Nat /\ InWindow(t) \subseteq DOMAIN acted
  BY WindowFinite
<1>3. InWindow(t) \cap early = early
  BY DEF UpTo
<1>4. Cardinality(late) = Cardinality(InWindow(t)) - Cardinality(early)
  BY <1>2, <1>3, FS_Difference
<1>5. ActingOn(t) = {by[n] : n \in InWindow(t)}
  BY DEF ActingOn
<1>6. by \in Surjection(InWindow(t), ActingOn(t))
  <2>1. by \in [InWindow(t) -> ActingOn(t)] /\ \A b \in ActingOn(t) : \E n \in InWindow(t) : by[n] = b
    BY <1>5
  <2> QED
    BY <2>1 DEF Surjection
<1>7. IsFiniteSet(ActingOn(t)) /\ Cardinality(ActingOn(t)) \in Nat
  BY <1>2, <1>6, FS_Surjection, FS_CardinalityType
<1>8. \A n \in late : n \in Nat /\ n > until
  BY <1>2, ActedLength DEF UpTo
<1>9. ASSUME NEW n \in late, NEW m \in late, lateBy[n] = lateBy[m]
      PROVE  n = m
  <2>1. ~ (n < m) /\ ~ (m < n)
    BY <1>1, <1>8, <1>9 DEF UntilOK
  <2> QED
    BY <1>8, <2>1
<1>10. lateBy \in Injection(late, ActingOn(t))
  <2>1. lateBy \in [late -> ActingOn(t)]
    BY DEF ActingOn
  <2> QED
    BY <1>9, <2>1 DEF Injection, IsInjective
<1>11. Cardinality(late) <= Cardinality(ActingOn(t))
  BY <1>7, <1>10, FS_Injection
<1>12. Cardinality(early) < MaximumAttempts
  BY <1>1 DEF UntilOK
<1> HIDE DEF early, late
<1> QED
  BY <1>2, <1>4, <1>7, <1>11, <1>12, RemediationConstants

LEMMA CountsFollow ==
  ASSUME TypesInv, EntriesInv
  PROVE  ActionsAreCounted
<1> SUFFICES ASSUME NEW t \in Target, NEW at \in Time, Within(at, now)
             PROVE  Cardinality({n \in DOMAIN acted : acted[n].target = t /\ acted[n].at = at})
                      <= Cardinality(AttemptsAt(state.attempts[t], at))
  BY DEF ActionsAreCounted, Within
<1> DEFINE actions == {n \in DOMAIN acted : acted[n].target = t /\ acted[n].at = at}
<1>1. actions \in SUBSET DOMAIN acted
  OBVIOUS
<1>2. \A n \in actions : acted[n].target = t /\ Within(acted[n].at, now)
  OBVIOUS
<1>3. AttemptsAt(state.attempts[t], at) \in SUBSET state.attempts[t]
  BY DEF AttemptsAt
<1>4. \A n \in actions, a \in state.attempts[t] :
        a.at = acted[n].at => a \in AttemptsAt(state.attempts[t], at)
  BY DEF AttemptsAt
<1> QED
  BY <1>1, <1>2, <1>3, <1>4, ActionsFitAttempts

LEMMA InitState == RemediationInit => TypesInv /\ EntriesInv /\ LimitInv
<1> SUFFICES ASSUME RemediationInit PROVE TypesInv /\ EntriesInv /\ LimitInv
  OBVIOUS
<1>1. acted = <<>> /\ DOMAIN acted = {} /\ Len(acted) = 0
  BY DEF RemediationInit
<1>2. state = EmptyState /\ now = 1 /\ call = [r \in Replica |-> Idle]
  BY DEF RemediationInit
<1>3. StateOK(EmptyState)
  BY FS_EmptySet DEF StateOK, AttemptsOK, EmptyState
<1>4. \A r \in Replica : CallOK(call[r]) /\ ~ OnItsWay(r)
  BY <1>2, IdleOK DEF OnItsWay, At, Idle
<1>5. now \in Time
  BY <1>2, RemediationConstants DEF Time
<1>6. TypesInv
  BY <1>1, <1>2, <1>3, <1>4, <1>5 DEF TypesInv
<1>7. EntriesInv
  <2>1. \A entry : EntriesOf(entry, acted, state.attempts, now)
    BY <1>1 DEF EntriesOf
  <2>2. [n \in {} |-> n] \in [DOMAIN acted -> Attempt]
    BY <1>1
  <2> QED
    BY <2>1, <2>2 DEF EntriesInv
<1>8. ASSUME NEW t \in Target
      PROVE  UntilOK(t, 0)
  <2>1. InWindow(t) = {} /\ UpTo(t, 0) = {}
    BY <1>1 DEF InWindow, UpTo
  <2>2. Cardinality(UpTo(t, 0)) = 0 /\ MaximumAttempts \in Nat \ {0}
    BY <2>1, FS_EmptySet, RemediationConstants
  <2>3. 0 <= Len(acted) /\ Cardinality(UpTo(t, 0)) < MaximumAttempts
    BY <1>1, <2>2
  <2> QED
    BY <2>1, <2>3 DEF UntilOK
<1>9. LimitInv
  BY <1>4, <1>8 DEF LimitInv
<1> QED
  BY <1>6, <1>7, <1>9

(* Record and Snapshot of configmap_remediation_state.go never lose what    *)
(* another replica wrote: each change is one whole call on what was there.  *)
THEOREM RemediationNeverLosesWrites == RemediationSpec => ChangesAreWholeCalls
<1> DEFINE Step ==
      \E r \in Replica : At(r, "update") /\ state' = Changed(call[r])
<1>1. RemediationInv /\ [RemediationNext]_remediationVars => [Step]_state
  BY WritesAreWholeCalls
<1>2. RemediationSpec => []RemediationInv
  BY InitRemediation, StepRemediation, PTL DEF RemediationSpec
<1>3. QED
  BY <1>1, <1>2, PTL DEF RemediationSpec, ChangesAreWholeCalls
(* The calls, the entries of the actions and what the replicas were shown:  *)
(* the inductive invariant behind the three theorems below.                 *)
THEOREM RemediationInvariant ==
  RemediationSpec => [](RemediationInv /\ TypesInv /\ EntriesInv /\ LimitInv)
<1> DEFINE Inv == RemediationInv /\ TypesInv /\ EntriesInv /\ LimitInv
<1>1. RemediationInit => Inv
  BY InitRemediation, InitState
<1>2. Inv /\ [RemediationNext]_remediationVars => Inv'
  <2> SUFFICES ASSUME Inv, [RemediationNext]_remediationVars PROVE Inv'
    OBVIOUS
  <2>1. RemediationInv' /\ TypesInv'
    BY StepRemediation, StepTypes
  <2>2. EntriesInv'
    BY StepEntries
  <2> QED
    BY <2>1, <2>2, StepLimit
<1> HIDE DEF Inv
<1>3. RemediationSpec => []Inv
  BY <1>1, <1>2, PTL DEF RemediationSpec
<1> QED
  BY <1>3 DEF Inv

(* The types of the ConfigMap's state (persistedRemediationState), of the   *)
(* calls of Record and Snapshot, and of the history.                        *)
THEOREM RemediationTypes == RemediationSpec => []RemediationTypeOK
<1>1. TypesInv => RemediationTypeOK
  <2> SUFFICES ASSUME TypesInv PROVE RemediationTypeOK
    OBVIOUS
  <2>1. \A r \in Replica : ~ At(r, "idle") => call[r].incident \in Incident /\ call[r].at \in Time
    BY DEF TypesInv, CallOK, At
  <2>2. /\ state.handledAt \in [Incident -> Time \cup {Never}]
        /\ state.lastActionAt \in [Target -> Time \cup {Never}]
        /\ \A t \in Target : state.attempts[t] \subseteq [at : Time, nth : Nat \ {0}]
    BY DEF TypesInv, StateOK, AttemptsOK, Attempt
  <2> QED
    BY <2>1, <2>2 DEF TypesInv, RemediationTypeOK
<1> QED
  BY <1>1, RemediationInvariant, PTL

(* No acknowledged action is forgotten within its window, however the       *)
(* calls of other replicas, their retries and prunePersistedRemediationState *)
(* come between.                                                            *)
THEOREM ActionsStayCounted == RemediationSpec => []ActionsAreCounted
<1>1. TypesInv /\ EntriesInv => ActionsAreCounted
  BY CountsFollow
<1> QED
  BY <1>1, RemediationInvariant, PTL

(* EvaluateDecision's limit of attempts is exceeded by at most one action   *)
(* for each further replica that acts on the workload within the window.    *)
THEOREM LimitHolds == RemediationSpec => []OvershootBounded
<1>1. TypesInv /\ LimitInv => OvershootBounded
  BY OvershootFollows
<1> QED
  BY <1>1, RemediationInvariant, PTL

=============================================================================
