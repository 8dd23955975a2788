----------------------- MODULE ActionAttemptStoreProofs -----------------------
(***************************************************************************)
(* What the store of action attempts guarantees for any set of keys,        *)
(* tokens and clock readings, and any callers.                              *)
(***************************************************************************)
EXTENDS ActionAttemptStore, TLAPS

(* Type and well-formedness support each other: that the version stays      *)
(* within 1 and 2 follows from an attempt changing only while STARTED, and  *)
(* STARTED attempts having version 1.                                       *)
AttemptInv == AttemptTypeOK /\ AttemptWellFormed

LEMMA AttemptInvInit == AttemptInit => AttemptInv
  BY TimeAssumption
  DEF AttemptInit, AttemptInv, AttemptTypeOK, AttemptWellFormed, AttemptExists, NoAttempt

(* What one call may do to the store: nothing, or begin an attempt that did *)
(* not exist, or end one that is STARTED.                                   *)
LEMMA BeginKeepsInv ==
  ASSUME AttemptInv, NEW k \in ActionKey, NEW token \in Version, NEW at \in Time,
         BeginAttempt(k, token, at)
  PROVE  AttemptInv'
<1>1. CASE AttemptExists(k)
  BY <1>1 DEF BeginAttempt, AttemptInv, AttemptTypeOK, AttemptWellFormed, AttemptExists
<1>2. CASE ~ AttemptExists(k)
  <2>1. NewAttempt(token, at) \in Attempt
    BY VersionAssumption, TimeAssumption DEF NewAttempt, Attempt, TerminalAttempt, CompletedStatus
  <2>2. attempts' = [attempts EXCEPT ![k] = NewAttempt(token, at)]
    BY <1>2 DEF BeginAttempt
  <2>3. AttemptTypeOK'
    BY <2>1, <2>2 DEF AttemptInv, AttemptTypeOK
  <2>4. AttemptWellFormed'
    BY <2>2, TimeAssumption
    DEF AttemptInv, AttemptTypeOK, AttemptWellFormed, AttemptExists, NewAttempt,
        TerminalAttempt, CompletedStatus
  <2>5. QED
    BY <2>3, <2>4 DEF AttemptInv
<1>3. QED
  BY <1>1, <1>2

(* Ending an attempt keeps its type. *)
LEMMA EndedAttemptType ==
  ASSUME NEW a \in Attempt, a.version = 1, NEW status \in TerminalAttempt,
         NEW at \in Time, NEW by \in Version \cup {0}
  PROVE  [a EXCEPT !.status = status, !.version = @ + 1,
                   !.finishedAt = at, !.recoveredBy = by] \in Attempt
<1>1. ASSUME NEW version \in {1, 2}
      PROVE  [a EXCEPT !.status = status, !.version = version,
                       !.finishedAt = at, !.recoveredBy = by] \in Attempt
  BY DEF Attempt
<1>2. a.version + 1 \in {1, 2}
  OBVIOUS
<1>3. QED
  BY <1>1, <1>2

LEMMA CompleteKeepsInv ==
  ASSUME AttemptInv, NEW k \in ActionKey, NEW token \in Version, NEW at \in Time,
         NEW version \in {1, 2}, NEW to \in CompletedStatus,
         CompleteAttempt(k, token, version, to, at)
  PROVE  AttemptInv'
<1> DEFINE a == attempts[k]
<1>1. CASE CompletionMatches(a, token, to, at)
  BY <1>1 DEF CompleteAttempt, AttemptInv, AttemptTypeOK, AttemptWellFormed, AttemptExists
<1>2. CASE ~ CompletionMatches(a, token, to, at)
  <2> DEFINE b == [a EXCEPT !.status = to, !.version = @ + 1, !.finishedAt = at, !.recoveredBy = 0]
  <2>1. AttemptExists(k) /\ a.status = "STARTED" /\ at >= a.startedAt
    BY <1>2 DEF CompleteAttempt, CompletionAccepted, CompletesAttempt
  <2>2. a \in Attempt /\ a.version = 1
    BY <2>1 DEF AttemptInv, AttemptTypeOK, AttemptWellFormed, AttemptExists, NoAttempt
  <2>3. attempts' = [attempts EXCEPT ![k] = b]
    BY <1>2 DEF CompleteAttempt, AttemptInv, AttemptTypeOK
  <2>4. b \in Attempt
    BY <2>2, EndedAttemptType DEF TerminalAttempt, CompletedStatus
  <2>5. AttemptTypeOK'
    BY <2>3, <2>4 DEF AttemptInv, AttemptTypeOK
  <2>6. AttemptWellFormed'
    BY <2>1, <2>2, <2>3, TimeAssumption
    DEF AttemptInv, AttemptTypeOK, AttemptWellFormed, AttemptExists, Attempt,
        TerminalAttempt, CompletedStatus
  <2>7. QED
    BY <2>5, <2>6 DEF AttemptInv
<1>3. QED
  BY <1>1, <1>2

LEMMA RecoverKeepsInv ==
  ASSUME AttemptInv, NEW k \in ActionKey, NEW token \in Version, NEW at \in Time,
         RecoverAttempt(k, token, at)
  PROVE  AttemptInv'
<1> DEFINE a == attempts[k]
<1>1. CASE RecoveryMatches(a, token, at)
  BY <1>1 DEF RecoverAttempt, AttemptInv, AttemptTypeOK, AttemptWellFormed, AttemptExists
<1>2. CASE ~ RecoveryMatches(a, token, at)
  <2> DEFINE b == [a EXCEPT !.status = "UNKNOWN", !.version = @ + 1,
                            !.finishedAt = at, !.recoveredBy = token]
  <2>1. AttemptExists(k) /\ a.status = "STARTED" /\ token > a.token /\ at >= a.startedAt
    BY <1>2 DEF RecoverAttempt, RecoveryAccepted, RecoversAttempt
  <2>2. a \in Attempt /\ a.version = 1
    BY <2>1 DEF AttemptInv, AttemptTypeOK, AttemptWellFormed, AttemptExists, NoAttempt
  <2>3. attempts' = [attempts EXCEPT ![k] = b]
    BY <1>2 DEF RecoverAttempt, AttemptInv, AttemptTypeOK
  <2>4. b \in Attempt
    BY <2>2, EndedAttemptType DEF TerminalAttempt, CompletedStatus
  <2>5. AttemptTypeOK'
    BY <2>3, <2>4 DEF AttemptInv, AttemptTypeOK
  <2>6. AttemptWellFormed'
    BY <2>1, <2>2, <2>3, TimeAssumption, VersionAssumption
    DEF AttemptInv, AttemptTypeOK, AttemptWellFormed, AttemptExists, Attempt,
        TerminalAttempt, CompletedStatus
  <2>7. QED
    BY <2>5, <2>6 DEF AttemptInv
<1>3. QED
  BY <1>1, <1>2

LEMMA AttemptStutterKeepsInv == AttemptInv /\ UNCHANGED attemptVars => AttemptInv'
  BY DEF AttemptInv, AttemptTypeOK, AttemptWellFormed, AttemptExists, attemptVars

LEMMA AttemptInvInductive == AttemptInv /\ [AttemptNext]_attemptVars => AttemptInv'
<1> SUFFICES ASSUME AttemptInv, [AttemptNext]_attemptVars PROVE AttemptInv'
  OBVIOUS
<1>1. CASE AttemptNext
  <2>1. PICK k \in ActionKey, token \in Version, at \in Time :
          \/ BeginAttempt(k, token, at)
          \/ \E version \in {1, 2}, to \in CompletedStatus :
               CompleteAttempt(k, token, version, to, at)
          \/ RecoverAttempt(k, token, at)
    BY <1>1 DEF AttemptNext
  <2>2. CASE BeginAttempt(k, token, at)
    BY <2>2, BeginKeepsInv
  <2>3. CASE \E version \in {1, 2}, to \in CompletedStatus :
               CompleteAttempt(k, token, version, to, at)
    BY <2>3, CompleteKeepsInv
  <2>4. CASE RecoverAttempt(k, token, at)
    BY <2>4, RecoverKeepsInv
  <2>5. QED
    BY <2>1, <2>2, <2>3, <2>4
<1>2. CASE UNCHANGED attemptVars
  BY <1>2, AttemptStutterKeepsInv
<1>3. QED
  BY <1>1, <1>2

(* For every set of keys, tokens and clock readings, whoever calls: the     *)
(* store keeps its type, and an attempt is well formed.                     *)
THEOREM AttemptInvariant == AttemptSpec => [](AttemptTypeOK /\ AttemptWellFormed)
<1>1. AttemptSpec => []AttemptInv
  BY AttemptInvInit, AttemptInvInductive, PTL DEF AttemptSpec
<1>2. QED
  BY <1>1, PTL DEF AttemptInv

-----------------------------------------------------------------------------
(* Terminal attempts are final.                                             *)

LEMMA FinalStep ==
  ASSUME AttemptInv, AttemptNext, NEW k \in ActionKey, AttemptExists(k)
  PROVE  /\ attempts'[k].token = attempts[k].token
         /\ attempts[k].status \in TerminalAttempt => attempts'[k] = attempts[k]
<1>1. PICK j \in ActionKey, token \in Version, at \in Time :
        \/ BeginAttempt(j, token, at)
        \/ \E version \in {1, 2}, to \in CompletedStatus :
             CompleteAttempt(j, token, version, to, at)
        \/ RecoverAttempt(j, token, at)
  BY DEF AttemptNext
<1>2. CASE BeginAttempt(j, token, at)
  BY <1>2 DEF BeginAttempt, AttemptInv, AttemptTypeOK, AttemptExists
<1>3. ASSUME NEW version \in {1, 2}, NEW to \in CompletedStatus,
             CompleteAttempt(j, token, version, to, at)
      PROVE  /\ attempts'[k].token = attempts[k].token
             /\ attempts[k].status \in TerminalAttempt => attempts'[k] = attempts[k]
  BY <1>3
  DEF CompleteAttempt, CompletionAccepted, CompletesAttempt, AttemptInv, AttemptTypeOK,
      AttemptExists, Attempt, NoAttempt, TerminalAttempt, CompletedStatus
<1>4. CASE RecoverAttempt(j, token, at)
  BY <1>4
  DEF RecoverAttempt, RecoveryAccepted, RecoversAttempt, AttemptInv, AttemptTypeOK,
      AttemptExists, Attempt, NoAttempt, TerminalAttempt, CompletedStatus
<1>5. QED
  BY <1>1, <1>2, <1>3, <1>4

(* Every stored attempt is one: its status, version, owner and times are of *)
(* the kinds the store writes.                                              *)
THEOREM AttemptTypes == AttemptSpec => []AttemptTypeOK
<1>1. AttemptTypeOK /\ AttemptWellFormed => AttemptTypeOK
  OBVIOUS
<1>2. QED
  BY <1>1, AttemptInvariant, PTL

(* A result, once persisted, is never replaced, and the owner of an attempt *)
(* never changes.                                                           *)
THEOREM TerminalIsFinal == AttemptSpec => TerminalAttemptIsFinal
<1> DEFINE Step ==
      \A k \in ActionKey : AttemptExists(k) =>
        /\ attempts'[k].token = attempts[k].token
        /\ attempts[k].status \in TerminalAttempt => attempts'[k] = attempts[k]
<1>1. AttemptInv /\ [AttemptNext]_attemptVars => [Step]_attemptVars
  BY FinalStep
<1>2. AttemptSpec => []AttemptInv
  BY AttemptInvInit, AttemptInvInductive, PTL DEF AttemptSpec
<1>3. QED
  BY <1>1, <1>2, PTL DEF AttemptSpec, TerminalAttemptIsFinal

(* A completion or a recovery that took effect is accepted when repeated.   *)
THEOREM RetryIsAccepted == AttemptSpec => ExactRetryAccepted
<1> DEFINE Step ==
      \A k \in ActionKey, token \in Version, at \in Time :
        /\ \A to \in CompletedStatus :
             (attempts'[k] # attempts[k] /\ CompleteAttempt(k, token, 1, to, at))
               => CompletionAccepted(k, token, 1, to, at)'
        /\ (attempts'[k] # attempts[k] /\ RecoverAttempt(k, token, at))
             => RecoveryAccepted(k, token, at)'
<1>1. ASSUME AttemptInv, NEW k \in ActionKey, NEW token \in Version, NEW at \in Time,
             NEW to \in CompletedStatus,
             attempts'[k] # attempts[k], CompleteAttempt(k, token, 1, to, at)
      PROVE  CompletionAccepted(k, token, 1, to, at)'
  <2>1. attempts[k] \in Attempt
    BY <1>1 DEF CompleteAttempt, CompletionAccepted, AttemptInv, AttemptTypeOK, AttemptExists, NoAttempt
  <2>2. CompletionMatches(attempts'[k], token, to, at)
    BY <1>1, <2>1
    DEF CompleteAttempt, CompletionAccepted, CompletesAttempt, CompletionMatches,
        AttemptInv, AttemptTypeOK, Attempt
  <2>3. QED
    BY <2>2 DEF CompletionAccepted, AttemptExists, CompletionMatches, CompletedStatus
<1>2. ASSUME AttemptInv, NEW k \in ActionKey, NEW token \in Version, NEW at \in Time,
             attempts'[k] # attempts[k], RecoverAttempt(k, token, at)
      PROVE  RecoveryAccepted(k, token, at)'
  <2>1. attempts[k] \in Attempt
    BY <1>2 DEF RecoverAttempt, RecoveryAccepted, AttemptInv, AttemptTypeOK, AttemptExists, NoAttempt
  <2>2. RecoveryMatches(attempts'[k], token, at)
    BY <1>2, <2>1
    DEF RecoverAttempt, RecoveryAccepted, RecoversAttempt, RecoveryMatches,
        AttemptInv, AttemptTypeOK, Attempt
  <2>3. QED
    BY <2>2 DEF RecoveryAccepted, AttemptExists, RecoveryMatches
<1>3. AttemptInv /\ [AttemptNext]_attemptVars => [Step]_attemptVars
  BY <1>1, <1>2
<1>4. AttemptSpec => []AttemptInv
  BY AttemptInvInit, AttemptInvInductive, PTL DEF AttemptSpec
<1>5. QED
  BY <1>3, <1>4, PTL DEF AttemptSpec, ExactRetryAccepted
=============================================================================
