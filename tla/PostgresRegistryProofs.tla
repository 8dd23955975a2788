------------------------ MODULE PostgresRegistryProofs ------------------------
(***************************************************************************)
(* What the tables hold and what open transactions may rely on, for any     *)
(* number of sessions, incidents, holders, plans and clock readings.        *)
(***************************************************************************)
EXTENDS PostgresRegistry, FiniteSetTheorems, FunctionTheorems, TLAPS

IncidentState == {"DETECTED", "DIAGNOSED", "WAITING_APPROVAL", "VERIFYING", "RESOLVED"}

IncidentRow ==
  [state: IncidentState, version: Version, key: Key, resolvedAt: BOOLEAN,
   binding: Plan \cup {NoPlan}, resolution: Plan \cup {NoPlan},
   holder: Holder \cup {NoHolder}, expiresAt: Nat]

ClaimRow == [version: Version, holder: Holder, acquiredAt: StoredTime, expiresAt: Nat]

AuditRow == [version: Version, from: IncidentState, to: IncidentState]

AttemptRow ==
  [status: {"STARTED"} \cup TerminalStatus, version: {1, 2}, token: Version,
   startedAt: StoredTime, finishedAt: StoredTime \cup {0}, recoveredBy: Version \cup {0}]

VerificationRow ==
  [status: {"PENDING"} \cup VerificationResult, version: {1, 2}, subject: Subject,
   startedAt: StoredTime, finishedAt: StoredTime \cup {0}]

TablesTyped ==
  /\ incidentRows \in [IncidentID -> IncidentRow \cup {NoRow}]
  /\ claimRows \in [IncidentID -> SUBSET ClaimRow]
  /\ transitionRows \in [IncidentID -> SUBSET AuditRow]
  /\ planRows \in SUBSET ActionKey
  /\ attemptRows \in [ActionKey -> AttemptRow \cup {NoAttemptRow}]
  /\ verificationRows \in [ActionKey -> VerificationRow \cup {NoVerificationRow}]

-----------------------------------------------------------------------------
(* What each kind of transaction looks like.                                *)

Lock ==
  [table: {"incidents"}, row: IncidentID, shared: {FALSE}]
  \cup [table: {"action_attempts"}, row: ActionKey, shared: BOOLEAN]
  \cup [table: {"verifications"}, row: ActionKey, shared: {FALSE}]

TransitionTx ==
  [op: {"transition"}, step: {"audit", "commit"}, k: ActionKey, command: {NoPlan},
   read: IncidentRow, holds: SUBSET Lock, audit: SUBSET AuditRow,
   incident: IncidentRow, attempt: {Unwritten}, verification: {Unwritten}]

BeginTx ==
  [op: {"begin"}, step: {"share", "enter", "audit", "insert", "commit"}, k: ActionKey,
   command: [now: Clock, subject: Subject, status: TerminalStatus, finishedAt: Clock],
   read: IncidentRow, holds: SUBSET Lock, audit: SUBSET AuditRow,
   incident: IncidentRow \cup {Unwritten}, attempt: {Unwritten},
   verification: VerificationRow \cup {Unwritten}]

CompleteTx ==
  [op: {"complete"}, step: {"verification", "result", "commit"}, k: ActionKey,
   command: [now: Clock, to: VerificationResult],
   read: IncidentRow, holds: SUBSET Lock, audit: SUBSET AuditRow,
   incident: {Unwritten}, attempt: {Unwritten},
   verification: VerificationRow \cup {Unwritten}]

ResolveTx ==
  [op: {"resolve"}, step: {"verification", "evidence", "resolve", "audit", "commit"},
   k: ActionKey, command: [now: Clock],
   read: IncidentRow, holds: SUBSET Lock, audit: SUBSET AuditRow,
   incident: IncidentRow \cup {Unwritten}, attempt: {Unwritten}, verification: {Unwritten}]

FinishTx ==
  [op: {"finish"}, step: {"update", "commit"}, k: ActionKey,
   command: [to: TerminalStatus, now: Clock, by: Version \cup {0}],
   read: AttemptRow, holds: SUBSET Lock, audit: SUBSET AuditRow,
   incident: {Unwritten}, attempt: AttemptRow \cup {Unwritten}, verification: {Unwritten}]

(* The locks a transaction has taken when it has come to its step.          *)
LocksTaken(t) ==
  CASE t.op = "transition" -> {IncidentLock(t.k.incident)}
    [] t.op = "begin" ->
         {IncidentLock(t.k.incident)} \cup
           (IF t.step = "share" THEN {} ELSE {AttemptLock(t.k, TRUE)})
    [] t.op = "complete" ->
         {IncidentLock(t.k.incident)} \cup
           (IF t.step = "verification" THEN {} ELSE {VerificationLock(t.k)})
    [] t.op = "resolve" ->
         {IncidentLock(t.k.incident)} \cup
           (IF t.step = "verification" THEN {} ELSE {VerificationLock(t.k)}) \cup
           (IF t.step \in {"verification", "evidence"} THEN {} ELSE {AttemptLock(t.k, FALSE)})
    [] t.op = "finish" -> {AttemptLock(t.k, FALSE)}

(* The audit row goes with the image of the incident.                       *)
AuditTaken(t) ==
  IF t.incident = Unwritten \/ t.step = "audit" THEN {}
  ELSE {[version |-> t.incident.version, from |-> t.read.state, to |-> t.incident.state]}

IncidentRead(t) == incidentRows[t.k.incident] = t.read

FenceHeld(t) ==
  /\ \E event \in claimRows[t.k.incident] :
       /\ event.version = t.read.version
       /\ event.holder = t.read.holder
       /\ event.expiresAt = t.read.expiresAt
  /\ t.command.now < t.read.expiresAt
  /\ t.read.state \in FencedStates(t.op)

TransitionOK(t) ==
  /\ t \in TransitionTx
  /\ IncidentRead(t)
  /\ <<t.read.state, t.incident.state>> \in ValidTransition
  /\ t.incident = [t.read EXCEPT
       !.state = t.incident.state, !.version = @ + 1,
       !.resolvedAt = (t.incident.state = "RESOLVED"),
       !.binding = BindingAfter(t.read, t.incident.state, t.k.plan)]

BeginOK(t) ==
  /\ t \in BeginTx
  /\ IncidentRead(t) /\ FenceHeld(t)
  /\ attemptRows[t.k].status = t.command.status
  /\ attemptRows[t.k].finishedAt = Stored(t.command.finishedAt)
  /\ t.step \in {"enter", "audit"} => t.read.state # "VERIFYING"
  /\ IF t.step = "audit" \/ (t.step \in {"insert", "commit"} /\ t.read.state # "VERIFYING")
       THEN t.incident = [t.read EXCEPT !.state = "VERIFYING", !.version = @ + 1]
       ELSE t.incident = Unwritten
  /\ t.step = "commit" => t.command.now >= t.command.finishedAt
  /\ IF t.verification # Unwritten
       THEN /\ t.step = "commit" /\ verificationRows[t.k].status = "NONE"
            /\ t.verification =
                 [status |-> "PENDING", version |-> 1, subject |-> t.command.subject,
                  startedAt |-> Stored(t.command.now), finishedAt |-> 0]
       ELSE t.step = "commit" => /\ verificationRows[t.k].status = "PENDING"
                                 /\ verificationRows[t.k].subject = t.command.subject

CompleteOK(t) ==
  /\ t \in CompleteTx
  /\ IncidentRead(t) /\ FenceHeld(t)
  /\ t.verification # Unwritten =>
       /\ t.step = "commit"
       /\ verificationRows[t.k].status = "PENDING"
       /\ t.command.now >= verificationRows[t.k].startedAt
       /\ t.verification = [verificationRows[t.k] EXCEPT
            !.status = t.command.to, !.version = @ + 1, !.finishedAt = Stored(t.command.now)]

ResolveOK(t) ==
  /\ t \in ResolveTx
  /\ IncidentRead(t) /\ FenceHeld(t)
  /\ t.step \in {"resolve", "audit", "commit"} => verificationRows[t.k].status = "RECOVERED"
  /\ IF t.step \in {"audit", "commit"}
       THEN t.incident = [t.read EXCEPT
              !.state = "RESOLVED", !.version = @ + 1, !.resolvedAt = TRUE,
              !.resolution = t.k.plan, !.binding = NoPlan]
       ELSE t.incident = Unwritten

Finishes(t) ==
  /\ t.read.status = "STARTED"
  /\ t.command.now >= t.read.startedAt
  /\ \/ t.command.by = 0 /\ t.command.to \in {"SUCCEEDED", "FAILED"}
     \/ /\ t.command.to = "UNKNOWN"
        /\ t.command.by > t.read.token
        /\ t.command.by \in AuditedVersions(t.k.incident)

FinishOK(t) ==
  /\ t \in FinishTx
  /\ attemptRows[t.k] = t.read
  /\ t.step = "update" => Finishes(t) /\ t.attempt = Unwritten
  /\ t.attempt # Unwritten =>
       /\ Finishes(t)
       /\ t.attempt = [t.read EXCEPT
            !.status = t.command.to, !.version = @ + 1,
            !.finishedAt = Stored(t.command.now), !.recoveredBy = t.command.by]

OpenOK(t) ==
  /\ t.holds = LocksTaken(t)
  /\ t.audit = AuditTaken(t)
  /\ TransitionOK(t) \/ BeginOK(t) \/ CompleteOK(t) \/ ResolveOK(t) \/ FinishOK(t)

SessionsOK ==
  /\ tx = [s \in Session |-> tx[s]]
  /\ \A s \in Session : tx[s] = NoTransaction \/ OpenOK(tx[s])

(* Sessions do not hold conflicting locks.                                  *)
LocksExclude ==
  \A s, t \in Session : s # t =>
    \A a \in tx[s].holds, b \in tx[t].holds : ~ Conflict(a, b)

-----------------------------------------------------------------------------
(* What the tables hold.                                                    *)

RowsAccepted ==
  /\ \A i \in IncidentID : RowExists(i) => IncidentRowOK(incidentRows[i])
  /\ \A k \in ActionKey :
       /\ attemptRows[k].status # "NONE" =>
            AttemptRowOK(attemptRows[k]) /\ attemptRows[k].token \in AuditedVersions(k.incident)
       /\ verificationRows[k].status # "NONE" => VerificationRowOK(verificationRows[k])

(* The partial unique index, and rows named by the order of insertion.      *)
RowsInSequence ==
  /\ \E n \in 0..MaxIncidents : Rows = 1..n
  /\ \A i, j \in Rows :
       (incidentRows[i].key = incidentRows[j].key
        /\ ~ incidentRows[i].resolvedAt /\ ~ incidentRows[j].resolvedAt) => i = j
  /\ \A i \in IncidentID \ Rows : claimRows[i] = {} /\ transitionRows[i] = {}

(* The lease in the incident's row is that of the latest audited claim.     *)
LeaseAudited ==
  \A i \in Rows :
    /\ incidentRows[i].holder = NoHolder => claimRows[i] = {}
    /\ incidentRows[i].holder # NoHolder =>
         \E event \in claimRows[i] :
           /\ \A other \in claimRows[i] : other.version <= event.version
           /\ event.holder = incidentRows[i].holder
           /\ event.expiresAt = incidentRows[i].expiresAt

(* The history, row by row.                                                 *)
HistoryOf(i) ==
  LET row == incidentRows[i]
      moves == transitionRows[i]
  IN
    /\ IsFiniteSet(moves)
    /\ AuditedVersions(i) \cup {m.version : m \in moves} = 2..row.version
    /\ \A m \in moves : m.version \notin AuditedVersions(i)
    /\ \A m, n \in moves : m.version = n.version => m = n
    /\ moves = {} => row.state = "DETECTED"
    /\ moves # {} => \E last \in moves :
         last.to = row.state /\ \A m \in moves : m.version <= last.version
    /\ \A m \in moves :
         \/ m.from = "DETECTED" /\ \A n \in moves : n.version >= m.version
         \/ \E n \in moves : n.to = m.from /\ n.version < m.version

HistoryKept == \A i \in Rows : HistoryOf(i)

PostgresInv ==
  /\ TablesTyped
  /\ SessionsOK
  /\ LocksExclude
  /\ RowsAccepted
  /\ RowsInSequence
  /\ LeaseAudited
  /\ HistoryKept

-----------------------------------------------------------------------------
(* Arithmetic of truncated times.                                           *)

LEMMA NextMultiple ==
  ASSUME NEW p \in Nat \ {0}, NEW x \in Nat, NEW y \in Nat, x < y
  PROVE  p * x + p <= p * y
<1>1. p * (y - x) >= p
  OBVIOUS
<1>2. p * (y - x) = p * y - p * x
  OBVIOUS
<1>3. p * x \in Nat /\ p * y \in Nat
  OBVIOUS
<1>4. QED
  BY <1>1, <1>2, <1>3

LEMMA Division ==
  ASSUME NEW a \in Nat, NEW p \in Nat \ {0}
  PROVE  a \div p \in Nat /\ a % p \in 0..(p - 1) /\ a = p * (a \div p) + (a % p)
  OBVIOUS

LEMMA RemainderIsUnique ==
  ASSUME NEW p \in Nat \ {0}, NEW x \in Nat, NEW r \in 0..(p - 1)
  PROVE  (p * x + r) % p = r
<1>1. PICK n \in Nat : n = p * x + r
  OBVIOUS
<1>2. PICK d \in Nat, q \in 0..(p - 1) : n = p * d + q /\ q = n % p
  BY Division
<1>3. p * x \in Nat /\ p * d \in Nat
  OBVIOUS
<1>4. ~ d < x
  BY <1>1, <1>2, <1>3, NextMultiple
<1>5. ~ x < d
  BY <1>1, <1>2, <1>3, NextMultiple
<1>6. d = x
  BY <1>4, <1>5
<1>7. q = r
  BY <1>1, <1>2, <1>3, <1>6
<1>8. QED
  BY <1>1, <1>2, <1>7

LEMMA StoredIsEarlier ==
  ASSUME NEW a \in Nat
  PROVE  Stored(a) \in Nat /\ Stored(a) <= a /\ \E d \in Nat : Stored(a) = Precision * d
<1>1. PICK d \in Nat, r \in 0..(Precision - 1) : a = Precision * d + r /\ r = a % Precision
  BY Division, PrecisionAssumption
<1>2. Precision * d \in Nat
  BY PrecisionAssumption
<1>3. Stored(a) = Precision * d
  BY <1>1, <1>2, PrecisionAssumption DEF Stored
<1>4. QED
  BY <1>1, <1>2, <1>3, PrecisionAssumption

(* Whoever reads a clock that is not behind a stored time stores one that   *)
(* is not behind it either.                                                 *)
LEMMA StoredKeepsOrder ==
  ASSUME NEW a \in Nat, NEW b \in Nat, Stored(a) <= b
  PROVE  Stored(a) <= Stored(b)
<1>1. PICK x \in Nat : Stored(a) = Precision * x
  BY StoredIsEarlier
<1>2. PICK y \in Nat, r \in 0..(Precision - 1) : b = Precision * y + r /\ r = b % Precision
  BY Division, PrecisionAssumption
<1>3. Precision * x \in Nat /\ Precision * y \in Nat
  BY PrecisionAssumption
<1>4. Stored(b) = Precision * y
  BY <1>2, <1>3, PrecisionAssumption DEF Stored
<1>5. ~ y < x
  BY <1>1, <1>2, <1>3, NextMultiple, PrecisionAssumption
<1>6. y = x \/ x < y
  BY <1>5
<1>7. QED
  BY <1>1, <1>3, <1>4, <1>6, NextMultiple, PrecisionAssumption

(* A lease is a whole number of units, so truncation does not shorten it.   *)
LEMMA StoredLease ==
  ASSUME NEW a \in Nat, NEW lease \in Lease
  PROVE  Stored(a + lease) = Stored(a) + lease
<1>1. lease \in Nat
  BY NumbersAssumption
<1>2. PICK x \in Nat, r \in 0..(Precision - 1) : a = Precision * x + r /\ r = a % Precision
  BY Division, PrecisionAssumption
<1>3. PICK y \in Nat : lease = Precision * y
  <2>1. lease = Precision * (lease \div Precision) + (lease % Precision) /\ lease \div Precision \in Nat
    BY <1>1, Division, PrecisionAssumption
  <2>2. lease % Precision = 0
    BY PrecisionAssumption
  <2>3. QED
    BY <2>1, <2>2, PrecisionAssumption
<1>4. Precision * (x + y) = Precision * x + Precision * y
  BY PrecisionAssumption
<1>5. (Precision * (x + y) + r) % Precision = r
  BY RemainderIsUnique, PrecisionAssumption
<1>6. Precision * x \in Nat /\ Precision * y \in Nat
  BY PrecisionAssumption
<1>7. a + lease = Precision * (x + y) + r
  BY <1>2, <1>3, <1>4, <1>6
<1>8. QED
  BY <1>1, <1>2, <1>5, <1>7 DEF Stored

LEMMA StoredTimes ==
  ASSUME NEW now \in Clock
  PROVE  /\ now \in Nat
         /\ Stored(now) \in StoredTime
         /\ Stored(now) \in Nat \ {0}
         /\ Stored(now) <= now
<1>1. now \in Nat
  BY PrecisionAssumption
<1>2. QED
  BY <1>1, StoredIsEarlier, PrecisionAssumption DEF StoredTime

LEMMA StoredTimesAreNumbers ==
  ASSUME NEW t \in StoredTime
  PROVE  t \in Nat \ {0} /\ \E a \in Nat : t = Stored(a)
<1>1. PICK a \in Clock : t = Stored(a)
  BY DEF StoredTime
<1>2. QED
  BY <1>1, StoredTimes

-----------------------------------------------------------------------------
(* Facts about rows and transactions.                                       *)

LEMMA ImagesAreWritten ==
  /\ \A row \in IncidentRow : row # Unwritten
  /\ \A row \in AttemptRow : row # Unwritten
  /\ \A row \in VerificationRow : row # Unwritten
  BY DEF IncidentRow, AttemptRow, VerificationRow, Unwritten

LEMMA ActionKeyOf ==
  \A k \in ActionKey : k.incident \in IncidentID /\ k.plan \in Plan
  BY PostgresActionKeyAssumption

LEMMA ExistingRow ==
  ASSUME TablesTyped, NEW i \in IncidentID
  PROVE  RowExists(i) <=> incidentRows[i] \in IncidentRow
<1>1. NoRow \notin IncidentRow /\ NoRow.state = "NONE"
  BY DEF NoRow, IncidentRow, IncidentState
<1>2. \A row \in IncidentRow : row.state # "NONE"
  BY DEF IncidentRow, IncidentState
<1>3. QED
  BY <1>1, <1>2 DEF TablesTyped, RowExists

LEMMA ExistingAttempt ==
  ASSUME TablesTyped, NEW k \in ActionKey
  PROVE  attemptRows[k].status # "NONE" <=> attemptRows[k] \in AttemptRow
<1>1. NoAttemptRow \notin AttemptRow /\ NoAttemptRow.status = "NONE"
  BY DEF NoAttemptRow, AttemptRow, TerminalStatus
<1>2. \A row \in AttemptRow : row.status # "NONE"
  BY DEF AttemptRow, TerminalStatus
<1>3. QED
  BY <1>1, <1>2 DEF TablesTyped

LEMMA ExistingVerification ==
  ASSUME TablesTyped, NEW k \in ActionKey
  PROVE  verificationRows[k].status # "NONE" <=> verificationRows[k] \in VerificationRow
<1>1. NoVerificationRow \notin VerificationRow /\ NoVerificationRow.status = "NONE"
  BY DEF NoVerificationRow, VerificationRow, VerificationResult
<1>2. \A row \in VerificationRow : row.status # "NONE"
  BY DEF VerificationRow, VerificationResult
<1>3. QED
  BY <1>1, <1>2 DEF TablesTyped

(* What all open transactions have in common.                               *)
Ops == {"transition", "begin", "complete", "resolve", "finish"}

LEMMA OpenTransaction ==
  ASSUME NEW s \in Session, OpenOK(tx[s])
  PROVE  /\ tx[s].op \in Ops
         /\ tx[s].k \in ActionKey
         /\ tx[s].step # "none"
         /\ tx[s].op = "transition" <=> TransitionOK(tx[s])
         /\ tx[s].op = "begin" <=> BeginOK(tx[s])
         /\ tx[s].op = "complete" <=> CompleteOK(tx[s])
         /\ tx[s].op = "resolve" <=> ResolveOK(tx[s])
         /\ tx[s].op = "finish" <=> FinishOK(tx[s])
<1>1. TransitionOK(tx[s]) => tx[s].op = "transition" /\ tx[s].k \in ActionKey /\ tx[s].step # "none"
  BY DEF TransitionOK, TransitionTx
<1>2. BeginOK(tx[s]) => tx[s].op = "begin" /\ tx[s].k \in ActionKey /\ tx[s].step # "none"
  BY DEF BeginOK, BeginTx
<1>3. CompleteOK(tx[s]) => tx[s].op = "complete" /\ tx[s].k \in ActionKey /\ tx[s].step # "none"
  BY DEF CompleteOK, CompleteTx
<1>4. ResolveOK(tx[s]) => tx[s].op = "resolve" /\ tx[s].k \in ActionKey /\ tx[s].step # "none"
  BY DEF ResolveOK, ResolveTx
<1>5. FinishOK(tx[s]) => tx[s].op = "finish" /\ tx[s].k \in ActionKey /\ tx[s].step # "none"
  BY DEF FinishOK, FinishTx
<1>6. QED
  BY <1>1, <1>2, <1>3, <1>4, <1>5 DEF OpenOK, Ops

LEMMA IdleTransaction ==
  /\ NoTransaction.step = "none"
  /\ NoTransaction.holds = {}
  /\ NoTransaction.op = "none"
  BY DEF NoTransaction

LEMMA ActiveIsOpen ==
  ASSUME SessionsOK, NEW s \in Session
  PROVE  /\ Active(s) <=> OpenOK(tx[s])
         /\ ~ Active(s) <=> tx[s] = NoTransaction
  BY OpenTransaction, IdleTransaction DEF SessionsOK, Active

(* An open transaction that is no attempt's owns its incident.              *)
LEMMA OwnsIncident ==
  ASSUME NEW s \in Session, OpenOK(tx[s]), tx[s].op # "finish"
  PROVE  /\ IncidentLock(tx[s].k.incident) \in tx[s].holds
         /\ incidentRows[tx[s].k.incident] = tx[s].read
         /\ tx[s].read \in IncidentRow
<1>1. tx[s].op \in Ops
  BY OpenTransaction
<1>2. IncidentLock(tx[s].k.incident) \in LocksTaken(tx[s])
  BY <1>1 DEF LocksTaken, Ops
<1>3. IncidentRead(tx[s]) /\ tx[s].read \in IncidentRow
  BY OpenTransaction
  DEF OpenOK, FinishOK, FinishTx, TransitionOK, TransitionTx, BeginOK, BeginTx, CompleteOK, CompleteTx, ResolveOK, ResolveTx
<1>4. QED
  BY <1>2, <1>3 DEF OpenOK, IncidentRead

LEMMA OwnsAttempt ==
  ASSUME NEW s \in Session, OpenOK(tx[s]), tx[s].op = "finish"
  PROVE  /\ AttemptLock(tx[s].k, FALSE) \in tx[s].holds
         /\ attemptRows[tx[s].k] = tx[s].read
         /\ tx[s].read \in AttemptRow
  BY OpenTransaction DEF OpenOK, LocksTaken, FinishOK, FinishTx

-----------------------------------------------------------------------------
(* A transaction that is left alone, with the rows it has locked, stays in  *)
(* order whatever else happens: claims are only added, an attempt that is   *)
(* over does not change.                                                    *)
Undisturbed(s) ==
  /\ tx'[s] = tx[s]
  /\ \A i \in IncidentID : claimRows[i] \subseteq claimRows'[i]
  /\ tx[s].op # "finish" =>
       /\ incidentRows'[tx[s].k.incident] = incidentRows[tx[s].k.incident]
       /\ verificationRows'[tx[s].k] = verificationRows[tx[s].k]
  /\ tx[s].op = "finish" \/ (tx[s].op = "begin" /\ attemptRows[tx[s].k].status \in TerminalStatus) =>
       attemptRows'[tx[s].k] = attemptRows[tx[s].k]

LEMMA UndisturbedStaysOpen ==
  ASSUME NEW s \in Session, OpenOK(tx[s]), Undisturbed(s)
  PROVE  OpenOK(tx[s])'
<1>1. tx'[s] = tx[s] /\ tx[s].k \in ActionKey /\ tx[s].k.incident \in IncidentID
  BY OpenTransaction, ActionKeyOf DEF Undisturbed
<1>2. (tx[s].holds = LocksTaken(tx[s]))' /\ (tx[s].audit = AuditTaken(tx[s]))'
  BY <1>1 DEF OpenOK, LocksTaken, AuditTaken
<1>3. tx[s].op # "finish" /\ FenceHeld(tx[s]) => FenceHeld(tx[s])'
  BY <1>1 DEF FenceHeld, Undisturbed
<1>4. TransitionOK(tx[s]) => TransitionOK(tx[s])'
  BY <1>1, OpenTransaction DEF TransitionOK, IncidentRead, Undisturbed
<1>5. BeginOK(tx[s]) => BeginOK(tx[s])'
  <2> SUFFICES ASSUME BeginOK(tx[s]) PROVE BeginOK(tx[s])'
    OBVIOUS
  <2>1. tx[s].op = "begin" /\ attemptRows[tx[s].k].status \in TerminalStatus
    BY OpenTransaction DEF BeginOK, BeginTx
  <2>2. FenceHeld(tx[s])'
    BY <1>3, <2>1 DEF BeginOK
  <2>3. QED
    BY <1>1, <2>1, <2>2 DEF BeginOK, IncidentRead, Undisturbed
<1>6. CompleteOK(tx[s]) => CompleteOK(tx[s])'
  <2> SUFFICES ASSUME CompleteOK(tx[s]) PROVE CompleteOK(tx[s])'
    OBVIOUS
  <2>1. tx[s].op = "complete"
    BY OpenTransaction
  <2>2. FenceHeld(tx[s])'
    BY <1>3, <2>1 DEF CompleteOK
  <2>3. QED
    BY <1>1, <2>1, <2>2 DEF CompleteOK, IncidentRead, Undisturbed
<1>7. ResolveOK(tx[s]) => ResolveOK(tx[s])'
  <2> SUFFICES ASSUME ResolveOK(tx[s]) PROVE ResolveOK(tx[s])'
    OBVIOUS
  <2>1. tx[s].op = "resolve"
    BY OpenTransaction
  <2>2. FenceHeld(tx[s])'
    BY <1>3, <2>1 DEF ResolveOK
  <2>3. QED
    BY <1>1, <2>1, <2>2 DEF ResolveOK, IncidentRead, Undisturbed
<1>8. FinishOK(tx[s]) => FinishOK(tx[s])'
  <2> SUFFICES ASSUME FinishOK(tx[s]) PROVE FinishOK(tx[s])'
    OBVIOUS
  <2>1. tx[s].op = "finish"
    BY OpenTransaction
  <2>2. AuditedVersions(tx[s].k.incident) \subseteq AuditedVersions(tx[s].k.incident)'
    BY <1>1 DEF AuditedVersions, Undisturbed
  <2>3. Finishes(tx[s]) => Finishes(tx[s])'
    BY <1>1, <2>2 DEF Finishes
  <2>4. QED
    BY <1>1, <2>1, <2>3 DEF FinishOK, Undisturbed
<1>9. QED
  BY <1>2, <1>4, <1>5, <1>6, <1>7, <1>8 DEF OpenOK
-----------------------------------------------------------------------------
(* How the step of one session leaves the others.                           *)

LEMMA OthersStayOpen ==
  ASSUME SessionsOK, NEW s \in Session, NEW next,
         tx' = [tx EXCEPT ![s] = next],
         next = NoTransaction \/ OpenOK(tx[s])',
         \A u \in Session \ {s} : OpenOK(tx[u]) => Undisturbed(u)
  PROVE  SessionsOK'
<1>1. tx' = [u \in Session |-> tx'[u]]
  BY DEF SessionsOK
<1>2. tx'[s] = next
  BY DEF SessionsOK
<1>3. ASSUME NEW u \in Session \ {s}
      PROVE  tx'[u] = NoTransaction \/ OpenOK(tx[u])'
  <2>1. tx'[u] = tx[u]
    BY DEF SessionsOK
  <2>2. tx[u] = NoTransaction \/ OpenOK(tx[u])
    BY DEF SessionsOK
  <2>3. QED
    BY <2>1, <2>2, UndisturbedStaysOpen
<1>4. QED
  BY <1>1, <1>2, <1>3 DEF SessionsOK

LEMMA AllStayOpen ==
  ASSUME SessionsOK, UNCHANGED tx,
         \A u \in Session : OpenOK(tx[u]) => Undisturbed(u)
  PROVE  SessionsOK'
<1>1. tx' = [u \in Session |-> tx'[u]]
  BY DEF SessionsOK
<1>2. ASSUME NEW u \in Session
      PROVE  tx'[u] = NoTransaction \/ OpenOK(tx[u])'
  BY UndisturbedStaysOpen DEF SessionsOK
<1>3. QED
  BY <1>1, <1>2 DEF SessionsOK

LEMMA LocksStayExclusive ==
  ASSUME SessionsOK, LocksExclude, NEW s \in Session, NEW next,
         tx' = [tx EXCEPT ![s] = next],
         \A lock \in next.holds \ tx[s].holds : Available(s, lock)
  PROVE  LocksExclude'
<1> SUFFICES ASSUME NEW u \in Session, NEW v \in Session, u # v,
                    NEW a \in tx'[u].holds, NEW b \in tx'[v].holds
             PROVE  ~ Conflict(a, b)
  BY DEF LocksExclude
<1>1. tx'[s] = next /\ \A w \in Session \ {s} : tx'[w] = tx[w]
  BY DEF SessionsOK
<1>2. Conflict(a, b) <=> Conflict(b, a)
  BY DEF Conflict
<1>3. CASE u = s
  BY <1>1, <1>2, <1>3 DEF LocksExclude, Available
<1>4. CASE v = s
  BY <1>1, <1>2, <1>4 DEF LocksExclude, Available
<1>5. CASE u # s /\ v # s
  BY <1>1, <1>5 DEF LocksExclude
<1>6. QED
  BY <1>3, <1>4, <1>5

TablesOK ==
  TablesTyped /\ RowsAccepted /\ RowsInSequence /\ LeaseAudited /\ HistoryKept

LEMMA TablesStay ==
  ASSUME TablesOK, UNCHANGED tables
  PROVE  TablesOK'
<1> USE DEF tables, TablesOK
<1>1. \A i \in IncidentID : (RowExists(i) <=> RowExists(i)') /\ AuditedVersions(i)' = AuditedVersions(i)
  BY DEF RowExists, AuditedVersions
<1>2. Rows' = Rows
  BY DEF Rows, RowExists
<1>3. TablesTyped'
  BY DEF TablesTyped
<1>4. RowsAccepted'
  BY <1>1, ActionKeyOf DEF RowsAccepted
<1>5. RowsInSequence'
  BY <1>2 DEF RowsInSequence
<1>6. LeaseAudited'
  BY <1>2 DEF LeaseAudited
<1>7. HistoryKept'
  BY <1>1, <1>2 DEF HistoryKept, HistoryOf, Rows
<1>8. QED
  BY <1>3, <1>4, <1>5, <1>6, <1>7

(* A step of a transaction that does not reach the tables.                  *)
LEMMA Continues ==
  ASSUME PostgresInv, NEW s \in Session, NEW next,
         Continue(s, next),
         next = NoTransaction \/ OpenOK(tx[s])',
         \A lock \in next.holds \ tx[s].holds : Available(s, lock)
  PROVE  PostgresInv'
<1>1. tx' = [tx EXCEPT ![s] = next] /\ UNCHANGED tables
  BY DEF Continue
<1>2. SessionsOK /\ LocksExclude /\ TablesOK
  BY DEF PostgresInv, TablesOK
<1>3. TablesOK'
  BY <1>1, <1>2, TablesStay
<1>4. \A u \in Session \ {s} : Undisturbed(u)
  BY <1>1, <1>2 DEF Undisturbed, SessionsOK, tables
<1>5. SessionsOK'
  BY <1>1, <1>2, <1>4, OthersStayOpen
<1>6. LocksExclude'
  BY <1>1, <1>2, LocksStayExclusive
<1>7. QED
  BY <1>3, <1>5, <1>6 DEF PostgresInv, TablesOK

LEMMA AbortStep ==
  ASSUME PostgresInv, NEW s \in Session, Abort(s)
  PROVE  PostgresInv'
<1>1. Continue(s, NoTransaction)
  BY DEF Abort
<1>2. NoTransaction.holds = {}
  BY IdleTransaction
<1>3. QED
  BY <1>1, <1>2, Continues
-----------------------------------------------------------------------------
(* Transactions begin in order.                                             *)

LEMMA StartsOpen ==
  ASSUME PostgresInv, NEW s \in Session, NEW next, NEW lock,
         ~ Active(s), Continue(s, next), next.holds = {lock}, Available(s, lock),
         OpenOK(tx[s])'
  PROVE  PostgresInv'
<1>1. \A l \in next.holds \ tx[s].holds : Available(s, l)
  OBVIOUS
<1>2. QED
  BY <1>1, Continues

LEMMA SessionGoesOn ==
  ASSUME SessionsOK, NEW s \in Session, NEW next, Continue(s, next)
  PROVE  tx'[s] = next /\ UNCHANGED <<incidentRows, claimRows, transitionRows, planRows,
                                      attemptRows, verificationRows>>
  BY DEF Continue, SessionsOK, tables

LEMMA VersionAfter ==
  ASSUME NEW row \in IncidentRow
  PROVE  row.version \in Nat \ {0} /\ row.version + 1 \in Nat
<1>1. row.version \in Version
  BY DEF IncidentRow
<1>2. row.version \in Nat \ {0}
  BY <1>1, NumbersAssumption
<1>3. QED
  BY <1>2

LEMMA StartTransitionStep ==
  ASSUME PostgresInv, NEW s \in Session, NEW k \in ActionKey, NEW version,
         NEW to \in {"DIAGNOSED", "WAITING_APPROVAL", "VERIFYING", "RESOLVED"},
         StartTransition(s, k, version, to)
  PROVE  PostgresInv'
<1>0. SessionsOK /\ TablesTyped /\ k.incident \in IncidentID /\ k.plan \in Plan
  BY ActionKeyOf DEF PostgresInv
<1>1. PICK row \in IncidentRow : row = incidentRows[k.incident]
  BY <1>0, ExistingRow DEF StartTransition
<1>2. PICK image : image = [row EXCEPT
        !.state = to, !.version = @ + 1, !.resolvedAt = (to = "RESOLVED"),
        !.binding = BindingAfter(row, to, k.plan)]
  OBVIOUS
<1>3. image \in IncidentRow /\ image.state = to
  <2>1. BindingAfter(row, to, k.plan) \in Plan \cup {NoPlan}
    BY <1>0 DEF BindingAfter, IncidentRow
  <2>2. row.version + 1 \in Version
    BY <1>1 DEF StartTransition
  <2>3. QED
    BY <1>2, <2>1, <2>2 DEF IncidentRow, IncidentState
<1>4. PICK next : next =
        [Start("transition", "audit", k, NoPlan, row, IncidentLock(k.incident)) EXCEPT !.incident = image]
  OBVIOUS
<1>5. /\ ~ Active(s)
      /\ Available(s, IncidentLock(k.incident))
      /\ <<row.state, to>> \in ValidTransition
      /\ Continue(s, next)
  BY <1>1, <1>2, <1>4 DEF StartTransition
<1>6. /\ next.op = "transition" /\ next.step = "audit" /\ next.k = k /\ next.read = row
      /\ next.holds = {IncidentLock(k.incident)} /\ next.audit = {} /\ next.incident = image
      /\ next \in TransitionTx
  <2>1. {IncidentLock(k.incident)} \in SUBSET Lock
    BY <1>0 DEF IncidentLock, Lock
  <2>2. next = [op |-> "transition", step |-> "audit", k |-> k, command |-> NoPlan, read |-> row,
                holds |-> {IncidentLock(k.incident)}, audit |-> {},
                incident |-> image, attempt |-> Unwritten, verification |-> Unwritten]
    BY <1>4 DEF Start
  <2>3. QED
    BY <1>3, <2>1, <2>2 DEF TransitionTx
<1>7. tx'[s] = next /\ incidentRows' = incidentRows
  BY <1>0, <1>5, SessionGoesOn
<1>8. TransitionOK(tx[s])'
  BY <1>1, <1>2, <1>3, <1>5, <1>6, <1>7 DEF TransitionOK, IncidentRead
<1>9. OpenOK(tx[s])'
  BY <1>6, <1>7, <1>8 DEF OpenOK, LocksTaken, AuditTaken
<1>10. QED
  BY <1>5, <1>6, <1>9, StartsOpen

LEMMA StartFencedStep ==
  ASSUME PostgresInv, NEW s \in Session, NEW op \in {"begin", "complete", "resolve"},
         NEW k \in ActionKey, NEW version, NEW holder \in Holder, NEW now \in Clock,
         StartFenced(s, op, k, version, holder, now)
  PROVE  PostgresInv'
<1>0. SessionsOK /\ TablesTyped /\ k.incident \in IncidentID /\ k.plan \in Plan
  BY ActionKeyOf DEF PostgresInv
<1>1. PICK row \in IncidentRow : row = incidentRows[k.incident]
  BY <1>0, ExistingRow DEF StartFenced
<1>2. PICK step : step = IF op = "begin" THEN "share" ELSE "verification"
  OBVIOUS
<1>3. PICK command \in FencedCommands(op, k, now) :
        Continue(s, Start(op, step, k, command, row, IncidentLock(k.incident)))
  BY <1>1, <1>2 DEF StartFenced
<1>4. PICK next : next = Start(op, step, k, command, row, IncidentLock(k.incident))
  OBVIOUS
<1>5. /\ ~ Active(s)
      /\ Available(s, IncidentLock(k.incident))
      /\ Fenced(k.incident, version, holder, now)
      /\ row.state \in FencedStates(op)
      /\ Continue(s, next)
  BY <1>1, <1>3, <1>4 DEF StartFenced
<1>6. /\ next.op = op /\ next.step = step /\ next.k = k /\ next.read = row
      /\ next.command = command
      /\ next.holds = {IncidentLock(k.incident)} /\ next.audit = {} /\ next.incident = Unwritten
      /\ next.attempt = Unwritten /\ next.verification = Unwritten
  BY <1>4 DEF Start
<1>7. {IncidentLock(k.incident)} \in SUBSET Lock
  BY <1>0 DEF IncidentLock, Lock
<1>8. tx'[s] = next
      /\ UNCHANGED <<incidentRows, claimRows, attemptRows, verificationRows>>
  BY <1>0, <1>5, SessionGoesOn
<1>9. command.now = now
  BY <1>3 DEF FencedCommands
<1>10. FenceHeld(tx[s])'
  BY <1>1, <1>5, <1>6, <1>8, <1>9 DEF FenceHeld, Fenced
<1>11. IncidentRead(tx[s])'
  BY <1>1, <1>6, <1>8 DEF IncidentRead
<1>12. CASE op = "begin"
  <2>1. PICK subject \in Subject, at \in Clock :
          /\ Stored(at) = attemptRows[k].finishedAt
          /\ command = [now |-> now, subject |-> subject,
                        status |-> attemptRows[k].status, finishedAt |-> at]
    BY <1>3, <1>12 DEF FencedCommands
  <2>2. attemptRows[k].finishedAt # 0
    BY <2>1, StoredTimes
  <2>3. attemptRows[k].status \in TerminalStatus
    <3>1. attemptRows[k] \in AttemptRow
      BY <1>0, <2>2, ExistingAttempt DEF TablesTyped, NoAttemptRow
    <3>2. attemptRows[k].status # "STARTED"
      BY <1>0, <2>2, <3>1, ExistingAttempt DEF PostgresInv, RowsAccepted, AttemptRowOK
    <3>3. QED
      BY <3>1, <3>2 DEF AttemptRow
  <2>4. command \in [now: Clock, subject: Subject, status: TerminalStatus, finishedAt: Clock]
    BY <2>1, <2>3
  <2>5. next \in BeginTx
    BY <1>2, <1>4, <1>7, <1>12, <2>4 DEF Start, BeginTx
  <2>6. BeginOK(tx[s])'
    BY <1>2, <1>6, <1>8, <1>10, <1>11, <1>12, <2>1, <2>5 DEF BeginOK
  <2>7. OpenOK(tx[s])'
    BY <1>2, <1>6, <1>8, <1>12, <2>6 DEF OpenOK, LocksTaken, AuditTaken
  <2>8. QED
    BY <1>5, <1>6, <2>7, StartsOpen
<1>13. CASE op = "complete"
  <2>1. command \in [now: Clock, to: VerificationResult]
    BY <1>3, <1>13 DEF FencedCommands
  <2>2. next \in CompleteTx
    BY <1>2, <1>4, <1>7, <1>13, <2>1 DEF Start, CompleteTx
  <2>3. CompleteOK(tx[s])'
    BY <1>6, <1>8, <1>10, <1>11, <2>2 DEF CompleteOK
  <2>4. OpenOK(tx[s])'
    BY <1>2, <1>6, <1>8, <1>13, <2>3 DEF OpenOK, LocksTaken, AuditTaken
  <2>5. QED
    BY <1>5, <1>6, <2>4, StartsOpen
<1>14. CASE op = "resolve"
  <2>1. command \in [now: Clock]
    BY <1>3, <1>14 DEF FencedCommands
  <2>2. next \in ResolveTx
    BY <1>2, <1>4, <1>7, <1>14, <2>1 DEF Start, ResolveTx
  <2>3. ResolveOK(tx[s])'
    BY <1>2, <1>6, <1>8, <1>10, <1>11, <1>14, <2>2 DEF ResolveOK
  <2>4. OpenOK(tx[s])'
    BY <1>2, <1>6, <1>8, <1>14, <2>3 DEF OpenOK, LocksTaken, AuditTaken
  <2>5. QED
    BY <1>5, <1>6, <2>4, StartsOpen
<1>15. QED
  BY <1>12, <1>13, <1>14
LEMMA AuditedAreVersions ==
  ASSUME TablesTyped, NEW i \in IncidentID
  PROVE  AuditedVersions(i) \subseteq Version
  BY DEF TablesTyped, AuditedVersions, ClaimRow

LEMMA FinishOpens ==
  ASSUME PostgresInv, NEW s \in Session, NEW k \in ActionKey, NEW step \in {"update", "commit"},
         NEW command \in [to: TerminalStatus, now: Clock, by: Version \cup {0}],
         NEW token \in AuditedVersions(k.incident),
         attemptRows[k].token = token \/ attemptRows[k].status = "STARTED",
         ~ Active(s), Available(s, AttemptLock(k, FALSE)),
         Continue(s, Start("finish", step, k, command, attemptRows[k], AttemptLock(k, FALSE))),
         step = "update" =>
           /\ attemptRows[k].status = "STARTED"
           /\ command.now >= attemptRows[k].startedAt
           /\ \/ command.by = 0 /\ command.to \in {"SUCCEEDED", "FAILED"}
              \/ /\ command.to = "UNKNOWN"
                 /\ command.by > attemptRows[k].token
                 /\ command.by \in AuditedVersions(k.incident)
  PROVE  PostgresInv'
<1>0. SessionsOK /\ TablesTyped /\ k.incident \in IncidentID
  BY ActionKeyOf DEF PostgresInv
<1>1. attemptRows[k] \in AttemptRow
  <2>1. token \in Nat \ {0}
    BY <1>0, AuditedAreVersions, NumbersAssumption
  <2>2. attemptRows[k].status # "NONE"
    BY <1>0, <2>1 DEF TablesTyped, NoAttemptRow, AttemptRow, TerminalStatus
  <2>3. QED
    BY <1>0, <2>2, ExistingAttempt
<1>2. PICK next : next = Start("finish", step, k, command, attemptRows[k], AttemptLock(k, FALSE))
  OBVIOUS
<1>3. /\ next.op = "finish" /\ next.step = step /\ next.k = k /\ next.read = attemptRows[k]
      /\ next.command = command
      /\ next.holds = {AttemptLock(k, FALSE)} /\ next.audit = {} /\ next.incident = Unwritten
      /\ next.attempt = Unwritten
  BY <1>2 DEF Start
<1>4. tx'[s] = next /\ UNCHANGED <<claimRows, attemptRows>>
  BY <1>0, <1>2, SessionGoesOn
<1>5. next \in FinishTx
  <2>1. {AttemptLock(k, FALSE)} \in SUBSET Lock
    BY DEF AttemptLock, Lock
  <2>2. QED
    BY <1>1, <1>2, <2>1 DEF Start, FinishTx
<1>6. FinishOK(tx[s])'
  <2>1. step = "update" => Finishes(tx[s])'
    BY <1>3, <1>4 DEF Finishes, AuditedVersions
  <2>2. QED
    BY <1>3, <1>4, <1>5, <2>1 DEF FinishOK
<1>7. OpenOK(tx[s])'
  BY <1>3, <1>4, <1>6 DEF OpenOK, LocksTaken, AuditTaken
<1>8. QED
  BY <1>2, <1>3, <1>7, StartsOpen

LEMMA StartCompletionStep ==
  ASSUME PostgresInv, NEW s \in Session, NEW k \in ActionKey, NEW now \in Clock,
         NEW token \in AuditedVersions(k.incident), NEW to \in {"SUCCEEDED", "FAILED"},
         StartCompletion(s, k, token, to, now)
  PROVE  PostgresInv'
<1>1. PICK step : step =
        IF CompletionMatches(attemptRows[k], token, to, now) THEN "commit" ELSE "update"
  OBVIOUS
<1>2. PICK command : command = [to |-> to, now |-> now, by |-> 0]
  OBVIOUS
<1>3. command \in [to: TerminalStatus, now: Clock, by: Version \cup {0}]
  BY <1>2 DEF TerminalStatus
<1>4. /\ ~ Active(s) /\ Available(s, AttemptLock(k, FALSE))
      /\ attemptRows[k].token = token
      /\ Continue(s, Start("finish", step, k, command, attemptRows[k], AttemptLock(k, FALSE)))
  BY <1>1, <1>2 DEF StartCompletion
<1>5. step = "update" => attemptRows[k].status = "STARTED" /\ now >= attemptRows[k].startedAt
  BY <1>1 DEF StartCompletion
<1>6. step \in {"update", "commit"} /\ command.by = 0 /\ command.to = to /\ command.now = now
  BY <1>1, <1>2
<1>7. QED
  BY <1>3, <1>4, <1>5, <1>6, FinishOpens

LEMMA StartRecoveryStep ==
  ASSUME PostgresInv, NEW s \in Session, NEW k \in ActionKey, NEW now \in Clock,
         NEW token \in AuditedVersions(k.incident), StartRecovery(s, k, token, now)
  PROVE  PostgresInv'
<1>1. PICK command : command = [to |-> "UNKNOWN", now |-> now, by |-> token]
  OBVIOUS
<1>2. command \in [to: TerminalStatus, now: Clock, by: Version \cup {0}]
  <2>1. token \in Version
    BY AuditedAreVersions, ActionKeyOf DEF PostgresInv
  <2>2. QED
    BY <1>1, <2>1 DEF TerminalStatus
<1>3. /\ ~ Active(s) /\ Available(s, AttemptLock(k, FALSE))
      /\ attemptRows[k].status = "STARTED"
      /\ token > attemptRows[k].token /\ now >= attemptRows[k].startedAt
      /\ Continue(s, Start("finish", "update", k, command, attemptRows[k], AttemptLock(k, FALSE)))
  BY <1>1 DEF StartRecovery
<1>4. command.by = token /\ command.to = "UNKNOWN" /\ command.now = now
  BY <1>1
<1>5. QED
  BY <1>2, <1>3, <1>4, FinishOpens

-----------------------------------------------------------------------------
(* Open transactions go on in order.                                        *)

LEMMA AdvanceKeeps ==
  ASSUME PostgresInv, NEW s \in Session, NEW next, Advance(s, next),
         next.holds = tx[s].holds, "holds" \in DOMAIN next,
         OpenOK(tx[s])'
  PROVE  PostgresInv'
<1>1. PICK after : after = [next EXCEPT !.holds = @ \cup Wants(s)]
  OBVIOUS
<1>2. Continue(s, after) /\ Granted(s)
  BY <1>1 DEF Advance
<1>3. after.holds = tx[s].holds \cup Wants(s)
  BY <1>1
<1>4. \A lock \in after.holds \ tx[s].holds : Available(s, lock)
  BY <1>2, <1>3 DEF Granted
<1>5. QED
  BY <1>2, <1>4, Continues

LEMMA AdvancedSession ==
  ASSUME SessionsOK, NEW s \in Session, NEW next, Advance(s, next)
  PROVE  /\ tx'[s] = [next EXCEPT !.holds = @ \cup Wants(s)]
         /\ UNCHANGED <<incidentRows, claimRows, transitionRows, planRows,
                        attemptRows, verificationRows>>
  BY SessionGoesOn DEF Advance

LEMMA TransactionAt ==
  ASSUME SessionsOK, NEW s \in Session, NEW step, At(s, step), step # "none"
  PROVE  /\ OpenOK(tx[s])
         /\ tx[s].k \in ActionKey /\ tx[s].k.incident \in IncidentID
         /\ step \in {"share", "enter", "insert"} => BeginOK(tx[s])
         /\ step \in {"evidence", "resolve"} => ResolveOK(tx[s])
         /\ step = "result" => CompleteOK(tx[s])
         /\ step = "update" => FinishOK(tx[s])
         /\ step = "verification" => CompleteOK(tx[s]) \/ ResolveOK(tx[s])
         /\ step = "audit" => TransitionOK(tx[s]) \/ BeginOK(tx[s]) \/ ResolveOK(tx[s])
<1>1. OpenOK(tx[s])
  BY IdleTransaction DEF SessionsOK, At
<1>2. tx[s].k \in ActionKey /\ tx[s].k.incident \in IncidentID
  BY <1>1, OpenTransaction, ActionKeyOf
<1>3. TransitionOK(tx[s]) => step \in {"audit", "commit"}
  BY DEF TransitionOK, TransitionTx, At
<1>4. BeginOK(tx[s]) => step \in {"share", "enter", "audit", "insert", "commit"}
  BY DEF BeginOK, BeginTx, At
<1>5. CompleteOK(tx[s]) => step \in {"verification", "result", "commit"}
  BY DEF CompleteOK, CompleteTx, At
<1>6. ResolveOK(tx[s]) => step \in {"verification", "evidence", "resolve", "audit", "commit"}
  BY DEF ResolveOK, ResolveTx, At
<1>7. FinishOK(tx[s]) => step \in {"update", "commit"}
  BY DEF FinishOK, FinishTx, At
<1>8. QED
  BY <1>1, <1>2, <1>3, <1>4, <1>5, <1>6, <1>7 DEF OpenOK

SameButLocks(a, b) ==
  /\ a.op = b.op /\ a.step = b.step /\ a.k = b.k /\ a.command = b.command /\ a.read = b.read
  /\ a.audit = b.audit /\ a.incident = b.incident
  /\ a.attempt = b.attempt /\ a.verification = b.verification

(* The next transaction record is in order once its locks are added.        *)
LEMMA NextLocks ==
  ASSUME SessionsOK, NEW s \in Session, NEW step, At(s, step), step # "none"
  PROVE  /\ Wants(s) \in SUBSET Lock
         /\ step = "share" => Wants(s) = {AttemptLock(tx[s].k, TRUE)}
         /\ step = "verification" => Wants(s) = {VerificationLock(tx[s].k)}
         /\ step = "evidence" => Wants(s) = {AttemptLock(tx[s].k, FALSE)}
<1>1. tx[s].k \in ActionKey
  BY TransactionAt
<1>2. /\ AttemptLock(tx[s].k, TRUE) \in Lock
      /\ AttemptLock(tx[s].k, FALSE) \in Lock
      /\ VerificationLock(tx[s].k) \in Lock
  BY <1>1 DEF AttemptLock, VerificationLock, Lock
<1>3. QED
  BY <1>2 DEF Wants, At

LEMMA TransitionTxAdvances ==
  ASSUME SessionsOK, NEW s \in Session, OpenOK(tx[s]),
         NEW next \in TransitionTx, Advance(s, next)
  PROVE  tx'[s] \in TransitionTx /\ tx'[s].holds = next.holds \cup Wants(s) /\ SameButLocks(tx'[s], next)
<1>1. Wants(s) \in SUBSET Lock
  BY OpenTransaction, NextLocks DEF At
<1>2. PICK holds \in SUBSET Lock : holds = next.holds \cup Wants(s)
  BY <1>1 DEF TransitionTx
<1>3. tx'[s] = [next EXCEPT !.holds = holds]
  BY <1>2, AdvancedSession
<1>4. QED
  BY <1>2, <1>3 DEF TransitionTx, SameButLocks

LEMMA BeginTxAdvances ==
  ASSUME SessionsOK, NEW s \in Session, OpenOK(tx[s]),
         NEW next \in BeginTx, Advance(s, next)
  PROVE  tx'[s] \in BeginTx /\ tx'[s].holds = next.holds \cup Wants(s) /\ SameButLocks(tx'[s], next)
<1>1. Wants(s) \in SUBSET Lock
  BY OpenTransaction, NextLocks DEF At
<1>2. PICK holds \in SUBSET Lock : holds = next.holds \cup Wants(s)
  BY <1>1 DEF BeginTx
<1>3. tx'[s] = [next EXCEPT !.holds = holds]
  BY <1>2, AdvancedSession
<1>4. QED
  BY <1>2, <1>3 DEF BeginTx, SameButLocks

LEMMA CompleteTxAdvances ==
  ASSUME SessionsOK, NEW s \in Session, OpenOK(tx[s]),
         NEW next \in CompleteTx, Advance(s, next)
  PROVE  tx'[s] \in CompleteTx /\ tx'[s].holds = next.holds \cup Wants(s) /\ SameButLocks(tx'[s], next)
<1>1. Wants(s) \in SUBSET Lock
  BY OpenTransaction, NextLocks DEF At
<1>2. PICK holds \in SUBSET Lock : holds = next.holds \cup Wants(s)
  BY <1>1 DEF CompleteTx
<1>3. tx'[s] = [next EXCEPT !.holds = holds]
  BY <1>2, AdvancedSession
<1>4. QED
  BY <1>2, <1>3 DEF CompleteTx, SameButLocks

LEMMA ResolveTxAdvances ==
  ASSUME SessionsOK, NEW s \in Session, OpenOK(tx[s]),
         NEW next \in ResolveTx, Advance(s, next)
  PROVE  tx'[s] \in ResolveTx /\ tx'[s].holds = next.holds \cup Wants(s) /\ SameButLocks(tx'[s], next)
<1>1. Wants(s) \in SUBSET Lock
  BY OpenTransaction, NextLocks DEF At
<1>2. PICK holds \in SUBSET Lock : holds = next.holds \cup Wants(s)
  BY <1>1 DEF ResolveTx
<1>3. tx'[s] = [next EXCEPT !.holds = holds]
  BY <1>2, AdvancedSession
<1>4. QED
  BY <1>2, <1>3 DEF ResolveTx, SameButLocks

LEMMA FinishTxAdvances ==
  ASSUME SessionsOK, NEW s \in Session, OpenOK(tx[s]),
         NEW next \in FinishTx, Advance(s, next)
  PROVE  tx'[s] \in FinishTx /\ tx'[s].holds = next.holds \cup Wants(s) /\ SameButLocks(tx'[s], next)
<1>1. Wants(s) \in SUBSET Lock
  BY OpenTransaction, NextLocks DEF At
<1>2. PICK holds \in SUBSET Lock : holds = next.holds \cup Wants(s)
  BY <1>1 DEF FinishTx
<1>3. tx'[s] = [next EXCEPT !.holds = holds]
  BY <1>2, AdvancedSession
<1>4. QED
  BY <1>2, <1>3 DEF FinishTx, SameButLocks

LEMMA DecisionKept ==
  ASSUME NEW s \in Session,
         UNCHANGED <<incidentRows, claimRows>>,
         tx'[s].op = tx[s].op, tx'[s].k = tx[s].k,
         tx'[s].command = tx[s].command, tx'[s].read = tx[s].read
  PROVE  /\ IncidentRead(tx[s]) => IncidentRead(tx[s])'
         /\ FenceHeld(tx[s]) => FenceHeld(tx[s])'
  BY DEF IncidentRead, FenceHeld

LEMMA ShareAttemptStep ==
  ASSUME PostgresInv, NEW s \in Session, ShareAttempt(s)
  PROVE  PostgresInv'
<1>0. SessionsOK /\ At(s, "share")
  BY DEF PostgresInv, ShareAttempt
<1>1. PICK t : t = tx[s]
  OBVIOUS
<1>2. OpenOK(tx[s]) /\ BeginOK(tx[s]) /\ t \in BeginTx /\ t.op = "begin" /\ t.step = "share"
  BY <1>0, <1>1, TransactionAt DEF BeginOK, BeginTx, At
<1>3. PICK next : next = [tx[s] EXCEPT
        !.step = IF tx[s].read.state = "VERIFYING" THEN "insert" ELSE "enter"]
  OBVIOUS
<1>4. Advance(s, next)
  BY <1>3 DEF ShareAttempt
<1>5. /\ next \in BeginTx
      /\ next.step = IF t.read.state = "VERIFYING" THEN "insert" ELSE "enter"
      /\ next.op = "begin" /\ next.k = t.k /\ next.command = t.command /\ next.read = t.read
      /\ next.audit = t.audit /\ next.incident = t.incident
      /\ next.verification = t.verification /\ next.holds = t.holds
  BY <1>1, <1>2, <1>3 DEF BeginTx
<1>6. /\ tx'[s] \in BeginTx /\ SameButLocks(tx'[s], next)
      /\ tx'[s].holds = t.holds \cup {AttemptLock(t.k, TRUE)}
      /\ UNCHANGED <<incidentRows, claimRows, attemptRows, verificationRows>>
  <2>1. Wants(s) = {AttemptLock(t.k, TRUE)}
    BY <1>0, <1>1, NextLocks
  <2>2. UNCHANGED <<incidentRows, claimRows, attemptRows, verificationRows>>
    BY <1>0, <1>4, AdvancedSession
  <2>3. tx'[s] \in BeginTx /\ tx'[s].holds = next.holds \cup Wants(s) /\ SameButLocks(tx'[s], next)
    BY <1>0, <1>2, <1>4, <1>5, BeginTxAdvances
  <2>4. QED
    BY <1>5, <2>1, <2>2, <2>3
<1>7. BeginOK(tx[s])'
  BY <1>1, <1>2, <1>5, <1>6, DecisionKept DEF BeginOK, SameButLocks
<1>8. OpenOK(tx[s])'
  BY <1>1, <1>2, <1>5, <1>6, <1>7 DEF OpenOK, LocksTaken, AuditTaken, BeginOK, SameButLocks
<1>9. next.holds = tx[s].holds /\ "holds" \in DOMAIN next
  BY <1>1, <1>5 DEF BeginTx
<1>10. QED
  BY <1>4, <1>8, <1>9, AdvanceKeeps

LEMMA EnterVerifyingStep ==
  ASSUME PostgresInv, NEW s \in Session, EnterVerifying(s)
  PROVE  PostgresInv'
<1>0. SessionsOK /\ At(s, "enter")
  BY DEF PostgresInv, EnterVerifying
<1>1. PICK t : t = tx[s]
  OBVIOUS
<1>2. OpenOK(tx[s]) /\ BeginOK(tx[s]) /\ t \in BeginTx /\ t.op = "begin" /\ t.step = "enter"
  BY <1>0, <1>1, TransactionAt DEF BeginOK, BeginTx, At
<1>3. PICK row \in IncidentRow : row = incidentRows[t.k.incident] /\ row = t.read
  BY <1>1, <1>2 DEF BeginOK, IncidentRead, BeginTx
<1>4. PICK image : image = [row EXCEPT !.state = "VERIFYING", !.version = @ + 1]
  OBVIOUS
<1>5. image \in IncidentRow
  <2>1. row.version + 1 \in Version
    BY <1>1, <1>3 DEF EnterVerifying
  <2>2. QED
    BY <1>4, <2>1 DEF IncidentRow, IncidentState
<1>6. PICK next : next = [tx[s] EXCEPT !.step = "audit", !.incident = image]
  OBVIOUS
<1>7. Advance(s, next)
  BY <1>1, <1>3, <1>4, <1>6 DEF EnterVerifying
<1>8. /\ next \in BeginTx
      /\ next.step = "audit" /\ next.incident = image
      /\ next.op = "begin" /\ next.k = t.k /\ next.command = t.command /\ next.read = t.read
      /\ next.audit = t.audit /\ next.verification = t.verification /\ next.holds = t.holds
  BY <1>1, <1>2, <1>5, <1>6 DEF BeginTx
<1>9. /\ tx'[s] \in BeginTx /\ SameButLocks(tx'[s], next)
      /\ tx'[s].holds = t.holds
      /\ UNCHANGED <<incidentRows, claimRows, attemptRows, verificationRows>>
  <2>1. Wants(s) = {}
    BY <1>0 DEF Wants, At
  <2>2. UNCHANGED <<incidentRows, claimRows, attemptRows, verificationRows>>
    BY <1>0, <1>7, AdvancedSession
  <2>3. tx'[s] \in BeginTx /\ tx'[s].holds = next.holds \cup Wants(s) /\ SameButLocks(tx'[s], next)
    BY <1>0, <1>2, <1>7, <1>8, BeginTxAdvances
  <2>4. QED
    BY <1>8, <2>1, <2>2, <2>3
<1>10. BeginOK(tx[s])'
  <2>1. /\ tx'[s].op = tx[s].op /\ tx'[s].k = tx[s].k
        /\ tx'[s].command = tx[s].command /\ tx'[s].read = tx[s].read
        /\ tx'[s].step = "audit" /\ tx'[s].incident = image
        /\ tx'[s].verification = tx[s].verification
    BY <1>1, <1>2, <1>8, <1>9 DEF SameButLocks
  <2>2. IncidentRead(tx[s])' /\ FenceHeld(tx[s])'
    BY <1>2, <1>9, <2>1, DecisionKept DEF BeginOK
  <2>3. tx[s].read.state # "VERIFYING" /\ image = [tx[s].read EXCEPT !.state = "VERIFYING", !.version = @ + 1]
    BY <1>1, <1>2, <1>3, <1>4 DEF BeginOK
  <2>4. tx[s].verification = Unwritten
    BY <1>1, <1>2 DEF BeginOK
  <2>5. QED
    BY <1>2, <1>9, <2>1, <2>2, <2>3, <2>4 DEF BeginOK
<1>11. OpenOK(tx[s])'
  <2>1. t.incident = Unwritten
    BY <1>1, <1>2 DEF BeginOK
  <2>2. t.audit = {} /\ t.holds = {IncidentLock(t.k.incident), AttemptLock(t.k, TRUE)}
    BY <1>1, <1>2, <2>1 DEF OpenOK, LocksTaken, AuditTaken
  <2>3. (tx[s].holds = LocksTaken(tx[s]))' /\ (tx[s].audit = AuditTaken(tx[s]))'
    BY <1>8, <1>9, <2>2 DEF LocksTaken, AuditTaken, SameButLocks
  <2>4. QED
    BY <1>10, <2>3 DEF OpenOK
<1>12. next.holds = tx[s].holds /\ "holds" \in DOMAIN next
  BY <1>1, <1>8 DEF BeginTx
<1>13. QED
  BY <1>7, <1>11, <1>12, AdvanceKeeps
(* An image of a row is never taken for an unwritten one.                   *)
LEMMA ImagesDiffer ==
  ASSUME NEW row \in IncidentRow, NEW plan
  PROVE  /\ [row EXCEPT !.state = "VERIFYING", !.version = @ + 1] # Unwritten
         /\ [row EXCEPT !.state = "RESOLVED", !.version = @ + 1, !.resolvedAt = TRUE,
                        !.resolution = plan, !.binding = NoPlan] # Unwritten
<1>1. DOMAIN Unwritten = {"unwritten"}
  BY DEF Unwritten
<1>2. DOMAIN row = {"state", "version", "key", "resolvedAt", "binding", "resolution", "holder", "expiresAt"}
  BY DEF IncidentRow
<1>3. DOMAIN row # {"unwritten"}
  BY <1>2
<1>4. QED
  BY <1>1, <1>3

LEMMA WrittenImage ==
  ASSUME NEW s \in Session, OpenOK(tx[s]), tx[s].step = "audit"
  PROVE  /\ tx[s].incident \in IncidentRow
         /\ tx[s].read \in IncidentRow
         /\ tx[s].incident # Unwritten
         /\ TransitionRow(s) \in AuditRow
<1>1. tx[s].op # "finish" /\ tx[s].op # "complete"
  BY OpenTransaction DEF FinishOK, FinishTx, CompleteOK, CompleteTx
<1>2. tx[s].read \in IncidentRow
  BY <1>1, OwnsIncident
<1>3. tx[s].incident \in IncidentRow
  <2>1. CASE TransitionOK(tx[s])
    BY <2>1 DEF TransitionOK, TransitionTx
  <2>2. CASE BeginOK(tx[s])
    BY <1>2, <2>2, ImagesDiffer DEF BeginOK, BeginTx
  <2>3. CASE ResolveOK(tx[s])
    BY <1>2, <2>3, ImagesDiffer DEF ResolveOK, ResolveTx
  <2>4. QED
    BY <1>1, <2>1, <2>2, <2>3, OpenTransaction DEF OpenOK
<1>4. tx[s].incident # Unwritten
  BY <1>3, ImagesAreWritten
<1>5. TransitionRow(s) \in AuditRow
  BY <1>2, <1>3 DEF TransitionRow, AuditRow, IncidentRow
<1>6. QED
  BY <1>2, <1>3, <1>4, <1>5

LEMMA InsertAuditStep ==
  ASSUME PostgresInv, NEW s \in Session, InsertAudit(s)
  PROVE  PostgresInv'
<1>0. SessionsOK /\ At(s, "audit") /\ OpenOK(tx[s])
  BY TransactionAt DEF PostgresInv, InsertAudit
<1>1. PICK t : t = tx[s]
  OBVIOUS
<1>2. PICK row \in AuditRow : row = TransitionRow(s)
  BY <1>0, WrittenImage DEF At
<1>3. row = [version |-> t.incident.version, from |-> t.read.state, to |-> t.incident.state]
      /\ t.incident # Unwritten /\ t.step = "audit"
  BY <1>0, <1>1, <1>2, WrittenImage DEF TransitionRow, At
<1>4. Wants(s) = {}
  BY <1>0 DEF Wants, At
<1>5. PICK next : next = [tx[s] EXCEPT
        !.step = IF tx[s].op = "begin" THEN "insert" ELSE "commit", !.audit = {row}]
  OBVIOUS
<1>6. Advance(s, next)
  BY <1>2, <1>5 DEF InsertAudit
<1>7. UNCHANGED <<incidentRows, claimRows, attemptRows, verificationRows>>
  BY <1>0, <1>6, AdvancedSession
<1>8. CASE TransitionOK(tx[s])
  <2>1. t \in TransitionTx /\ t.op = "transition"
    BY <1>1, <1>8 DEF TransitionOK, TransitionTx
  <2>2. /\ next \in TransitionTx
        /\ next.step = "commit" /\ next.audit = {row}
        /\ next.op = t.op /\ next.k = t.k /\ next.command = t.command /\ next.read = t.read
        /\ next.incident = t.incident /\ next.holds = t.holds
    BY <1>1, <1>5, <2>1 DEF TransitionTx
  <2>3. tx'[s] \in TransitionTx /\ tx'[s].holds = t.holds /\ SameButLocks(tx'[s], next)
    BY <1>0, <1>4, <1>6, <2>2, TransitionTxAdvances
  <2>4. TransitionOK(tx[s])'
    BY <1>1, <1>7, <1>8, <2>2, <2>3 DEF TransitionOK, IncidentRead, SameButLocks
  <2>5. (tx[s].holds = LocksTaken(tx[s]))' /\ (tx[s].audit = AuditTaken(tx[s]))'
    BY <1>0, <1>1, <1>3, <2>1, <2>2, <2>3 DEF OpenOK, LocksTaken, AuditTaken, SameButLocks
  <2>6. OpenOK(tx[s])'
    BY <2>4, <2>5 DEF OpenOK
  <2>7. next.holds = tx[s].holds /\ "holds" \in DOMAIN next
    BY <1>1, <2>2 DEF TransitionTx
  <2>8. QED
    BY <1>6, <2>6, <2>7, AdvanceKeeps
<1>9. CASE BeginOK(tx[s])
  <2>1. t \in BeginTx /\ t.op = "begin"
    BY <1>1, <1>9 DEF BeginOK, BeginTx
  <2>2. /\ next \in BeginTx
        /\ next.step = "insert" /\ next.audit = {row}
        /\ next.op = t.op /\ next.k = t.k /\ next.command = t.command /\ next.read = t.read
        /\ next.incident = t.incident /\ next.verification = t.verification /\ next.holds = t.holds
    BY <1>1, <1>5, <2>1 DEF BeginTx
  <2>3. tx'[s] \in BeginTx /\ tx'[s].holds = t.holds /\ SameButLocks(tx'[s], next)
    BY <1>0, <1>4, <1>6, <2>2, BeginTxAdvances
  <2>4. /\ tx'[s].op = tx[s].op /\ tx'[s].k = tx[s].k
        /\ tx'[s].command = tx[s].command /\ tx'[s].read = tx[s].read
        /\ tx'[s].step = "insert" /\ tx'[s].incident = tx[s].incident
        /\ tx'[s].verification = tx[s].verification
    BY <1>1, <2>2, <2>3 DEF SameButLocks
  <2>5. IncidentRead(tx[s])' /\ FenceHeld(tx[s])'
    BY <1>7, <1>9, <2>4, DecisionKept DEF BeginOK
  <2>6. BeginOK(tx[s])'
    BY <1>1, <1>3, <1>7, <1>9, <2>3, <2>4, <2>5 DEF BeginOK
  <2>7. (tx[s].holds = LocksTaken(tx[s]))' /\ (tx[s].audit = AuditTaken(tx[s]))'
    BY <1>0, <1>1, <1>3, <2>1, <2>2, <2>3 DEF OpenOK, LocksTaken, AuditTaken, SameButLocks
  <2>8. OpenOK(tx[s])'
    BY <2>6, <2>7 DEF OpenOK
  <2>9. next.holds = tx[s].holds /\ "holds" \in DOMAIN next
    BY <1>1, <2>2 DEF BeginTx
  <2>10. QED
    BY <1>6, <2>8, <2>9, AdvanceKeeps
<1>10. CASE ResolveOK(tx[s])
  <2>1. t \in ResolveTx /\ t.op = "resolve"
    BY <1>1, <1>10 DEF ResolveOK, ResolveTx
  <2>2. /\ next \in ResolveTx
        /\ next.step = "commit" /\ next.audit = {row}
        /\ next.op = t.op /\ next.k = t.k /\ next.command = t.command /\ next.read = t.read
        /\ next.incident = t.incident /\ next.holds = t.holds
    BY <1>1, <1>5, <2>1 DEF ResolveTx
  <2>3. tx'[s] \in ResolveTx /\ tx'[s].holds = t.holds /\ SameButLocks(tx'[s], next)
    BY <1>0, <1>4, <1>6, <2>2, ResolveTxAdvances
  <2>4. /\ tx'[s].op = tx[s].op /\ tx'[s].k = tx[s].k
        /\ tx'[s].command = tx[s].command /\ tx'[s].read = tx[s].read
        /\ tx'[s].step = "commit" /\ tx'[s].incident = tx[s].incident
    BY <1>1, <2>2, <2>3 DEF SameButLocks
  <2>5. IncidentRead(tx[s])' /\ FenceHeld(tx[s])'
    BY <1>7, <1>10, <2>4, DecisionKept DEF ResolveOK
  <2>6. ResolveOK(tx[s])'
    BY <1>1, <1>3, <1>7, <1>10, <2>3, <2>4, <2>5 DEF ResolveOK
  <2>7. (tx[s].holds = LocksTaken(tx[s]))' /\ (tx[s].audit = AuditTaken(tx[s]))'
    <3>1. t.holds = {IncidentLock(t.k.incident)} \cup {VerificationLock(t.k)} \cup {AttemptLock(t.k, FALSE)}
      BY <1>0, <1>1, <1>3, <2>1 DEF OpenOK, LocksTaken
    <3>2. (tx[s].holds = LocksTaken(tx[s]))'
      BY <1>1, <2>1, <2>2, <2>3, <2>4, <3>1 DEF LocksTaken
    <3>3. (tx[s].audit = AuditTaken(tx[s]))'
      BY <1>1, <1>3, <2>2, <2>3 DEF AuditTaken, SameButLocks
    <3>4. QED
      BY <3>2, <3>3
  <2>8. OpenOK(tx[s])'
    BY <2>6, <2>7 DEF OpenOK
  <2>9. next.holds = tx[s].holds /\ "holds" \in DOMAIN next
    BY <1>1, <2>2 DEF ResolveTx
  <2>10. QED
    BY <1>6, <2>8, <2>9, AdvanceKeeps
<1>11. QED
  BY <1>0, <1>8, <1>9, <1>10, TransactionAt
LEMMA InsertVerificationStep ==
  ASSUME PostgresInv, NEW s \in Session, InsertVerification(s)
  PROVE  PostgresInv'
<1>0. SessionsOK /\ TablesTyped /\ At(s, "insert")
  BY DEF PostgresInv, InsertVerification
<1>1. PICK t : t = tx[s]
  OBVIOUS
<1>2. /\ OpenOK(tx[s]) /\ BeginOK(tx[s]) /\ t \in BeginTx /\ t.op = "begin" /\ t.step = "insert"
      /\ t.k \in ActionKey
  BY <1>0, <1>1, TransactionAt DEF BeginOK, BeginTx, At
<1>3. t.verification = Unwritten
  BY <1>1, <1>2 DEF BeginOK
<1>4. t.command.now >= t.command.finishedAt
  BY <1>1 DEF InsertVerification
<1>5. Wants(s) = {}
  BY <1>0 DEF Wants, At
<1>6. ASSUME NEW next, Advance(s, next), next \in BeginTx,
             next.op = "begin", next.step = "commit", next.k = t.k, next.command = t.command,
             next.read = t.read, next.audit = t.audit, next.incident = t.incident,
             next.holds = t.holds,
             IF next.verification # Unwritten
               THEN /\ verificationRows[t.k].status = "NONE"
                    /\ next.verification =
                         [status |-> "PENDING", version |-> 1, subject |-> t.command.subject,
                          startedAt |-> Stored(t.command.now), finishedAt |-> 0]
               ELSE /\ verificationRows[t.k].status = "PENDING"
                    /\ verificationRows[t.k].subject = t.command.subject
      PROVE  PostgresInv'
  <2>1. UNCHANGED <<incidentRows, claimRows, attemptRows, verificationRows>>
    BY <1>0, <1>6, AdvancedSession
  <2>2. tx'[s] \in BeginTx /\ tx'[s].holds = t.holds /\ SameButLocks(tx'[s], next)
    BY <1>0, <1>2, <1>5, <1>6, BeginTxAdvances
  <2>3. /\ tx'[s].op = tx[s].op /\ tx'[s].k = tx[s].k
        /\ tx'[s].command = tx[s].command /\ tx'[s].read = tx[s].read
        /\ tx'[s].step = "commit" /\ tx'[s].incident = tx[s].incident
        /\ tx'[s].verification = next.verification
    BY <1>1, <1>2, <1>6, <2>2 DEF SameButLocks
  <2>4. IncidentRead(tx[s])' /\ FenceHeld(tx[s])'
    BY <1>2, <2>1, <2>3, DecisionKept DEF BeginOK
  <2>5. BeginOK(tx[s])'
    BY <1>1, <1>2, <1>4, <1>6, <2>1, <2>2, <2>3, <2>4 DEF BeginOK
  <2>6. (tx[s].holds = LocksTaken(tx[s]))' /\ (tx[s].audit = AuditTaken(tx[s]))'
    BY <1>1, <1>2, <1>6, <2>2, <2>3 DEF OpenOK, LocksTaken, AuditTaken, SameButLocks
  <2>7. OpenOK(tx[s])'
    BY <2>5, <2>6 DEF OpenOK
  <2>8. next.holds = tx[s].holds /\ "holds" \in DOMAIN next
    BY <1>1, <1>6 DEF BeginTx
  <2>9. QED
    BY <1>6, <2>7, <2>8, AdvanceKeeps
<1>7. CASE verificationRows[t.k].status = "NONE"
  <2>1. PICK row : row = [status |-> "PENDING", version |-> 1, subject |-> t.command.subject,
                          startedAt |-> Stored(t.command.now), finishedAt |-> 0]
    OBVIOUS
  <2>2. row \in VerificationRow
    <3>1. t.command.now \in Clock /\ t.command.subject \in Subject
      BY <1>2 DEF BeginTx
    <3>2. QED
      BY <2>1, <3>1, StoredTimes DEF VerificationRow
  <2>3. PICK next : next = [tx[s] EXCEPT !.step = "commit", !.verification = row]
    OBVIOUS
  <2>4. Advance(s, next)
    BY <1>1, <1>7, <2>1, <2>3 DEF InsertVerification
  <2>5. /\ next \in BeginTx
        /\ next.op = "begin" /\ next.step = "commit" /\ next.k = t.k /\ next.command = t.command
        /\ next.read = t.read /\ next.audit = t.audit /\ next.incident = t.incident
        /\ next.holds = t.holds /\ next.verification = row
    BY <1>1, <1>2, <2>2, <2>3 DEF BeginTx
  <2>6. row # Unwritten
    BY <2>2, ImagesAreWritten
  <2>7. QED
    BY <1>6, <1>7, <2>1, <2>4, <2>5, <2>6
<1>8. CASE verificationRows[t.k].status # "NONE"
  <2>1. PICK next : next = [tx[s] EXCEPT !.step = "commit"]
    OBVIOUS
  <2>2. /\ verificationRows[t.k].subject = t.command.subject
        /\ verificationRows[t.k].status = "PENDING"
        /\ Advance(s, next)
    BY <1>1, <1>8, <2>1 DEF InsertVerification
  <2>3. /\ next \in BeginTx
        /\ next.op = "begin" /\ next.step = "commit" /\ next.k = t.k /\ next.command = t.command
        /\ next.read = t.read /\ next.audit = t.audit /\ next.incident = t.incident
        /\ next.holds = t.holds /\ next.verification = Unwritten
    BY <1>1, <1>2, <1>3, <2>1 DEF BeginTx
  <2>4. QED
    BY <1>6, <2>2, <2>3
<1>9. QED
  BY <1>7, <1>8

LEMMA LockVerificationStep ==
  ASSUME PostgresInv, NEW s \in Session, LockVerification(s)
  PROVE  PostgresInv'
<1>0. SessionsOK /\ At(s, "verification") /\ OpenOK(tx[s])
  BY TransactionAt DEF PostgresInv, LockVerification
<1>1. PICK t : t = tx[s]
  OBVIOUS
<1>2. PICK next : next = [tx[s] EXCEPT !.step = IF tx[s].op = "resolve" THEN "evidence" ELSE "result"]
  OBVIOUS
<1>3. Advance(s, next)
  BY <1>2 DEF LockVerification
<1>4. Wants(s) = {VerificationLock(t.k)}
  BY <1>0, <1>1 DEF Wants, At
<1>5. UNCHANGED <<incidentRows, claimRows, attemptRows, verificationRows>>
  BY <1>0, <1>3, AdvancedSession
<1>6. t.step = "verification"
  BY <1>0, <1>1 DEF At
<1>7. CASE CompleteOK(tx[s])
  <2>1. t \in CompleteTx /\ t.op = "complete"
    BY <1>1, <1>7 DEF CompleteOK, CompleteTx
  <2>2. /\ next \in CompleteTx
        /\ next.step = "result"
        /\ next.op = t.op /\ next.k = t.k /\ next.command = t.command /\ next.read = t.read
        /\ next.audit = t.audit /\ next.incident = t.incident
        /\ next.verification = t.verification /\ next.holds = t.holds
    BY <1>1, <1>2, <2>1 DEF CompleteTx
  <2>3. /\ tx'[s] \in CompleteTx /\ SameButLocks(tx'[s], next)
        /\ tx'[s].holds = t.holds \cup {VerificationLock(t.k)}
    BY <1>0, <1>3, <1>4, <2>2, CompleteTxAdvances
  <2>4. /\ tx'[s].op = tx[s].op /\ tx'[s].k = tx[s].k
        /\ tx'[s].command = tx[s].command /\ tx'[s].read = tx[s].read
        /\ tx'[s].step = "result" /\ tx'[s].incident = tx[s].incident
        /\ tx'[s].verification = tx[s].verification /\ tx'[s].audit = tx[s].audit
    BY <1>1, <2>2, <2>3 DEF SameButLocks
  <2>5. IncidentRead(tx[s])' /\ FenceHeld(tx[s])'
    BY <1>5, <1>7, <2>4, DecisionKept DEF CompleteOK
  <2>6. tx[s].verification = Unwritten /\ tx[s].incident = Unwritten
    BY <1>1, <1>6, <1>7 DEF CompleteOK, CompleteTx
  <2>7. CompleteOK(tx[s])'
    BY <2>3, <2>4, <2>5, <2>6 DEF CompleteOK
  <2>8. (tx[s].holds = LocksTaken(tx[s]))'
    BY <1>0, <1>1, <1>6, <2>1, <2>3, <2>4 DEF OpenOK, LocksTaken
  <2>9. (tx[s].audit = AuditTaken(tx[s]))'
    BY <1>0, <2>4, <2>6 DEF OpenOK, AuditTaken
  <2>10. OpenOK(tx[s])'
    BY <2>7, <2>8, <2>9 DEF OpenOK
  <2>11. next.holds = tx[s].holds /\ "holds" \in DOMAIN next
    BY <1>1, <2>2 DEF CompleteTx
  <2>12. QED
    BY <1>3, <2>10, <2>11, AdvanceKeeps
<1>8. CASE ResolveOK(tx[s])
  <2>1. t \in ResolveTx /\ t.op = "resolve"
    BY <1>1, <1>8 DEF ResolveOK, ResolveTx
  <2>2. /\ next \in ResolveTx
        /\ next.step = "evidence"
        /\ next.op = t.op /\ next.k = t.k /\ next.command = t.command /\ next.read = t.read
        /\ next.audit = t.audit /\ next.incident = t.incident /\ next.holds = t.holds
    BY <1>1, <1>2, <2>1 DEF ResolveTx
  <2>3. /\ tx'[s] \in ResolveTx /\ SameButLocks(tx'[s], next)
        /\ tx'[s].holds = t.holds \cup {VerificationLock(t.k)}
    BY <1>0, <1>3, <1>4, <2>2, ResolveTxAdvances
  <2>4. /\ tx'[s].op = tx[s].op /\ tx'[s].k = tx[s].k
        /\ tx'[s].command = tx[s].command /\ tx'[s].read = tx[s].read
        /\ tx'[s].step = "evidence" /\ tx'[s].incident = tx[s].incident /\ tx'[s].audit = tx[s].audit
    BY <1>1, <2>2, <2>3 DEF SameButLocks
  <2>5. IncidentRead(tx[s])' /\ FenceHeld(tx[s])'
    BY <1>5, <1>8, <2>4, DecisionKept DEF ResolveOK
  <2>6. tx[s].incident = Unwritten
    BY <1>1, <1>6, <1>8 DEF ResolveOK
  <2>7. ResolveOK(tx[s])'
    BY <2>3, <2>4, <2>5, <2>6 DEF ResolveOK
  <2>8. (tx[s].holds = LocksTaken(tx[s]))'
    BY <1>0, <1>1, <1>6, <2>1, <2>3, <2>4 DEF OpenOK, LocksTaken
  <2>9. (tx[s].audit = AuditTaken(tx[s]))'
    BY <1>0, <2>4, <2>6 DEF OpenOK, AuditTaken
  <2>10. OpenOK(tx[s])'
    BY <2>7, <2>8, <2>9 DEF OpenOK
  <2>11. next.holds = tx[s].holds /\ "holds" \in DOMAIN next
    BY <1>1, <2>2 DEF ResolveTx
  <2>12. QED
    BY <1>3, <2>10, <2>11, AdvanceKeeps
<1>9. QED
  BY <1>0, <1>7, <1>8, TransactionAt

LEMMA UpdateVerificationStep ==
  ASSUME PostgresInv, NEW s \in Session, UpdateVerification(s)
  PROVE  PostgresInv'
<1>0. SessionsOK /\ TablesTyped /\ At(s, "result")
  BY DEF PostgresInv, UpdateVerification
<1>1. PICK t : t = tx[s]
  OBVIOUS
<1>2. /\ OpenOK(tx[s]) /\ CompleteOK(tx[s]) /\ t \in CompleteTx /\ t.op = "complete"
      /\ t.step = "result" /\ t.k \in ActionKey
      /\ t.verification = Unwritten /\ t.incident = Unwritten
  BY <1>0, <1>1, TransactionAt DEF CompleteOK, CompleteTx, At
<1>3. Wants(s) = {}
  BY <1>0 DEF Wants, At
<1>4. PICK row : row = verificationRows[t.k]
  OBVIOUS
<1>5. ASSUME NEW next, Advance(s, next), next \in CompleteTx,
             next.op = "complete", next.step = "commit", next.k = t.k, next.command = t.command,
             next.read = t.read, next.audit = t.audit, next.incident = Unwritten,
             next.holds = t.holds,
             next.verification # Unwritten =>
               /\ row.status = "PENDING" /\ t.command.now >= row.startedAt
               /\ next.verification = [row EXCEPT
                    !.status = t.command.to, !.version = @ + 1, !.finishedAt = Stored(t.command.now)]
      PROVE  PostgresInv'
  <2>1. UNCHANGED <<incidentRows, claimRows, attemptRows, verificationRows>>
    BY <1>0, <1>5, AdvancedSession
  <2>2. tx'[s] \in CompleteTx /\ tx'[s].holds = t.holds /\ SameButLocks(tx'[s], next)
    BY <1>0, <1>2, <1>3, <1>5, CompleteTxAdvances
  <2>3. /\ tx'[s].op = tx[s].op /\ tx'[s].k = tx[s].k
        /\ tx'[s].command = tx[s].command /\ tx'[s].read = tx[s].read
        /\ tx'[s].step = "commit" /\ tx'[s].incident = Unwritten /\ tx'[s].audit = tx[s].audit
        /\ tx'[s].verification = next.verification
    BY <1>1, <1>2, <1>5, <2>2 DEF SameButLocks
  <2>4. IncidentRead(tx[s])' /\ FenceHeld(tx[s])'
    BY <1>2, <2>1, <2>3, DecisionKept DEF CompleteOK
  <2>5. CompleteOK(tx[s])'
    BY <1>1, <1>2, <1>4, <1>5, <2>1, <2>2, <2>3, <2>4 DEF CompleteOK
  <2>6. (tx[s].holds = LocksTaken(tx[s]))'
    BY <1>1, <1>2, <2>2, <2>3 DEF OpenOK, LocksTaken
  <2>7. (tx[s].audit = AuditTaken(tx[s]))'
    BY <1>1, <1>2, <2>3 DEF OpenOK, AuditTaken
  <2>8. OpenOK(tx[s])'
    BY <2>5, <2>6, <2>7 DEF OpenOK
  <2>9. next.holds = tx[s].holds /\ "holds" \in DOMAIN next
    BY <1>1, <1>5 DEF CompleteTx
  <2>10. QED
    BY <1>5, <2>8, <2>9, AdvanceKeeps
<1>6. CASE VerificationMatches(row, t.command.to, t.command.now)
  <2>1. PICK next : next = [tx[s] EXCEPT !.step = "commit"]
    OBVIOUS
  <2>2. Advance(s, next)
    BY <1>1, <1>4, <1>6, <2>1 DEF UpdateVerification
  <2>3. /\ next \in CompleteTx
        /\ next.op = "complete" /\ next.step = "commit" /\ next.k = t.k /\ next.command = t.command
        /\ next.read = t.read /\ next.audit = t.audit /\ next.incident = Unwritten
        /\ next.holds = t.holds /\ next.verification = Unwritten
    BY <1>1, <1>2, <2>1 DEF CompleteTx
  <2>4. QED
    BY <1>5, <2>2, <2>3
<1>7. CASE ~ VerificationMatches(row, t.command.to, t.command.now)
  <2>1. PICK image : image = [row EXCEPT
          !.status = t.command.to, !.version = @ + 1, !.finishedAt = Stored(t.command.now)]
    OBVIOUS
  <2>2. PICK next : next = [tx[s] EXCEPT !.step = "commit", !.verification = image]
    OBVIOUS
  <2>3. row.version = 1 /\ row.status = "PENDING" /\ t.command.now >= row.startedAt /\ Advance(s, next)
    BY <1>1, <1>4, <1>7, <2>1, <2>2 DEF UpdateVerification
  <2>4. image \in VerificationRow
    <3>1. row \in VerificationRow
      BY <1>0, <1>2, <1>4, <2>3, ExistingVerification
    <3>2. t.command.to \in VerificationResult /\ Stored(t.command.now) \in StoredTime
      BY <1>2, StoredTimes DEF CompleteTx
    <3>3. image = [row EXCEPT !.status = t.command.to, !.version = 2,
                              !.finishedAt = Stored(t.command.now)]
      BY <2>1, <2>3
    <3>4. PICK to \in VerificationResult, at \in StoredTime :
            image = [row EXCEPT !.status = to, !.version = 2, !.finishedAt = at]
      BY <3>2, <3>3
    <3>5. QED
      BY <3>1, <3>4 DEF VerificationRow
  <2>5. /\ next \in CompleteTx
        /\ next.op = "complete" /\ next.step = "commit" /\ next.k = t.k /\ next.command = t.command
        /\ next.read = t.read /\ next.audit = t.audit /\ next.incident = Unwritten
        /\ next.holds = t.holds /\ next.verification = image
    BY <1>1, <1>2, <2>2, <2>4 DEF CompleteTx
  <2>6. QED
    BY <1>5, <2>1, <2>3, <2>5
<1>8. QED
  BY <1>6, <1>7
LEMMA LockEvidenceStep ==
  ASSUME PostgresInv, NEW s \in Session, LockEvidence(s)
  PROVE  PostgresInv'
<1>0. SessionsOK /\ At(s, "evidence")
  BY DEF PostgresInv, LockEvidence
<1>1. PICK t : t = tx[s]
  OBVIOUS
<1>2. /\ OpenOK(tx[s]) /\ ResolveOK(tx[s]) /\ t \in ResolveTx /\ t.op = "resolve"
      /\ t.step = "evidence" /\ t.incident = Unwritten
  BY <1>0, <1>1, TransactionAt DEF ResolveOK, ResolveTx, At
<1>3. Wants(s) = {AttemptLock(t.k, FALSE)}
  BY <1>0, <1>1 DEF Wants, At
<1>4. PICK next : next = [tx[s] EXCEPT !.step = "resolve"]
  OBVIOUS
<1>5. Advance(s, next) /\ verificationRows[t.k].status = "RECOVERED"
  BY <1>1, <1>4 DEF LockEvidence
<1>6. UNCHANGED <<incidentRows, claimRows, attemptRows, verificationRows>>
  BY <1>0, <1>5, AdvancedSession
<1>7. /\ next \in ResolveTx
      /\ next.step = "resolve"
      /\ next.op = t.op /\ next.k = t.k /\ next.command = t.command /\ next.read = t.read
      /\ next.audit = t.audit /\ next.incident = t.incident /\ next.holds = t.holds
  BY <1>1, <1>2, <1>4 DEF ResolveTx
<1>8. /\ tx'[s] \in ResolveTx /\ SameButLocks(tx'[s], next)
      /\ tx'[s].holds = t.holds \cup {AttemptLock(t.k, FALSE)}
  BY <1>0, <1>2, <1>3, <1>5, <1>7, ResolveTxAdvances
<1>9. /\ tx'[s].op = tx[s].op /\ tx'[s].k = tx[s].k
      /\ tx'[s].command = tx[s].command /\ tx'[s].read = tx[s].read
      /\ tx'[s].step = "resolve" /\ tx'[s].incident = tx[s].incident /\ tx'[s].audit = tx[s].audit
  BY <1>1, <1>7, <1>8 DEF SameButLocks
<1>10. IncidentRead(tx[s])' /\ FenceHeld(tx[s])'
  BY <1>2, <1>6, <1>9, DecisionKept DEF ResolveOK
<1>11. ResolveOK(tx[s])'
  BY <1>1, <1>2, <1>5, <1>6, <1>8, <1>9, <1>10 DEF ResolveOK
<1>12. (tx[s].holds = LocksTaken(tx[s]))'
  BY <1>1, <1>2, <1>8, <1>9 DEF OpenOK, LocksTaken
<1>13. (tx[s].audit = AuditTaken(tx[s]))'
  BY <1>1, <1>2, <1>9 DEF OpenOK, AuditTaken
<1>14. OpenOK(tx[s])'
  BY <1>11, <1>12, <1>13 DEF OpenOK
<1>15. next.holds = tx[s].holds /\ "holds" \in DOMAIN next
  BY <1>1, <1>7 DEF ResolveTx
<1>16. QED
  BY <1>5, <1>14, <1>15, AdvanceKeeps

LEMMA UpdateResolvedStep ==
  ASSUME PostgresInv, NEW s \in Session, UpdateResolved(s)
  PROVE  PostgresInv'
<1>0. SessionsOK /\ At(s, "resolve")
  BY DEF PostgresInv, UpdateResolved
<1>1. PICK t : t = tx[s]
  OBVIOUS
<1>2. /\ OpenOK(tx[s]) /\ ResolveOK(tx[s]) /\ t \in ResolveTx /\ t.op = "resolve"
      /\ t.step = "resolve" /\ t.incident = Unwritten /\ t.k \in ActionKey
      /\ verificationRows[t.k].status = "RECOVERED"
  BY <1>0, <1>1, TransactionAt DEF ResolveOK, ResolveTx, At
<1>3. PICK row \in IncidentRow : row = incidentRows[t.k.incident] /\ row = t.read
  BY <1>1, <1>2 DEF ResolveOK, IncidentRead, ResolveTx
<1>4. Wants(s) = {}
  BY <1>0 DEF Wants, At
<1>5. PICK image : image = [row EXCEPT
        !.state = "RESOLVED", !.version = @ + 1, !.resolvedAt = TRUE,
        !.resolution = t.k.plan, !.binding = NoPlan]
  OBVIOUS
<1>6. image \in IncidentRow
  <2>1. row.version + 1 \in Version /\ t.k.plan \in Plan
    BY <1>1, <1>2, <1>3, ActionKeyOf DEF UpdateResolved
  <2>2. QED
    BY <1>5, <2>1 DEF IncidentRow, IncidentState
<1>7. PICK next : next = [tx[s] EXCEPT !.step = "audit", !.incident = image]
  OBVIOUS
<1>8. Advance(s, next)
  BY <1>1, <1>3, <1>5, <1>7 DEF UpdateResolved
<1>9. UNCHANGED <<incidentRows, claimRows, attemptRows, verificationRows>>
  BY <1>0, <1>8, AdvancedSession
<1>10. /\ next \in ResolveTx
       /\ next.step = "audit" /\ next.incident = image
       /\ next.op = t.op /\ next.k = t.k /\ next.command = t.command /\ next.read = t.read
       /\ next.audit = t.audit /\ next.holds = t.holds
  BY <1>1, <1>2, <1>6, <1>7 DEF ResolveTx
<1>11. tx'[s] \in ResolveTx /\ SameButLocks(tx'[s], next) /\ tx'[s].holds = t.holds
  BY <1>0, <1>2, <1>4, <1>8, <1>10, ResolveTxAdvances
<1>12. /\ tx'[s].op = tx[s].op /\ tx'[s].k = tx[s].k
       /\ tx'[s].command = tx[s].command /\ tx'[s].read = tx[s].read
       /\ tx'[s].step = "audit" /\ tx'[s].incident = image /\ tx'[s].audit = tx[s].audit
  BY <1>1, <1>10, <1>11 DEF SameButLocks
<1>13. IncidentRead(tx[s])' /\ FenceHeld(tx[s])'
  BY <1>2, <1>9, <1>12, DecisionKept DEF ResolveOK
<1>14. image = [tx[s].read EXCEPT
         !.state = "RESOLVED", !.version = @ + 1, !.resolvedAt = TRUE,
         !.resolution = tx[s].k.plan, !.binding = NoPlan]
  BY <1>1, <1>3, <1>5
<1>15. ResolveOK(tx[s])'
  BY <1>1, <1>2, <1>9, <1>11, <1>12, <1>13, <1>14 DEF ResolveOK
<1>16. (tx[s].holds = LocksTaken(tx[s]))'
  BY <1>1, <1>2, <1>11, <1>12 DEF OpenOK, LocksTaken
<1>17. (tx[s].audit = AuditTaken(tx[s]))'
  BY <1>1, <1>2, <1>12 DEF OpenOK, AuditTaken
<1>18. OpenOK(tx[s])'
  BY <1>15, <1>16, <1>17 DEF OpenOK
<1>19. next.holds = tx[s].holds /\ "holds" \in DOMAIN next
  BY <1>1, <1>10 DEF ResolveTx
<1>20. QED
  BY <1>8, <1>18, <1>19, AdvanceKeeps

LEMMA UpdateAttemptStep ==
  ASSUME PostgresInv, NEW s \in Session, UpdateAttempt(s)
  PROVE  PostgresInv'
<1>0. SessionsOK /\ RowsAccepted /\ TablesTyped /\ At(s, "update")
  BY DEF PostgresInv, UpdateAttempt
<1>1. PICK t : t = tx[s]
  OBVIOUS
<1>2. /\ OpenOK(tx[s]) /\ FinishOK(tx[s]) /\ t \in FinishTx /\ t.op = "finish"
      /\ t.step = "update" /\ t.incident = Unwritten /\ t.k \in ActionKey
      /\ Finishes(tx[s])
  BY <1>0, <1>1, TransactionAt DEF FinishOK, FinishTx, At
<1>3. PICK row \in AttemptRow : row = attemptRows[t.k] /\ row = t.read
  BY <1>1, <1>2 DEF FinishOK, FinishTx
<1>4. Wants(s) = {}
  BY <1>0 DEF Wants, At
<1>5. PICK image : image = [row EXCEPT
        !.status = t.command.to, !.version = @ + 1,
        !.finishedAt = Stored(t.command.now), !.recoveredBy = t.command.by]
  OBVIOUS
<1>6. image \in AttemptRow
  <2>1. row.version = 1
    BY <1>0, <1>1, <1>2, <1>3 DEF RowsAccepted, AttemptRowOK, Finishes
  <2>2. /\ t.command.to \in TerminalStatus
        /\ t.command.by \in Version \cup {0}
        /\ Stored(t.command.now) \in StoredTime
    BY <1>2, StoredTimes DEF FinishTx
  <2>3. image = [row EXCEPT !.status = t.command.to, !.version = 2,
                            !.finishedAt = Stored(t.command.now), !.recoveredBy = t.command.by]
    BY <1>5, <2>1
  <2>4. PICK to \in TerminalStatus, by \in Version \cup {0}, at \in StoredTime :
          image = [row EXCEPT !.status = to, !.version = 2, !.finishedAt = at, !.recoveredBy = by]
    BY <2>2, <2>3
  <2>5. QED
    BY <2>4 DEF AttemptRow
<1>7. PICK next : next = [tx[s] EXCEPT !.step = "commit", !.attempt = image]
  OBVIOUS
<1>8. Advance(s, next)
  BY <1>1, <1>3, <1>5, <1>7 DEF UpdateAttempt
<1>9. UNCHANGED <<incidentRows, claimRows, attemptRows, verificationRows>>
  BY <1>0, <1>8, AdvancedSession
<1>10. /\ next \in FinishTx
       /\ next.step = "commit" /\ next.attempt = image
       /\ next.op = t.op /\ next.k = t.k /\ next.command = t.command /\ next.read = t.read
       /\ next.audit = t.audit /\ next.incident = t.incident /\ next.holds = t.holds
  BY <1>1, <1>2, <1>6, <1>7 DEF FinishTx
<1>11. tx'[s] \in FinishTx /\ SameButLocks(tx'[s], next) /\ tx'[s].holds = t.holds
  BY <1>0, <1>2, <1>4, <1>8, <1>10, FinishTxAdvances
<1>12. /\ tx'[s].op = tx[s].op /\ tx'[s].k = tx[s].k
       /\ tx'[s].command = tx[s].command /\ tx'[s].read = tx[s].read
       /\ tx'[s].step = "commit" /\ tx'[s].attempt = image
       /\ tx'[s].incident = Unwritten /\ tx'[s].audit = tx[s].audit
  BY <1>1, <1>2, <1>10, <1>11 DEF SameButLocks
<1>13. image = [tx[s].read EXCEPT
         !.status = tx[s].command.to, !.version = @ + 1,
         !.finishedAt = Stored(tx[s].command.now), !.recoveredBy = tx[s].command.by]
  BY <1>1, <1>3, <1>5
<1>14. Finishes(tx[s])'
  BY <1>2, <1>9, <1>12 DEF Finishes, AuditedVersions
<1>15. FinishOK(tx[s])'
  BY <1>1, <1>2, <1>9, <1>11, <1>12, <1>13, <1>14 DEF FinishOK
<1>16. (tx[s].holds = LocksTaken(tx[s]))'
  BY <1>1, <1>2, <1>11, <1>12 DEF OpenOK, LocksTaken
<1>17. (tx[s].audit = AuditTaken(tx[s]))'
  BY <1>1, <1>2, <1>12 DEF OpenOK, AuditTaken
<1>18. OpenOK(tx[s])'
  BY <1>15, <1>16, <1>17 DEF OpenOK
<1>19. next.holds = tx[s].holds /\ "holds" \in DOMAIN next
  BY <1>1, <1>10 DEF FinishTx
<1>20. QED
  BY <1>8, <1>18, <1>19, AdvanceKeeps
-----------------------------------------------------------------------------
(* What a transaction is about to write satisfies the schema.               *)

(* What every transition of an incident has in common.                      *)
MovesOn(row, image) ==
  /\ image \in IncidentRow
  /\ image.version = row.version + 1
  /\ image.key = row.key /\ image.holder = row.holder /\ image.expiresAt = row.expiresAt
  /\ row.state # "RESOLVED"
  /\ IncidentRowOK(image)

LEMMA IncidentImage ==
  ASSUME RowsAccepted, TablesTyped, NEW s \in Session, OpenOK(tx[s]), tx[s].incident # Unwritten
  PROVE  /\ tx[s].op \in {"transition", "begin", "resolve"}
         /\ MovesOn(tx[s].read, tx[s].incident)
<1>1. tx[s].op \in {"transition", "begin", "resolve"}
  BY OpenTransaction DEF FinishOK, FinishTx, CompleteOK, CompleteTx, Ops
<1>21. PICK row \in IncidentRow : row = tx[s].read
  BY <1>1, OwnsIncident
<1>2. PICK image : row = tx[s].read /\ image = tx[s].incident
  BY <1>21
<1>3. IncidentRowOK(row)
  <2>1. tx[s].k.incident \in IncidentID /\ incidentRows[tx[s].k.incident] = row
    BY <1>1, <1>2, OwnsIncident, OpenTransaction, ActionKeyOf
  <2>2. QED
    BY <2>1, <1>2, ExistingRow DEF RowsAccepted
<1>4. CASE TransitionOK(tx[s])
  <2>1. PICK to : to = image.state
    OBVIOUS
  <2>2. PICK plan \in Plan : plan = tx[s].k.plan
    BY <1>4, ActionKeyOf DEF TransitionOK, TransitionTx
  <2>3. PICK binding : binding = BindingAfter(row, to, plan)
    OBVIOUS
  <2>4. /\ image \in IncidentRow
        /\ <<row.state, to>> \in ValidTransition
        /\ image = [row EXCEPT !.state = to, !.version = @ + 1,
                               !.resolvedAt = (to = "RESOLVED"), !.binding = binding]
    BY <1>2, <1>4, <2>1, <2>2, <2>3 DEF TransitionOK, TransitionTx
  <2>5. /\ image.version = row.version + 1
        /\ image.key = row.key /\ image.holder = row.holder /\ image.expiresAt = row.expiresAt
        /\ image.resolution = row.resolution
        /\ image.binding = binding
        /\ image.resolvedAt <=> to = "RESOLVED"
    BY <2>4 DEF IncidentRow
  <2>6. row.state # "RESOLVED" /\ row.resolution = NoPlan /\ to \in IncidentState \ {"DETECTED"}
    BY <1>3, <2>4 DEF ValidTransition, IncidentRowOK, IncidentState
  <2>7. /\ to = "WAITING_APPROVAL" => binding # NoPlan
        /\ to \notin {"WAITING_APPROVAL", "VERIFYING"} => binding = NoPlan
    BY <2>3, NoBindingAssumption DEF BindingAfter
  <2>8. IncidentRowOK(image)
    BY <1>3, <2>1, <2>5, <2>6, <2>7 DEF IncidentRowOK
  <2>9. QED
    BY <1>1, <1>2, <2>4, <2>5, <2>6, <2>8 DEF MovesOn
<1>5. CASE BeginOK(tx[s])
  <2>1. /\ image \in IncidentRow
        /\ row.state \in {"DIAGNOSED", "WAITING_APPROVAL"}
        /\ image = [row EXCEPT !.state = "VERIFYING", !.version = @ + 1]
    <3>1. row.state \in {"DIAGNOSED", "WAITING_APPROVAL", "VERIFYING"}
      BY <1>2, <1>5, OpenTransaction DEF BeginOK, FenceHeld, FencedStates
    <3>2. row.state # "VERIFYING" /\ image = [row EXCEPT !.state = "VERIFYING", !.version = @ + 1]
      BY <1>2, <1>5 DEF BeginOK
    <3>3. image \in IncidentRow
      BY <1>2, <1>5 DEF BeginOK, BeginTx
    <3>4. QED
      BY <3>1, <3>2, <3>3
  <2>2. /\ image.version = row.version + 1
        /\ image.key = row.key /\ image.holder = row.holder /\ image.expiresAt = row.expiresAt
        /\ image.resolution = row.resolution /\ image.resolvedAt = row.resolvedAt
        /\ image.state = "VERIFYING"
    BY <2>1 DEF IncidentRow
  <2>3. IncidentRowOK(image)
    BY <1>3, <2>1, <2>2 DEF IncidentRowOK
  <2>4. QED
    BY <1>1, <1>2, <2>1, <2>2, <2>3 DEF MovesOn
<1>6. CASE ResolveOK(tx[s])
  <2>1. PICK plan : plan = tx[s].k.plan
    OBVIOUS
  <2>2. /\ image \in IncidentRow
        /\ row.state = "VERIFYING"
        /\ image = [row EXCEPT !.state = "RESOLVED", !.version = @ + 1, !.resolvedAt = TRUE,
                               !.resolution = plan, !.binding = NoPlan]
    <3>1. row.state = "VERIFYING"
      BY <1>2, <1>6, OpenTransaction DEF ResolveOK, FenceHeld, FencedStates
    <3>2. image = [row EXCEPT !.state = "RESOLVED", !.version = @ + 1, !.resolvedAt = TRUE,
                              !.resolution = plan, !.binding = NoPlan]
      BY <1>2, <1>6, <2>1 DEF ResolveOK
    <3>3. image \in IncidentRow
      BY <1>2, <1>6 DEF ResolveOK, ResolveTx
    <3>4. QED
      BY <3>1, <3>2, <3>3
  <2>3. /\ image.version = row.version + 1
        /\ image.key = row.key /\ image.holder = row.holder /\ image.expiresAt = row.expiresAt
        /\ image.resolvedAt = TRUE /\ image.binding = NoPlan /\ image.state = "RESOLVED"
    BY <2>2 DEF IncidentRow
  <2>4. IncidentRowOK(image)
    BY <1>3, <2>3 DEF IncidentRowOK
  <2>5. QED
    BY <1>1, <1>2, <2>2, <2>3, <2>4 DEF MovesOn
<1>7. QED
  BY <1>1, <1>4, <1>5, <1>6, OpenTransaction

LEMMA AttemptImage ==
  ASSUME RowsAccepted, TablesTyped, NEW s \in Session, OpenOK(tx[s]), tx[s].attempt # Unwritten
  PROVE  /\ tx[s].op = "finish"
         /\ tx[s].attempt \in AttemptRow
         /\ tx[s].attempt.token = tx[s].read.token
         /\ tx[s].read.status = "STARTED"
         /\ AttemptRowOK(tx[s].attempt)
<1>1. tx[s].op = "finish" /\ FinishOK(tx[s]) /\ tx[s].k \in ActionKey
  BY OpenTransaction
  DEF TransitionOK, TransitionTx, BeginOK, BeginTx, CompleteOK, CompleteTx, ResolveOK, ResolveTx, Ops
<1>2. PICK row \in AttemptRow, image \in AttemptRow :
        row = tx[s].read /\ row = attemptRows[tx[s].k] /\ image = tx[s].attempt
  BY <1>1 DEF FinishOK, FinishTx
<1>21. PICK now \in Clock : now = tx[s].command.now
  BY <1>1 DEF FinishOK, FinishTx
<1>3. PICK to, at, by :
        to = tx[s].command.to /\ by = tx[s].command.by /\ at = Stored(now)
  OBVIOUS
<1>4. image = [row EXCEPT !.status = to, !.version = @ + 1, !.finishedAt = at, !.recoveredBy = by]
  BY <1>1, <1>2, <1>21, <1>3 DEF FinishOK
<1>5. /\ image.status = to /\ image.version = row.version + 1 /\ image.finishedAt = at
      /\ image.recoveredBy = by /\ image.token = row.token /\ image.startedAt = row.startedAt
  BY <1>4 DEF AttemptRow
<1>6. /\ row.status = "STARTED" /\ now >= row.startedAt
      /\ \/ by = 0 /\ to \in {"SUCCEEDED", "FAILED"}
         \/ to = "UNKNOWN" /\ by > row.token
  BY <1>1, <1>2, <1>21, <1>3 DEF FinishOK, Finishes
<1>7. row.version = 1 /\ row.token \in Nat \ {0} /\ row.startedAt \in StoredTime
  <2>1. AttemptRowOK(row)
    BY <1>1, <1>2, ExistingAttempt DEF RowsAccepted
  <2>2. row.token \in Version /\ row.startedAt \in StoredTime
    BY <1>2 DEF AttemptRow
  <2>3. QED
    BY <1>6, <2>1, <2>2, NumbersAssumption DEF AttemptRowOK
<1>8. at \in Nat \ {0} /\ at >= row.startedAt
  <2>1. PICK a \in Nat : row.startedAt = Stored(a)
    BY <1>7, StoredTimesAreNumbers
  <2>2. now \in Nat /\ at \in Nat \ {0}
    BY <1>3, StoredTimes
  <2>3. QED
    BY <1>3, <1>6, <1>7, <2>1, <2>2, StoredKeepsOrder, StoredTimesAreNumbers
<1>9. by \in Nat
  BY <1>1, <1>3, NumbersAssumption DEF FinishOK, FinishTx
<1>10. image.version = 2
  BY <1>5, <1>7
<1>11. AttemptRowOK(image)
  BY <1>5, <1>6, <1>7, <1>8, <1>9, <1>10 DEF AttemptRowOK
<1>12. QED
  BY <1>1, <1>2, <1>5, <1>6, <1>11

LEMMA VerificationImage ==
  ASSUME RowsAccepted, TablesTyped, NEW s \in Session, OpenOK(tx[s]), tx[s].verification # Unwritten
  PROVE  /\ tx[s].op \in {"begin", "complete"}
         /\ tx[s].verification \in VerificationRow
         /\ VerificationRowOK(tx[s].verification)
<1>1. tx[s].op \in {"begin", "complete"} /\ tx[s].k \in ActionKey
  BY OpenTransaction
  DEF TransitionOK, TransitionTx, FinishOK, FinishTx, ResolveOK, ResolveTx, Ops
<1>2. tx[s].verification \in VerificationRow
  BY <1>1, OpenTransaction DEF BeginOK, BeginTx, CompleteOK, CompleteTx
<1>3. CASE tx[s].op = "begin"
  <2>1. BeginOK(tx[s])
    BY <1>3, OpenTransaction
  <2>2. tx[s].verification =
          [status |-> "PENDING", version |-> 1, subject |-> tx[s].command.subject,
           startedAt |-> Stored(tx[s].command.now), finishedAt |-> 0]
    BY <2>1 DEF BeginOK
  <2>3. QED
    BY <1>1, <1>2, <2>2 DEF VerificationRowOK
<1>4. CASE tx[s].op = "complete"
  <2>1. CompleteOK(tx[s])
    BY <1>4, OpenTransaction
  <2>21. PICK now \in Clock : now = tx[s].command.now
    BY <2>1 DEF CompleteOK, CompleteTx
  <2>22. PICK to \in VerificationResult : to = tx[s].command.to
    BY <2>1 DEF CompleteOK, CompleteTx
  <2>2. PICK row, image, at :
          /\ row = verificationRows[tx[s].k] /\ image = tx[s].verification
          /\ at = Stored(now)
    OBVIOUS
  <2>3. /\ row.status = "PENDING" /\ now >= row.startedAt
        /\ image = [row EXCEPT !.status = to, !.version = @ + 1, !.finishedAt = at]
    BY <2>1, <2>2, <2>21, <2>22 DEF CompleteOK
  <2>4. row \in VerificationRow /\ VerificationRowOK(row)
    BY <1>1, <2>2, <2>3, ExistingVerification DEF RowsAccepted
  <2>5. /\ image.status = to /\ image.version = row.version + 1
        /\ image.finishedAt = at /\ image.startedAt = row.startedAt
    BY <2>3, <2>4 DEF VerificationRow
  <2>6. row.version = 1 /\ row.startedAt \in StoredTime
    BY <2>3, <2>4 DEF VerificationRowOK, VerificationRow
  <2>7. at \in Nat \ {0} /\ at >= row.startedAt
    <3>1. PICK a \in Nat : row.startedAt = Stored(a)
      BY <2>6, StoredTimesAreNumbers
    <3>2. now \in Nat /\ at \in Nat \ {0}
      BY <2>2, StoredTimes
    <3>3. QED
      BY <2>2, <2>3, <2>6, <3>1, <3>2, StoredKeepsOrder, StoredTimesAreNumbers
  <2>8. image.version = 2
    BY <2>5, <2>6
  <2>9. VerificationRowOK(image)
    BY <2>2, <2>5, <2>6, <2>7, <2>8 DEF VerificationRowOK, VerificationResult
  <2>10. QED
    BY <1>1, <1>2, <2>2, <2>9
<1>5. QED
  BY <1>1, <1>3, <1>4
-----------------------------------------------------------------------------
(* Statements that commit by themselves.                                    *)

LEMMA TableStatement ==
  ASSUME PostgresInv, UNCHANGED tx, TablesOK',
         \A u \in Session : OpenOK(tx[u]) => Undisturbed(u)
  PROVE  PostgresInv'
<1>1. SessionsOK'
  BY AllStayOpen DEF PostgresInv
<1>2. LocksExclude'
  BY DEF PostgresInv, LocksExclude
<1>3. QED
  BY <1>1, <1>2 DEF PostgresInv, TablesOK

LEMMA NothingChanges ==
  ASSUME PostgresInv, UNCHANGED postgresVars
  PROVE  PostgresInv'
<1>1. TablesOK /\ UNCHANGED tables /\ UNCHANGED tx
  BY DEF PostgresInv, TablesOK, postgresVars
<1>2. TablesOK'
  BY <1>1, TablesStay
<1>3. \A u \in Session : Undisturbed(u)
  BY <1>1 DEF Undisturbed, tables
<1>4. QED
  BY <1>1, <1>2, <1>3, TableStatement

LEMMA RowOfTransactionExists ==
  ASSUME PostgresInv, NEW s \in Session, OpenOK(tx[s]), tx[s].op # "finish"
  PROVE  tx[s].k.incident \in Rows
<1>1. tx[s].k.incident \in IncidentID /\ incidentRows[tx[s].k.incident] \in IncidentRow
  BY OwnsIncident, OpenTransaction, ActionKeyOf
<1>2. QED
  BY <1>1, ExistingRow DEF Rows, PostgresInv

LEMMA SameHistory ==
  ASSUME NEW i, HistoryOf(i),
         incidentRows'[i] = incidentRows[i],
         claimRows'[i] = claimRows[i],
         transitionRows'[i] = transitionRows[i]
  PROVE  HistoryOf(i)'
  BY DEF HistoryOf, AuditedVersions

LEMMA ObserveStep ==
  ASSUME PostgresInv, NEW key \in Key, Observe(key)
  PROVE  PostgresInv'
<1>1. CASE UNCHANGED postgresVars
  BY <1>1, NothingChanges
<1>2. CASE ~ UNCHANGED postgresVars
  <2>0. TablesTyped /\ RowsAccepted /\ RowsInSequence /\ LeaseAudited /\ HistoryKept
    BY DEF PostgresInv
  <2>1. /\ ActiveRows(key) = {}
        /\ Cardinality(Rows) < MaxIncidents
        /\ incidentRows' = [incidentRows EXCEPT ![Cardinality(Rows) + 1] = NewRow(key)]
        /\ UNCHANGED <<claimRows, transitionRows, planRows, attemptRows, verificationRows, tx>>
    BY <1>2 DEF Observe
  <2>2. PICK n \in Nat : Rows = 1..n /\ Cardinality(Rows) = n
    BY <2>0, FS_Interval, NumbersAssumption DEF RowsInSequence
  <2>3. PICK i \in IncidentID : i = n + 1 /\ i \notin Rows /\ Rows \cup {i} = 1..i
    BY <2>1, <2>2, NumbersAssumption DEF IncidentID
  <2>4. PICK row : row = NewRow(key)
    OBVIOUS
  <2>5. row \in IncidentRow
    BY <2>4, NumbersAssumption DEF NewRow, IncidentRow, IncidentState
  <2>6. incidentRows' = [incidentRows EXCEPT ![i] = row]
    BY <2>1, <2>2, <2>3, <2>4
  <2>7. incidentRows'[i] = row /\ \A j \in IncidentID \ {i} : incidentRows'[j] = incidentRows[j]
    BY <2>0, <2>6 DEF TablesTyped
  <2>8. row.state = "DETECTED" /\ row.version = 1 /\ row.key = key /\ ~ row.resolvedAt
        /\ row.holder = NoHolder /\ IncidentRowOK(row)
    BY <2>4 DEF NewRow, IncidentRowOK
  <2>9. Rows' = Rows \cup {i}
    BY <2>7, <2>8 DEF Rows, RowExists
  <2>10. claimRows[i] = {} /\ transitionRows[i] = {}
    BY <2>0, <2>3 DEF RowsInSequence
  <2>11. TablesTyped'
    BY <2>0, <2>1, <2>5, <2>6 DEF TablesTyped
  <2>12. RowsAccepted'
    <3>1. \A j \in IncidentID : RowExists(j)' => IncidentRowOK(incidentRows'[j])
      BY <2>0, <2>7, <2>8 DEF RowsAccepted, RowExists
    <3>2. \A j : AuditedVersions(j)' = AuditedVersions(j)
      BY <2>1 DEF AuditedVersions
    <3>3. QED
      BY <2>0, <2>1, <3>1, <3>2 DEF RowsAccepted
  <2>13. RowsInSequence'
    <3>1. i \in 0..MaxIncidents /\ Rows' = 1..i
      BY <2>3, <2>9, NumbersAssumption DEF IncidentID
    <3>2. ASSUME NEW a \in Rows', NEW b \in Rows',
                 incidentRows'[a].key = incidentRows'[b].key,
                 ~ incidentRows'[a].resolvedAt, ~ incidentRows'[b].resolvedAt
          PROVE  a = b
      <4>1. \A j \in Rows : incidentRows[j].key # key \/ incidentRows[j].resolvedAt
        BY <2>1 DEF ActiveRows, Rows
      <4>2. a \in IncidentID /\ b \in IncidentID
        BY <2>3, <2>9 DEF Rows
      <4>3. CASE a = i \/ b = i
        BY <2>7, <2>8, <2>9, <3>2, <4>1, <4>2, <4>3
      <4>4. CASE a # i /\ b # i
        BY <2>0, <2>7, <2>9, <3>2, <4>2, <4>4 DEF RowsInSequence
      <4>5. QED
        BY <4>3, <4>4
    <3>3. \A j \in IncidentID \ Rows' : claimRows'[j] = {} /\ transitionRows'[j] = {}
      BY <2>0, <2>1, <2>9 DEF RowsInSequence
    <3>4. QED
      BY <3>1, <3>2, <3>3 DEF RowsInSequence
  <2>14. LeaseAudited'
    <3>1. \A j \in Rows : j \in IncidentID /\ j # i
      BY <2>3 DEF Rows
    <3>2. QED
      BY <2>0, <2>1, <2>7, <2>8, <2>9, <2>10, <3>1 DEF LeaseAudited
  <2>15. HistoryKept'
    <3>1. HistoryOf(i)'
      <4>1. incidentRows'[i].version = 1 /\ incidentRows'[i].state = "DETECTED"
            /\ claimRows'[i] = {} /\ transitionRows'[i] = {}
        BY <2>1, <2>7, <2>8, <2>10
      <4>2. 2..1 = {} /\ IsFiniteSet({})
        BY FS_EmptySet
      <4>3. QED
        BY <4>1, <4>2 DEF HistoryOf, AuditedVersions
    <3>2. ASSUME NEW j \in Rows PROVE HistoryOf(j)'
      <4>1. incidentRows'[j] = incidentRows[j]
        BY <2>3, <2>7 DEF Rows
      <4>2. HistoryOf(j)
        BY <2>0 DEF HistoryKept
      <4>3. QED
        BY <2>1, <4>1, <4>2, SameHistory
    <3>3. QED
      BY <2>9, <3>1, <3>2 DEF HistoryKept
  <2>16. ASSUME NEW u \in Session, OpenOK(tx[u]) PROVE Undisturbed(u)
    <3>1. tx[u].op # "finish" => tx[u].k.incident \in Rows
      BY <2>16, RowOfTransactionExists
    <3>2. \A j \in Rows : incidentRows'[j] = incidentRows[j]
      BY <2>3, <2>7 DEF Rows
    <3>3. QED
      BY <2>1, <3>1, <3>2 DEF Undisturbed
  <2>17. QED
    BY <2>1, <2>11, <2>12, <2>13, <2>14, <2>15, <2>16, TableStatement DEF TablesOK
<1>3. QED
  BY <1>1, <1>2
LEMMA AuditedVersionsOf ==
  ASSUME PostgresInv, NEW i \in Rows
  PROVE  /\ incidentRows[i].version \in Nat \ {0}
         /\ \A event \in claimRows[i] :
              event.version \in 2..incidentRows[i].version
         /\ \A row \in transitionRows[i] :
              row.version \in 2..incidentRows[i].version
<1>1. HistoryOf(i) /\ i \in IncidentID /\ TablesTyped
  BY DEF PostgresInv, HistoryKept, Rows
<1>2. incidentRows[i] \in IncidentRow
  BY <1>1, ExistingRow DEF Rows
<1>3. QED
  BY <1>1, <1>2, VersionAfter DEF HistoryOf, AuditedVersions

(* A claim waits for the row, so no open transaction has read it.           *)
LEMMA GrantStep ==
  ASSUME PostgresInv, NEW i \in Rows, Unlocked(IncidentLock(i)),
         NEW holder \in Holder, NEW now \in Clock, NEW lease \in Lease,
         Grant(i, holder, now, lease)
  PROVE  PostgresInv'
<1>0. TablesTyped /\ RowsAccepted /\ RowsInSequence /\ LeaseAudited /\ HistoryKept /\ SessionsOK
  BY DEF PostgresInv
<1>1. i \in IncidentID
  BY DEF Rows
<1>2. PICK row \in IncidentRow : row = incidentRows[i]
  BY <1>0, ExistingRow DEF Rows
<1>3. PICK version, expiresAt, acquiredAt :
        version = row.version + 1 /\ expiresAt = Stored(now + lease) /\ acquiredAt = Stored(now)
  OBVIOUS
<1>4. /\ version \in Version /\ version \in Nat
      /\ row.version \in Nat \ {0}
      /\ acquiredAt \in StoredTime
      /\ expiresAt \in Nat \ {0}
  <2>1. version \in Version /\ row.version \in Nat \ {0} /\ version \in Nat
    BY <1>2, <1>3, VersionAfter DEF Grant
  <2>2. now \in Nat /\ acquiredAt \in StoredTime /\ acquiredAt \in Nat \ {0}
    BY <1>3, StoredTimes
  <2>3. lease \in Nat \ {0}
    BY NumbersAssumption
  <2>4. expiresAt = acquiredAt + lease
    BY <1>3, <2>2, StoredLease
  <2>5. QED
    BY <2>1, <2>2, <2>3, <2>4
<1>5. PICK image :
        image = [row EXCEPT !.version = version, !.holder = holder, !.expiresAt = expiresAt]
  OBVIOUS
<1>6. PICK event :
        event = [version |-> version, holder |-> holder,
                 acquiredAt |-> acquiredAt, expiresAt |-> expiresAt]
  OBVIOUS
<1>7. /\ image \in IncidentRow
      /\ image.version = version /\ image.holder = holder /\ image.expiresAt = expiresAt
      /\ image.state = row.state /\ image.key = row.key /\ image.resolvedAt = row.resolvedAt
      /\ image.binding = row.binding /\ image.resolution = row.resolution
  BY <1>4, <1>5 DEF IncidentRow
<1>8. event \in ClaimRow /\ event.version = version /\ event.holder = holder
      /\ event.expiresAt = expiresAt
  BY <1>4, <1>6 DEF ClaimRow
<1>9. /\ incidentRows' = [incidentRows EXCEPT ![i] = image]
      /\ claimRows' = [claimRows EXCEPT ![i] = @ \cup {event}]
      /\ UNCHANGED <<transitionRows, planRows, attemptRows, verificationRows, tx>>
  <2>1. incidentRows' = [incidentRows EXCEPT
          ![i].version = version, ![i].holder = holder, ![i].expiresAt = expiresAt]
    BY <1>2, <1>3 DEF Grant
  <2>2. incidentRows' = [incidentRows EXCEPT ![i] = image]
    BY <1>0, <1>1, <1>2, <1>5, <2>1 DEF TablesTyped
  <2>3. QED
    BY <1>2, <1>3, <1>6, <2>2 DEF Grant
<1>10. /\ incidentRows'[i] = image /\ claimRows'[i] = claimRows[i] \cup {event}
       /\ \A j \in IncidentID \ {i} :
            incidentRows'[j] = incidentRows[j] /\ claimRows'[j] = claimRows[j]
  BY <1>0, <1>1, <1>9 DEF TablesTyped
<1>11. Rows' = Rows
  BY <1>2, <1>7, <1>10 DEF Rows, RowExists
<1>12. TablesTyped'
  BY <1>0, <1>7, <1>8, <1>9 DEF TablesTyped
<1>13. RowsAccepted'
  <2>1. IncidentRowOK(row)
    BY <1>0, <1>1, <1>2 DEF RowsAccepted, Rows
  <2>2. IncidentRowOK(image)
    BY <1>4, <1>7, <2>1, NoHolderAssumption DEF IncidentRowOK
  <2>3. \A j \in IncidentID : RowExists(j)' => IncidentRowOK(incidentRows'[j])
    BY <1>0, <1>10, <2>2 DEF RowsAccepted, RowExists
  <2>4. \A j \in IncidentID : AuditedVersions(j) \subseteq AuditedVersions(j)'
    BY <1>1, <1>10 DEF AuditedVersions
  <2>5. QED
    BY <1>0, <1>9, <2>3, <2>4, ActionKeyOf DEF RowsAccepted
<1>14. RowsInSequence'
  <2>1. \A j \in Rows : j \in IncidentID
    BY DEF Rows
  <2>2. \A j \in Rows : incidentRows'[j].key = incidentRows[j].key
                        /\ incidentRows'[j].resolvedAt = incidentRows[j].resolvedAt
    BY <1>2, <1>7, <1>10, <2>1
  <2>3. \A j \in IncidentID \ Rows : j # i
    OBVIOUS
  <2>4. QED
    BY <1>0, <1>9, <1>10, <1>11, <2>2, <2>3 DEF RowsInSequence
<1>15. LeaseAudited'
  <2>1. \A other \in claimRows[i] : other.version <= version
    <3>1. \A other \in claimRows[i] : other.version \in 2..row.version
      BY <1>2, AuditedVersionsOf
    <3>2. QED
      BY <1>3, <1>4, <3>1
  <2>2. ASSUME NEW j \in Rows
        PROVE  /\ incidentRows'[j].holder = NoHolder => claimRows'[j] = {}
               /\ incidentRows'[j].holder # NoHolder =>
                    \E e \in claimRows'[j] :
                      /\ \A other \in claimRows'[j] : other.version <= e.version
                      /\ e.holder = incidentRows'[j].holder
                      /\ e.expiresAt = incidentRows'[j].expiresAt
    <3>1. CASE j = i
      BY <1>4, <1>7, <1>8, <1>10, <2>1, <3>1, NoHolderAssumption
    <3>2. CASE j # i
      <4>1. incidentRows'[j] = incidentRows[j] /\ claimRows'[j] = claimRows[j]
        BY <1>10, <3>2 DEF Rows
      <4>2. QED
        BY <1>0, <4>1 DEF LeaseAudited
    <3>3. QED
      BY <3>1, <3>2
  <2>3. QED
    BY <1>11, <2>2 DEF LeaseAudited
<1>16. HistoryKept'
  <2>1. HistoryOf(i) /\ incidentRows[i] = row
    BY <1>0, <1>2 DEF HistoryKept
  <2>2. AuditedVersions(i)' = AuditedVersions(i) \cup {version}
    BY <1>8, <1>10 DEF AuditedVersions
  <2>3. 2..version = 2..row.version \cup {version}
    BY <1>3, <1>4
  <2>4. \A m \in transitionRows[i] : m.version # version
    <3>1. \A m \in transitionRows[i] : m.version \in 2..row.version
      BY <1>2, AuditedVersionsOf
    <3>2. QED
      BY <1>3, <1>4, <3>1
  <2>5. HistoryOf(i)'
    BY <1>7, <1>9, <1>10, <2>1, <2>2, <2>3, <2>4 DEF HistoryOf
  <2>6. ASSUME NEW j \in Rows \ {i} PROVE HistoryOf(j)'
    <3>1. incidentRows'[j] = incidentRows[j] /\ claimRows'[j] = claimRows[j]
      BY <1>10 DEF Rows
    <3>2. HistoryOf(j)
      BY <1>0 DEF HistoryKept
    <3>3. QED
      BY <1>9, <3>1, <3>2, SameHistory
  <2>7. QED
    BY <1>11, <2>5, <2>6 DEF HistoryKept
<1>17. ASSUME NEW u \in Session, OpenOK(tx[u]) PROVE Undisturbed(u)
  <2>1. ASSUME tx[u].op # "finish" PROVE tx[u].k.incident # i
    <3>1. IncidentLock(tx[u].k.incident) \in tx[u].holds
      BY <1>17, <2>1, OwnsIncident
    <3>2. ~ Conflict(IncidentLock(tx[u].k.incident), IncidentLock(i))
      BY <3>1 DEF Unlocked
    <3>3. QED
      BY <3>2 DEF Conflict, IncidentLock
  <2>2. tx[u].k.incident \in IncidentID
    BY <1>17, OpenTransaction, ActionKeyOf
  <2>3. QED
    BY <1>9, <1>10, <2>1, <2>2 DEF Undisturbed
<1>18. QED
  BY <1>9, <1>12, <1>13, <1>14, <1>15, <1>16, <1>17, TableStatement DEF TablesOK

LEMMA ClaimStep ==
  ASSUME PostgresInv, NEW i \in IncidentID, NEW version,
         NEW holder \in Holder, NEW now \in Clock, NEW lease \in Lease,
         Claim(i, version, holder, now, lease)
  PROVE  PostgresInv'
<1>1. i \in Rows /\ Unlocked(IncidentLock(i)) /\ Grant(i, holder, now, lease)
  BY DEF Claim, Rows
<1>2. QED
  BY <1>1, GrantStep

(* Work is only found on incidents that exist.                              *)
LEMMA SchedulersStep ==
  ASSUME PostgresInv, NEW k \in ActionKey,
         NEW holder \in Holder, NEW now \in Clock, NEW lease \in Lease,
         \/ ClaimPendingVerification(k, holder, now, lease)
         \/ ClaimRecoveredVerificationResolution(k, holder, now, lease)
  PROVE  PostgresInv'
<1>1. /\ incidentRows[k.incident].state = "VERIFYING"
      /\ Unlocked(IncidentLock(k.incident))
      /\ Grant(k.incident, holder, now, lease)
  BY DEF ClaimPendingVerification, ClaimRecoveredVerificationResolution, Candidates
<1>2. k.incident \in Rows
  BY <1>1, ActionKeyOf DEF Rows, RowExists
<1>3. QED
  BY <1>1, <1>2, GrantStep

LEMMA PublishPlanStep ==
  ASSUME PostgresInv, NEW k \in ActionKey, PublishPlan(k)
  PROVE  PostgresInv'
<1>1. /\ planRows' = planRows \cup {k}
      /\ UNCHANGED <<incidentRows, claimRows, transitionRows, attemptRows, verificationRows, tx>>
  BY DEF PublishPlan
<1>2. TablesTyped /\ RowsAccepted /\ RowsInSequence /\ LeaseAudited /\ HistoryKept
  BY DEF PostgresInv
<1>3. TablesTyped'
  BY <1>1, <1>2 DEF TablesTyped
<1>4. \A i : (RowExists(i) <=> RowExists(i)') /\ AuditedVersions(i)' = AuditedVersions(i)
  BY <1>1 DEF RowExists, AuditedVersions
<1>5. Rows' = Rows
  BY <1>1 DEF Rows, RowExists
<1>6. RowsAccepted'
  BY <1>1, <1>2, <1>4 DEF RowsAccepted
<1>7. RowsInSequence' /\ LeaseAudited'
  BY <1>1, <1>2, <1>5 DEF RowsInSequence, LeaseAudited
<1>8. HistoryKept'
  BY <1>1, <1>2, <1>5, SameHistory DEF HistoryKept
<1>9. \A u \in Session : Undisturbed(u)
  BY <1>1 DEF Undisturbed
<1>10. QED
  BY <1>1, <1>3, <1>6, <1>7, <1>8, <1>9, TableStatement DEF TablesOK

(* An attempt is inserted where there was none: no transaction is about it. *)
LEMMA BeginAttemptStep ==
  ASSUME PostgresInv, NEW k \in ActionKey, NEW token \in AuditedVersions(k.incident),
         NEW now \in Clock, BeginAttempt(k, token, now)
  PROVE  PostgresInv'
<1>1. CASE attemptRows[k].status # "NONE"
  BY <1>1, NothingChanges DEF BeginAttempt
<1>2. CASE attemptRows[k].status = "NONE"
  <2>0. TablesTyped /\ RowsAccepted /\ RowsInSequence /\ LeaseAudited /\ HistoryKept
    BY DEF PostgresInv
  <2>1. PICK at : at = Stored(now)
    OBVIOUS
  <2>2. at \in StoredTime /\ at \in Nat \ {0}
    BY <2>1, StoredTimes
  <2>3. PICK row : row = [status |-> "STARTED", version |-> 1, token |-> token,
                          startedAt |-> at, finishedAt |-> 0, recoveredBy |-> 0]
    OBVIOUS
  <2>4. /\ attemptRows' = [attemptRows EXCEPT ![k] = row]
        /\ UNCHANGED <<incidentRows, claimRows, transitionRows, planRows, verificationRows, tx>>
    BY <1>2, <2>1, <2>3 DEF BeginAttempt
  <2>5. k.incident \in IncidentID
    BY ActionKeyOf
  <2>6. token \in Version
    BY <2>0, <2>5 DEF TablesTyped, AuditedVersions, ClaimRow
  <2>7. row \in AttemptRow /\ row.status = "STARTED" /\ row.token = token
    BY <2>2, <2>3, <2>6 DEF AttemptRow
  <2>8. AttemptRowOK(row)
    BY <2>3 DEF AttemptRowOK
  <2>9. attemptRows'[k] = row /\ \A c \in ActionKey \ {k} : attemptRows'[c] = attemptRows[c]
    BY <2>0, <2>4 DEF TablesTyped
  <2>10. TablesTyped'
    BY <2>0, <2>4, <2>7 DEF TablesTyped
  <2>11. \A i : (RowExists(i) <=> RowExists(i)') /\ AuditedVersions(i)' = AuditedVersions(i)
    BY <2>4 DEF RowExists, AuditedVersions
  <2>12. Rows' = Rows
    BY <2>4 DEF Rows, RowExists
  <2>13. RowsAccepted'
    BY <2>0, <2>4, <2>7, <2>8, <2>9, <2>11 DEF RowsAccepted
  <2>14. RowsInSequence' /\ LeaseAudited'
    BY <2>0, <2>4, <2>12 DEF RowsInSequence, LeaseAudited
  <2>15. HistoryKept'
    BY <2>0, <2>4, <2>12, SameHistory DEF HistoryKept
  <2>16. ASSUME NEW u \in Session, OpenOK(tx[u]) PROVE Undisturbed(u)
    <3>1. ASSUME tx[u].op = "finish" \/ attemptRows[tx[u].k].status \in TerminalStatus
          PROVE  tx[u].k # k /\ tx[u].k \in ActionKey
      <4>1. tx[u].k \in ActionKey
        BY <2>16, OpenTransaction
      <4>2. CASE tx[u].op = "finish"
        <5>1. attemptRows[tx[u].k].status # "NONE"
          BY <2>0, <2>16, <4>1, <4>2, OwnsAttempt, ExistingAttempt
        <5>2. QED
          BY <1>2, <4>1, <5>1
      <4>3. CASE attemptRows[tx[u].k].status \in TerminalStatus
        BY <1>2, <4>1, <4>3 DEF TerminalStatus
      <4>4. QED
        BY <3>1, <4>2, <4>3
    <3>2. QED
      BY <2>4, <2>9, <3>1 DEF Undisturbed
  <2>17. QED
    BY <2>4, <2>10, <2>13, <2>14, <2>15, <2>16, TableStatement DEF TablesOK
<1>3. QED
  BY <1>1, <1>2
-----------------------------------------------------------------------------
(* A commit writes rows that nobody else has locked.                        *)

LEMMA CommitFacts ==
  ASSUME PostgresInv, NEW s \in Session, Commit(s)
  PROVE  /\ OpenOK(tx[s])
         /\ tx[s].step = "commit"
         /\ tx[s].k \in ActionKey
         /\ tx[s].k.incident \in IncidentID
         /\ tx' = [tx EXCEPT ![s] = NoTransaction]
         /\ UNCHANGED <<claimRows, planRows>>
<1>1. At(s, "commit") /\ tx' = [tx EXCEPT ![s] = NoTransaction] /\ UNCHANGED <<claimRows, planRows>>
  BY DEF Commit
<1>2. OpenOK(tx[s]) /\ tx[s].step = "commit"
  BY <1>1, ActiveIsOpen DEF PostgresInv, Active, At
<1>3. QED
  BY <1>1, <1>2, OpenTransaction, ActionKeyOf

(* The incident goes with its audit row, or neither is written.             *)
LEMMA CommitsIncident ==
  ASSUME PostgresInv, NEW s \in Session, Commit(s)
  PROVE  \/ tx[s].incident = Unwritten /\ UNCHANGED <<incidentRows, transitionRows>>
         \/ \E row \in IncidentRow, image \in IncidentRow :
              /\ row = incidentRows[tx[s].k.incident] /\ image = tx[s].incident
              /\ tx[s].op # "finish"
              /\ MovesOn(row, image)
              /\ incidentRows' = [incidentRows EXCEPT ![tx[s].k.incident] = image]
              /\ transitionRows' = [transitionRows EXCEPT ![tx[s].k.incident] = @ \cup
                   {[version |-> row.version + 1, from |-> row.state, to |-> image.state]}]
<1>1. /\ OpenOK(tx[s]) /\ tx[s].step = "commit" /\ tx[s].k.incident \in IncidentID
      /\ tx[s].audit = AuditTaken(tx[s])
  BY CommitFacts DEF OpenOK
<1>2. TablesTyped /\ RowsAccepted
  BY DEF PostgresInv
<1>3. /\ incidentRows' = Written(incidentRows, tx[s].k.incident, tx[s].incident)
      /\ transitionRows' = [transitionRows EXCEPT ![tx[s].k.incident] = @ \cup tx[s].audit]
  BY DEF Commit
<1>4. CASE tx[s].incident = Unwritten
  <2>1. tx[s].audit = {}
    BY <1>1, <1>4 DEF AuditTaken
  <2>2. transitionRows' = transitionRows
    BY <1>1, <1>2, <1>3, <2>1 DEF TablesTyped
  <2>3. QED
    BY <1>3, <1>4, <2>2 DEF Written
<1>5. CASE tx[s].incident # Unwritten
  <2>1. /\ tx[s].op \in {"transition", "begin", "resolve"}
        /\ MovesOn(tx[s].read, tx[s].incident)
    BY <1>1, <1>2, <1>5, IncidentImage
  <2>2. tx[s].read \in IncidentRow /\ tx[s].read = incidentRows[tx[s].k.incident]
    BY <1>1, <2>1, OwnsIncident
  <2>3. PICK row \in IncidentRow : row = tx[s].read
    BY <2>2
  <2>4. PICK image \in IncidentRow : image = tx[s].incident
    BY <2>1 DEF MovesOn
  <2>5. image.version = row.version + 1
    BY <2>1, <2>3, <2>4 DEF MovesOn
  <2>6. tx[s].audit = {[version |-> row.version + 1, from |-> row.state, to |-> image.state]}
    BY <1>1, <1>5, <2>3, <2>4, <2>5 DEF AuditTaken
  <2>7. incidentRows' = [incidentRows EXCEPT ![tx[s].k.incident] = image]
    BY <1>3, <1>5, <2>4 DEF Written
  <2>8. MovesOn(row, image) /\ row = incidentRows[tx[s].k.incident] /\ tx[s].op # "finish"
    BY <2>1, <2>2, <2>3, <2>4
  <2>9. QED
    BY <1>3, <2>4, <2>6, <2>7, <2>8
<1>6. QED
  BY <1>4, <1>5

(* A transition that is audited extends the history.                        *)
LEMMA MoveExtendsHistory ==
  ASSUME NEW i, NEW row \in IncidentRow, NEW image \in IncidentRow,
         HistoryOf(i), incidentRows[i] = row, MovesOn(row, image),
         incidentRows'[i] = image, claimRows'[i] = claimRows[i],
         transitionRows'[i] = transitionRows[i] \cup
           {[version |-> row.version + 1, from |-> row.state, to |-> image.state]}
  PROVE  HistoryOf(i)'
<1>1. row.version \in Nat \ {0} /\ image.version = row.version + 1
  BY VersionAfter DEF MovesOn
<1>2. PICK new : new = [version |-> row.version + 1, from |-> row.state, to |-> image.state]
  OBVIOUS
<1>3. PICK old : old = transitionRows[i]
  OBVIOUS
<1>4. new.version = row.version + 1 /\ new.from = row.state /\ new.to = image.state
  BY <1>2
<1>5. transitionRows'[i] = old \cup {new}
  BY <1>2, <1>3
<1>6. /\ IsFiniteSet(old)
      /\ AuditedVersions(i) \cup {m.version : m \in old} = 2..row.version
      /\ \A m \in old : m.version \notin AuditedVersions(i)
      /\ \A m, n \in old : m.version = n.version => m = n
      /\ old = {} => row.state = "DETECTED"
      /\ old # {} => \E last \in old :
           last.to = row.state /\ \A m \in old : m.version <= last.version
      /\ \A m \in old :
           \/ m.from = "DETECTED" /\ \A n \in old : n.version >= m.version
           \/ \E n \in old : n.to = m.from /\ n.version < m.version
  BY <1>3 DEF HistoryOf
<1>7. AuditedVersions(i)' = AuditedVersions(i)
  BY DEF AuditedVersions
<1>8. IsFiniteSet(old \cup {new})
  BY <1>6, FS_AddElement
<1>9. \A m \in old : m.version \in 2..row.version
  BY <1>6
<1>10. \A v \in AuditedVersions(i) : v \in 2..row.version
  BY <1>6
<1>11. AuditedVersions(i) \cup {m.version : m \in old \cup {new}} = 2..image.version
  <2>1. {m.version : m \in old \cup {new}} = {m.version : m \in old} \cup {row.version + 1}
    BY <1>4
  <2>2. 2..image.version = 2..row.version \cup {row.version + 1}
    BY <1>1
  <2>3. QED
    BY <1>6, <2>1, <2>2
<1>12. \A m \in old \cup {new} : m.version \notin AuditedVersions(i)
  BY <1>1, <1>4, <1>6, <1>10
<1>13. \A m, n \in old \cup {new} : m.version = n.version => m = n
  BY <1>1, <1>4, <1>6, <1>9
<1>14. \A m \in old \cup {new} : m.version <= new.version
  BY <1>1, <1>4, <1>9
<1>15. ASSUME NEW m \in old \cup {new}
       PROVE  \/ m.from = "DETECTED" /\ \A n \in old \cup {new} : n.version >= m.version
              \/ \E n \in old \cup {new} : n.to = m.from /\ n.version < m.version
  <2>1. CASE m \in old
    BY <1>1, <1>4, <1>6, <1>9, <2>1
  <2>2. CASE m = new /\ old = {}
    BY <1>1, <1>4, <1>6, <2>2
  <2>3. CASE m = new /\ old # {}
    BY <1>1, <1>4, <1>6, <1>9, <2>3
  <2>4. QED
    BY <2>1, <2>2, <2>3
<1>16. \E last \in old \cup {new} :
         last.to = image.state /\ \A m \in old \cup {new} : m.version <= last.version
  BY <1>4, <1>14
<1>17. old \cup {new} # {}
  OBVIOUS
<1>18. PICK all : all = transitionRows'[i] /\ all = old \cup {new}
  BY <1>5
<1>19. /\ IsFiniteSet(all)
       /\ AuditedVersions(i)' \cup {m.version : m \in all} = 2..image.version
       /\ \A m \in all : m.version \notin AuditedVersions(i)'
       /\ \A m, n \in all : m.version = n.version => m = n
       /\ all # {}
       /\ \E last \in all :
            last.to = image.state /\ \A m \in all : m.version <= last.version
       /\ \A m \in all :
            \/ m.from = "DETECTED" /\ \A n \in all : n.version >= m.version
            \/ \E n \in all : n.to = m.from /\ n.version < m.version
  <2>1. all = old \cup {new}
    BY <1>18
  <2>2. AuditedVersions(i)' \cup {m.version : m \in all} = 2..image.version
    BY <1>7, <1>11, <2>1, Zenon
  <2>3. \A m \in all : m.version \notin AuditedVersions(i)'
    BY <1>7, <1>12, <2>1, Zenon
  <2>4. QED
    BY <1>8, <1>13, <1>15, <1>16, <1>17, <2>1, <2>2, <2>3, Zenon
<1>20. QED
  BY <1>18, <1>19, Zenon DEF HistoryOf

LEMMA CommitKeepsIncidents ==
  ASSUME PostgresInv, NEW s \in Session, Commit(s)
  PROVE  /\ incidentRows' \in [IncidentID -> IncidentRow \cup {NoRow}]
         /\ transitionRows' \in [IncidentID -> SUBSET AuditRow]
         /\ \A i \in IncidentID : RowExists(i)' => IncidentRowOK(incidentRows'[i])
         /\ RowsInSequence' /\ LeaseAudited' /\ HistoryKept'
<1>0. TablesTyped /\ RowsAccepted /\ RowsInSequence /\ LeaseAudited /\ HistoryKept
  BY DEF PostgresInv
<1>1. claimRows' = claimRows /\ tx[s].k.incident \in IncidentID
  BY CommitFacts
<1>2. CASE UNCHANGED <<incidentRows, transitionRows>>
  <2>1. Rows' = Rows /\ \A i : RowExists(i)' <=> RowExists(i)
    BY <1>2 DEF Rows, RowExists
  <2>2. RowsInSequence' /\ LeaseAudited'
    BY <1>0, <1>1, <1>2, <2>1 DEF RowsInSequence, LeaseAudited
  <2>3. HistoryKept'
    BY <1>0, <1>1, <1>2, <2>1, SameHistory DEF HistoryKept
  <2>4. QED
    BY <1>0, <1>2, <2>1, <2>2, <2>3 DEF TablesTyped, RowsAccepted
<1>3. ASSUME NEW row \in IncidentRow, NEW image \in IncidentRow, NEW i \in IncidentID,
             i = tx[s].k.incident,
             row = incidentRows[i],
             MovesOn(row, image),
             incidentRows' = [incidentRows EXCEPT ![i] = image],
             transitionRows' = [transitionRows EXCEPT ![i] = @ \cup
               {[version |-> row.version + 1, from |-> row.state, to |-> image.state]}]
      PROVE  /\ incidentRows' \in [IncidentID -> IncidentRow \cup {NoRow}]
             /\ transitionRows' \in [IncidentID -> SUBSET AuditRow]
             /\ \A j \in IncidentID : RowExists(j)' => IncidentRowOK(incidentRows'[j])
             /\ RowsInSequence' /\ LeaseAudited' /\ HistoryKept'
  <2>1. PICK new : new = [version |-> row.version + 1, from |-> row.state, to |-> image.state]
    OBVIOUS
  <2>2. new \in AuditRow
    BY <1>3, <2>1 DEF AuditRow, IncidentRow, MovesOn
  <2>3. /\ incidentRows'[i] = image /\ transitionRows'[i] = transitionRows[i] \cup {new}
        /\ \A j \in IncidentID \ {i} :
             incidentRows'[j] = incidentRows[j] /\ transitionRows'[j] = transitionRows[j]
    BY <1>0, <1>3, <2>1 DEF TablesTyped
  <2>4. incidentRows' \in [IncidentID -> IncidentRow \cup {NoRow}]
    BY <1>0, <1>3 DEF TablesTyped
  <2>5. transitionRows' \in [IncidentID -> SUBSET AuditRow]
    BY <1>0, <1>3, <2>1, <2>2 DEF TablesTyped
  <2>6. i \in Rows /\ image.state # "NONE"
    BY <1>0, <1>3, ExistingRow DEF Rows, IncidentRow, IncidentState
  <2>7. Rows' = Rows
    BY <2>3, <2>6 DEF Rows, RowExists
  <2>8. \A j \in Rows : j \in IncidentID
    BY DEF Rows
  <2>9. \A j \in IncidentID : RowExists(j)' => IncidentRowOK(incidentRows'[j])
    BY <1>0, <1>3, <2>3 DEF RowsAccepted, RowExists, MovesOn
  <2>10. RowsInSequence'
    <3>1. ~ row.resolvedAt /\ image.key = row.key
      <4>1. IncidentRowOK(row)
        BY <1>0, <1>3, <2>6 DEF RowsAccepted, Rows
      <4>2. QED
        BY <1>3, <4>1 DEF IncidentRowOK, MovesOn
    <3>2. \A j \in Rows : /\ incidentRows'[j].key = incidentRows[j].key
                          /\ incidentRows[j].resolvedAt => incidentRows'[j].resolvedAt
      BY <1>3, <2>3, <2>8, <3>1
    <3>3. \A a, b \in Rows' :
            (incidentRows'[a].key = incidentRows'[b].key
             /\ ~ incidentRows'[a].resolvedAt /\ ~ incidentRows'[b].resolvedAt) => a = b
      BY <1>0, <2>7, <3>2 DEF RowsInSequence
    <3>4. \A j \in IncidentID \ Rows' : claimRows'[j] = {} /\ transitionRows'[j] = {}
      BY <1>0, <1>1, <2>3, <2>6, <2>7 DEF RowsInSequence
    <3>5. QED
      BY <1>0, <2>7, <3>3, <3>4 DEF RowsInSequence
  <2>11. LeaseAudited'
    <3>1. image.holder = row.holder /\ image.expiresAt = row.expiresAt
      BY <1>3 DEF MovesOn
    <3>2. \A j \in Rows : /\ incidentRows'[j].holder = incidentRows[j].holder
                          /\ incidentRows'[j].expiresAt = incidentRows[j].expiresAt
      BY <1>3, <2>3, <2>8, <3>1
    <3>3. QED
      BY <1>0, <1>1, <2>7, <3>2 DEF LeaseAudited
  <2>12. HistoryKept'
    <3>1. HistoryOf(i)'
      BY <1>0, <1>1, <1>3, <2>1, <2>3, <2>6, MoveExtendsHistory DEF HistoryKept
    <3>2. ASSUME NEW j \in Rows \ {i} PROVE HistoryOf(j)'
      <4>1. HistoryOf(j)
        BY <1>0 DEF HistoryKept
      <4>2. QED
        BY <1>1, <2>3, <2>8, <4>1, SameHistory
    <3>3. QED
      BY <2>7, <3>1, <3>2 DEF HistoryKept
  <2>13. QED
    BY <2>4, <2>5, <2>9, <2>10, <2>11, <2>12
<1>4. QED
  BY <1>1, <1>2, <1>3, CommitsIncident

LEMMA CommitKeepsAttempts ==
  ASSUME PostgresInv, NEW s \in Session, Commit(s)
  PROVE  /\ attemptRows' \in [ActionKey -> AttemptRow \cup {NoAttemptRow}]
         /\ \A k \in ActionKey : attemptRows'[k].status # "NONE" =>
              AttemptRowOK(attemptRows'[k]) /\ attemptRows'[k].token \in AuditedVersions(k.incident)'
         /\ \/ tx[s].attempt = Unwritten /\ attemptRows' = attemptRows
            \/ /\ tx[s].op = "finish" /\ attemptRows[tx[s].k].status = "STARTED"
               /\ \A k \in ActionKey \ {tx[s].k} : attemptRows'[k] = attemptRows[k]
<1>0. TablesTyped /\ RowsAccepted
  BY DEF PostgresInv
<1>1. OpenOK(tx[s]) /\ tx[s].k \in ActionKey /\ claimRows' = claimRows
  BY CommitFacts
<1>2. attemptRows' = Written(attemptRows, tx[s].k, tx[s].attempt)
  BY DEF Commit
<1>3. \A i : AuditedVersions(i)' = AuditedVersions(i)
  BY <1>1 DEF AuditedVersions
<1>4. CASE tx[s].attempt = Unwritten
  <2>1. attemptRows' = attemptRows
    BY <1>2, <1>4 DEF Written
  <2>2. QED
    BY <1>0, <1>3, <1>4, <2>1 DEF TablesTyped, RowsAccepted
<1>5. CASE tx[s].attempt # Unwritten
  <2>1. PICK image : image = tx[s].attempt
    OBVIOUS
  <2>2. PICK k \in ActionKey : k = tx[s].k
    BY <1>1
  <2>3. /\ tx[s].op = "finish" /\ image \in AttemptRow /\ AttemptRowOK(image)
        /\ image.token = tx[s].read.token /\ tx[s].read.status = "STARTED"
    BY <1>0, <1>1, <1>5, <2>1, AttemptImage
  <2>4. attemptRows[k] = tx[s].read
    BY <1>1, <2>2, <2>3, OwnsAttempt
  <2>5. attemptRows' = [attemptRows EXCEPT ![k] = image]
    BY <1>2, <1>5, <2>1, <2>2 DEF Written
  <2>6. attemptRows'[k] = image /\ \A c \in ActionKey \ {k} : attemptRows'[c] = attemptRows[c]
    BY <1>0, <2>5 DEF TablesTyped
  <2>7. attemptRows' \in [ActionKey -> AttemptRow \cup {NoAttemptRow}]
    BY <1>0, <2>3, <2>5 DEF TablesTyped
  <2>8. image.token \in AuditedVersions(k.incident)
    BY <1>0, <2>3, <2>4 DEF RowsAccepted
  <2>9. ASSUME NEW c \in ActionKey, attemptRows'[c].status # "NONE"
        PROVE  AttemptRowOK(attemptRows'[c]) /\ attemptRows'[c].token \in AuditedVersions(c.incident)'
    <3>1. CASE c = k
      BY <1>3, <2>3, <2>6, <2>8, <3>1
    <3>2. CASE c # k
      BY <1>0, <1>3, <2>6, <2>9, <3>2 DEF RowsAccepted
    <3>3. QED
      BY <3>1, <3>2
  <2>10. QED
    BY <2>2, <2>3, <2>4, <2>6, <2>7, <2>9
<1>6. QED
  BY <1>4, <1>5

LEMMA CommitKeepsVerifications ==
  ASSUME PostgresInv, NEW s \in Session, Commit(s)
  PROVE  /\ verificationRows' \in [ActionKey -> VerificationRow \cup {NoVerificationRow}]
         /\ \A k \in ActionKey : verificationRows'[k].status # "NONE" =>
              VerificationRowOK(verificationRows'[k])
         /\ \/ verificationRows' = verificationRows
            \/ /\ tx[s].op # "finish"
               /\ \A k \in ActionKey \ {tx[s].k} : verificationRows'[k] = verificationRows[k]
<1>0. TablesTyped /\ RowsAccepted
  BY DEF PostgresInv
<1>1. OpenOK(tx[s]) /\ tx[s].k \in ActionKey
  BY CommitFacts
<1>2. verificationRows' = Written(verificationRows, tx[s].k, tx[s].verification)
  BY DEF Commit
<1>3. CASE tx[s].verification = Unwritten
  <2>1. verificationRows' = verificationRows
    BY <1>2, <1>3 DEF Written
  <2>2. QED
    BY <1>0, <2>1 DEF TablesTyped, RowsAccepted
<1>4. CASE tx[s].verification # Unwritten
  <2>1. PICK image : image = tx[s].verification
    OBVIOUS
  <2>2. PICK k \in ActionKey : k = tx[s].k
    BY <1>1
  <2>3. tx[s].op # "finish" /\ image \in VerificationRow /\ VerificationRowOK(image)
    BY <1>0, <1>1, <1>4, <2>1, VerificationImage
  <2>4. verificationRows' = [verificationRows EXCEPT ![k] = image]
    BY <1>2, <1>4, <2>1, <2>2 DEF Written
  <2>5. /\ verificationRows'[k] = image
        /\ \A c \in ActionKey \ {k} : verificationRows'[c] = verificationRows[c]
    BY <1>0, <2>4 DEF TablesTyped
  <2>6. verificationRows' \in [ActionKey -> VerificationRow \cup {NoVerificationRow}]
    BY <1>0, <2>3, <2>4 DEF TablesTyped
  <2>7. \A c \in ActionKey : verificationRows'[c].status # "NONE" =>
          VerificationRowOK(verificationRows'[c])
    BY <1>0, <2>3, <2>5 DEF RowsAccepted
  <2>8. QED
    BY <2>2, <2>3, <2>5, <2>6, <2>7
<1>5. QED
  BY <1>3, <1>4

(* The locks are why a commit passes the other transactions by.             *)
LEMMA CommitDisturbsNobody ==
  ASSUME PostgresInv, NEW s \in Session, Commit(s),
         NEW u \in Session \ {s}, OpenOK(tx[u])
  PROVE  Undisturbed(u)
<1>1. /\ OpenOK(tx[s]) /\ claimRows' = claimRows /\ tx[s].k \in ActionKey
      /\ tx' = [tx EXCEPT ![s] = NoTransaction]
  BY CommitFacts
<1>2. /\ tx'[u] = tx[u] /\ tx[u].k \in ActionKey
      /\ tx[u].k.incident \in IncidentID
  BY <1>1, OpenTransaction, ActionKeyOf DEF PostgresInv, SessionsOK
<1>3. ASSUME NEW a \in tx[s].holds, NEW b \in tx[u].holds PROVE ~ Conflict(a, b)
  BY DEF PostgresInv, LocksExclude
<1>4. ASSUME tx[s].op # "finish", tx[u].op # "finish"
      PROVE  tx[u].k.incident # tx[s].k.incident
  <2>1. /\ IncidentLock(tx[s].k.incident) \in tx[s].holds
        /\ IncidentLock(tx[u].k.incident) \in tx[u].holds
    BY <1>1, <1>4, OwnsIncident
  <2>2. QED
    BY <1>3, <2>1 DEF Conflict, IncidentLock
<1>5. ASSUME tx[s].op = "finish", tx[u].op = "finish"
      PROVE  tx[u].k # tx[s].k
  <2>1. /\ AttemptLock(tx[s].k, FALSE) \in tx[s].holds
        /\ AttemptLock(tx[u].k, FALSE) \in tx[u].holds
    BY <1>1, <1>5, OwnsAttempt
  <2>2. QED
    BY <1>3, <2>1 DEF Conflict, AttemptLock
<1>6. ASSUME tx[u].op # "finish"
      PROVE  incidentRows'[tx[u].k.incident] = incidentRows[tx[u].k.incident]
  <2>1. CASE incidentRows' = incidentRows
    BY <2>1
  <2>2. CASE /\ tx[s].op # "finish"
             /\ incidentRows' = [incidentRows EXCEPT ![tx[s].k.incident] = tx[s].incident]
    BY <1>2, <1>4, <1>6, <2>2 DEF PostgresInv, TablesTyped
  <2>3. QED
    BY <2>1, <2>2, CommitsIncident
<1>7. ASSUME tx[u].op # "finish"
      PROVE  verificationRows'[tx[u].k] = verificationRows[tx[u].k]
  BY <1>2, <1>4, <1>7, CommitKeepsVerifications
<1>8. ASSUME tx[u].op = "finish" \/ attemptRows[tx[u].k].status \in TerminalStatus
      PROVE  attemptRows'[tx[u].k] = attemptRows[tx[u].k]
  <2>1. CASE attemptRows' = attemptRows
    BY <2>1
  <2>2. CASE /\ tx[s].op = "finish" /\ attemptRows[tx[s].k].status = "STARTED"
             /\ \A k \in ActionKey \ {tx[s].k} : attemptRows'[k] = attemptRows[k]
    BY <1>2, <1>5, <1>8, <2>2 DEF TerminalStatus
  <2>3. QED
    BY <2>1, <2>2, CommitKeepsAttempts
<1>9. QED
  BY <1>1, <1>2, <1>6, <1>7, <1>8 DEF Undisturbed

LEMMA CommitStep ==
  ASSUME PostgresInv, NEW s \in Session, Commit(s)
  PROVE  PostgresInv'
<1>1. tx' = [tx EXCEPT ![s] = NoTransaction] /\ UNCHANGED <<claimRows, planRows>>
  BY CommitFacts
<1>2. SessionsOK /\ LocksExclude /\ TablesTyped
  BY DEF PostgresInv
<1>3. TablesTyped'
  BY <1>1, <1>2, CommitKeepsIncidents, CommitKeepsAttempts, CommitKeepsVerifications DEF TablesTyped
<1>4. RowsAccepted'
  BY CommitKeepsIncidents, CommitKeepsAttempts, CommitKeepsVerifications DEF RowsAccepted
<1>5. SessionsOK'
  BY <1>1, <1>2, CommitDisturbsNobody, OthersStayOpen
<1>6. LocksExclude'
  BY <1>1, <1>2, LocksStayExclusive, IdleTransaction
<1>7. QED
  BY <1>3, <1>4, <1>5, <1>6, CommitKeepsIncidents DEF PostgresInv
-----------------------------------------------------------------------------
(* The induction.                                                           *)

LEMMA InitiallyInOrder ==
  ASSUME PostgresInit
  PROVE  PostgresInv
<1>1. \A i \in IncidentID : incidentRows[i] = NoRow /\ claimRows[i] = {} /\ transitionRows[i] = {}
  BY DEF PostgresInit
<1>2. \A k \in ActionKey : /\ attemptRows[k].status = "NONE"
                           /\ verificationRows[k].status = "NONE"
  BY DEF PostgresInit, NoAttemptRow, NoVerificationRow
<1>3. \A s \in Session : tx[s] = NoTransaction
  BY DEF PostgresInit
<1>4. TablesTyped
  BY DEF PostgresInit, TablesTyped
<1>5. SessionsOK
  <2>1. tx = [s \in Session |-> tx[s]]
    BY DEF PostgresInit
  <2>2. QED
    BY <1>3, <2>1 DEF SessionsOK
<1>6. LocksExclude
  BY <1>3, IdleTransaction DEF LocksExclude
<1>7. \A i \in IncidentID : ~ RowExists(i)
  BY <1>1 DEF RowExists, NoRow
<1>8. Rows = {}
  BY <1>7 DEF Rows
<1>9. RowsAccepted
  BY <1>2, <1>7 DEF RowsAccepted
<1>10. RowsInSequence
  <2>1. 1..0 = {} /\ 0 \in 0..MaxIncidents
    BY NumbersAssumption
  <2>2. QED
    BY <1>1, <1>8, <2>1 DEF RowsInSequence
<1>11. LeaseAudited /\ HistoryKept
  BY <1>8 DEF LeaseAudited, HistoryKept
<1>12. QED
  BY <1>4, <1>5, <1>6, <1>9, <1>10, <1>11 DEF PostgresInv

LEMMA StatementStep ==
  ASSUME PostgresInv, NEW k \in ActionKey, NEW now \in Clock, Statement(k, now)
  PROVE  PostgresInv'
<1>1. k.incident \in IncidentID
  BY ActionKeyOf
<1>2. QED
  BY <1>1, ClaimStep, SchedulersStep, PublishPlanStep, BeginAttemptStep DEF Statement

LEMMA StartTransactionStep ==
  ASSUME PostgresInv, NEW s \in Session, NEW k \in ActionKey, NEW now \in Clock,
         StartTransaction(s, k, now)
  PROVE  PostgresInv'
<1>1. CASE \E to \in {"DIAGNOSED", "WAITING_APPROVAL", "VERIFYING", "RESOLVED"} :
             StartTransition(s, k, incidentRows[k.incident].version, to)
  BY <1>1, StartTransitionStep
<1>2. CASE \E op \in {"begin", "complete", "resolve"}, holder \in Holder :
             StartFenced(s, op, k, incidentRows[k.incident].version, holder, now)
  BY <1>2, StartFencedStep
<1>3. CASE \E token \in AuditedVersions(k.incident), to \in {"SUCCEEDED", "FAILED"} :
             StartCompletion(s, k, token, to, now)
  BY <1>3, StartCompletionStep
<1>4. CASE \E token \in AuditedVersions(k.incident) : StartRecovery(s, k, token, now)
  BY <1>4, StartRecoveryStep
<1>5. QED
  BY <1>1, <1>2, <1>3, <1>4 DEF StartTransaction

LEMMA NextStatementStep ==
  ASSUME PostgresInv, NEW s \in Session, NextStatement(s)
  PROVE  PostgresInv'
<1>1. CASE ShareAttempt(s) \/ EnterVerifying(s) \/ InsertAudit(s) \/ InsertVerification(s)
  BY <1>1, ShareAttemptStep, EnterVerifyingStep, InsertAuditStep, InsertVerificationStep
<1>2. CASE LockVerification(s) \/ UpdateVerification(s) \/ LockEvidence(s) \/ UpdateResolved(s)
  BY <1>2, LockVerificationStep, UpdateVerificationStep, LockEvidenceStep, UpdateResolvedStep
<1>3. CASE UpdateAttempt(s) \/ Commit(s) \/ Abort(s)
  BY <1>3, UpdateAttemptStep, CommitStep, AbortStep
<1>4. QED
  BY <1>1, <1>2, <1>3 DEF NextStatement

(* Every step, of whatever session, keeps the tables typed and complete,    *)
(* the locks exclusive and each open transaction true to what it read.      *)
THEOREM PostgresInvariant == PostgresSpec => []PostgresInv
<1>1. PostgresInit => PostgresInv
  BY InitiallyInOrder
<1>2. PostgresInv /\ [PostgresNext]_postgresVars => PostgresInv'
  <2> SUFFICES ASSUME PostgresInv, [PostgresNext]_postgresVars PROVE PostgresInv'
    OBVIOUS
  <2>1. ASSUME NEW key \in Key, Observe(key) PROVE PostgresInv'
    BY <2>1, ObserveStep
  <2>2. ASSUME NEW k \in ActionKey, NEW now \in Clock, Statement(k, now) PROVE PostgresInv'
    BY <2>2, StatementStep
  <2>3. ASSUME NEW s \in Session, NEW k \in ActionKey, NEW now \in Clock,
               StartTransaction(s, k, now)
        PROVE  PostgresInv'
    BY <2>3, StartTransactionStep
  <2>4. ASSUME NEW s \in Session, NextStatement(s) PROVE PostgresInv'
    BY <2>4, NextStatementStep
  <2>5. CASE UNCHANGED postgresVars
    BY <2>5, NothingChanges
  <2>6. QED
    BY <2>1, <2>2, <2>3, <2>4, <2>5 DEF PostgresNext
<1>3. QED
  BY <1>1, <1>2, PTL DEF PostgresSpec
-----------------------------------------------------------------------------
(* What the schema, the audit and the locks are there for.                  *)

(* The tables are typed in every reachable state.                           *)
THEOREM PostgresTypesOK == PostgresSpec => []PostgresTypeOK
<1>1. PostgresInv => PostgresTypeOK
  <2> SUFFICES ASSUME PostgresInv PROVE PostgresTypeOK
    OBVIOUS
  <2>1. TablesTyped /\ SessionsOK
    BY DEF PostgresInv
  <2>2. ASSUME NEW i \in IncidentID, RowExists(i)
        PROVE  /\ incidentRows[i].version \in Version
               /\ incidentRows[i].key \in Key
               /\ incidentRows[i].holder \in Holder \cup {NoHolder}
    BY <2>1, <2>2, ExistingRow DEF IncidentRow
  <2>3. ASSUME NEW i \in IncidentID, NEW event \in claimRows[i]
        PROVE  /\ event.version \in Version
               /\ event.holder \in Holder
               /\ event.acquiredAt \in StoredTime
    <3>1. event \in ClaimRow
      BY <2>1 DEF TablesTyped
    <3>2. QED
      BY <3>1 DEF ClaimRow
  <2>4. \A s \in Session : Active(s) => tx[s].k \in ActionKey
    BY <2>1, ActiveIsOpen, OpenTransaction
  <2>5. QED
    BY <2>1, <2>2, <2>3, <2>4 DEF PostgresTypeOK, TablesTyped
<1>2. QED
  BY <1>1, PostgresInvariant, PTL

(* No CHECK constraint and no primary key of the audit ever refuses what a  *)
(* transaction writes, whatever the others have committed since it began.   *)
THEOREM StatementsAreAccepted == PostgresSpec => []NoStatementRejected
<1>1. PostgresInv => NoStatementRejected
  <2> SUFFICES ASSUME PostgresInv, NEW s \in Session, Active(s)
               PROVE  /\ tx[s].incident # Unwritten => IncidentRowOK(tx[s].incident)
                      /\ tx[s].attempt # Unwritten => AttemptRowOK(tx[s].attempt)
                      /\ tx[s].verification # Unwritten => VerificationRowOK(tx[s].verification)
                      /\ \A row \in tx[s].audit, old \in transitionRows[tx[s].k.incident] :
                           row.version # old.version
    BY DEF NoStatementRejected
  <2>1. TablesTyped /\ RowsAccepted /\ OpenOK(tx[s])
    BY ActiveIsOpen DEF PostgresInv
  <2>2. tx[s].incident # Unwritten => MovesOn(tx[s].read, tx[s].incident) /\ tx[s].op # "finish"
    BY <2>1, IncidentImage
  <2>3. ASSUME NEW row \in tx[s].audit, NEW old \in transitionRows[tx[s].k.incident]
        PROVE  row.version # old.version
    <3>1. tx[s].incident # Unwritten /\ row.version = tx[s].incident.version
      BY <2>1 DEF OpenOK, AuditTaken
    <3>2. row.version = tx[s].read.version + 1 /\ tx[s].op # "finish"
      BY <2>2, <3>1 DEF MovesOn
    <3>3. /\ tx[s].k.incident \in Rows
          /\ incidentRows[tx[s].k.incident] = tx[s].read
      BY <2>1, <3>2, OwnsIncident, RowOfTransactionExists
    <3>4. /\ old.version \in 2..tx[s].read.version
          /\ tx[s].read.version \in Nat \ {0}
      BY <3>3, AuditedVersionsOf
    <3>5. QED
      BY <3>2, <3>4
  <2>4. QED
    BY <2>1, <2>2, <2>3, AttemptImage, VerificationImage DEF MovesOn
<1>2. QED
  BY <1>1, PostgresInvariant, PTL

(* Claims and transitions together tell every version of every incident, in *)
(* order and once, whichever transactions died before they committed.       *)
THEOREM HistoriesAreComplete == PostgresSpec => []HistoryComplete
<1>1. PostgresInv => HistoryComplete
  <2> SUFFICES ASSUME PostgresInv, NEW i \in Rows
               PROVE  LET claimed == AuditedVersions(i)
                          moved == {row.version : row \in transitionRows[i]}
                      IN
                        /\ claimed \cup moved = 2..incidentRows[i].version
                        /\ claimed \cap moved = {}
                        /\ Cardinality(moved) = Cardinality(transitionRows[i])
                        /\ incidentRows[i].state =
                             IF moved = {} THEN "DETECTED" ELSE LastTransition(i).to
                        /\ \A row \in transitionRows[i] :
                             \/ /\ row.from = "DETECTED"
                                /\ \A other \in transitionRows[i] : other.version >= row.version
                             \/ \E before \in transitionRows[i] :
                                  before.to = row.from /\ before.version < row.version
    BY DEF HistoryComplete
  <2>1. PICK moves : moves = transitionRows[i]
    OBVIOUS
  <2>2. PICK moved : moved = {row.version : row \in moves}
    OBVIOUS
  <2>3. /\ IsFiniteSet(moves)
        /\ AuditedVersions(i) \cup moved = 2..incidentRows[i].version
        /\ \A m \in moves : m.version \notin AuditedVersions(i)
        /\ \A m, n \in moves : m.version = n.version => m = n
        /\ moves = {} => incidentRows[i].state = "DETECTED"
        /\ moves # {} => \E last \in moves :
             last.to = incidentRows[i].state /\ \A m \in moves : m.version <= last.version
        /\ \A m \in moves :
             \/ m.from = "DETECTED" /\ \A n \in moves : n.version >= m.version
             \/ \E n \in moves : n.to = m.from /\ n.version < m.version
    BY <2>1, <2>2 DEF PostgresInv, HistoryKept, HistoryOf
  <2>4. Cardinality(moved) = Cardinality(moves)
    <3>1. PICK f : f = [m \in moves |-> m.version]
      OBVIOUS
    <3>2. f \in [moves -> moved] /\ \A a, b \in moves : f[a] = f[b] => a = b
      BY <2>2, <2>3, <3>1
    <3>3. \A v \in moved : \E m \in moves : f[m] = v
      BY <2>2, <3>1
    <3>4. f \in Bijection(moves, moved)
      BY <3>2, <3>3, Fun_IsBij
    <3>5. ExistsBijection(moves, moved)
      BY <3>4, Fun_ExistsBij
    <3>6. QED
      BY <2>3, <3>5, FS_Bijection
  <2>5. ASSUME moves # {} PROVE LastTransition(i).to = incidentRows[i].state
    <3>1. PICK last \in moves :
            last.to = incidentRows[i].state /\ \A m \in moves : m.version <= last.version
      BY <2>3, <2>5
    <3>2. \A m \in moves : m.version \in Nat
      BY <2>1, AuditedVersionsOf
    <3>3. \A m \in moves : (\A n \in moves : n.version <= m.version) => m = last
      BY <2>3, <3>1, <3>2
    <3>4. LastTransition(i) = last
      BY <2>1, <3>1, <3>3 DEF LastTransition
    <3>5. QED
      BY <3>1, <3>4
  <2>6. moved = {} <=> moves = {}
    BY <2>2
  <2>7. AuditedVersions(i) \cap moved = {}
    BY <2>2, <2>3
  <2>8. QED
    BY <2>1, <2>2, <2>3, <2>4, <2>5, <2>6, <2>7
<1>2. QED
  BY <1>1, PostgresInvariant, PTL

(* What a transaction decided upon is still true at its last statement.     *)
THEOREM DecisionsHold == PostgresSpec => []DecisionsStayTrue
<1>1. PostgresInv => DecisionsStayTrue
  <2> SUFFICES ASSUME PostgresInv, NEW s \in Session, Active(s)
               PROVE  /\ Holds(s, IncidentLock(tx[s].k.incident)) =>
                           incidentRows[tx[s].k.incident] = tx[s].read
                      /\ tx[s].op = "finish" => attemptRows[tx[s].k] = tx[s].read
                      /\ Holds(s, AttemptLock(tx[s].k, TRUE)) =>
                           attemptRows[tx[s].k].status \in TerminalStatus
                      /\ (tx[s].op = "complete" /\ tx[s].verification # Unwritten) =>
                           verificationRows[tx[s].k].status = "PENDING"
                      /\ tx[s].step = "resolve" => verificationRows[tx[s].k].status = "RECOVERED"
    BY DEF DecisionsStayTrue
  <2>1. OpenOK(tx[s]) /\ tx[s].holds = LocksTaken(tx[s]) /\ tx[s].op \in Ops
    BY ActiveIsOpen, OpenTransaction DEF PostgresInv, OpenOK
  <2>2. Holds(s, IncidentLock(tx[s].k.incident)) => tx[s].op # "finish"
    BY <2>1 DEF Holds, LocksTaken, IncidentLock, AttemptLock
  <2>3. Holds(s, AttemptLock(tx[s].k, TRUE)) => tx[s].op = "begin"
    BY <2>1 DEF Holds, LocksTaken, IncidentLock, AttemptLock, VerificationLock, Ops
  <2>4. tx[s].op = "begin" => attemptRows[tx[s].k].status \in TerminalStatus
    <3>1. BeginOK(tx[s]) => tx[s].command.status \in TerminalStatus
      BY DEF BeginOK, BeginTx
    <3>2. QED
      BY <2>1, <3>1, OpenTransaction DEF BeginOK
  <2>5. (tx[s].op = "complete" /\ tx[s].verification # Unwritten) =>
          verificationRows[tx[s].k].status = "PENDING"
    BY <2>1, OpenTransaction DEF CompleteOK
  <2>6. tx[s].step = "resolve" => ResolveOK(tx[s])
    BY <2>1, OpenTransaction
    DEF Ops, TransitionOK, TransitionTx, BeginOK, BeginTx, CompleteOK, CompleteTx, FinishOK, FinishTx
  <2>7. QED
    BY <2>1, <2>2, <2>3, <2>4, <2>5, <2>6, OwnsIncident, OwnsAttempt DEF ResolveOK
<1>2. QED
  BY <1>1, PostgresInvariant, PTL

(* A transaction only ever waits for one that finishes an attempt, because  *)
(* all others own the incident, and the attempt is under the incident.      *)
LEMMA WaitsForFinish ==
  ASSUME PostgresInv, NEW s \in Session, OpenOK(tx[s]), ~ Granted(s)
  PROVE  \E t \in Session : OpenOK(tx[t]) /\ tx[t].op = "finish"
<1>0. PICK lock \in Wants(s), t \in Session \ {s} : \E held \in tx[t].holds : Conflict(held, lock)
  BY DEF Granted, Available
<1>1. PICK held \in tx[t].holds : Conflict(held, lock)
  BY <1>0
<1>2. /\ tx[s].step \in {"share", "verification", "evidence"}
      /\ \/ lock = AttemptLock(tx[s].k, TRUE)
         \/ lock = AttemptLock(tx[s].k, FALSE)
         \/ lock = VerificationLock(tx[s].k)
  BY DEF Wants, At
<1>3. tx[s].op # "finish"
  BY <1>2, OpenTransaction DEF FinishOK, FinishTx
<1>4. OpenOK(tx[t]) /\ tx[t].op \in Ops /\ tx[t].holds = LocksTaken(tx[t])
  <2>1. tx[t].holds # {}
    OBVIOUS
  <2>2. OpenOK(tx[t])
    BY <2>1, IdleTransaction DEF PostgresInv, SessionsOK
  <2>3. QED
    BY <2>2, OpenTransaction DEF OpenOK
<1>5. ASSUME tx[t].op # "finish" PROVE FALSE
  <2>1. /\ IncidentLock(tx[s].k.incident) \in tx[s].holds
        /\ IncidentLock(tx[t].k.incident) \in tx[t].holds
    BY <1>3, <1>4, <1>5, OwnsIncident
  <2>2. held.table # "incidents"
    BY <1>1, <1>2 DEF Conflict, AttemptLock, VerificationLock
  <2>3. \/ held = AttemptLock(tx[t].k, TRUE)
        \/ held = AttemptLock(tx[t].k, FALSE)
        \/ held = VerificationLock(tx[t].k)
    <3>1. held # IncidentLock(tx[t].k.incident)
      BY <2>2 DEF IncidentLock
    <3>2. held \in LocksTaken(tx[t])
      BY <1>1, <1>4
    <3>3. CASE tx[t].op \in {"transition", "begin"}
      BY <3>1, <3>2, <3>3 DEF LocksTaken
    <3>4. CASE tx[t].op \in {"complete", "resolve"}
      BY <3>1, <3>2, <3>4 DEF LocksTaken
    <3>5. QED
      BY <1>4, <1>5, <3>3, <3>4 DEF Ops
  <2>4. tx[t].k = tx[s].k
    BY <1>1, <1>2, <2>3 DEF Conflict, AttemptLock, VerificationLock
  <2>5. ~ Conflict(IncidentLock(tx[s].k.incident), IncidentLock(tx[t].k.incident))
    BY <2>1 DEF PostgresInv, LocksExclude
  <2>6. IncidentLock(tx[t].k.incident) = IncidentLock(tx[s].k.incident)
    BY <2>4
  <2>7. Conflict(IncidentLock(tx[s].k.incident), IncidentLock(tx[s].k.incident))
    BY DEF Conflict, IncidentLock
  <2>8. QED
    BY <2>5, <2>6, <2>7
<1>6. QED
  BY <1>4, <1>5

(* Whatever the transactions wait for, one of them can go on.               *)
THEOREM NoWaitForever == PostgresSpec => []NoWaitCycle
<1>1. PostgresInv => NoWaitCycle
  <2> SUFFICES ASSUME PostgresInv, NEW s \in Session, Active(s)
               PROVE  \E t \in Session : Active(t) /\ Granted(t)
    BY DEF NoWaitCycle
  <2>1. SessionsOK /\ OpenOK(tx[s])
    BY ActiveIsOpen DEF PostgresInv
  <2>2. CASE Granted(s)
    BY <2>2
  <2>3. CASE ~ Granted(s)
    <3>1. PICK t \in Session : OpenOK(tx[t]) /\ tx[t].op = "finish"
      BY <2>1, <2>3, WaitsForFinish
    <3>2. tx[t].step \in {"update", "commit"}
      BY <3>1, OpenTransaction DEF FinishOK, FinishTx
    <3>3. Wants(t) = {}
      BY <3>2 DEF Wants, At
    <3>4. Granted(t) /\ Active(t)
      BY <2>1, <3>1, <3>3, ActiveIsOpen DEF Granted
    <3>5. QED
      BY <3>4
  <2>4. QED
    BY <2>2, <2>3
<1>2. QED
  BY <1>1, PostgresInvariant, PTL

-----------------------------------------------------------------------------
(* The refinement: how the tables read as the registry in memory.           *)

ActiveID(key) == IF ActiveRows(key) = {} THEN 0 ELSE CHOOSE i \in ActiveRows(key) : TRUE

LEMMA RowsAreNumbered ==
  ASSUME RowsInSequence
  PROVE  Cardinality(Rows) \in 0..MaxIncidents /\ Rows = 1..Cardinality(Rows)
<1>1. PICK n \in 0..MaxIncidents : Rows = 1..n
  BY DEF RowsInSequence
<1>2. Cardinality(1..n) = n
  BY FS_Interval, NumbersAssumption
<1>3. QED
  BY <1>1, <1>2

(* The index of active incidents names the one row there is.                *)
IndexNames ==
  \A key : /\ \A i \in ActiveRows(key) : ActiveID(key) = i
           /\ ActiveRows(key) = {} <=> ActiveID(key) = 0

LEMMA ActiveIsUnique == RowsInSequence => IndexNames
<1> SUFFICES ASSUME RowsInSequence, NEW key
             PROVE  /\ \A i \in ActiveRows(key) : ActiveID(key) = i
                    /\ ActiveRows(key) = {} <=> ActiveID(key) = 0
  BY DEF IndexNames
<1>1. \A i, j \in ActiveRows(key) : i = j
  BY DEF ActiveRows, RowsInSequence, Rows
<1>2. 0 \notin ActiveRows(key)
  BY NumbersAssumption DEF ActiveRows, IncidentID
<1>3. QED
  BY <1>1, <1>2 DEF ActiveID

LEMMA ActiveStaysUnique == RowsInSequence' => IndexNames'
  BY ActiveIsUnique, PTL

LEMMA RegisteredRow ==
  ASSUME TablesTyped, NEW i \in Rows
  PROVE  /\ i \in IncidentID /\ incidentRows[i] \in IncidentRow
         /\ IncidentOf(i) =
              [state |-> incidentRows[i].state, version |-> incidentRows[i].version,
               key |-> incidentRows[i].key, binding |-> incidentRows[i].binding,
               resolvedBy |-> incidentRows[i].resolution]
         /\ IncidentOf(i).state # "NONE"
  BY ExistingRow DEF Rows, RowExists, IncidentOf

LEMMA UnregisteredRow ==
  ASSUME NEW i \in IncidentID \ Rows
  PROVE  IncidentOf(i) = NoRow /\ ClaimOf(i) = [version |-> 0]
  BY DEF Rows, RowExists, IncidentOf, ClaimOf

(* The claim in force is the latest audited one.                            *)
LatestClaims ==
  \A i \in Rows : incidentRows[i].holder # NoHolder =>
    \A event \in claimRows[i] :
      (\A other \in claimRows[i] : other.version <= event.version) =>
        ClaimOf(i) = [version |-> event.version, holder |-> incidentRows[i].holder,
                      expiresAt |-> incidentRows[i].expiresAt]

LEMMA ClaimInForce == TablesTyped => LatestClaims
<1> SUFFICES ASSUME TablesTyped, NEW i \in Rows, incidentRows[i].holder # NoHolder,
                    NEW event \in claimRows[i],
                    \A other \in claimRows[i] : other.version <= event.version
             PROVE  ClaimOf(i) = [version |-> event.version, holder |-> incidentRows[i].holder,
                                  expiresAt |-> incidentRows[i].expiresAt]
  BY DEF LatestClaims
<1>1. \A e \in claimRows[i] : e.version \in Nat
  <2>1. claimRows[i] \in SUBSET ClaimRow
    BY DEF TablesTyped, Rows
  <2>2. QED
    BY <2>1, NumbersAssumption DEF ClaimRow
<1>2. (CHOOSE v \in AuditedVersions(i) : \A w \in AuditedVersions(i) : w <= v) = event.version
  <2>1. event.version \in AuditedVersions(i)
    BY DEF AuditedVersions
  <2>2. \A w \in AuditedVersions(i) : w <= event.version /\ w \in Nat
    BY <1>1 DEF AuditedVersions
  <2>3. \A v \in AuditedVersions(i) : (\A w \in AuditedVersions(i) : w <= v) => v = event.version
    BY <2>1, <2>2
  <2>4. QED
    BY <2>1, <2>2, <2>3
<1>3. QED
  BY <1>2 DEF ClaimOf, Rows

LEMMA ClaimStaysInForce == TablesTyped' => LatestClaims'
  BY ClaimInForce, PTL

(* Who holds a row has claimed it.                                          *)
LEMMA HeldIsClaimed ==
  ASSUME PostgresInv, NEW i \in Rows
  PROVE  /\ incidentRows[i].holder = NoHolder => ClaimOf(i).version = 0
         /\ incidentRows[i].holder # NoHolder =>
              /\ ClaimOf(i).version # 0
              /\ ClaimOf(i).holder = incidentRows[i].holder
              /\ ClaimOf(i).expiresAt = incidentRows[i].expiresAt
<1>1. CASE incidentRows[i].holder = NoHolder
  BY <1>1 DEF ClaimOf
<1>2. CASE incidentRows[i].holder # NoHolder
  <2>1. PICK event \in claimRows[i] : \A other \in claimRows[i] : other.version <= event.version
    BY <1>2 DEF PostgresInv, LeaseAudited
  <2>2. event.version # 0
    BY AuditedVersionsOf
  <2>3. ClaimOf(i) = [version |-> event.version, holder |-> incidentRows[i].holder,
                      expiresAt |-> incidentRows[i].expiresAt]
    BY <1>2, <2>1, ClaimInForce DEF PostgresInv, LatestClaims
  <2>4. QED
    BY <1>2, <2>2, <2>3
<1>3. QED
  BY <1>1, <1>2

LEMMA ClaimStays ==
  ASSUME NEW i, claimRows'[i] = claimRows[i],
         RowExists(i)' <=> RowExists(i),
         incidentRows'[i].holder = incidentRows[i].holder,
         incidentRows'[i].expiresAt = incidentRows[i].expiresAt
  PROVE  ClaimOf(i)' = ClaimOf(i)
  BY DEF ClaimOf, AuditedVersions

LEMMA IncidentStays ==
  ASSUME NEW i, incidentRows'[i] = incidentRows[i]
  PROVE  IncidentOf(i)' = IncidentOf(i) /\ (RowExists(i)' <=> RowExists(i))
  BY DEF IncidentOf, RowExists

LEMMA SameIndex ==
  ASSUME NEW key, ActiveRows(key)' = ActiveRows(key)
  PROVE  ActiveID(key)' = ActiveID(key)
  BY DEF ActiveID

(* Keys and resolution times make the index.                                *)
LEMMA IndexStays ==
  ASSUME \A i \in IncidentID :
           /\ RowExists(i)' <=> RowExists(i)
           /\ incidentRows'[i].key = incidentRows[i].key
           /\ incidentRows'[i].resolvedAt = incidentRows[i].resolvedAt
  PROVE  \A key : ActiveID(key)' = ActiveID(key)
<1> SUFFICES ASSUME NEW key PROVE ActiveID(key)' = ActiveID(key)
  OBVIOUS
<1>1. ActiveRows(key)' = ActiveRows(key)
  BY DEF ActiveRows
<1>2. QED
  BY <1>1, SameIndex
-----------------------------------------------------------------------------
(* Each step as a step of the registry in memory.                           *)

(* What the tables read as: Registry.incidentsByID, claimsByIncidentID and  *)
(* activeByKey.                                                             *)
MemIncidents == [i \in IncidentID |-> IncidentOf(i)]

MemClaims == [i \in IncidentID |-> ClaimOf(i)]

MemIndex == [key \in Key |-> IF ActiveRows(key) = {} THEN 0 ELSE CHOOSE i \in ActiveRows(key) : TRUE]

LEMMA MemIndexOf ==
  /\ MemIndex = [key \in Key |-> ActiveID(key)]
  /\ MemIndex' = [key \in Key |-> ActiveID(key)']
<1>1. MemIndex = [key \in Key |-> ActiveID(key)]
  BY DEF MemIndex, ActiveID
<1>2. (MemIndex = [key \in Key |-> ActiveID(key)])'
  BY <1>1, PTL
<1>3. QED
  BY <1>1, <1>2

LEMMA OneIncident ==
  ASSUME NEW i \in IncidentID,
         \A j \in IncidentID \ {i} : IncidentOf(j)' = IncidentOf(j)
  PROVE  MemIncidents' = [MemIncidents EXCEPT ![i] = IncidentOf(i)']
  BY DEF MemIncidents

LEMMA OneClaim ==
  ASSUME NEW i \in IncidentID,
         \A j \in IncidentID \ {i} : ClaimOf(j)' = ClaimOf(j)
  PROVE  MemClaims' = [MemClaims EXCEPT ![i] = ClaimOf(i)']
  BY DEF MemClaims

LEMMA OneKey ==
  ASSUME NEW key \in Key,
         \A q \in Key \ {key} : ActiveID(q)' = ActiveID(q)
  PROVE  MemIndex' = [MemIndex EXCEPT ![key] = ActiveID(key)']
  BY MemIndexOf

LEMMA NoClaimMoves ==
  ASSUME \A i \in IncidentID : ClaimOf(i)' = ClaimOf(i)
  PROVE  MemClaims' = MemClaims
  BY DEF MemClaims

LEMMA NoKeyMoves ==
  ASSUME \A key : ActiveID(key)' = ActiveID(key)
  PROVE  MemIndex' = MemIndex
  BY MemIndexOf

(* What leaves the incidents and the audit of claims alone.                 *)
LEMMA IncidentsUnseen ==
  ASSUME UNCHANGED <<incidentRows, claimRows>>
  PROVE  /\ MemIncidents' = MemIncidents /\ MemClaims' = MemClaims /\ MemIndex' = MemIndex
         /\ Cardinality(Rows)' = Cardinality(Rows)
<1>1. MemIncidents' = MemIncidents /\ MemClaims' = MemClaims
  BY DEF MemIncidents, MemClaims, IncidentOf, ClaimOf, RowExists, AuditedVersions
<1>2. MemIndex' = MemIndex
  BY DEF MemIndex, ActiveRows, RowExists
<1>3. Cardinality(Rows)' = Cardinality(Rows)
  BY DEF Rows, RowExists
<1>4. QED
  BY <1>1, <1>2, <1>3

(* Steps of open transactions show nothing.                                 *)
LEMMA TablesUnseen ==
  ASSUME UNCHANGED tables
  PROVE  UNCHANGED Memory!registryVars
<1>1. UNCHANGED <<incidentRows, claimRows, attemptRows, verificationRows>>
  BY DEF tables
<1>2. QED
  BY <1>1, IncidentsUnseen DEF Memory!registryVars, MemIncidents, MemClaims, MemIndex

LEMMA ObserveMaps ==
  ASSUME PostgresInv, PostgresInv', NEW key \in Key, Observe(key)
  PROVE  Memory!Observe(key) \/ UNCHANGED tables
<1>1. CASE UNCHANGED postgresVars
  BY <1>1 DEF postgresVars
<1>2. CASE ~ UNCHANGED postgresVars
  <2>1. TablesTyped /\ RowsInSequence /\ RowsInSequence'
    BY DEF PostgresInv
  <2>2. PICK n : n = Cardinality(Rows)
    OBVIOUS
  <2>3. /\ ActiveRows(key) = {}
        /\ n < MaxIncidents
        /\ incidentRows' = [incidentRows EXCEPT ![n + 1] = NewRow(key)]
        /\ UNCHANGED <<claimRows, transitionRows, planRows, attemptRows, verificationRows, tx>>
    BY <1>2, <2>2 DEF Observe
  <2>4. n \in Nat /\ Rows = 1..n
    BY <2>1, <2>2, RowsAreNumbered, NumbersAssumption
  <2>5. n + 1 \in IncidentID /\ n + 1 \notin Rows
    BY <2>3, <2>4, NumbersAssumption DEF IncidentID
  <2>6. /\ incidentRows'[n + 1] = NewRow(key)
        /\ \A j \in IncidentID \ {n + 1} : incidentRows'[j] = incidentRows[j]
    BY <2>1, <2>3, <2>5 DEF TablesTyped
  <2>7. Rows' = Rows \cup {n + 1}
    BY <2>5, <2>6 DEF Rows, RowExists, NewRow
  <2>8. Cardinality(Rows)' = n + 1
    <3>1. Rows' = 1..(n + 1) /\ n + 1 \in Nat
      BY <2>4, <2>7
    <3>2. QED
      BY <3>1, FS_Interval
  <2>9. IncidentOf(n + 1)' = [state |-> "DETECTED", version |-> 1, key |-> key,
                              binding |-> NoPlan, resolvedBy |-> NoPlan]
    BY <2>6 DEF IncidentOf, RowExists, NewRow
  <2>10. ClaimOf(n + 1)' = ClaimOf(n + 1)
    <3>1. ClaimOf(n + 1) = [version |-> 0]
      BY <2>5, UnregisteredRow
    <3>2. ClaimOf(n + 1)' = [version |-> 0]
      BY <2>6 DEF ClaimOf, NewRow
    <3>3. QED
      BY <3>1, <3>2
  <2>11. \A j \in IncidentID \ {n + 1} :
            IncidentOf(j)' = IncidentOf(j) /\ ClaimOf(j)' = ClaimOf(j)
    BY <2>3, <2>6 DEF IncidentOf, ClaimOf, RowExists, AuditedVersions
  <2>12. ActiveRows(key)' = {n + 1}
    <3>1. n + 1 \in ActiveRows(key)'
      BY <2>5, <2>6 DEF ActiveRows, RowExists, NewRow
    <3>2. \A j \in ActiveRows(key)' : j = n + 1
      BY <2>3, <2>6 DEF ActiveRows, RowExists
    <3>3. QED
      BY <3>1, <3>2
  <2>13. \A q \in Key \ {key} : ActiveRows(q)' = ActiveRows(q)
    <3>1. NewRow(key).key = key
      BY DEF NewRow
    <3>2. n + 1 \notin Rows
      BY <2>5
    <3>3. QED
      BY <2>6, <3>1, <3>2 DEF ActiveRows, RowExists, Rows
  <2>14. ActiveID(key) = 0 /\ ActiveID(key)' = n + 1
         /\ \A q \in Key \ {key} : ActiveID(q)' = ActiveID(q)
    <3>1. ActiveID(key) = 0 /\ ActiveID(key)' = n + 1
      BY <2>1, <2>3, <2>12, ActiveIsUnique, ActiveStaysUnique DEF IndexNames
    <3>2. \A q \in Key \ {key} : ActiveID(q)' = ActiveID(q)
      BY <2>13, SameIndex
    <3>3. QED
      BY <3>1, <3>2
  <2>15. MemIncidents' = [MemIncidents EXCEPT ![n + 1] =
           [state |-> "DETECTED", version |-> 1, key |-> key,
            binding |-> NoPlan, resolvedBy |-> NoPlan]]
    BY <2>5, <2>9, <2>11, OneIncident
  <2>16. MemIndex' = [MemIndex EXCEPT ![key] = n + 1] /\ MemIndex[key] = 0
    BY <2>14, OneKey, MemIndexOf
  <2>17. MemClaims' = MemClaims
    BY <2>10, <2>11, NoClaimMoves
  <2>18. Memory!Observe(key)
    BY <2>2, <2>3, <2>8, <2>15, <2>16, <2>17
    DEF Memory!Observe, Memory!NewIncident, MemIncidents, MemIndex, MemClaims
  <2>19. QED
    BY <2>18
<1>3. QED
  BY <1>1, <1>2
(* A claim that the row's columns allow is one that the registry grants.    *)
LEMMA LeaseMaps ==
  ASSUME PostgresInv, NEW i \in Rows, NEW now \in Clock, LeaseOver(incidentRows[i], now)
  PROVE  ClaimOf(i).version # 0 => Stored(now) >= ClaimOf(i).expiresAt
<1>1. incidentRows[i].holder = NoHolder \/ incidentRows[i].expiresAt <= Stored(now)
  BY DEF LeaseOver
<1>2. incidentRows[i].expiresAt \in Nat /\ Stored(now) \in Nat
  BY RegisteredRow, StoredTimes DEF PostgresInv, IncidentRow
<1>3. QED
  BY <1>1, <1>2, HeldIsClaimed

LEMMA GrantMaps ==
  ASSUME PostgresInv, PostgresInv', NEW i \in Rows,
         NEW holder \in Holder, NEW now \in Clock, NEW lease \in Lease,
         Grant(i, holder, now, lease)
  PROVE  Memory!GrantClaim(i, holder, Stored(now), lease)
<1>1. TablesTyped /\ TablesTyped' /\ i \in IncidentID
  BY DEF PostgresInv, Rows
<1>2. PICK row \in IncidentRow : row = incidentRows[i]
  BY <1>1, RegisteredRow
<1>3. PICK version, expiresAt, acquiredAt :
        version = row.version + 1 /\ expiresAt = Stored(now + lease) /\ acquiredAt = Stored(now)
  OBVIOUS
<1>4. PICK event :
        event = [version |-> version, holder |-> holder,
                 acquiredAt |-> acquiredAt, expiresAt |-> expiresAt]
  OBVIOUS
<1>5. version \in Version /\ version \in Nat /\ row.version \in Nat /\ expiresAt = acquiredAt + lease
  <2>1. version \in Version /\ row.version \in Nat
    BY <1>2, <1>3, NumbersAssumption DEF Grant, IncidentRow
  <2>2. now \in Nat
    BY StoredTimes
  <2>3. QED
    BY <1>3, <2>1, <2>2, StoredLease
<1>6. /\ incidentRows' = [incidentRows EXCEPT
           ![i].version = version, ![i].holder = holder, ![i].expiresAt = expiresAt]
      /\ claimRows' = [claimRows EXCEPT ![i] = @ \cup {event}]
      /\ UNCHANGED <<transitionRows, planRows, attemptRows, verificationRows, tx>>
  BY <1>2, <1>3, <1>4 DEF Grant
<1>7. /\ incidentRows'[i] =
           [row EXCEPT !.version = version, !.holder = holder, !.expiresAt = expiresAt]
      /\ claimRows'[i] = claimRows[i] \cup {event}
      /\ \A j \in IncidentID \ {i} :
           incidentRows'[j] = incidentRows[j] /\ claimRows'[j] = claimRows[j]
  BY <1>1, <1>2, <1>6 DEF TablesTyped
<1>8. /\ incidentRows'[i].state = row.state /\ incidentRows'[i].version = version
      /\ incidentRows'[i].key = row.key /\ incidentRows'[i].resolvedAt = row.resolvedAt
      /\ incidentRows'[i].binding = row.binding /\ incidentRows'[i].resolution = row.resolution
      /\ incidentRows'[i].holder = holder /\ incidentRows'[i].expiresAt = expiresAt
  BY <1>2, <1>7 DEF IncidentRow
<1>9. \A j \in IncidentID : /\ RowExists(j)' <=> RowExists(j)
                            /\ incidentRows'[j].key = incidentRows[j].key
                            /\ incidentRows'[j].resolvedAt = incidentRows[j].resolvedAt
  BY <1>2, <1>7, <1>8 DEF RowExists
<1>10. Rows' = Rows /\ i \in Rows'
  BY <1>9 DEF Rows
<1>11. MemIndex' = MemIndex
  BY <1>9, IndexStays, NoKeyMoves
<1>12. IncidentOf(i)' = [IncidentOf(i) EXCEPT !.version = @ + 1]
  <2>1. IncidentOf(i) = [state |-> row.state, version |-> row.version, key |-> row.key,
                         binding |-> row.binding, resolvedBy |-> row.resolution]
    BY <1>1, <1>2, RegisteredRow
  <2>2. IncidentOf(i)' = [state |-> row.state, version |-> version, key |-> row.key,
                          binding |-> row.binding, resolvedBy |-> row.resolution]
    BY <1>8, <1>10 DEF IncidentOf, Rows
  <2>3. QED
    BY <1>3, <2>1, <2>2
<1>13. ClaimOf(i)' = [version |-> version, holder |-> holder, expiresAt |-> expiresAt]
  <2>1. event.version = version /\ event \in claimRows'[i]
    BY <1>4, <1>7
  <2>2. \A other \in claimRows'[i] : other.version <= event.version
    BY <1>2, <1>3, <1>5, <1>7, <2>1, AuditedVersionsOf
  <2>3. incidentRows'[i].holder # NoHolder
    BY <1>8, NoHolderAssumption
  <2>4. QED
    BY <1>1, <1>8, <1>10, <2>1, <2>2, <2>3, ClaimStaysInForce DEF LatestClaims
<1>14. \A j \in IncidentID \ {i} : IncidentOf(j)' = IncidentOf(j) /\ ClaimOf(j)' = ClaimOf(j)
  BY <1>7, <1>9, IncidentStays, ClaimStays
<1>15. /\ MemIncidents' = [MemIncidents EXCEPT ![i] =
            [MemIncidents[i] EXCEPT !.version = MemIncidents[i].version + 1]]
       /\ MemClaims' = [MemClaims EXCEPT ![i] =
            [version |-> version, holder |-> holder, expiresAt |-> expiresAt]]
  <2>1. MemIncidents' = [MemIncidents EXCEPT ![i] = IncidentOf(i)']
    BY <1>1, <1>14, OneIncident
  <2>2. MemIncidents[i] = IncidentOf(i)
    BY <1>1 DEF MemIncidents
  <2>3. MemClaims' = [MemClaims EXCEPT ![i] = ClaimOf(i)']
    BY <1>1, <1>14, OneClaim
  <2>4. IncidentOf(i)' = [MemIncidents[i] EXCEPT !.version = MemIncidents[i].version + 1]
    BY <1>12, <2>2
  <2>5. QED
    BY <1>13, <2>1, <2>3, <2>4
<1>16. MemIncidents[i].version + 1 = version
  BY <1>1, <1>2, <1>3, RegisteredRow DEF MemIncidents
<1>17. event = Memory!AuditEvent(version, holder, Stored(now), lease)
  BY <1>3, <1>4, <1>5 DEF Memory!AuditEvent
<1>18. Cardinality(Rows)' = Cardinality(Rows)
  BY <1>10
<1>19. Memory!AuditEvent(MemIncidents[i].version + 1, holder, Stored(now), lease) = event
  BY <1>16, <1>17
<1>20. event.version = version /\ event.expiresAt = expiresAt
  BY <1>4
<1>21. QED
  BY <1>5, <1>6, <1>11, <1>15, <1>18, <1>19, <1>20
  DEF Memory!GrantClaim, Memory!Audited, Memory!ClaimedIncident, MemIncidents, MemClaims, MemIndex
(* What the registry reads of an incident and its claim.                    *)
LEMMA MemoryReads ==
  ASSUME PostgresInv, NEW i \in Rows
  PROVE  /\ i \in IncidentID
         /\ MemIncidents[i] = IncidentOf(i) /\ MemClaims[i] = ClaimOf(i)
         /\ MemIncidents[i].state = incidentRows[i].state
         /\ MemIncidents[i].version = incidentRows[i].version
         /\ MemIncidents[i].key = incidentRows[i].key
         /\ MemIncidents[i].resolvedBy = incidentRows[i].resolution
         /\ Memory!IncidentExists(i)
<1>1. TablesTyped
  BY DEF PostgresInv
<1>2. /\ i \in IncidentID
      /\ IncidentOf(i) =
           [state |-> incidentRows[i].state, version |-> incidentRows[i].version,
            key |-> incidentRows[i].key, binding |-> incidentRows[i].binding,
            resolvedBy |-> incidentRows[i].resolution]
      /\ IncidentOf(i).state # "NONE"
  BY <1>1, RegisteredRow
<1>3. MemIncidents[i] = IncidentOf(i) /\ MemClaims[i] = ClaimOf(i)
  BY <1>2 DEF MemIncidents, MemClaims
<1>4. Memory!IncidentExists(i)
  BY <1>2, <1>3 DEF Memory!IncidentExists, MemIncidents
<1>5. QED
  BY <1>2, <1>3, <1>4

LEMMA ClaimMaps ==
  ASSUME PostgresInv, PostgresInv', NEW i \in IncidentID, NEW holder \in Holder,
         NEW now \in Clock, NEW lease \in Lease, NEW version,
         Claim(i, version, holder, now, lease)
  PROVE  Memory!Claim(i, version, holder, Stored(now), lease)
<1>1. /\ i \in Rows /\ incidentRows[i].version = version
      /\ LeaseOver(incidentRows[i], now) \/ incidentRows[i].holder = holder
      /\ Grant(i, holder, now, lease)
  BY DEF Claim, Rows
<1>2. Memory!GrantClaim(i, holder, Stored(now), lease)
  BY <1>1, GrantMaps
<1>3. \/ MemClaims[i].version # 0 => Stored(now) >= MemClaims[i].expiresAt
      \/ MemClaims[i].version # 0 /\ MemClaims[i].holder = holder
  BY <1>1, MemoryReads, LeaseMaps, HeldIsClaimed, NoHolderAssumption
<1>4. Memory!LeaseExpired(i, Stored(now))
      \/ (Memory!Claimed(i) /\ MemClaims[i].holder = holder)
  BY <1>3 DEF Memory!LeaseExpired, Memory!Claimed, MemClaims
<1>5. Memory!IncidentExists(i) /\ MemIncidents[i].version = version
  BY <1>1, MemoryReads
<1>6. Memory!ClaimAccepted(i, version, holder, Stored(now))
  BY <1>4, <1>5 DEF Memory!ClaimAccepted, MemIncidents, MemClaims
<1>7. QED
  BY <1>2, <1>6 DEF Memory!Claim

LEMMA CandidatesMap ==
  ASSUME PostgresInv, NEW status, NEW now \in Clock, NEW k \in Candidates(status, now)
  PROVE  /\ k \in ActionKey /\ k.incident \in Rows
         /\ verificationRows[k].status = status
         /\ MemIncidents[k.incident].state = "VERIFYING"
         /\ MemIncidents[k.incident].resolvedBy = NoPlan
         /\ Memory!LeaseExpired(k.incident, Stored(now))
<1>1. /\ k \in ActionKey /\ k.incident \in Rows
      /\ verificationRows[k].status = status
      /\ incidentRows[k.incident].state = "VERIFYING"
      /\ incidentRows[k.incident].resolution = NoPlan
      /\ LeaseOver(incidentRows[k.incident], now)
  BY ActionKeyOf DEF Candidates, Rows, RowExists
<1>2. MemClaims[k.incident].version # 0 => Stored(now) >= MemClaims[k.incident].expiresAt
  BY <1>1, LeaseMaps, MemoryReads
<1>3. Memory!LeaseExpired(k.incident, Stored(now))
  BY <1>2 DEF Memory!LeaseExpired, Memory!Claimed, MemClaims
<1>4. QED
  BY <1>1, <1>3, MemoryReads

LEMMA SchedulersMap ==
  ASSUME PostgresInv, PostgresInv', NEW k, NEW holder \in Holder,
         NEW now \in Clock, NEW lease \in Lease
  PROVE  /\ ClaimPendingVerification(k, holder, now, lease) =>
              Memory!ClaimPendingVerification(k, holder, Stored(now), lease)
         /\ ClaimRecoveredVerificationResolution(k, holder, now, lease) =>
              Memory!ClaimRecoveredVerificationResolution(k, holder, Stored(now), lease)
<1>1. ASSUME ClaimPendingVerification(k, holder, now, lease)
      PROVE  Memory!ClaimPendingVerification(k, holder, Stored(now), lease)
  <2>1. k \in Candidates("PENDING", now) /\ Grant(k.incident, holder, now, lease)
    BY <1>1 DEF ClaimPendingVerification
  <2>2. Memory!GrantClaim(k.incident, holder, Stored(now), lease)
    BY <2>1, CandidatesMap, GrantMaps
  <2>3. Memory!PendingWork(k, Stored(now))
    BY <2>1, CandidatesMap DEF Memory!PendingWork, Memory!ListPending, MemIncidents
  <2>4. QED
    BY <2>2, <2>3 DEF Memory!ClaimPendingVerification
<1>2. ASSUME ClaimRecoveredVerificationResolution(k, holder, now, lease)
      PROVE  Memory!ClaimRecoveredVerificationResolution(k, holder, Stored(now), lease)
  <2>1. k \in Candidates("RECOVERED", now) /\ Grant(k.incident, holder, now, lease)
    BY <1>2 DEF ClaimRecoveredVerificationResolution
  <2>2. Memory!GrantClaim(k.incident, holder, Stored(now), lease)
    BY <2>1, CandidatesMap, GrantMaps
  <2>3. Memory!RecoveredWork(k, Stored(now))
    BY <2>1, CandidatesMap DEF Memory!RecoveredWork, Memory!ListRecovered, MemIncidents
  <2>4. QED
    BY <2>2, <2>3 DEF Memory!ClaimRecoveredVerificationResolution
<1>3. QED
  BY <1>1, <1>2

LEMMA BeginAttemptMaps ==
  ASSUME PostgresInv, NEW k \in ActionKey, NEW now \in Clock,
         NEW token \in AuditedVersions(k.incident), BeginAttempt(k, token, now)
  PROVE  Memory!AttemptStep(k, Stored(now))
<1>1. UNCHANGED <<incidentRows, claimRows, verificationRows>>
  BY DEF BeginAttempt, postgresVars, tables
<1>2. attemptRows' = IF attemptRows[k].status # "NONE" THEN attemptRows
                     ELSE [attemptRows EXCEPT ![k] =
                       [status |-> "STARTED", version |-> 1, token |-> token,
                        startedAt |-> Stored(now), finishedAt |-> 0, recoveredBy |-> 0]]
  BY DEF BeginAttempt, postgresVars, tables
<1>3. Memory!BeginAttempt(k, token, Stored(now))
  BY <1>2 DEF Memory!BeginAttempt, Memory!AttemptExists, Memory!NewAttempt
<1>4. \E event \in claimRows[k.incident] : Memory!BeginAttempt(k, event.version, Stored(now))
  BY <1>3 DEF AuditedVersions
<1>5. QED
  BY <1>1, <1>4, IncidentsUnseen DEF Memory!AttemptStep, MemIncidents, MemClaims, MemIndex
(* The assignments to an incident's fields, one after the other and         *)
(* together.                                                                *)
StateMoved(f, i, to) == [f EXCEPT ![i].state = to, ![i].version = @ + 1]

BindingMoved(f, i, to, binding) ==
  [f EXCEPT ![i].state = to, ![i].version = @ + 1, ![i].binding = binding]

EvidenceMoved(f, i, to, by, binding) ==
  [f EXCEPT ![i].state = to, ![i].version = @ + 1, ![i].resolvedBy = by, ![i].binding = binding]

Moved(f, i, to, by, binding) ==
  [f EXCEPT ![i] = [state |-> to, version |-> f[i].version + 1, key |-> f[i].key,
                    binding |-> binding, resolvedBy |-> by]]

HasFields(f, S, i) ==
  /\ i \in S /\ f = [j \in S |-> f[j]]
  /\ f[i] = [state |-> f[i].state, version |-> f[i].version, key |-> f[i].key,
             binding |-> f[i].binding, resolvedBy |-> f[i].resolvedBy]

LEMMA StateMoves ==
  ASSUME NEW S, NEW f, NEW i, NEW to, HasFields(f, S, i)
  PROVE  StateMoved(f, i, to) = Moved(f, i, to, f[i].resolvedBy, f[i].binding)
<1>1. PICK g : g = [f EXCEPT ![i] = [f[i] EXCEPT !.state = to]]
  OBVIOUS
<1>2. g[i] = [state |-> to, version |-> f[i].version, key |-> f[i].key,
              binding |-> f[i].binding, resolvedBy |-> f[i].resolvedBy]
  BY <1>1 DEF HasFields
<1>3. PICK h : h = [g EXCEPT ![i] = [g[i] EXCEPT !.version = @ + 1]]
  OBVIOUS
<1>4. /\ h[i] = [state |-> to, version |-> f[i].version + 1, key |-> f[i].key,
                 binding |-> f[i].binding, resolvedBy |-> f[i].resolvedBy]
      /\ \A j \in S \ {i} : h[j] = f[j]
      /\ h = [j \in S |-> h[j]]
  BY <1>1, <1>2, <1>3 DEF HasFields
<1>5. StateMoved(f, i, to) = h
  BY <1>1, <1>3 DEF StateMoved, HasFields
<1>6. h = [f EXCEPT ![i] = h[i]]
  BY <1>4 DEF HasFields
<1>7. QED
  BY <1>4, <1>5, <1>6 DEF Moved

LEMMA MovedFields ==
  ASSUME NEW S, NEW f, NEW i, NEW to, HasFields(f, S, i), NEW h, h = StateMoved(f, i, to)
  PROVE  /\ h[i] = [state |-> to, version |-> f[i].version + 1, key |-> f[i].key,
                    binding |-> f[i].binding, resolvedBy |-> f[i].resolvedBy]
         /\ \A j \in S \ {i} : h[j] = f[j]
         /\ h = [j \in S |-> h[j]]
<1>1. h = Moved(f, i, to, f[i].resolvedBy, f[i].binding)
  BY StateMoves
<1>2. QED
  BY <1>1 DEF Moved, HasFields

LEMMA BindingMoves ==
  ASSUME NEW S, NEW f, NEW i, NEW to, NEW binding, HasFields(f, S, i)
  PROVE  BindingMoved(f, i, to, binding) = Moved(f, i, to, f[i].resolvedBy, binding)
<1>1. PICK h : h = StateMoved(f, i, to)
  OBVIOUS
<1>2. /\ h[i] = [state |-> to, version |-> f[i].version + 1, key |-> f[i].key,
                 binding |-> f[i].binding, resolvedBy |-> f[i].resolvedBy]
      /\ \A j \in S \ {i} : h[j] = f[j]
      /\ h = [j \in S |-> h[j]]
  BY <1>1, MovedFields
<1>3. BindingMoved(f, i, to, binding) = [h EXCEPT ![i].binding = binding]
  BY <1>1 DEF BindingMoved, StateMoved
<1>4. [h EXCEPT ![i].binding = binding] = [f EXCEPT ![i] = [h[i] EXCEPT !.binding = binding]]
  BY <1>2 DEF HasFields
<1>5. [h[i] EXCEPT !.binding = binding] =
        [state |-> to, version |-> f[i].version + 1, key |-> f[i].key,
         binding |-> binding, resolvedBy |-> f[i].resolvedBy]
  BY <1>2
<1>6. QED
  BY <1>3, <1>4, <1>5 DEF Moved

LEMMA EvidenceMoves ==
  ASSUME NEW S, NEW f, NEW i, NEW to, NEW by, NEW binding, HasFields(f, S, i)
  PROVE  EvidenceMoved(f, i, to, by, binding) = Moved(f, i, to, by, binding)
<1>1. PICK h : h = StateMoved(f, i, to)
  OBVIOUS
<1>2. /\ h[i] = [state |-> to, version |-> f[i].version + 1, key |-> f[i].key,
                 binding |-> f[i].binding, resolvedBy |-> f[i].resolvedBy]
      /\ \A j \in S \ {i} : h[j] = f[j]
      /\ h = [j \in S |-> h[j]]
  BY <1>1, MovedFields
<1>3. PICK m : m = [h EXCEPT ![i] = [h[i] EXCEPT !.resolvedBy = by]]
  OBVIOUS
<1>4. /\ m[i] = [state |-> to, version |-> f[i].version + 1, key |-> f[i].key,
                 binding |-> f[i].binding, resolvedBy |-> by]
      /\ \A j \in S \ {i} : m[j] = f[j]
      /\ m = [j \in S |-> m[j]]
  BY <1>2, <1>3 DEF HasFields
<1>5. EvidenceMoved(f, i, to, by, binding) = [m EXCEPT ![i].binding = binding]
  BY <1>1, <1>3 DEF EvidenceMoved, StateMoved
<1>6. [m EXCEPT ![i].binding = binding] = [f EXCEPT ![i] = [m[i] EXCEPT !.binding = binding]]
  BY <1>4 DEF HasFields
<1>7. [m[i] EXCEPT !.binding = binding] =
        [state |-> to, version |-> f[i].version + 1, key |-> f[i].key,
         binding |-> binding, resolvedBy |-> by]
  BY <1>4
<1>8. QED
  BY <1>5, <1>6, <1>7 DEF Moved

LEMMA IncidentsAreFields ==
  ASSUME PostgresInv, NEW i \in Rows
  PROVE  /\ HasFields(MemIncidents, IncidentID, i)
         /\ MemIncidents[i].state = incidentRows[i].state
         /\ MemIncidents[i].version = incidentRows[i].version
         /\ MemIncidents[i].key = incidentRows[i].key
         /\ MemIncidents[i].binding = incidentRows[i].binding
         /\ MemIncidents[i].resolvedBy = incidentRows[i].resolution
<1>1. MemIncidents = [j \in IncidentID |-> MemIncidents[j]]
  BY DEF MemIncidents
<1>2. /\ i \in IncidentID
      /\ MemIncidents[i] =
           [state |-> incidentRows[i].state, version |-> incidentRows[i].version,
            key |-> incidentRows[i].key, binding |-> incidentRows[i].binding,
            resolvedBy |-> incidentRows[i].resolution]
  BY MemoryReads, RegisteredRow DEF PostgresInv
<1>3. QED
  BY <1>1, <1>2 DEF HasFields

(* A move of an incident: its image in memory changes, its claim does not,  *)
(* and the index forgets its key when it is resolved.                       *)
LEMMA MoveMaps ==
  ASSUME PostgresInv, PostgresInv', NEW i \in Rows,
         NEW row \in IncidentRow, NEW image \in IncidentRow,
         row = incidentRows[i], MovesOn(row, image), claimRows' = claimRows,
         incidentRows' = [incidentRows EXCEPT ![i] = image]
  PROVE  /\ MemIncidents' = Moved(MemIncidents, i, image.state, image.resolution, image.binding)
         /\ MemClaims' = MemClaims /\ Cardinality(Rows)' = Cardinality(Rows)
         /\ image.state # "RESOLVED" => MemIndex' = MemIndex
         /\ image.state = "RESOLVED" => MemIndex' = [MemIndex EXCEPT ![row.key] = 0]
<1>1. /\ i \in IncidentID /\ TablesTyped /\ RowsInSequence /\ RowsInSequence'
      /\ IncidentRowOK(row)
  BY DEF PostgresInv, Rows, RowsAccepted
<1>2. incidentRows'[i] = image /\ \A j \in IncidentID \ {i} : incidentRows'[j] = incidentRows[j]
  BY <1>1 DEF TablesTyped
<1>3. /\ image.version = row.version + 1 /\ image.key = row.key
      /\ image.holder = row.holder /\ image.expiresAt = row.expiresAt
      /\ ~ row.resolvedAt /\ row.key \in Key
      /\ image.resolvedAt <=> image.state = "RESOLVED"
  BY <1>1 DEF MovesOn, IncidentRowOK, IncidentRow
<1>4. \A j \in IncidentID : RowExists(j)' <=> RowExists(j)
  <2>1. image.state # "NONE"
    BY DEF IncidentRow, IncidentState
  <2>2. QED
    BY <1>2, <2>1 DEF RowExists, Rows
<1>5. Rows' = Rows
  BY <1>4 DEF Rows
<1>6. IncidentOf(i)' = [state |-> image.state, version |-> row.version + 1, key |-> row.key,
                        binding |-> image.binding, resolvedBy |-> image.resolution]
  BY <1>1, <1>2, <1>3, <1>4 DEF IncidentOf, Rows
<1>7. \A j \in IncidentID \ {i} : IncidentOf(j)' = IncidentOf(j)
  BY <1>2, IncidentStays
<1>8. \A j \in IncidentID : ClaimOf(j)' = ClaimOf(j)
  BY <1>2, <1>3, <1>4, ClaimStays
<1>9. MemClaims' = MemClaims
  BY <1>8, NoClaimMoves
<1>10. ASSUME image.state # "RESOLVED" PROVE MemIndex' = MemIndex
  <2>1. image.resolvedAt = row.resolvedAt
    BY <1>3, <1>10 DEF IncidentRow
  <2>2. QED
    BY <1>2, <1>3, <1>4, <2>1, IndexStays, NoKeyMoves
<1>11. ASSUME image.state = "RESOLVED" PROVE MemIndex' = [MemIndex EXCEPT ![row.key] = 0]
  <2>1. ActiveRows(row.key)' = {}
    <3>1. i \notin ActiveRows(row.key)'
      BY <1>2, <1>3, <1>11 DEF ActiveRows
    <3>2. ASSUME NEW j \in ActiveRows(row.key)' PROVE FALSE
      <4>1. j \in IncidentID \ {i} /\ j \in ActiveRows(row.key)
        BY <1>2, <1>4, <3>1, <3>2 DEF ActiveRows
      <4>2. j \in Rows /\ incidentRows[j].key = row.key /\ ~ incidentRows[j].resolvedAt
        BY <4>1 DEF ActiveRows, Rows
      <4>3. QED
        BY <1>1, <1>3, <4>1, <4>2 DEF RowsInSequence
    <3>3. QED
      BY <3>2
  <2>2. \A q \in Key \ {row.key} : ActiveRows(q)' = ActiveRows(q)
    BY <1>2, <1>3, <1>4 DEF ActiveRows
  <2>3. ActiveID(row.key)' = 0
    BY <1>1, <2>1, ActiveStaysUnique DEF IndexNames
  <2>4. \A q \in Key \ {row.key} : ActiveID(q)' = ActiveID(q)
    BY <2>2, SameIndex
  <2>5. QED
    BY <1>3, <2>3, <2>4, OneKey
<1>12. MemIncidents' = Moved(MemIncidents, i, image.state, image.resolution, image.binding)
  <2>1. MemIncidents' = [MemIncidents EXCEPT ![i] = IncidentOf(i)']
    BY <1>1, <1>7, OneIncident
  <2>2. MemIncidents[i].version = row.version /\ MemIncidents[i].key = row.key
    BY MemoryReads
  <2>3. QED
    BY <1>6, <2>1, <2>2 DEF Moved
<1>13. QED
  BY <1>5, <1>9, <1>10, <1>11, <1>12

-----------------------------------------------------------------------------
(* A commit is one operation, or nothing when it wrote nothing.             *)

(* The fence a transaction passed, as the registry reads it.                *)
LEMMA FenceMaps ==
  ASSUME PostgresInv, NEW s \in Session, OpenOK(tx[s]), FenceHeld(tx[s]),
         tx[s].op # "finish", tx[s].command.now \in Clock
  PROVE  /\ tx[s].k.incident \in Rows
         /\ tx[s].read.holder \in Holder
         /\ Memory!FencePassed(tx[s].k.incident, tx[s].read.version, tx[s].read.holder,
                               Stored(tx[s].command.now))
<1>1. PICK i : i = tx[s].k.incident
  OBVIOUS
<1>2. PICK now \in Clock : now = tx[s].command.now
  OBVIOUS
<1>3. PICK row \in IncidentRow : row = tx[s].read /\ row = incidentRows[i]
  BY <1>1, OwnsIncident
<1>4. i \in Rows /\ i \in IncidentID
  BY <1>1, RowOfTransactionExists DEF Rows
<1>5. PICK event \in claimRows[i] :
        /\ event.version = row.version
        /\ event.holder = row.holder
        /\ event.expiresAt = row.expiresAt
  BY <1>1, <1>3 DEF FenceHeld
<1>6. event \in ClaimRow
  BY <1>4, <1>5 DEF PostgresInv, TablesTyped
<1>7. row.holder \in Holder /\ row.holder # NoHolder
  BY <1>5, <1>6, NoHolderAssumption DEF ClaimRow
<1>8. \A other \in claimRows[i] : other.version <= event.version
  BY <1>3, <1>4, <1>5, AuditedVersionsOf
<1>9. ClaimOf(i) = [version |-> row.version, holder |-> row.holder, expiresAt |-> row.expiresAt]
  BY <1>3, <1>4, <1>5, <1>7, <1>8, ClaimInForce DEF PostgresInv, LatestClaims
<1>10. Stored(now) < row.expiresAt
  <2>1. now < row.expiresAt
    BY <1>2, <1>3 DEF FenceHeld
  <2>2. now \in Nat /\ Stored(now) \in Nat /\ Stored(now) <= now /\ row.expiresAt \in Nat
    BY StoredTimes DEF IncidentRow
  <2>3. QED
    BY <2>1, <2>2
<1>11. MemClaims[i] = ClaimOf(i) /\ MemIncidents[i].version = row.version
       /\ Memory!IncidentExists(i)
  BY <1>3, <1>4, MemoryReads
<1>12. row.version # 0
  BY <1>3, <1>4, AuditedVersionsOf
<1>13. Memory!ClaimAudited(i, row.version, row.holder)
  BY <1>5, <1>9, <1>11 DEF Memory!ClaimAudited, MemClaims
<1>14. Memory!Claimed(i)
  BY <1>9, <1>11, <1>12 DEF Memory!Claimed, MemClaims
<1>15. Memory!FencePassed(i, row.version, row.holder, Stored(now))
  BY <1>9, <1>10, <1>11, <1>13, <1>14 DEF Memory!FencePassed, MemClaims, MemIncidents
<1>16. QED
  BY <1>1, <1>2, <1>3, <1>4, <1>7, <1>15

(* What a commit writes, table by table.                                    *)
LEMMA CommitWrites ==
  ASSUME PostgresInv, NEW s \in Session, Commit(s)
  PROVE  /\ OpenOK(tx[s]) /\ tx[s].step = "commit" /\ claimRows' = claimRows
         /\ incidentRows' =
              IF tx[s].incident = Unwritten THEN incidentRows
              ELSE [incidentRows EXCEPT ![tx[s].k.incident] = tx[s].incident]
         /\ attemptRows' =
              IF tx[s].attempt = Unwritten THEN attemptRows
              ELSE [attemptRows EXCEPT ![tx[s].k] = tx[s].attempt]
         /\ verificationRows' =
              IF tx[s].verification = Unwritten THEN verificationRows
              ELSE [verificationRows EXCEPT ![tx[s].k] = tx[s].verification]
  BY CommitFacts DEF Commit, Written

LEMMA TransitionMaps ==
  ASSUME PostgresInv, PostgresInv', NEW s \in Session, Commit(s), TransitionOK(tx[s]),
         NEW now \in StoredTime
  PROVE  Memory!IncidentStep(tx[s].k.incident, now)
<1>1. PICK i, plan : i = tx[s].k.incident /\ plan = tx[s].k.plan
  OBVIOUS
<1>2. OpenOK(tx[s]) /\ tx[s].op = "transition" /\ plan \in Plan
  BY <1>1, CommitWrites, OpenTransaction, ActionKeyOf
<1>3. PICK row \in IncidentRow : row = tx[s].read /\ row = incidentRows[i]
  BY <1>1, <1>2, OwnsIncident
<1>4. i \in Rows /\ i \in IncidentID /\ IncidentRowOK(row)
  BY <1>1, <1>2, <1>3, RowOfTransactionExists DEF Rows, PostgresInv, RowsAccepted
<1>5. PICK image \in IncidentRow : image = tx[s].incident
  BY DEF TransitionOK, TransitionTx
<1>6. PICK to : to = image.state
  OBVIOUS
<1>7. PICK binding : binding = BindingAfter(row, to, plan)
  OBVIOUS
<1>8. /\ <<row.state, to>> \in ValidTransition
      /\ image = [row EXCEPT !.state = to, !.version = @ + 1,
                             !.resolvedAt = (to = "RESOLVED"), !.binding = binding]
      /\ tx[s].attempt = Unwritten /\ tx[s].verification = Unwritten
  BY <1>1, <1>3, <1>5, <1>6, <1>7 DEF TransitionOK, TransitionTx
<1>9. /\ image.version = row.version + 1 /\ image.version \in Version
      /\ image.resolution = row.resolution /\ image.binding = binding
  BY <1>8 DEF IncidentRow
<1>10. /\ UNCHANGED <<claimRows, attemptRows, verificationRows>>
       /\ incidentRows' = [incidentRows EXCEPT ![i] = image]
       /\ MovesOn(row, image)
  <2>1. tx[s].incident # Unwritten
    BY <1>5, ImagesAreWritten
  <2>2. MovesOn(row, image)
    BY <1>2, <1>3, <1>5, <2>1, IncidentImage DEF PostgresInv
  <2>3. QED
    BY <1>1, <1>5, <1>8, <2>1, <2>2, CommitWrites
<1>11. PICK given : given = IF to = "WAITING_APPROVAL" THEN plan ELSE NoPlan
  OBVIOUS
<1>12. /\ to \in {"DIAGNOSED", "WAITING_APPROVAL", "VERIFYING", "RESOLVED"}
       /\ binding = IF to = "WAITING_APPROVAL" THEN given ELSE row.binding
  <2>1. /\ row.state \in {"DETECTED", "DIAGNOSED", "WAITING_APPROVAL"}
        /\ to \in {"DIAGNOSED", "WAITING_APPROVAL", "VERIFYING", "RESOLVED"}
        /\ row.state = "WAITING_APPROVAL" => to = "VERIFYING"
    BY <1>8 DEF ValidTransition
  <2>2. row.state # "WAITING_APPROVAL" => row.binding = NoPlan
    BY <1>4, <2>1 DEF IncidentRowOK
  <2>3. QED
    BY <1>7, <1>11, <2>1, <2>2 DEF BindingAfter
<1>13. given \in Plan \cup {NoPlan} /\ (to = "WAITING_APPROVAL" <=> given # NoPlan)
  BY <1>2, <1>11, NoBindingAssumption
<1>14. /\ HasFields(MemIncidents, IncidentID, i)
       /\ MemIncidents[i].state = row.state /\ MemIncidents[i].version = row.version
       /\ MemIncidents[i].key = row.key /\ MemIncidents[i].binding = row.binding
       /\ MemIncidents[i].resolvedBy = row.resolution
  BY <1>3, <1>4, IncidentsAreFields
<1>15. /\ MemIncidents' = Moved(MemIncidents, i, image.state, image.resolution, image.binding)
       /\ MemClaims' = MemClaims /\ Cardinality(Rows)' = Cardinality(Rows)
       /\ image.state # "RESOLVED" => MemIndex' = MemIndex
       /\ image.state = "RESOLVED" => MemIndex' = [MemIndex EXCEPT ![row.key] = 0]
  BY <1>3, <1>4, <1>10, MoveMaps
<1>16. MemIncidents' = [MemIncidents EXCEPT
          ![i].state = to, ![i].version = @ + 1,
          ![i].binding = IF to = "WAITING_APPROVAL" THEN given ELSE @]
  <2>1. MemIncidents' = BindingMoved(MemIncidents, i, to, binding)
    BY <1>6, <1>9, <1>14, <1>15, BindingMoves
  <2>2. binding = IF to = "WAITING_APPROVAL" THEN given ELSE MemIncidents[i].binding
    BY <1>12, <1>14
  <2>3. QED
    BY <1>14, <2>1, <2>2 DEF BindingMoved, HasFields
<1>17. MemIndex' = Memory!Deactivated(i, to)
  <2>1. MemIndex' = IF to = "RESOLVED" THEN [MemIndex EXCEPT ![MemIncidents[i].key] = 0] ELSE MemIndex
    BY <1>6, <1>14, <1>15
  <2>2. QED
    BY <2>1 DEF Memory!Deactivated, MemIncidents, MemIndex
<1>18. Memory!TransitionAccepted(i, row.version, to, given)
  <2>1. MemIncidents[i].version = row.version /\ <<MemIncidents[i].state, to>> \in ValidTransition
    BY <1>8, <1>14
  <2>2. Memory!IncidentExists(i)
    BY <1>4, MemoryReads
  <2>3. Memory!ValidTransition = ValidTransition
    BY DEF Memory!ValidTransition, ValidTransition
  <2>4. QED
    BY <1>13, <2>1, <2>2, <2>3
    DEF Memory!TransitionAccepted, Memory!ValidTransitionCommand, MemIncidents
<1>19. Memory!Transition(i, row.version, to, given)
  BY <1>9, <1>10, <1>15, <1>16, <1>17, <1>18 DEF Memory!Transition, MemIncidents, MemClaims, MemIndex
<1>20. to \in Memory!State /\ MemIncidents[i].version = row.version
  BY <1>12, <1>14 DEF Memory!State
<1>21. QED
  BY <1>1, <1>13, <1>19, <1>20 DEF Memory!IncidentStep, MemIncidents
LEMMA BeginMaps ==
  ASSUME PostgresInv, PostgresInv', NEW s \in Session, Commit(s), BeginOK(tx[s])
  PROVE  /\ Memory!VerificationStep(tx[s].k, tx[s].read.holder, Stored(tx[s].command.now))
         /\ tx[s].read.holder \in Holder /\ tx[s].command.now \in Clock
<1>1. PICK k \in ActionKey, now \in Clock, subject \in Subject, finishedAt \in Clock :
        /\ k = tx[s].k /\ now = tx[s].command.now /\ subject = tx[s].command.subject
        /\ finishedAt = tx[s].command.finishedAt /\ tx[s].command.status \in TerminalStatus
  BY DEF BeginOK, BeginTx
<1>2. PICK i, at : i = k.incident /\ at = Stored(now)
  OBVIOUS
<1>3. /\ OpenOK(tx[s]) /\ tx[s].op = "begin" /\ tx[s].step = "commit" /\ claimRows' = claimRows
      /\ TablesTyped /\ RowsAccepted
  BY CommitWrites, OpenTransaction DEF PostgresInv
<1>4. PICK row \in IncidentRow : row = tx[s].read /\ row = incidentRows[i]
  BY <1>1, <1>2, <1>3, OwnsIncident
<1>5. PICK holder \in Holder : holder = row.holder
  BY <1>1, <1>3, <1>4, FenceMaps DEF BeginOK
<1>6. i \in Rows /\ Memory!FencePassed(i, row.version, holder, at)
  BY <1>1, <1>2, <1>3, <1>4, <1>5, FenceMaps DEF BeginOK
<1>7. row.state \in {"DIAGNOSED", "WAITING_APPROVAL", "VERIFYING"}
  BY <1>3, <1>4 DEF BeginOK, FenceHeld, FencedStates
<1>8. /\ HasFields(MemIncidents, IncidentID, i)
      /\ MemIncidents[i].state = row.state /\ MemIncidents[i].version = row.version
      /\ MemIncidents[i].resolvedBy = row.resolution /\ MemIncidents[i].binding = row.binding
  BY <1>4, <1>6, IncidentsAreFields
<1>9. attemptRows[k].status \in TerminalStatus /\ at >= attemptRows[k].finishedAt
  <2>1. /\ attemptRows[k].status = tx[s].command.status
        /\ attemptRows[k].finishedAt = Stored(finishedAt)
        /\ now >= finishedAt
    BY <1>1, <1>3 DEF BeginOK
  <2>2. /\ now \in Nat /\ finishedAt \in Nat /\ at \in Nat
        /\ Stored(finishedAt) \in Nat /\ Stored(finishedAt) <= finishedAt
    BY <1>2, StoredTimes
  <2>3. Stored(finishedAt) <= now
    BY <2>1, <2>2
  <2>4. Stored(finishedAt) <= at
    BY <1>2, <2>2, <2>3, StoredKeepsOrder
  <2>5. QED
    BY <1>1, <2>1, <2>2, <2>4
<1>10. PICK new : new = [status |-> "PENDING", version |-> 1, subject |-> subject,
                         startedAt |-> at, finishedAt |-> 0]
  OBVIOUS
<1>11. PICK begun : begun = IF verificationRows[k].status # "NONE" THEN verificationRows[k] ELSE new
  OBVIOUS
<1>12. /\ verificationRows[k].status # "NONE" => verificationRows[k].subject = subject
       /\ begun.status = "PENDING"
       /\ verificationRows' = [verificationRows EXCEPT ![k] = begun]
  <2>1. CASE tx[s].verification = Unwritten
    <3>1. verificationRows[k].status = "PENDING" /\ verificationRows[k].subject = subject
      BY <1>1, <1>3, <2>1 DEF BeginOK
    <3>2. verificationRows' = verificationRows /\ begun = verificationRows[k]
      BY <1>11, <2>1, <3>1, CommitWrites
    <3>3. QED
      BY <1>1, <1>3, <3>1, <3>2 DEF TablesTyped
  <2>2. CASE tx[s].verification # Unwritten
    <3>1. verificationRows[k].status = "NONE" /\ tx[s].verification = new
      BY <1>1, <1>2, <1>10, <2>2 DEF BeginOK
    <3>2. begun = new /\ new.status = "PENDING"
      BY <1>10, <1>11, <3>1
    <3>3. QED
      BY <1>1, <2>2, <3>1, <3>2, CommitWrites
  <2>3. QED
    BY <2>1, <2>2
<1>13. begun = Memory!BegunVerification(k, subject, at)
  BY <1>10, <1>11 DEF Memory!BegunVerification, Memory!NewVerification, Memory!VerificationExists
<1>14. Memory!VerificationBeginAccepted(k, attemptRows[k], subject, at)
  BY <1>9, <1>12
  DEF Memory!VerificationBeginAccepted, Memory!ValidVerificationSource, Memory!VerificationExists,
      Memory!TerminalAttempt, Memory!CompletedStatus, TerminalStatus
<1>15. Memory!FencedBeginAccepted(k, row.version, holder, at, attemptRows[k], subject)
  BY <1>2, <1>6, <1>7, <1>8, <1>12, <1>13, <1>14 DEF Memory!FencedBeginAccepted, MemIncidents
<1>16. Memory!BeginVerification(k, attemptRows[k], subject, at)
  BY <1>12, <1>13, <1>14 DEF Memory!BeginVerification
<1>17. attemptRows' = attemptRows
  BY CommitWrites DEF BeginOK, BeginTx
<1>18. /\ IF MemIncidents[i].state = "VERIFYING" THEN UNCHANGED MemIncidents
          ELSE /\ row.version + 1 \in Version
               /\ MemIncidents' = [MemIncidents EXCEPT
                    ![i].state = "VERIFYING", ![i].version = @ + 1]
       /\ MemClaims' = MemClaims /\ MemIndex' = MemIndex
       /\ Cardinality(Rows)' = Cardinality(Rows)
  <2>1. CASE row.state = "VERIFYING"
    <3>1. tx[s].incident = Unwritten
      BY <1>3, <1>4, <2>1 DEF BeginOK
    <3>2. incidentRows' = incidentRows
      BY <3>1, CommitWrites
    <3>3. QED
      BY <1>3, <1>8, <2>1, <3>2, IncidentsUnseen
  <2>2. CASE row.state # "VERIFYING"
    <3>1. PICK image : image = tx[s].incident
      OBVIOUS
    <3>2. image = [row EXCEPT !.state = "VERIFYING", !.version = @ + 1]
      BY <1>3, <1>4, <2>2, <3>1 DEF BeginOK
    <3>3. image # Unwritten
      <4>1. "state" \in DOMAIN image /\ "state" \notin DOMAIN Unwritten
        BY <3>2 DEF IncidentRow, Unwritten
      <4>2. QED
        BY <4>1
    <3>4. MovesOn(row, image) /\ incidentRows' = [incidentRows EXCEPT ![i] = image]
      BY <1>1, <1>2, <1>3, <1>4, <3>1, <3>3, IncidentImage, CommitWrites
    <3>5. image \in IncidentRow /\ image.version = row.version + 1
      BY <3>4 DEF MovesOn
    <3>6. image.state = "VERIFYING" /\ image.resolution = row.resolution /\ image.binding = row.binding
      BY <3>2 DEF IncidentRow
    <3>7. /\ MemIncidents' = Moved(MemIncidents, i, image.state, image.resolution, image.binding)
          /\ MemClaims' = MemClaims /\ Cardinality(Rows)' = Cardinality(Rows)
          /\ image.state # "RESOLVED" => MemIndex' = MemIndex
      BY <1>3, <1>4, <1>6, <3>4, <3>5, MoveMaps
    <3>8. MemIncidents' = StateMoved(MemIncidents, i, "VERIFYING")
      BY <1>8, <3>6, <3>7, StateMoves
    <3>9. row.version + 1 \in Version
      BY <3>5 DEF IncidentRow
    <3>10. QED
      BY <1>8, <2>2, <3>6, <3>7, <3>8, <3>9 DEF StateMoved
  <2>3. QED
    BY <2>1, <2>2
<1>19. Memory!BeginFencedVerification(k, row.version, holder, at, attemptRows[k], subject)
  BY <1>2, <1>3, <1>15, <1>16, <1>17, <1>18
  DEF Memory!BeginFencedVerification, MemIncidents, MemClaims, MemIndex
<1>20. Memory!VerificationStep(k, holder, at)
  BY <1>2, <1>8, <1>19 DEF Memory!VerificationStep, MemIncidents
<1>21. QED
  BY <1>1, <1>2, <1>4, <1>5, <1>20
LEMMA CompleteMaps ==
  ASSUME PostgresInv, NEW s \in Session, Commit(s), CompleteOK(tx[s])
  PROVE  \/ UNCHANGED Memory!registryVars
         \/ /\ Memory!VerificationStep(tx[s].k, tx[s].read.holder, Stored(tx[s].command.now))
            /\ tx[s].read.holder \in Holder /\ tx[s].command.now \in Clock
<1>1. PICK k \in ActionKey, now \in Clock, to \in VerificationResult :
        k = tx[s].k /\ now = tx[s].command.now /\ to = tx[s].command.to
  BY DEF CompleteOK, CompleteTx
<1>2. PICK i, at : i = k.incident /\ at = Stored(now)
  OBVIOUS
<1>3. /\ OpenOK(tx[s]) /\ tx[s].op = "complete" /\ TablesTyped /\ RowsAccepted
      /\ UNCHANGED <<incidentRows, claimRows, attemptRows>>
  BY CommitWrites, OpenTransaction DEF PostgresInv, CompleteOK, CompleteTx
<1>4. /\ MemIncidents' = MemIncidents /\ MemClaims' = MemClaims /\ MemIndex' = MemIndex
      /\ Cardinality(Rows)' = Cardinality(Rows)
  BY <1>3, IncidentsUnseen
<1>5. CASE tx[s].verification = Unwritten
  <2>1. verificationRows' = verificationRows
    BY <1>5, CommitWrites
  <2>2. QED
    BY <1>3, <1>4, <2>1 DEF Memory!registryVars, MemIncidents, MemClaims, MemIndex
<1>6. CASE tx[s].verification # Unwritten
  <2>1. PICK row \in IncidentRow : row = tx[s].read /\ row = incidentRows[i]
    BY <1>1, <1>2, <1>3, OwnsIncident
  <2>2. PICK holder \in Holder : holder = row.holder
    BY <1>1, <1>3, <2>1, FenceMaps DEF CompleteOK
  <2>3. i \in Rows /\ Memory!FencePassed(i, row.version, holder, at)
    BY <1>1, <1>2, <1>3, <2>1, <2>2, FenceMaps DEF CompleteOK
  <2>4. MemIncidents[i].state = "VERIFYING" /\ MemIncidents[i].version = row.version
    <3>1. row.state = "VERIFYING"
      BY <1>3, <2>1 DEF CompleteOK, FenceHeld, FencedStates
    <3>2. QED
      BY <2>1, <2>3, <3>1, IncidentsAreFields
  <2>5. PICK v : v = verificationRows[k]
    OBVIOUS
  <2>6. /\ v.status = "PENDING" /\ now >= v.startedAt
        /\ tx[s].verification =
             [v EXCEPT !.status = to, !.version = @ + 1, !.finishedAt = Stored(now)]
    BY <1>1, <1>6, <2>5 DEF CompleteOK
  <2>7. v \in VerificationRow /\ v.version = 1
    BY <1>1, <1>3, <2>5, <2>6, ExistingVerification DEF RowsAccepted, VerificationRowOK
  <2>8. at >= v.startedAt
    <3>1. PICK a \in Nat : v.startedAt = Stored(a)
      BY <2>7, StoredTimesAreNumbers DEF VerificationRow
    <3>2. now \in Nat /\ at \in Nat /\ Stored(a) \in Nat
      BY <1>2, StoredTimes, StoredIsEarlier
    <3>3. Stored(a) <= at
      BY <1>2, <2>6, <3>1, <3>2, StoredKeepsOrder
    <3>4. QED
      BY <3>1, <3>2, <3>3
  <2>9. verificationRows' = [verificationRows EXCEPT
          ![k].status = to, ![k].version = @ + 1, ![k].finishedAt = at]
    <3>1. verificationRows' = [verificationRows EXCEPT ![k] =
            [verificationRows[k] EXCEPT !.status = to, !.version = @ + 1, !.finishedAt = at]]
      BY <1>1, <1>2, <1>6, <2>5, <2>6, CommitWrites
    <3>2. PICK f, r : f = verificationRows /\ r = [f[k] EXCEPT !.status = to, !.version = @ + 1]
      OBVIOUS
    <3>3. f = [c \in ActionKey |-> f[c]]
      BY <1>3, <3>2 DEF TablesTyped
    <3>4. [f EXCEPT ![k].status = to, ![k].version = @ + 1] = [f EXCEPT ![k] = r]
      BY <1>1, <3>2, <3>3
    <3>5. [f EXCEPT ![k] = r] = [c \in ActionKey |-> IF c = k THEN r ELSE f[c]]
      BY <3>3
    <3>6. [f EXCEPT ![k].status = to, ![k].version = @ + 1, ![k].finishedAt = at] =
            [f EXCEPT ![k] = [r EXCEPT !.finishedAt = at]]
      BY <1>1, <3>3, <3>4, <3>5
    <3>7. QED
      BY <3>1, <3>2, <3>6
  <2>10. ~ Memory!VerificationCompletionMatches(v, 1, to, at)
    BY <2>7 DEF Memory!VerificationCompletionMatches
  <2>11. Memory!VerificationCompletionAccepted(k, 1, to, at)
    BY <2>5, <2>6, <2>7, <2>8
    DEF Memory!VerificationCompletionAccepted, Memory!VerificationExists, Memory!CompletesVerification
  <2>12. Memory!CompleteVerification(k, 1, to, at)
    BY <2>5, <2>9, <2>10, <2>11 DEF Memory!CompleteVerification
  <2>13. Memory!CompleteFencedVerification(k, row.version, holder, at, 1, to)
    BY <1>2, <1>3, <1>4, <2>3, <2>4, <2>11, <2>12
    DEF Memory!CompleteFencedVerification, Memory!FencedCompletionAccepted,
        MemIncidents, MemClaims, MemIndex
  <2>14. Memory!VerificationStep(k, holder, at)
    <3>1. to \in Memory!VerificationResult
      BY DEF Memory!VerificationResult, VerificationResult
    <3>2. QED
      BY <1>2, <2>4, <2>13, <3>1 DEF Memory!VerificationStep, MemIncidents
  <2>15. QED
    BY <1>1, <1>2, <2>1, <2>2, <2>14
<1>7. QED
  BY <1>5, <1>6

LEMMA ResolveMaps ==
  ASSUME PostgresInv, PostgresInv', NEW s \in Session, Commit(s), ResolveOK(tx[s])
  PROVE  /\ Memory!VerificationStep(tx[s].k, tx[s].read.holder, Stored(tx[s].command.now))
         /\ tx[s].read.holder \in Holder /\ tx[s].command.now \in Clock
<1>1. PICK k \in ActionKey, now \in Clock : k = tx[s].k /\ now = tx[s].command.now
  BY DEF ResolveOK, ResolveTx
<1>2. PICK i, at : i = k.incident /\ at = Stored(now)
  OBVIOUS
<1>3. /\ OpenOK(tx[s]) /\ tx[s].op = "resolve" /\ tx[s].step = "commit"
      /\ UNCHANGED <<claimRows, attemptRows, verificationRows>>
  BY CommitWrites, OpenTransaction DEF ResolveOK, ResolveTx
<1>4. PICK row \in IncidentRow : row = tx[s].read /\ row = incidentRows[i]
  BY <1>1, <1>2, <1>3, OwnsIncident
<1>5. PICK holder \in Holder : holder = row.holder
  BY <1>1, <1>3, <1>4, FenceMaps DEF ResolveOK
<1>6. i \in Rows /\ Memory!FencePassed(i, row.version, holder, at)
  BY <1>1, <1>2, <1>3, <1>4, <1>5, FenceMaps DEF ResolveOK
<1>7. row.state = "VERIFYING" /\ verificationRows[k].status = "RECOVERED"
  BY <1>1, <1>3, <1>4 DEF ResolveOK, FenceHeld, FencedStates
<1>8. /\ HasFields(MemIncidents, IncidentID, i)
      /\ MemIncidents[i].state = row.state /\ MemIncidents[i].version = row.version
      /\ MemIncidents[i].key = row.key
  BY <1>4, <1>6, IncidentsAreFields
<1>9. PICK image : image = tx[s].incident
  OBVIOUS
<1>10. image = [row EXCEPT !.state = "RESOLVED", !.version = @ + 1, !.resolvedAt = TRUE,
                           !.resolution = k.plan, !.binding = NoPlan]
  BY <1>1, <1>3, <1>4, <1>9 DEF ResolveOK
<1>11. image # Unwritten
  <2>1. "state" \in DOMAIN image /\ "state" \notin DOMAIN Unwritten
    BY <1>10 DEF IncidentRow, Unwritten
  <2>2. QED
    BY <2>1
<1>12. MovesOn(row, image) /\ incidentRows' = [incidentRows EXCEPT ![i] = image]
  BY <1>1, <1>2, <1>3, <1>4, <1>9, <1>11, IncidentImage, CommitWrites DEF PostgresInv
<1>13. /\ image \in IncidentRow /\ image.version = row.version + 1
       /\ image.state = "RESOLVED" /\ image.resolution = k.plan /\ image.binding = NoPlan
  BY <1>10, <1>12 DEF MovesOn, IncidentRow
<1>14. /\ MemIncidents' = Moved(MemIncidents, i, image.state, image.resolution, image.binding)
       /\ MemClaims' = MemClaims /\ Cardinality(Rows)' = Cardinality(Rows)
       /\ image.state = "RESOLVED" => MemIndex' = [MemIndex EXCEPT ![row.key] = 0]
  BY <1>3, <1>4, <1>6, <1>12, <1>13, MoveMaps
<1>15. MemIncidents' = EvidenceMoved(MemIncidents, i, "RESOLVED", k.plan, NoPlan)
  BY <1>8, <1>13, <1>14, EvidenceMoves
<1>16. MemIndex' = Memory!Deactivated(i, "RESOLVED")
  <2>1. MemIndex' = [MemIndex EXCEPT ![MemIncidents[i].key] = 0]
    BY <1>8, <1>13, <1>14
  <2>2. QED
    BY <2>1 DEF Memory!Deactivated, MemIncidents, MemIndex
<1>17. row.version + 1 \in Version
  BY <1>13 DEF IncidentRow
<1>18. Memory!ResolveAccepted(i, row.version, k, holder, at)
  BY <1>2, <1>6, <1>7, <1>8 DEF Memory!ResolveAccepted, Memory!RequireRecovered, MemIncidents
<1>19. Memory!Resolve(i, row.version, k, holder, at)
  BY <1>3, <1>14, <1>15, <1>16, <1>17, <1>18
  DEF Memory!Resolve, EvidenceMoved, MemIncidents, MemClaims, MemIndex
<1>20. Memory!VerificationStep(k, holder, at)
  BY <1>2, <1>8, <1>19 DEF Memory!VerificationStep, MemIncidents
<1>21. QED
  BY <1>1, <1>2, <1>4, <1>5, <1>20
(* The assignments to an attempt's fields, one after the other and together. *)
AttemptFinished(f, k, to, at, by) ==
  [f EXCEPT ![k].status = to, ![k].version = @ + 1, ![k].finishedAt = at, ![k].recoveredBy = by]

AttemptReplaced(f, k, to, at, by) ==
  [f EXCEPT ![k] = [f[k] EXCEPT !.status = to, !.version = @ + 1,
                                !.finishedAt = at, !.recoveredBy = by]]

LEMMA AttemptMoves ==
  ASSUME NEW f, NEW S, f = [c \in S |-> f[c]], NEW k \in S, NEW to, NEW at, NEW by
  PROVE  AttemptFinished(f, k, to, at, by) = AttemptReplaced(f, k, to, at, by)
<1>1. PICK r : r = [f[k] EXCEPT !.status = to, !.version = @ + 1]
  OBVIOUS
<1>2. PICK g : g = [f EXCEPT ![k] = r]
  OBVIOUS
<1>3. [f EXCEPT ![k].status = to, ![k].version = @ + 1] = g
  BY <1>1, <1>2
<1>4. g = [c \in S |-> IF c = k THEN r ELSE f[c]]
  BY <1>2
<1>5. PICK h : h = [g EXCEPT ![k].finishedAt = at]
  OBVIOUS
<1>6. h = [c \in S |-> IF c = k THEN [r EXCEPT !.finishedAt = at] ELSE f[c]]
  BY <1>4, <1>5
<1>7. [h EXCEPT ![k].recoveredBy = by] =
        [c \in S |-> IF c = k THEN [[r EXCEPT !.finishedAt = at] EXCEPT !.recoveredBy = by] ELSE f[c]]
  BY <1>6
<1>8. AttemptFinished(f, k, to, at, by) = [h EXCEPT ![k].recoveredBy = by]
  BY <1>3, <1>5 DEF AttemptFinished
<1>9. AttemptReplaced(f, k, to, at, by) =
        [c \in S |-> IF c = k THEN [[r EXCEPT !.finishedAt = at] EXCEPT !.recoveredBy = by] ELSE f[c]]
  BY <1>1 DEF AttemptReplaced
<1>10. QED
  BY <1>7, <1>8, <1>9

LEMMA FinishMaps ==
  ASSUME PostgresInv, NEW s \in Session, Commit(s), FinishOK(tx[s])
  PROVE  \/ UNCHANGED Memory!registryVars
         \/ /\ Memory!AttemptStep(tx[s].k, Stored(tx[s].command.now))
            /\ tx[s].command.now \in Clock
<1>1. PICK k \in ActionKey, now \in Clock, to \in TerminalStatus, by \in Version \cup {0} :
        /\ k = tx[s].k /\ now = tx[s].command.now
        /\ to = tx[s].command.to /\ by = tx[s].command.by
  BY DEF FinishOK, FinishTx
<1>2. PICK at : at = Stored(now)
  OBVIOUS
<1>3. /\ OpenOK(tx[s]) /\ TablesTyped /\ RowsAccepted
      /\ UNCHANGED <<incidentRows, claimRows, verificationRows>>
  BY CommitWrites DEF PostgresInv, FinishOK, FinishTx
<1>4. /\ MemIncidents' = MemIncidents /\ MemClaims' = MemClaims /\ MemIndex' = MemIndex
      /\ Cardinality(Rows)' = Cardinality(Rows)
  BY <1>3, IncidentsUnseen
<1>5. CASE tx[s].attempt = Unwritten
  <2>1. attemptRows' = attemptRows
    BY <1>5, CommitWrites
  <2>2. QED
    BY <1>3, <1>4, <2>1 DEF Memory!registryVars, MemIncidents, MemClaims, MemIndex
<1>6. CASE tx[s].attempt # Unwritten
  <2>1. PICK a \in AttemptRow : a = tx[s].read /\ a = attemptRows[k]
    BY <1>1 DEF FinishOK, FinishTx
  <2>2. /\ a.status = "STARTED" /\ now >= a.startedAt
        /\ \/ by = 0 /\ to \in {"SUCCEEDED", "FAILED"}
           \/ to = "UNKNOWN" /\ by > a.token /\ by \in AuditedVersions(k.incident)
        /\ tx[s].attempt = [a EXCEPT !.status = to, !.version = @ + 1,
                                     !.finishedAt = Stored(now), !.recoveredBy = by]
    BY <1>1, <1>6, <2>1 DEF FinishOK, Finishes
  <2>3. a.version = 1 /\ a.token \in AuditedVersions(k.incident)
    BY <1>1, <1>3, <2>1, <2>2, ExistingAttempt DEF RowsAccepted, AttemptRowOK
  <2>4. at >= a.startedAt
    <3>1. PICK t \in Nat : a.startedAt = Stored(t)
      BY StoredTimesAreNumbers DEF AttemptRow
    <3>2. now \in Nat /\ at \in Nat /\ Stored(t) \in Nat
      BY <1>2, StoredTimes, StoredIsEarlier
    <3>3. Stored(t) <= at
      BY <1>2, <2>2, <3>1, <3>2, StoredKeepsOrder
    <3>4. QED
      BY <3>1, <3>2, <3>3
  <2>5. attemptRows' = AttemptFinished(attemptRows, k, to, at, by)
    <3>1. attemptRows' = AttemptReplaced(attemptRows, k, to, at, by)
      BY <1>1, <1>2, <1>6, <2>1, <2>2, CommitWrites DEF AttemptReplaced
    <3>2. attemptRows = [c \in ActionKey |-> attemptRows[c]]
      BY <1>3 DEF TablesTyped
    <3>3. QED
      BY <1>1, <3>1, <3>2, AttemptMoves
  <2>6. CASE by = 0 /\ to \in {"SUCCEEDED", "FAILED"}
    <3>1. Memory!CompleteAttempt(k, a.token, 1, to, at)
      <4>1. ~ Memory!CompletionMatches(attemptRows[k], a.token, to, at)
        BY <2>1, <2>2, <2>6 DEF Memory!CompletionMatches
      <4>2. Memory!CompletionAccepted(k, a.token, 1, to, at)
        BY <2>1, <2>2, <2>3, <2>4
        DEF Memory!CompletionAccepted, Memory!AttemptExists, Memory!CompletesAttempt
      <4>3. QED
        BY <2>5, <2>6, <4>1, <4>2 DEF Memory!CompleteAttempt, AttemptFinished
    <3>2. to \in Memory!CompletedStatus
      BY <2>6 DEF Memory!CompletedStatus
    <3>3. \E event \in claimRows[k.incident] : event.version = a.token
      BY <2>3 DEF AuditedVersions
    <3>4. Memory!AttemptStep(k, at)
      BY <1>3, <1>4, <3>1, <3>2, <3>3 DEF Memory!AttemptStep, MemIncidents, MemClaims, MemIndex
    <3>5. QED
      BY <1>1, <1>2, <3>4
  <2>7. CASE to = "UNKNOWN" /\ by > a.token /\ by \in AuditedVersions(k.incident)
    <3>1. Memory!RecoverAttempt(k, by, at)
      <4>1. ~ Memory!RecoveryMatches(attemptRows[k], by, at)
        BY <2>1, <2>2 DEF Memory!RecoveryMatches
      <4>2. Memory!RecoveryAccepted(k, by, at)
        BY <2>1, <2>2, <2>4, <2>7
        DEF Memory!RecoveryAccepted, Memory!AttemptExists, Memory!RecoversAttempt
      <4>3. QED
        BY <2>5, <2>7, <4>1, <4>2 DEF Memory!RecoverAttempt, AttemptFinished
    <3>2. \E event \in claimRows[k.incident] : event.version = by
      BY <2>7 DEF AuditedVersions
    <3>3. Memory!AttemptStep(k, at)
      BY <1>3, <1>4, <3>1, <3>2 DEF Memory!AttemptStep, MemIncidents, MemClaims, MemIndex
    <3>4. QED
      BY <1>1, <1>2, <3>3
  <2>8. QED
    BY <2>2, <2>6, <2>7
<1>7. QED
  BY <1>5, <1>6
-----------------------------------------------------------------------------
(* Whoever opened a transaction has read a clock.                           *)
ClockRead == (\E s \in Session : Active(s)) => Clock # {}

LEMMA ClockIsRead == PostgresSpec => []ClockRead
<1>1. PostgresInit => ClockRead
  BY IdleTransaction DEF PostgresInit, ClockRead, Active
<1>2. PostgresInv /\ ClockRead /\ [PostgresNext]_postgresVars => ClockRead'
  <2> SUFFICES ASSUME PostgresInv, ClockRead, [PostgresNext]_postgresVars, Clock = {},
                      NEW s \in Session, ~ Active(s)
               PROVE  ~ Active(s)'
    BY DEF ClockRead
  <2>1. CASE UNCHANGED tx
    BY <2>1 DEF Active
  <2>2. CASE \E u \in Session : NextStatement(u)
    <3>1. PICK u \in Session : NextStatement(u)
      BY <2>2
    <3>2. tx[u].step # "none"
      BY <3>1, Zenon
      DEF NextStatement, ShareAttempt, EnterVerifying, InsertAudit, InsertVerification,
          LockVerification, UpdateVerification, LockEvidence, UpdateResolved, UpdateAttempt,
          Commit, Abort, At, Active
    <3>3. QED
      BY <3>2 DEF ClockRead, Active
  <2>3. QED
    BY <2>1, <2>2 DEF PostgresNext, postgresVars, Observe
<1>3. QED
  BY <1>1, <1>2, PostgresInvariant, PTL DEF PostgresSpec

LEMMA StatementMaps ==
  ASSUME PostgresInv, PostgresInv', NEW k \in ActionKey, NEW now \in Clock, Statement(k, now)
  PROVE  Memory!RegistryNext \/ UNCHANGED Memory!registryVars
<1>1. k.incident \in IncidentID /\ Stored(now) \in StoredTime
  BY ActionKeyOf, StoredTimes
<1>2. ASSUME NEW holder \in Holder, NEW lease \in Lease,
             Claim(k.incident, incidentRows[k.incident].version, holder, now, lease)
      PROVE  Memory!RegistryNext
  <2>1. k.incident \in Rows
    BY <1>1, <1>2 DEF Claim, Rows
  <2>2. MemIncidents[k.incident].version = incidentRows[k.incident].version
    BY <2>1, MemoryReads
  <2>3. Memory!Claim(k.incident, MemIncidents[k.incident].version, holder, Stored(now), lease)
    BY <1>1, <1>2, <2>2, ClaimMaps
  <2>4. Memory!IncidentStep(k.incident, Stored(now))
    BY <2>3 DEF Memory!IncidentStep, MemIncidents
  <2>5. QED
    BY <1>1, <2>4 DEF Memory!RegistryNext, Memory!IncidentID, IncidentID
<1>3. ASSUME NEW holder \in Holder, NEW lease \in Lease,
             \/ ClaimPendingVerification(k, holder, now, lease)
             \/ ClaimRecoveredVerificationResolution(k, holder, now, lease)
      PROVE  Memory!RegistryNext
  <2>1. \/ Memory!ClaimPendingVerification(k, holder, Stored(now), lease)
        \/ Memory!ClaimRecoveredVerificationResolution(k, holder, Stored(now), lease)
    BY <1>3, SchedulersMap
  <2>2. Memory!VerificationStep(k, holder, Stored(now))
    BY <2>1 DEF Memory!VerificationStep
  <2>3. QED
    BY <1>1, <2>2 DEF Memory!RegistryNext
<1>4. ASSUME PublishPlan(k) PROVE UNCHANGED Memory!registryVars
  <2>1. UNCHANGED <<incidentRows, claimRows, attemptRows, verificationRows>>
    BY <1>4 DEF PublishPlan
  <2>2. QED
    BY <2>1, IncidentsUnseen DEF Memory!registryVars, MemIncidents, MemClaims, MemIndex
<1>5. ASSUME NEW token \in AuditedVersions(k.incident), BeginAttempt(k, token, now)
      PROVE  Memory!RegistryNext
  <2>1. Memory!AttemptStep(k, Stored(now))
    BY <1>5, BeginAttemptMaps
  <2>2. QED
    BY <1>1, <2>1 DEF Memory!RegistryNext
<1>6. QED
  BY <1>2, <1>3, <1>4, <1>5 DEF Statement

LEMMA CommitMaps ==
  ASSUME PostgresInv, PostgresInv', ClockRead, NEW s \in Session, Commit(s)
  PROVE  Memory!RegistryNext \/ UNCHANGED Memory!registryVars
<1>1. OpenOK(tx[s]) /\ tx[s].k \in ActionKey /\ tx[s].k.incident \in IncidentID
  BY CommitFacts
<1>2. CASE TransitionOK(tx[s])
  <2>1. PICK now \in Clock : TRUE
    BY <1>1, ActiveIsOpen DEF ClockRead, PostgresInv
  <2>2. Stored(now) \in StoredTime
    BY StoredTimes
  <2>3. Memory!IncidentStep(tx[s].k.incident, Stored(now))
    BY <1>2, <2>2, TransitionMaps
  <2>4. QED
    BY <1>1, <2>2, <2>3 DEF Memory!RegistryNext, Memory!IncidentID, IncidentID
<1>3. CASE BeginOK(tx[s]) \/ CompleteOK(tx[s]) \/ ResolveOK(tx[s])
  <2>1. \/ UNCHANGED Memory!registryVars
        \/ /\ Memory!VerificationStep(tx[s].k, tx[s].read.holder, Stored(tx[s].command.now))
           /\ tx[s].read.holder \in Holder /\ tx[s].command.now \in Clock
    BY <1>3, BeginMaps, CompleteMaps, ResolveMaps
  <2>2. tx[s].command.now \in Clock => Stored(tx[s].command.now) \in StoredTime
    BY StoredTimes
  <2>3. QED
    BY <1>1, <2>1, <2>2 DEF Memory!RegistryNext
<1>4. CASE FinishOK(tx[s])
  <2>1. \/ UNCHANGED Memory!registryVars
        \/ /\ Memory!AttemptStep(tx[s].k, Stored(tx[s].command.now))
           /\ tx[s].command.now \in Clock
    BY <1>4, FinishMaps
  <2>2. tx[s].command.now \in Clock => Stored(tx[s].command.now) \in StoredTime
    BY StoredTimes
  <2>3. QED
    BY <1>1, <2>1, <2>2 DEF Memory!RegistryNext
<1>5. QED
  BY <1>1, <1>2, <1>3, <1>4 DEF OpenOK

LEMMA StartsUnseen ==
  ASSUME NEW s, NEW k, NEW now, StartTransaction(s, k, now)
  PROVE  UNCHANGED tables
  BY Zenon DEF StartTransaction, StartTransition, StartFenced, StartCompletion, StartRecovery, Continue

LEMMA StatementsUnseen ==
  ASSUME NEW s, NextStatement(s)
  PROVE  Commit(s) \/ UNCHANGED tables
<1>1. CASE ShareAttempt(s) \/ EnterVerifying(s) \/ InsertAudit(s) \/ InsertVerification(s)
  BY <1>1, Zenon DEF ShareAttempt, EnterVerifying, InsertAudit, InsertVerification, Advance, Continue
<1>2. CASE LockVerification(s) \/ UpdateVerification(s) \/ LockEvidence(s) \/ UpdateResolved(s)
  BY <1>2, Zenon DEF LockVerification, UpdateVerification, LockEvidence, UpdateResolved, Advance, Continue
<1>3. CASE UpdateAttempt(s) \/ Abort(s)
  BY <1>3, Zenon DEF UpdateAttempt, Abort, Advance, Continue
<1>4. QED
  BY <1>1, <1>2, <1>3 DEF NextStatement

LEMMA EmptyTablesMap ==
  ASSUME PostgresInit
  PROVE  Memory!RegistryInit
<1>1. \A i \in IncidentID : ~ RowExists(i)
  BY DEF PostgresInit, RowExists, NoRow
<1>2. Rows = {} /\ \A key : ActiveRows(key) = {}
  BY <1>1 DEF Rows, ActiveRows
<1>3. /\ MemIncidents = [i \in IncidentID |-> NoRow]
      /\ MemClaims = [i \in IncidentID |-> [version |-> 0]]
      /\ MemIndex = [key \in Key |-> 0]
  BY <1>1, <1>2 DEF MemIncidents, MemClaims, MemIndex, IncidentOf, ClaimOf
<1>4. Cardinality(Rows) = 0
  BY <1>2, FS_EmptySet
<1>5. QED
  BY <1>3, <1>4
  DEF PostgresInit, NoRow, NoAttemptRow, NoVerificationRow, MemIncidents, MemClaims, MemIndex, IncidentID,
      Memory!RegistryInit, Memory!NoIncident, Memory!NoClaim, Memory!IncidentID,
      Memory!VerificationInit, Memory!NoVerification, Memory!AttemptInit, Memory!NoAttempt

(* The tables implement the registry in memory: every transaction that      *)
(* commits is one operation of it at the stored clock reading, and those    *)
(* that die are none, whatever the sessions do between its statements.      *)
THEOREM RegistryIsImplemented == PostgresSpec => PostgresImplementsRegistry
<1>1. PostgresInit => Memory!RegistryInit
  BY EmptyTablesMap
<1>2. PostgresInv /\ PostgresInv' /\ ClockRead /\ [PostgresNext]_postgresVars
        => [Memory!RegistryNext]_(Memory!registryVars)
  <2> SUFFICES ASSUME PostgresInv, PostgresInv', ClockRead, [PostgresNext]_postgresVars
               PROVE  Memory!RegistryNext \/ UNCHANGED Memory!registryVars
    OBVIOUS
  <2>1. ASSUME UNCHANGED tables PROVE UNCHANGED Memory!registryVars
    BY <2>1, TablesUnseen
  <2>2. ASSUME NEW key \in Key, Observe(key)
        PROVE  Memory!RegistryNext \/ UNCHANGED Memory!registryVars
    BY <2>1, <2>2, ObserveMaps DEF Memory!RegistryNext
  <2>3. ASSUME NEW k \in ActionKey, NEW now \in Clock, Statement(k, now)
        PROVE  Memory!RegistryNext \/ UNCHANGED Memory!registryVars
    BY <2>3, StatementMaps
  <2>4. ASSUME NEW s \in Session, NEW k \in ActionKey, NEW now \in Clock,
               StartTransaction(s, k, now)
        PROVE  UNCHANGED Memory!registryVars
    BY <2>1, <2>4, StartsUnseen
  <2>5. ASSUME NEW s \in Session, NextStatement(s)
        PROVE  Memory!RegistryNext \/ UNCHANGED Memory!registryVars
    BY <2>1, <2>5, StatementsUnseen, CommitMaps
  <2>6. CASE UNCHANGED postgresVars
    BY <2>1, <2>6 DEF postgresVars
  <2>7. QED
    BY <2>2, <2>3, <2>4, <2>5, <2>6 DEF PostgresNext
<1>3. QED
  BY <1>1, <1>2, PostgresInvariant, ClockIsRead, PTL
  DEF PostgresSpec, PostgresImplementsRegistry, Memory!RegistrySpec

=============================================================================
