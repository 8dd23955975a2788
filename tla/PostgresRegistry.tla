--------------------------- MODULE PostgresRegistry ---------------------------
(***************************************************************************)
(* The incident registry and the stores around it as PostgreSQL runs them   *)
(* (internal/adapters/postgres): tables, single statements that commit by   *)
(* themselves, and transactions of several statements at READ COMMITTED     *)
(* which take row locks one after the other, hold them to the end, and may  *)
(* die before any statement or before the commit.                           *)
(*                                                                         *)
(* A statement is one step.  One that waits for a row lock re-reads the row *)
(* when it gets it, so it is a step that is enabled once the lock is free.  *)
(* What a transaction wrote is its own until Commit.  Calls that are        *)
(* refused change nothing and are left out, except inside a transaction,    *)
(* where they roll back.                                                    *)
(***************************************************************************)
EXTENDS Naturals, FiniteSets

CONSTANTS
  ActionKey, Version, Subject, Key, MaxIncidents, Plan, NoPlan, Holder,
  Lease,          \* as in IncidentRegistry
  Clock,          \* the readings of the replicas' clocks
  Session,        \* connections of the pool, over all replicas
  NoHolder,       \* claim_holder IS NULL
  Precision       \* clock units per unit of timestamptz (a microsecond)

IncidentID == 1..MaxIncidents

(* What a timestamptz column keeps of a clock reading. *)
Stored(t) == t - (t % Precision)

StoredTime == {Stored(t) : t \in Clock}

ASSUME PrecisionAssumption ==
  /\ Precision \in Nat \ {0}
  /\ Clock \subseteq Nat /\ \A t \in Clock : Stored(t) # 0
  /\ \A lease \in Lease : lease % Precision = 0
ASSUME NumbersAssumption ==
  /\ MaxIncidents \in Nat
  /\ Version \subseteq Nat \ {0} /\ 1 \in Version
  /\ Lease \subseteq Nat \ {0}
ASSUME NoHolderAssumption == NoHolder \notin Holder
ASSUME NoBindingAssumption == NoPlan \notin Plan
ASSUME PostgresActionKeyAssumption == ActionKey = [incident: IncidentID, plan: Plan]

VARIABLES
  incidentRows,       \* table incidents
  claimRows,          \* table incident_claims, by incident
  transitionRows,     \* table incident_transitions, by incident
  planRows,           \* table incident_plans
  attemptRows,        \* table action_attempts
  verificationRows,   \* table verifications
  tx                  \* the transaction each session is in

tables ==
  <<incidentRows, claimRows, transitionRows, planRows, attemptRows, verificationRows>>

postgresVars == <<tables, tx>>

NoRow == [state |-> "NONE", version |-> 0]

NoAttemptRow ==
  [status |-> "NONE", version |-> 0, token |-> 0,
   startedAt |-> 0, finishedAt |-> 0, recoveredBy |-> 0]

NoVerificationRow == [status |-> "NONE", version |-> 0]

RowExists(i) == incidentRows[i].state # "NONE"

TerminalStatus == {"SUCCEEDED", "FAILED", "UNKNOWN"}

VerificationResult == {"RECOVERED", "NOT_RECOVERED", "INCONCLUSIVE"}

-----------------------------------------------------------------------------
(* Row locks.  FOR UPDATE and UPDATE exclude each other and FOR SHARE.      *)

IncidentLock(i) == [table |-> "incidents", row |-> i, shared |-> FALSE]
AttemptLock(k, shared) == [table |-> "action_attempts", row |-> k, shared |-> shared]
VerificationLock(k) == [table |-> "verifications", row |-> k, shared |-> FALSE]

Conflict(a, b) == a.table = b.table /\ a.row = b.row /\ ~ (a.shared /\ b.shared)

(* No session but s holds a lock that conflicts with this one. *)
Available(s, lock) ==
  \A t \in Session \ {s} : \A held \in tx[t].holds : ~ Conflict(held, lock)

(* No session at all does: for statements that commit by themselves. *)
Unlocked(lock) == \A t \in Session : \A held \in tx[t].holds : ~ Conflict(held, lock)

(* A transaction: the operation, the statement that comes next, the command *)
(* it serves, the rows it read under lock, the locks, and what it has       *)
(* written so far (Unwritten where it has not).                             *)
Unwritten == [unwritten |-> TRUE]

NoTransaction == [op |-> "none", step |-> "none", holds |-> {}]

Active(s) == tx[s].step # "none"

At(s, step) == tx[s].step = step

Start(op, step, k, command, read, lock) ==
  [op |-> op, step |-> step, k |-> k, command |-> command, read |-> read,
   holds |-> {lock}, audit |-> {},
   incident |-> Unwritten, attempt |-> Unwritten, verification |-> Unwritten]

Continue(s, next) == tx' = [tx EXCEPT ![s] = next] /\ UNCHANGED tables

(* Faulty: Complete and Recover lock the incident too, before they commit. *)
WantsIncidentLast(s) ==
  LET k == tx[s].k IN
    CASE At(s, "share") -> {AttemptLock(k, TRUE)}
      [] At(s, "verification") -> {VerificationLock(k)}
      [] At(s, "evidence") -> {AttemptLock(k, FALSE)}
      [] At(s, "commit") /\ tx[s].op = "finish" -> {IncidentLock(k.incident)}
      [] OTHER -> {}

(* The row locks a transaction's next statement asks for.                   *)
Wants(s) ==
  LET k == tx[s].k IN
    CASE At(s, "share") -> {AttemptLock(k, TRUE)}
      [] At(s, "verification") -> {VerificationLock(k)}
      [] At(s, "evidence") -> {AttemptLock(k, FALSE)}
      [] OTHER -> {}

Granted(s) == \A lock \in Wants(s) : Available(s, lock)

Advance(s, next) ==
  Granted(s) /\ Continue(s, [next EXCEPT !.holds = @ \cup Wants(s)])

-----------------------------------------------------------------------------
(* Single statements *)

ActiveRows(key) ==
  {i \in IncidentID : RowExists(i) /\ incidentRows[i].key = key /\ ~ incidentRows[i].resolvedAt}

(* Faulty: the version starts at the column's zero value. *)
NewRowUnversioned(key) ==
  [state |-> "DETECTED", version |-> 0, key |-> key, resolvedAt |-> FALSE,
   binding |-> NoPlan, resolution |-> NoPlan, holder |-> NoHolder, expiresAt |-> 0]

NewRow(key) ==
  [state |-> "DETECTED", version |-> 1, key |-> key, resolvedAt |-> FALSE,
   binding |-> NoPlan, resolution |-> NoPlan, holder |-> NoHolder, expiresAt |-> 0]

(* Observe: INSERT ... ON CONFLICT on the partial unique index of active    *)
(* incidents; the conflicting row is returned as it is once it is unlocked. *)
(* IDs are random; a row is named by the order of insertion.                *)
Rows == {i \in IncidentID : RowExists(i)}

Observe(key) ==
  IF ActiveRows(key) # {}
    THEN UNCHANGED postgresVars
    ELSE /\ Cardinality(Rows) < MaxIncidents
         /\ incidentRows' = [incidentRows EXCEPT ![Cardinality(Rows) + 1] = NewRow(key)]
         /\ UNCHANGED <<claimRows, transitionRows, planRows, attemptRows, verificationRows, tx>>

(* The UPDATE of the incident and the INSERT into the audit are one         *)
(* statement, in Claim and in both schedulers.                              *)
Grant(i, holder, now, lease) ==
  LET version == incidentRows[i].version + 1
      expiresAt == Stored(now + lease)
  IN
    /\ version \in Version
    /\ incidentRows' = [incidentRows EXCEPT
         ![i].version = version, ![i].holder = holder, ![i].expiresAt = expiresAt]
    /\ claimRows' = [claimRows EXCEPT ![i] = @ \cup
         {[version |-> version, holder |-> holder,
           acquiredAt |-> Stored(now), expiresAt |-> expiresAt]}]
    /\ UNCHANGED <<transitionRows, planRows, attemptRows, verificationRows, tx>>

LeaseOver(row, now) == row.holder = NoHolder \/ row.expiresAt <= Stored(now)

(* Faulty: UPDATE does not wait for the row's lock. *)
ClaimUnlocked(i, version, holder, now, lease) ==
  /\ RowExists(i)
  /\ incidentRows[i].version = version
  /\ LeaseOver(incidentRows[i], now) \/ incidentRows[i].holder = holder
  /\ Grant(i, holder, now, lease)

Claim(i, version, holder, now, lease) ==
  /\ RowExists(i)
  /\ Unlocked(IncidentLock(i))
  /\ incidentRows[i].version = version
  /\ LeaseOver(incidentRows[i], now) \/ incidentRows[i].holder = holder
  /\ Grant(i, holder, now, lease)

(* The schedulers skip locked rows and take the oldest work of the rest. *)
Candidates(status, now) ==
  {k \in ActionKey :
     /\ verificationRows[k].status = status
     /\ incidentRows[k.incident].state = "VERIFYING"
     /\ incidentRows[k.incident].resolution = NoPlan
     /\ LeaseOver(incidentRows[k.incident], now)
     /\ Unlocked(IncidentLock(k.incident)) /\ Unlocked(VerificationLock(k))}

ClaimPendingVerification(k, holder, now, lease) ==
  /\ k \in Candidates("PENDING", now)
  /\ \A c \in Candidates("PENDING", now) :
       verificationRows[k].startedAt <= verificationRows[c].startedAt
  /\ Grant(k.incident, holder, now, lease)

ClaimRecoveredVerificationResolution(k, holder, now, lease) ==
  /\ k \in Candidates("RECOVERED", now)
  /\ \A c \in Candidates("RECOVERED", now) :
       verificationRows[k].finishedAt <= verificationRows[c].finishedAt
  /\ Grant(k.incident, holder, now, lease)

(* PlanStore.Publish: the foreign key reads the incident's row FOR KEY      *)
(* SHARE, which waits for FOR UPDATE.  A plan is a function of its key.     *)
PublishPlan(k) ==
  /\ RowExists(k.incident) /\ Unlocked(IncidentLock(k.incident))
  /\ planRows' = planRows \cup {k}
  /\ UNCHANGED <<incidentRows, claimRows, transitionRows, attemptRows, verificationRows, tx>>

(* ActionAttemptStore.Begin.  The foreign keys ask for a published plan and *)
(* for a fencing token that is the version of an audited claim.             *)
AuditedVersions(i) == {event.version : event \in claimRows[i]}

BeginAttempt(k, token, now) ==
  IF attemptRows[k].status # "NONE"
    THEN UNCHANGED postgresVars
    ELSE /\ k \in planRows /\ token \in AuditedVersions(k.incident)
         /\ attemptRows' = [attemptRows EXCEPT ![k] =
              [status |-> "STARTED", version |-> 1, token |-> token,
               startedAt |-> Stored(now), finishedAt |-> 0, recoveredBy |-> 0]]
         /\ UNCHANGED <<incidentRows, claimRows, transitionRows, planRows, verificationRows, tx>>

-----------------------------------------------------------------------------
(* The first statement of each transaction: lock the row and look at it.    *)

ValidTransition ==
  {<<"DETECTED", "DIAGNOSED">>, <<"DETECTED", "RESOLVED">>,
   <<"DIAGNOSED", "WAITING_APPROVAL">>, <<"DIAGNOSED", "VERIFYING">>,
   <<"DIAGNOSED", "RESOLVED">>, <<"WAITING_APPROVAL", "VERIFYING">>}

BindingAfter(row, to, plan) ==
  CASE to = "WAITING_APPROVAL" -> plan
    [] to = "VERIFYING" -> row.binding
    [] OTHER -> NoPlan

(* Transition: one statement locks, checks and updates. *)
StartTransition(s, k, version, to) ==
  LET row == incidentRows[k.incident] IN
    /\ ~ Active(s)
    /\ RowExists(k.incident) /\ Available(s, IncidentLock(k.incident))
    /\ row.version = version /\ version + 1 \in Version
    /\ <<row.state, to>> \in ValidTransition
    /\ Continue(s,
         [Start("transition", "audit", k, NoPlan, row, IncidentLock(k.incident)) EXCEPT
            !.incident = [row EXCEPT
              !.state = to, !.version = @ + 1, !.resolvedAt = (to = "RESOLVED"),
              !.binding = BindingAfter(row, to, k.plan)]])

(* Faulty: the audited claim need not be the current version's. *)
FencedByAnyClaim(i, version, holder, now) ==
  /\ incidentRows[i].version = version /\ incidentRows[i].holder = holder
  /\ now < incidentRows[i].expiresAt

(* lockIncidentForFencedVerification, the first statement of the three      *)
(* fenced operations, then the states each of them starts from.             *)
Fenced(i, version, holder, now) ==
  LET row == incidentRows[i] IN
    /\ row.version = version
    /\ row.holder = holder
    /\ \E event \in claimRows[i] :
         /\ event.version = row.version
         /\ event.holder = row.holder
         /\ event.expiresAt = row.expiresAt
    /\ now < row.expiresAt

FencedStates(op) ==
  IF op = "begin" THEN {"DIAGNOSED", "WAITING_APPROVAL", "VERIFYING"} ELSE {"VERIFYING"}

(* The command of each operation.  BeginFencedVerification carries a copy   *)
(* of the attempt, whose finish time is as its executor read it.            *)
FencedCommands(op, k, now) ==
  CASE op = "begin" ->
         {[now |-> now, subject |-> subject, status |-> attemptRows[k].status, finishedAt |-> at] :
            subject \in Subject, at \in {t \in Clock : Stored(t) = attemptRows[k].finishedAt}}
    [] op = "complete" -> {[now |-> now, to |-> to] : to \in VerificationResult}
    [] op = "resolve" -> {[now |-> now]}

StartFenced(s, op, k, version, holder, now) ==
  /\ ~ Active(s)
  /\ RowExists(k.incident) /\ Available(s, IncidentLock(k.incident))
  /\ Fenced(k.incident, version, holder, now)
  /\ incidentRows[k.incident].state \in FencedStates(op)
  /\ \E command \in FencedCommands(op, k, now) :
       Continue(s, Start(op, IF op = "begin" THEN "share" ELSE "verification",
                         k, command, incidentRows[k.incident], IncidentLock(k.incident)))

(* An exact retry of a completion. *)
CompletionMatches(row, token, to, now) ==
  row.status = to /\ row.token = token /\ row.finishedAt = now /\ row.recoveredBy = 0

(* Faulty: the clock may have gone back since the attempt began. *)
StartCompletionAnyTime(s, k, token, to, now) ==
  LET row == attemptRows[k]
      matches == CompletionMatches(row, token, to, now)
  IN
    /\ ~ Active(s)
    /\ Available(s, AttemptLock(k, FALSE))
    /\ row.token = token
    /\ matches \/ (row.version = 1 /\ row.status = "STARTED")
    /\ Continue(s, Start("finish", IF matches THEN "commit" ELSE "update", k,
         [to |-> to, now |-> now, by |-> 0], row, AttemptLock(k, FALSE)))

(* ActionAttemptStore.Complete and Recover lock the attempt and check the   *)
(* command; an exact retry has nothing left to update.                      *)
StartCompletion(s, k, token, to, now) ==
  LET row == attemptRows[k]
      matches == CompletionMatches(row, token, to, now)
  IN
    /\ ~ Active(s)
    /\ Available(s, AttemptLock(k, FALSE))
    /\ row.token = token
    /\ matches \/ (row.version = 1 /\ row.status = "STARTED" /\ now >= row.startedAt)
    /\ Continue(s, Start("finish", IF matches THEN "commit" ELSE "update", k,
         [to |-> to, now |-> now, by |-> 0], row, AttemptLock(k, FALSE)))

(* Faulty: any audited claim may recover, the one that began it included. *)
StartRecoveryByAnyClaim(s, k, token, now) ==
  LET row == attemptRows[k] IN
    /\ ~ Active(s)
    /\ Available(s, AttemptLock(k, FALSE))
    /\ row.status = "STARTED"
    /\ token \in AuditedVersions(k.incident)
    /\ now >= row.startedAt
    /\ Continue(s, Start("finish", "update", k,
         [to |-> "UNKNOWN", now |-> now, by |-> token], row, AttemptLock(k, FALSE)))

StartRecovery(s, k, token, now) ==
  LET row == attemptRows[k] IN
    /\ ~ Active(s)
    /\ Available(s, AttemptLock(k, FALSE))
    /\ row.status = "STARTED"
    /\ token > row.token /\ token \in AuditedVersions(k.incident)
    /\ now >= row.startedAt
    /\ Continue(s, Start("finish", "update", k,
         [to |-> "UNKNOWN", now |-> now, by |-> token], row, AttemptLock(k, FALSE)))

-----------------------------------------------------------------------------
(* The statements that follow.  A check that fails, an UPDATE that finds no *)
(* row and a lock that is not granted all end in Abort.                     *)

(* requirePersistedTerminalActionAttempt: SELECT ... FOR SHARE.             *)
ShareAttempt(s) ==
  LET k == tx[s].k IN
    /\ At(s, "share")
    /\ attemptRows[k].status = tx[s].command.status
    /\ attemptRows[k].status \in TerminalStatus
    /\ Advance(s, [tx[s] EXCEPT
         !.step = IF tx[s].read.state = "VERIFYING" THEN "insert" ELSE "enter"])

(* transitionIncidentToVerifyingInTransaction *)
EnterVerifying(s) ==
  LET row == incidentRows[tx[s].k.incident] IN
    /\ At(s, "enter")
    /\ row.version = tx[s].read.version /\ row.state = tx[s].read.state
    /\ row.version + 1 \in Version
    /\ Advance(s, [tx[s] EXCEPT
         !.step = "audit",
         !.incident = [row EXCEPT !.state = "VERIFYING", !.version = @ + 1]])

(* The INSERT into incident_transitions, in the transaction of the UPDATE.  *)
TransitionRow(s) ==
  [version |-> tx[s].incident.version, from |-> tx[s].read.state, to |-> tx[s].incident.state]

InsertAudit(s) ==
  /\ At(s, "audit")
  /\ Advance(s, [tx[s] EXCEPT
       !.step = IF tx[s].op = "begin" THEN "insert" ELSE "commit",
       !.audit = {TransitionRow(s)}])

(* beginVerificationWithQuerier: INSERT, or what the conflicting row holds. *)
InsertVerification(s) ==
  LET k == tx[s].k
      command == tx[s].command
      existing == verificationRows[k]
  IN
    /\ At(s, "insert")
    /\ command.now >= command.finishedAt
    /\ IF existing.status = "NONE"
         THEN Advance(s, [tx[s] EXCEPT
                !.step = "commit",
                !.verification = [status |-> "PENDING", version |-> 1,
                  subject |-> command.subject, startedAt |-> Stored(command.now), finishedAt |-> 0]])
         ELSE /\ existing.subject = command.subject /\ existing.status = "PENDING"
              /\ Advance(s, [tx[s] EXCEPT !.step = "commit"])

(* lookupVerificationByActionKeyForUpdate; Resolve locks the attempt too.   *)
LockVerification(s) ==
  /\ At(s, "verification")
  /\ verificationRows[tx[s].k].status # "NONE"
  /\ Advance(s, [tx[s] EXCEPT
       !.step = IF tx[s].op = "resolve" THEN "evidence" ELSE "result"])

(* completeVerificationInTransaction; the first version of a verification   *)
(* is 1 and the worker's command names it.                                  *)
VerificationMatches(row, to, now) == row.status = to /\ row.version = 2 /\ row.finishedAt = now

UpdateVerification(s) ==
  LET row == verificationRows[tx[s].k]
      command == tx[s].command
  IN
    /\ At(s, "result")
    /\ IF VerificationMatches(row, command.to, command.now)
         THEN Advance(s, [tx[s] EXCEPT !.step = "commit"])
         ELSE /\ row.version = 1 /\ row.status = "PENDING"
              /\ command.now >= row.startedAt
              /\ Advance(s, [tx[s] EXCEPT
                   !.step = "commit",
                   !.verification = [row EXCEPT
                     !.status = command.to, !.version = @ + 1, !.finishedAt = Stored(command.now)]])

(* Resolve: SELECT ... FOR UPDATE OF verification, attempt, then the check. *)
LockEvidence(s) ==
  /\ At(s, "evidence")
  /\ verificationRows[tx[s].k].status = "RECOVERED"
  /\ Advance(s, [tx[s] EXCEPT !.step = "resolve"])

UpdateResolved(s) ==
  LET row == incidentRows[tx[s].k.incident] IN
    /\ At(s, "resolve")
    /\ row.state = "VERIFYING" /\ row.version = tx[s].read.version
    /\ row.version + 1 \in Version
    /\ Advance(s, [tx[s] EXCEPT
         !.step = "audit",
         !.incident = [row EXCEPT
           !.state = "RESOLVED", !.version = @ + 1, !.resolvedAt = TRUE,
           !.resolution = tx[s].k.plan, !.binding = NoPlan]])

(* The UPDATE of Complete and of Recover, conditional on what was read.     *)
UpdateAttempt(s) ==
  LET row == attemptRows[tx[s].k]
      command == tx[s].command
  IN
    /\ At(s, "update")
    /\ row.version = tx[s].read.version /\ row.status = "STARTED"
    /\ row.token = tx[s].read.token
    /\ Advance(s, [tx[s] EXCEPT
         !.step = "commit",
         !.attempt = [row EXCEPT
           !.status = command.to, !.version = @ + 1,
           !.finishedAt = Stored(command.now), !.recoveredBy = command.by]])

(* Everything a transaction wrote becomes visible at once, at Commit.       *)
Written(table, key, image) ==
  IF image = Unwritten THEN table ELSE [table EXCEPT ![key] = image]

(* Faulty: the audit row is committed apart from the update. *)
CommitWithoutAudit(s) ==
  LET t == tx[s] IN
    /\ At(s, "commit")
    /\ incidentRows' = Written(incidentRows, t.k.incident, t.incident)
    /\ attemptRows' = Written(attemptRows, t.k, t.attempt)
    /\ verificationRows' = Written(verificationRows, t.k, t.verification)
    /\ tx' = [tx EXCEPT ![s] = NoTransaction]
    /\ UNCHANGED <<claimRows, transitionRows, planRows>>

Commit(s) ==
  LET t == tx[s] IN
    /\ At(s, "commit")
    /\ incidentRows' = Written(incidentRows, t.k.incident, t.incident)
    /\ transitionRows' = [transitionRows EXCEPT ![t.k.incident] = @ \cup t.audit]
    /\ attemptRows' = Written(attemptRows, t.k, t.attempt)
    /\ verificationRows' = Written(verificationRows, t.k, t.verification)
    /\ tx' = [tx EXCEPT ![s] = NoTransaction]
    /\ UNCHANGED <<claimRows, planRows>>

(* The deferred Rollback, a lost connection, a killed process.              *)
Abort(s) == Active(s) /\ Continue(s, NoTransaction)

-----------------------------------------------------------------------------
PostgresInit ==
  /\ incidentRows = [i \in IncidentID |-> NoRow]
  /\ claimRows = [i \in IncidentID |-> {}]
  /\ transitionRows = [i \in IncidentID |-> {}]
  /\ planRows = {}
  /\ attemptRows = [k \in ActionKey |-> NoAttemptRow]
  /\ verificationRows = [k \in ActionKey |-> NoVerificationRow]
  /\ tx = [s \in Session |-> NoTransaction]

Statement(k, now) ==
  LET version == incidentRows[k.incident].version IN
    \/ \E holder \in Holder, lease \in Lease :
         \/ Claim(k.incident, version, holder, now, lease)
         \/ ClaimPendingVerification(k, holder, now, lease)
         \/ ClaimRecoveredVerificationResolution(k, holder, now, lease)
    \/ PublishPlan(k)
    \/ \E token \in AuditedVersions(k.incident) : BeginAttempt(k, token, now)

StartTransaction(s, k, now) ==
  LET version == incidentRows[k.incident].version IN
    \/ \E to \in {"DIAGNOSED", "WAITING_APPROVAL", "VERIFYING", "RESOLVED"} :
         StartTransition(s, k, version, to)
    \/ \E op \in {"begin", "complete", "resolve"}, holder \in Holder :
         StartFenced(s, op, k, version, holder, now)
    \/ \E token \in AuditedVersions(k.incident) :
         \/ \E to \in {"SUCCEEDED", "FAILED"} : StartCompletion(s, k, token, to, now)
         \/ StartRecovery(s, k, token, now)

NextStatement(s) ==
  \/ ShareAttempt(s) \/ EnterVerifying(s) \/ InsertAudit(s) \/ InsertVerification(s)
  \/ LockVerification(s) \/ UpdateVerification(s) \/ LockEvidence(s) \/ UpdateResolved(s)
  \/ UpdateAttempt(s) \/ Commit(s) \/ Abort(s)

PostgresNext ==
  \/ \E key \in Key : Observe(key)
  \/ \E k \in ActionKey, now \in Clock : Statement(k, now)
  \/ \E s \in Session, k \in ActionKey, now \in Clock : StartTransaction(s, k, now)
  \/ \E s \in Session : NextStatement(s)

PostgresSpec == PostgresInit /\ [][PostgresNext]_postgresVars
-----------------------------------------------------------------------------
(* Properties *)

(* Types of the tables. *)
PostgresTypeOK ==
  /\ planRows \subseteq ActionKey
  /\ \A i \in IncidentID :
       /\ RowExists(i) => /\ incidentRows[i].version \in Version
                         /\ incidentRows[i].key \in Key
                         /\ incidentRows[i].holder \in Holder \cup {NoHolder}
       /\ \A event \in claimRows[i] :
            event.version \in Version /\ event.holder \in Holder /\ event.acquiredAt \in StoredTime
  /\ \A s \in Session : Active(s) => tx[s].k \in ActionKey

(* No statement is rejected by the schema: every row a transaction is about *)
(* to commit satisfies the CHECK constraints of its table as of the last    *)
(* migration and the primary key of the audit, although the constraints     *)
(* were written for rows and the statements for single columns.  A rejected *)
(* statement would fail its transaction for good, on every retry.           *)
IncidentRowOK(row) ==
  /\ row.resolvedAt <=> row.state = "RESOLVED"
  /\ row.state = "WAITING_APPROVAL" => row.binding # NoPlan
  /\ row.state \notin {"WAITING_APPROVAL", "VERIFYING"} => row.binding = NoPlan
  /\ row.holder = NoHolder <=> row.expiresAt = 0
  /\ row.resolution # NoPlan => row.state = "RESOLVED"

AttemptRowOK(row) ==
  /\ row.status = "STARTED" <=> row.version = 1
  /\ row.status = "STARTED" <=> row.finishedAt = 0
  /\ row.status = "STARTED" \/ row.finishedAt >= row.startedAt
  /\ row.status = "UNKNOWN" <=> row.recoveredBy # 0
  /\ row.status = "UNKNOWN" => row.recoveredBy > row.token

VerificationRowOK(row) ==
  /\ row.status = "PENDING" <=> row.version = 1
  /\ row.status = "PENDING" <=> row.finishedAt = 0
  /\ row.status = "PENDING" \/ row.finishedAt >= row.startedAt

NoStatementRejected ==
  \A s \in Session : Active(s) =>
    LET t == tx[s] IN
      /\ t.incident # Unwritten => IncidentRowOK(t.incident)
      /\ t.attempt # Unwritten => AttemptRowOK(t.attempt)
      /\ t.verification # Unwritten => VerificationRowOK(t.verification)
      /\ \A row \in t.audit, old \in transitionRows[t.k.incident] : row.version # old.version

(* The two audit tables together tell an incident's whole history: each     *)
(* version after the first was made by exactly one claim or one transition, *)
(* and the transitions chain from DETECTED to the present state.  It holds  *)
(* although transactions die between the update and the audit row.          *)
LastTransition(i) ==
  CHOOSE row \in transitionRows[i] :
    \A other \in transitionRows[i] : other.version <= row.version

HistoryComplete ==
  \A i \in Rows :
    LET claimed == AuditedVersions(i)
        moved == {row.version : row \in transitionRows[i]}
    IN
      /\ claimed \cup moved = 2..incidentRows[i].version
      /\ claimed \cap moved = {}
      /\ Cardinality(moved) = Cardinality(transitionRows[i])
      /\ incidentRows[i].state =
           IF moved = {} THEN "DETECTED" ELSE LastTransition(i).to
      /\ \A row \in transitionRows[i] :
           \/ row.from = "DETECTED" /\ \A other \in transitionRows[i] : other.version >= row.version
           \/ \E before \in transitionRows[i] : before.to = row.from /\ before.version < row.version

(* What a transaction read and decided upon under lock is still so when it  *)
(* commits: the fence of a verification it completes, the state it leaves,  *)
(* the attempt that ended, the evidence it resolves by.                     *)
Holds(s, lock) == lock \in tx[s].holds

DecisionsStayTrue ==
  \A s \in Session : Active(s) =>
    LET t == tx[s] IN
      /\ Holds(s, IncidentLock(t.k.incident)) => incidentRows[t.k.incident] = t.read
      /\ t.op = "finish" => attemptRows[t.k] = t.read
      /\ Holds(s, AttemptLock(t.k, TRUE)) => attemptRows[t.k].status \in TerminalStatus
      /\ (t.op = "complete" /\ t.verification # Unwritten)
           => verificationRows[t.k].status = "PENDING"
      /\ t.step = "resolve" => verificationRows[t.k].status = "RECOVERED"

(* Transactions never wait for each other in a circle: as long as any is    *)
(* open, the next statement of one of them is granted its locks.  Begin     *)
(* locks the incident and then shares the attempt, Resolve locks incident,  *)
(* verification and attempt, Complete and Recover lock the attempt alone.   *)
NoWaitCycle ==
  (\E s \in Session : Active(s)) => \E s \in Session : Active(s) /\ Granted(s)

(* The tables implement the registry in memory: a transaction is one atomic *)
(* operation of it, at its commit, with the clock readings the columns keep.*)
ClaimOf(i) ==
  IF ~ RowExists(i) \/ incidentRows[i].holder = NoHolder
    THEN [version |-> 0]
    ELSE [version |-> CHOOSE v \in AuditedVersions(i) : \A w \in AuditedVersions(i) : w <= v,
          holder |-> incidentRows[i].holder, expiresAt |-> incidentRows[i].expiresAt]

IncidentOf(i) ==
  LET row == incidentRows[i] IN
    IF ~ RowExists(i) THEN NoRow
    ELSE [state |-> row.state, version |-> row.version, key |-> row.key,
          binding |-> row.binding, resolvedBy |-> row.resolution]

Memory == INSTANCE IncidentRegistry WITH
  Time <- StoredTime,
  incidents <- [i \in IncidentID |-> IncidentOf(i)],
  activeByKey <- [key \in Key |->
    IF ActiveRows(key) = {} THEN 0 ELSE CHOOSE i \in ActiveRows(key) : TRUE],
  claims <- [i \in IncidentID |-> ClaimOf(i)],
  claimHistory <- claimRows,
  nextSequence <- Cardinality(Rows),
  verifications <- verificationRows,
  attempts <- attemptRows

PostgresImplementsRegistry == Memory!RegistrySpec

(* A completed verification answers its exact retry: whoever lost the       *)
(* answer of a completion that committed may repeat the call with the same  *)
(* parameters and is given the same result.                                 *)
CompletionAnswersRetry ==
  [][\A s \in Session :
       (/\ At(s, "commit") /\ tx[s].op = "complete"
        /\ verificationRows'[tx[s].k] # verificationRows[tx[s].k])
         => VerificationMatches(verificationRows'[tx[s].k],
                                tx[s].command.to, tx[s].command.now)]_postgresVars
=============================================================================
