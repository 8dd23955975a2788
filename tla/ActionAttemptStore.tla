------------------------- MODULE ActionAttemptStore -------------------------
(***************************************************************************)
(* The store of action attempts: one attempt per Action Key (incident, plan *)
(* and target), owned by the fencing token under which it was begun.  Every *)
(* operation runs under the store's mutex, so each is one atomic step.      *)
(*                                                                         *)
(* The module is used in two ways: its operators are called by the agent,   *)
(* and AttemptSpec lets arbitrary callers use the store in any order with   *)
(* any tokens, versions and clock readings, which is what the store must    *)
(* withstand from executors that lost their lease.                          *)
(***************************************************************************)
EXTENDS Naturals

CONSTANTS
  ActionKey,   \* identities of actions: incident, plan hash, target UID
  Version,     \* incident versions; a fencing token is an incident version
  Time         \* clock readings (0 stands for Go's zero time)

ASSUME VersionAssumption == Version \subseteq Nat \ {0}
ASSUME TimeAssumption == Time \subseteq Nat \ {0}

VARIABLE attempts    \* MemoryActionAttemptStore.attempts

attemptVars == <<attempts>>

CompletedStatus == {"SUCCEEDED", "FAILED"}
TerminalAttempt == CompletedStatus \cup {"UNKNOWN"}

Attempt ==
  [status: {"STARTED"} \cup TerminalAttempt,
   version: {1, 2},
   token: Version,
   startedAt: Time,
   finishedAt: Time \cup {0},       \* 0: FinishedAt is nil
   recoveredBy: Version \cup {0}]   \* 0: not recovered

(* The value of a key that is not in the map. *)
NoAttempt ==
  [status |-> "NONE", version |-> 0, token |-> 0,
   startedAt |-> 0, finishedAt |-> 0, recoveredBy |-> 0]

AttemptExists(k) == attempts[k].status # "NONE"

-----------------------------------------------------------------------------
(* Begin: the first caller creates the attempt, any other is handed the     *)
(* existing one and leaves it alone, whatever its token or status.          *)
NewAttempt(token, at) ==
  [status |-> "STARTED", version |-> 1, token |-> token,
   startedAt |-> at, finishedAt |-> 0, recoveredBy |-> 0]

BeginAttempt(k, token, at) ==
  attempts' = IF AttemptExists(k) THEN attempts
              ELSE [attempts EXCEPT ![k] = NewAttempt(token, at)]

(* The error code of a completion is fixed by its status, so the exact      *)
(* retry of a completion is recognised by status, owner and finish time.    *)
CompletionMatches(a, token, to, at) ==
  /\ a.status = to
  /\ a.token = token
  /\ a.finishedAt = at
  /\ a.recoveredBy = 0

CompletesAttempt(a, token, version, at) ==
  /\ a.token = token
  /\ a.version = version
  /\ a.status = "STARTED"
  /\ at >= a.startedAt

(* Faulty: a repeated completion is a conflict. *)
CompletionAcceptedOnce(k, token, version, to, at) ==
  AttemptExists(k) /\ CompletesAttempt(attempts[k], token, version, at)

(* Complete succeeds; when it does not, the store is left alone. *)
CompletionAccepted(k, token, version, to, at) ==
  /\ AttemptExists(k)
  /\ \/ CompletionMatches(attempts[k], token, to, at)
     \/ CompletesAttempt(attempts[k], token, version, at)

CompleteAttempt(k, token, version, to, at) ==
  /\ CompletionAccepted(k, token, version, to, at)
  /\ attempts' =
       IF CompletionMatches(attempts[k], token, to, at) THEN attempts
       ELSE [attempts EXCEPT ![k].status = to,
                             ![k].version = @ + 1,
                             ![k].finishedAt = at,
                             ![k].recoveredBy = 0]

(* Recover: the holder of a later claim declares the executor lost. *)
RecoveryMatches(a, token, at) ==
  /\ a.status = "UNKNOWN"
  /\ a.finishedAt = at
  /\ a.recoveredBy = token

(* Faulty: the owner may recover its own attempt. *)
RecoversOwnAttempt(a, token, at) ==
  a.status = "STARTED" /\ token >= a.token /\ at >= a.startedAt

(* Faulty: a result already persisted is replaced by UNKNOWN. *)
RecoversFinishedAttempt(a, token, at) ==
  token > a.token /\ at >= a.startedAt

RecoversAttempt(a, token, at) ==
  /\ a.status = "STARTED"
  /\ token > a.token
  /\ at >= a.startedAt

RecoveryAccepted(k, token, at) ==
  /\ AttemptExists(k)
  /\ RecoveryMatches(attempts[k], token, at) \/ RecoversAttempt(attempts[k], token, at)

RecoverAttempt(k, token, at) ==
  /\ RecoveryAccepted(k, token, at)
  /\ attempts' =
       IF RecoveryMatches(attempts[k], token, at) THEN attempts
       ELSE [attempts EXCEPT ![k].status = "UNKNOWN",
                             ![k].version = @ + 1,
                             ![k].finishedAt = at,
                             ![k].recoveredBy = token]

-----------------------------------------------------------------------------
AttemptInit == attempts = [k \in ActionKey |-> NoAttempt]

AttemptNext ==
  \E k \in ActionKey, token \in Version, at \in Time :
    \/ BeginAttempt(k, token, at)
    \/ \E version \in {1, 2}, to \in CompletedStatus :
         CompleteAttempt(k, token, version, to, at)
    \/ RecoverAttempt(k, token, at)

AttemptSpec == AttemptInit /\ [][AttemptNext]_attemptVars

-----------------------------------------------------------------------------
(* Properties *)

(* The store holds attempts or nothing: the record of every key has the     *)
(* type of the Go struct, and versions never leave 1 and 2 because an       *)
(* attempt changes at most once after it is begun.                          *)
AttemptTypeOK == attempts \in [ActionKey -> Attempt \cup {NoAttempt}]

(* An attempt is UNKNOWN exactly when a later fencing token than the one    *)
(* that owns it took it over, and it carries a finish time, not before its  *)
(* start, exactly when it is terminal.  This is what the persisted schema   *)
(* demands of a row and what every reader of an attempt assumes.            *)
AttemptWellFormed ==
  \A k \in ActionKey : AttemptExists(k) =>
    LET a == attempts[k] IN
      /\ a.status = "UNKNOWN" <=> a.recoveredBy # 0
      /\ a.status = "UNKNOWN" => a.recoveredBy > a.token
      /\ a.status = "STARTED" <=> a.finishedAt = 0
      /\ a.status \in TerminalAttempt => a.finishedAt >= a.startedAt
      /\ a.version = IF a.status = "STARTED" THEN 1 ELSE 2

(* A terminal attempt is final and an attempt never changes owner: the      *)
(* late completion of an executor that was declared lost cannot replace     *)
(* UNKNOWN, and a recovery cannot replace a result already persisted.       *)
TerminalAttemptIsFinal ==
  [][\A k \in ActionKey : AttemptExists(k) =>
       /\ attempts'[k].token = attempts[k].token
       /\ attempts[k].status \in TerminalAttempt => attempts'[k] = attempts[k]]_attemptVars

(* A completion or a recovery that took effect is accepted again when it is *)
(* repeated with the same arguments: a caller that lost the answer retries. *)
ExactRetryAccepted ==
  [][\A k \in ActionKey, token \in Version, at \in Time :
       /\ \A to \in CompletedStatus :
            (attempts'[k] # attempts[k] /\ CompleteAttempt(k, token, 1, to, at))
              => CompletionAccepted(k, token, 1, to, at)'
       /\ (attempts'[k] # attempts[k] /\ RecoverAttempt(k, token, at))
            => RecoveryAccepted(k, token, at)']_attemptVars
=============================================================================
