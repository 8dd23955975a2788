-------------------------- MODULE VerificationStore --------------------------
(***************************************************************************)
(* The store of verifications: at most one per Action Key, begun from a     *)
(* terminal action attempt, PENDING until it is completed once and for all. *)
(* The operators are called by the incident registry, under its own mutex.  *)
(***************************************************************************)
EXTENDS ActionAttemptStore

CONSTANT Subject     \* workloads a verification observes

VARIABLE verifications   \* MemoryVerificationStore.verifications

verificationVars == <<verifications>>

VerificationResult == {"RECOVERED", "NOT_RECOVERED", "INCONCLUSIVE"}

Verification ==
  [status: {"PENDING"} \cup VerificationResult,
   version: {1, 2},
   subject: Subject,
   startedAt: Time,
   finishedAt: Time \cup {0}]

NoVerification == [status |-> "NONE", version |-> 0]

VerificationExists(k) == verifications[k].status # "NONE"

-----------------------------------------------------------------------------
(* Faulty: an attempt that is still running will do. *)
AnyVerificationSource(attempt, at) == at >= attempt.finishedAt

(* Begin is handed a copy of the attempt by its caller: only a terminal     *)
(* attempt that finished no later than the verification starts will do.     *)
ValidVerificationSource(attempt, at) ==
  /\ attempt.status \in TerminalAttempt
  /\ at >= attempt.finishedAt

NewVerification(subject, at) ==
  [status |-> "PENDING", version |-> 1, subject |-> subject,
   startedAt |-> at, finishedAt |-> 0]

(* An existing verification is reused only for the same subject. *)
VerificationBeginAccepted(k, attempt, subject, at) ==
  /\ ValidVerificationSource(attempt, at)
  /\ VerificationExists(k) => verifications[k].subject = subject

(* Faulty: beginning again starts afresh. *)
AlwaysNewVerification(k, subject, at) == NewVerification(subject, at)

BegunVerification(k, subject, at) ==
  IF VerificationExists(k) THEN verifications[k] ELSE NewVerification(subject, at)

(* Faulty: the verification is validated but not stored. *)
BeginVerificationUnstored(k, attempt, subject, at) ==
  VerificationBeginAccepted(k, attempt, subject, at) /\ UNCHANGED verifications

BeginVerification(k, attempt, subject, at) ==
  /\ VerificationBeginAccepted(k, attempt, subject, at)
  /\ verifications' = [verifications EXCEPT ![k] = BegunVerification(k, subject, at)]

(* Complete, with its exact retry.  The evidence code goes with the status. *)
VerificationCompletionMatches(v, version, to, at) ==
  /\ v.status = to
  /\ v.version = version + 1
  /\ v.finishedAt = at

CompletesVerification(v, version, at) ==
  /\ v.version = version
  /\ v.status = "PENDING"
  /\ at >= v.startedAt

VerificationCompletionAccepted(k, version, to, at) ==
  /\ VerificationExists(k)
  /\ \/ VerificationCompletionMatches(verifications[k], version, to, at)
     \/ CompletesVerification(verifications[k], version, at)

CompleteVerification(k, version, to, at) ==
  /\ VerificationCompletionAccepted(k, version, to, at)
  /\ verifications' =
       IF VerificationCompletionMatches(verifications[k], version, to, at)
         THEN verifications
         ELSE [verifications EXCEPT ![k].status = to,
                                    ![k].version = @ + 1,
                                    ![k].finishedAt = at]

-----------------------------------------------------------------------------
(* What the readers of the store are given. *)
ListPending == {k \in ActionKey : verifications[k].status = "PENDING"}

ListRecovered == {k \in ActionKey : verifications[k].status = "RECOVERED"}

VerificationInit == verifications = [k \in ActionKey |-> NoVerification]

VerificationTypeOK ==
  verifications \in [ActionKey -> Verification \cup {NoVerification}]
=============================================================================
