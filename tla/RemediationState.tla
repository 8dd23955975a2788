--------------------------- MODULE RemediationState ---------------------------
(***************************************************************************)
(* The remediation state in a ConfigMap (configmap_remediation_state.go)    *)
(* under the agents that share it.  Every call reads the whole object,      *)
(* changes its copy and writes it back; the API server refuses a write      *)
(* whose copy is out of date, and the call starts over a bounded number of  *)
(* times.  An agent takes a snapshot, decides, and records what it is about *)
(* to do, with the time of the snapshot.                                    *)
(*                                                                         *)
(* RemediationAgent has the rest of the agent, with atomic calls.           *)
(***************************************************************************)
EXTENDS Naturals, Sequences, FiniteSets

CONSTANTS
  Replica,
  Incident, Target,
  TargetOf,         \* the workload of each incident's pod
  Cooldown, AttemptWindow,   \* durations, as in the configuration
  MaximumAttempts,
  MaxTries,         \* Steps of retry.DefaultRetry
  MaxTime           \* bound: clock readings

ASSUME RemediationConstants ==
  /\ TargetOf \in [Incident -> Target]
  /\ Cooldown \in Nat \ {0} /\ AttemptWindow \in Nat \ {0}
  /\ MaximumAttempts \in Nat \ {0} /\ MaxTries \in Nat \ {0} /\ MaxTime \in Nat \ {0}

Time == 1..MaxTime
Never == 0

VARIABLES
  state,    \* what the ConfigMap holds
  call,     \* the call each replica is in
  now,      \* the clock
  acted     \* history: actions whose record was acknowledged

remediationVars == <<state, call, now, acted>>

-----------------------------------------------------------------------------
(* The persisted state.  Of the list of attempts of a workload nobody looks  *)
(* at the order: it is the set of its entries, and nth tells those of the    *)
(* same time apart.                                                         *)

EmptyState ==
  [handledAt |-> [i \in Incident |-> Never],
   lastActionAt |-> [t \in Target |-> Never],
   attempts |-> [t \in Target |-> {}]]

AttemptsAt(attempts, at) == {a \in attempts : a.at = at}

NextAttempt(attempts, at) == [at |-> at, nth |-> Cardinality(AttemptsAt(attempts, at)) + 1]

Before(at, time, duration) == at + duration < time

KeptAt(at, time, duration) == IF Before(at, time, duration) THEN Never ELSE at

(* prunePersistedRemediationState *)
Pruned(s, time) ==
  [handledAt |-> [i \in Incident |-> KeptAt(s.handledAt[i], time, AttemptWindow)],
   lastActionAt |-> [t \in Target |-> KeptAt(s.lastActionAt[t], time, Cooldown)],
   attempts |-> [t \in Target |-> {a \in s.attempts[t] : ~ Before(a.at, time, AttemptWindow)}]]

(* Faulty: the end of the cooldown is stored in place of its beginning. *)
RecordedCooldownEnd(s, kind, incident, at) ==
  LET target == TargetOf[incident] IN
    IF kind = "action"
      THEN [handledAt |-> [s.handledAt EXCEPT ![incident] = at],
            lastActionAt |-> [s.lastActionAt EXCEPT ![target] = at + Cooldown],
            attempts |-> [s.attempts EXCEPT ![target] = @ \cup {NextAttempt(@, at)}]]
      ELSE [s EXCEPT !.handledAt[incident] = at]

(* Faulty: an attempt takes the place of the ones before it. *)
RecordedLatestOnly(s, kind, incident, at) ==
  LET target == TargetOf[incident] IN
    IF kind = "action"
      THEN [handledAt |-> [s.handledAt EXCEPT ![incident] = at],
            lastActionAt |-> [s.lastActionAt EXCEPT ![target] = at],
            attempts |-> [s.attempts EXCEPT ![target] = {NextAttempt({}, at)}]]
      ELSE [s EXCEPT !.handledAt[incident] = at]

(* What Record changes, for either kind of record.                          *)
Recorded(s, kind, incident, at) ==
  LET target == TargetOf[incident] IN
    IF kind = "action"
      THEN [handledAt |-> [s.handledAt EXCEPT ![incident] = at],
            lastActionAt |-> [s.lastActionAt EXCEPT ![target] = at],
            attempts |-> [s.attempts EXCEPT ![target] = @ \cup {NextAttempt(@, at)}]]
      ELSE [s EXCEPT !.handledAt[incident] = at]

(* What Snapshot answers, from a pruned state.                              *)
SnapshotOf(s, incident, time) ==
  LET target == TargetOf[incident] IN
    [duplicate |-> s.handledAt[incident] # Never,
     inCooldown |-> s.lastActionAt[target] # Never /\ time < s.lastActionAt[target] + Cooldown,
     attemptsInWindow |-> Cardinality(s.attempts[target])]

-----------------------------------------------------------------------------
(* Calls.  fresh: nobody has written since the copy was read, which is what *)
(* the API server compares resource versions for.                           *)

Idle == [pc |-> "idle"]

Call(kind, incident, at) ==
  [pc |-> "get", kind |-> kind, incident |-> incident, at |-> at, tries |-> 1]

At(r, pc) == call[r].pc = pc

Goes(r, next) == call' = [call EXCEPT ![r] = next]

Decides(c, s) ==
  [pc |-> "decide", incident |-> c.incident, at |-> c.at,
   snapshot |-> SnapshotOf(s, c.incident, c.at)]

(* handlePodCrashLooping takes its snapshot with the time it read before.   *)
TakeSnapshot(r, i) ==
  /\ At(r, "idle")
  /\ Goes(r, Call("snapshot", i, now))
  /\ UNCHANGED <<state, now, acted>>

(* load, and what the call makes of it.  A snapshot that finds nothing to   *)
(* prune answers at once.                                                   *)
Changed(c) ==
  IF c.kind = "snapshot" THEN Pruned(state, c.at) ELSE Recorded(state, c.kind, c.incident, c.at)

Get(r) ==
  LET c == call[r] IN
    /\ At(r, "get")
    /\ IF c.kind = "snapshot" /\ Changed(c) = state
         THEN Goes(r, Decides(c, state))
         ELSE Goes(r, [pc |-> "update", kind |-> c.kind, incident |-> c.incident, at |-> c.at,
                       tries |-> c.tries, copy |-> Changed(c), fresh |-> TRUE])
    /\ UNCHANGED <<state, now, acted>>

Answered(r, c) ==
  IF c.kind = "snapshot" THEN Decides(c, c.copy) ELSE Idle

(* Everyone else's copy is out of date after a write.                       *)
AfterWrite(r, mine) ==
  [s \in Replica |->
     IF s = r THEN mine
     ELSE IF At(s, "update") THEN [call[s] EXCEPT !.fresh = FALSE] ELSE call[s]]

(* Faulty: written without looking at the resource version. *)
UpdateUnconditional(r) ==
  LET c == call[r] IN
    /\ At(r, "update")
    /\ state' = c.copy
    /\ call' = AfterWrite(r, Answered(r, c))
    /\ acted' = IF c.kind = "action"
                  THEN Append(acted, [by |-> r, target |-> TargetOf[c.incident], at |-> c.at])
                  ELSE acted
    /\ UNCHANGED now

Update(r) ==
  LET c == call[r] IN
    /\ At(r, "update") /\ c.fresh
    /\ state' = c.copy
    /\ call' = AfterWrite(r, Answered(r, c))
    /\ acted' = IF c.kind = "action"
                  THEN Append(acted, [by |-> r, target |-> TargetOf[c.incident], at |-> c.at])
                  ELSE acted
    /\ UNCHANGED now

(* 409: RetryOnConflict starts the call over, until its tries are used up.  *)
Conflict(r) ==
  LET c == call[r] IN
    /\ At(r, "update") /\ ~ c.fresh
    /\ Goes(r, IF c.tries < MaxTries
                 THEN [Call(c.kind, c.incident, c.at) EXCEPT !.tries = c.tries + 1]
                 ELSE Idle)
    /\ UNCHANGED <<state, now, acted>>

(* Any other error, a crash or a deadline ends the call, and the agent does *)
(* not act.  The write may have happened all the same.                      *)
Fail(r) ==
  /\ ~ At(r, "idle")
  /\ \/ call' = [call EXCEPT ![r] = Idle] /\ UNCHANGED state
     \/ /\ At(r, "update") /\ call[r].fresh
        /\ state' = call[r].copy
        /\ call' = AfterWrite(r, Idle)
  /\ UNCHANGED <<now, acted>>

(* Faulty: the limit is one too many. *)
AllowedOneMore(snapshot) ==
  ~ snapshot.inCooldown /\ snapshot.attemptsInWindow <= MaximumAttempts

(* EvaluateDecision: the limits of the policy; other reasons to refuse are  *)
(* open.  A refusal is recorded as handled.                                 *)
Allowed(snapshot) ==
  ~ snapshot.inCooldown /\ snapshot.attemptsInWindow < MaximumAttempts

Decide(r) ==
  LET c == call[r] IN
    /\ At(r, "decide")
    /\ \/ c.snapshot.duplicate /\ Goes(r, Idle)
       \/ /\ ~ c.snapshot.duplicate
          /\ \/ Allowed(c.snapshot) /\ Goes(r, Call("action", c.incident, c.at))
             \/ Goes(r, Call("handled", c.incident, c.at))
    /\ UNCHANGED <<state, now, acted>>

Tick == now < MaxTime /\ now' = now + 1 /\ UNCHANGED <<state, call, acted>>

-----------------------------------------------------------------------------
RemediationInit ==
  /\ state = EmptyState
  /\ call = [r \in Replica |-> Idle]
  /\ now = 1
  /\ acted = <<>>

RemediationNext ==
  \/ \E r \in Replica :
       \/ \E i \in Incident : TakeSnapshot(r, i)
       \/ Get(r) \/ Update(r) \/ Conflict(r) \/ Fail(r) \/ Decide(r)
  \/ Tick

RemediationSpec == RemediationInit /\ [][RemediationNext]_remediationVars
-----------------------------------------------------------------------------
(* Properties *)

(* Types: the state, the calls and the history.                             *)
RemediationTypeOK ==
  /\ state.handledAt \in [Incident -> Time \cup {Never}]
  /\ state.lastActionAt \in [Target -> Time \cup {Never}]
  /\ \A t \in Target : state.attempts[t] \subseteq [at : Time, nth : Nat \ {0}]
  /\ \A r \in Replica : ~ At(r, "idle") => call[r].incident \in Incident /\ call[r].at \in Time
  /\ now \in Time
  /\ acted \in Seq([by: Replica, target: Target, at: Time])

(* Every change of the ConfigMap is one whole Record or one whole pruning   *)
(* of what was there, by a replica in that call: no write loses what        *)
(* another replica wrote between its read and its write.                    *)
ChangesAreWholeCalls ==
  [][\E r \in Replica : At(r, "update") /\ state' = Changed(call[r])]_state

(* Whatever was acknowledged to an agent that then acted is counted for as  *)
(* long as its time is within the window, however the calls of other        *)
(* replicas and their pruning come between.                                 *)
ActionsAreCounted ==
  \A t \in Target, at \in Time :
    ~ Before(at, now, AttemptWindow) =>
      Cardinality({n \in DOMAIN acted : acted[n].target = t /\ acted[n].at = at})
        <= Cardinality(AttemptsAt(state.attempts[t], at))

(* The attempt limit under several replicas.  The limit is read before the  *)
(* action is recorded, so of several replicas that act on a workload within *)
(* the window each but one may get past it, once; a replica that is alone   *)
(* keeps to it exactly.                                                     *)
InWindow(t) ==
  {n \in DOMAIN acted : acted[n].target = t /\ ~ Before(acted[n].at, now, AttemptWindow)}

ActingOn(t) == {acted[n].by : n \in InWindow(t)}

OvershootBounded ==
  \A t \in Target :
    InWindow(t) # {} => Cardinality(InWindow(t)) < MaximumAttempts + Cardinality(ActingOn(t))
=============================================================================
