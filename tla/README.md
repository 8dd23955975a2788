# Verification of SRE Agent v2

TLA+ modules, model-checking runs and machine-checked proofs for the
remediation agent in `src/sre-agent-v2` (paths below are relative to that
directory). The agent watches `PodCrashLooping` alerts, asks a model what to
do, and restarts a pod only under a human's approval. It then checks that the
workload recovered before it closes the incident.

## 1. The system

Agent process: one holder ID (the pod's UID) and two goroutines.

- The **cycle** (`agent.go`) takes one firing alert from observation to the
  action on the pod and into verification.
- The **worker** (`agent_verification_worker.go`) claims verification work,
  runs the check and closes the incident.

Both call stores, which do not call back. Every store serialises its own
operations (a mutex in memory, a transaction in PostgreSQL), and nothing
serialises two calls to two stores. All the hard behaviour is between the calls.

| Component | State | Operations | What makes it correct |
| --- | --- | --- | --- |
| Incident registry (`internal/incident/registry.go`) | incidents, index of active incidents by key, claims, claim audit, sequence | Observe, Claim, ClaimHistory, Transition, Resolve | one active incident per key; a token names one claim; leases of different holders do not overlap; resolved means resolved |
| Fenced verification (`verification_lifecycle.go`) | the registry's and the verification store's | BeginFencedVerification, CompleteFencedVerification | only the holder of the latest, audited, unexpired claim; both stores change or neither |
| Schedulers (`verification_scheduler.go`, `verification_resolution_scheduler.go`) | the registry's | ClaimPendingVerification, ClaimRecoveredVerificationResolution | work is handed to one holder per lease |
| Action attempts (`internal/remediation/action_attempt_store.go`) | attempt per action key | Begin, Complete, Recover | one owner; terminal is final; exact retry accepted |
| Verifications (`verification_store.go`) | verification per action key | Begin, Complete, ListPending, ListRecovered, RequireRecovered | starts after the attempt ended; a result is final |
| Approvals and plans (`internal/approval`) | approval and plan per action key | Grant, Lookup, Publish | a published plan stays; an approval is granted once |
| Remediation state (`configmap_remediation_state.go`, `action_memory.go`) | handled pods, last action and actions per workload | Snapshot, Record | no write is lost; the budget of actions per workload and window |
| Agent cycle (`agent.go`, `agent_action_attempt.go`, `waiting_approval.go`, `agent_verification.go`) | what it remembers from its calls | the steps of `handlePodCrashLooping` | at most one action per incident, authorised before |
| Verification worker (`agent_verification_worker.go`) | the same, with the loop's failure count and drain count | `runVerificationWorkerOnce` and the loop around it | a result is recorded and the incident closed under a current claim; all work is reached in the end |
| Verification executor (`kubernetes_verification_executor.go`) | none | Verify: read the ReplicaSet, list its pods | RECOVERED only when the pod acted on was replaced; an error when the workload cannot be judged |
| Policy, decision | none | EvaluateDecision | no action without approval and budget |
| PostgreSQL adapters (`internal/adapters/postgres`) | rows, row locks, open transactions | the same interfaces | behave as the stores in memory; no deadlock; a full audit |
| Runtime, health, clients, manifests | | | not modelled (section 8) |

Hard behaviours: two replicas and two goroutines per replica under one holder
ID; claims that change the version others fenced with; leases that run out
between two calls; clocks that disagree; a call whose answer is lost; a process
that dies between the deletion of a pod and the record of it; approvals that
come late or expire; an alert that fires again after its incident was closed;
transactions that wait for each other's rows and die between two statements;
times that are truncated on their way into a table; a ConfigMap with several
writers; a workload that changes between two reads; work that fails for ever in
front of work that would not.
`PROJECT.json` lists every hazard at its line with the properties that cover it.

## 2. Modules

| Module | Models |
| --- | --- |
| `ActionAttemptStore` | the attempt store; `AttemptSpec` drives it with arbitrary callers |
| `VerificationStore` (extends it) | the verification store, as operators the registry calls under its mutex |
| `IncidentRegistry` (extends it) | the registry, the fenced lifecycle and the schedulers; `RegistrySpec` drives all of it, and the attempt store, by callers that may call in any order, read any clock and stop at any moment |
| `RemediationAgent` (extends it) | replicas with cycle and worker, remediation state, approvals, plans, pods and a clock; every registry and store operation it calls is the operator of the modules above |
| `IncidentLifecycle` | abstract: what the agent promises about one incident |
| `PostgresRegistry` | the registry, the fenced lifecycle, the schedulers and the attempt store as PostgreSQL runs them: tables, statements, row locks, transactions; it refines `IncidentRegistry` |
| `VerificationWorker` | the worker's loop in time: polls, backoff, drain limit, leases, deadlines, restarts, and the cycle that claims the same incidents |
| `RemediationState` | the ConfigMap under several agents: read, change, conditional write, retry |
| `RecoveryCheck` | the check behind a verification, over a workload that goes on changing |
| `MC...` | instances for TLC |
| `...Proofs` | theorems |

How state and actions correspond to the code:

- One store operation is one action. `XAccepted` is the condition under which
  the operation succeeds, `X` what it then does; a refused operation changes
  nothing. A cycle's action also performs what the code does with the answer.
- A cycle's `pc` is the next call it will make; its other fields are the local
  variables it carries (`version` is `currentIncident.Version`, and the fencing
  token after `ClaimAction`; `at` is the `now` read at the snapshot, which every
  later record carries; `budget` is the snapshot's answer).
- An incident is a number: its ID hashes its key with a sequence number that is
  never reused. A key stands for a pod's UID, because the alert name and the
  cluster are the same for all alerts the agent takes. A plan is a model value.
  The agent's modules have one plan per incident, since a plan is determined by
  the incident, its target and the only executable action, a restart.
- A time is a number; 0 stands for Go's zero time and for a nil `FinishedAt`.
- `Resolve` reads the recovery evidence before it takes the mutex. One step
  stands for both because evidence cannot be withdrawn; that is itself checked
  and proved (`RecoveredIsFinal`).
- In `ClaimAction` the publication of the plan shares the step of the claim: it
  is idempotent and nothing reads it in between that could tell.
- `CycleAborts` and `WorkerAborts` stand for a failed call, a lost answer (the
  call took effect in the step before) and a crash with restart. The stores
  survive a crash, as with the PostgreSQL back end. With the deployed in-memory
  back end a restart forgets every incident, which is a fresh initial state.
- `PostgresRegistry`: a statement is one step. A statement that commits by
  itself changes the tables at once; a transaction (`tx[s]`) collects what it
  wrote, holds its row locks and applies all of it in `Commit`, or none in
  `Abort`, which may come before any statement (the connection or the process
  dies, the context is cancelled). Under READ COMMITTED a statement that waited
  for a row lock re-reads the row, so it is a step that is enabled once the lock
  is free. `Start...` is the statement that takes the first lock together with
  the conditions Go checks on what it returned; the later statements are named
  for what they do (`ShareAttempt`, `EnterVerifying`, `InsertVerification`).
  `Stored` truncates a clock reading to what the column keeps.
- `VerificationWorker`: the registry is reduced to what decides who gets work
  when. `pc` is where the iteration is, `clock` the timer it waits for,
  `failures` the consecutive failures behind the backoff, `drained` the items of
  this round. A `Tick` is the unit of the durations. Store calls take less than
  a tick, a check at most its deadline, and a timer that is due goes off before
  the next tick.
- `RemediationState`: `Get` is `load` with the change made to its copy, `Update`
  the conditional write. `fresh` stands for the comparison of resource versions:
  nobody wrote since the copy was read. The list of a workload's attempts is a
  set of numbered times: the code counts and drops entries and never looks at
  their order.
- `RecoveryCheck`: `GetReplicaSet` and `ListPods` are the two calls; the rest of
  the actions is the cluster, marked external.
- Operators marked "Faulty" are the bugs each property is shown to catch.
  Nothing else uses them.

## 3. Runs

| Run | Question | Bounds |
| --- | --- | --- |
| `registry` | Do the rules of the registry and its two stores hold in one incident's whole life, and when its alert comes back? | 1 key, 2 incidents of which the second is created and left alone, 2 holders, versions to 6, 2 clock readings freely chosen per call, leases of 1 |
| `agent` | Do two replicas keep the promises of the lifecycle and the rules of the registry? | 2 replicas, 1 pod, versions to 9 of which 6 before the attempt, times 1..3, lease 1, approval window 3, cooldown and attempt window 1 |
| `postgres` | Do interleaved, interrupted transactions behave as the atomic operations in memory, without deadlock, refused statement or missing audit, although times are truncated? | 2 sessions, 2 holders, 1 incident, versions to 6 of which 4 before verification, clock readings 3 and 4 of which a column keeps 2 and 4, leases of 2 |
| `worker` | Is all work that can be judged judged and closed, past work that cannot? | 1 replica, 3 verifications, the first uncheckable, the second's incident not to be closed, lease 10, poll 1, deadline 1, drain limit 2, one fault |
| `worker_replicas` | Do two replicas ever check the same workload at once, and is pending work lost between them? | 2 replicas, 2 verifications, the first uncheckable and its alert firing, lease 3, poll 2, two faults |
| `remediation_state` | What do several writers of one ConfigMap keep? | 2 replicas, 3 incidents of one workload, limit, window and cooldown 1, times 1..3, 2 tries per call |
| `recovery` | Can the check be wrong about the pod acted on, and does it come to a verdict? | 3 pods of the ReplicaSet and 1 of another controller, to 2 replicas, 3 generations, 1 failed read |
| `stranded` | (violation) Does an action that was begun always get to verification? | as `agent`, 1 replica, lease and approval window 2, no call fails |
| `resumable` | (violation) Is an incident with a published plan taken up again by the next cycle? | as `agent`, 1 replica, lease and approval window 2 |
| `postgres_binding` | (violation) Can a waiting incident be resumed when Claim answers without its binding? | as `stranded` |
| `postgres_retry` | (violation) Is the exact retry of a completion accepted? | as `postgres`, 1 session, versions to 5 |
| `worker_uncheckable` | (violation) Does a verification that cannot be checked hold up the one behind it? | 1 replica, 2 verifications, lease and poll 2, no fault |

Why the bounds suffice. Six versions take an incident from DETECTED to RESOLVED
with claims in between; nine do so with a wait for approval, the action's claim,
a takeover and the worker's claim. Two holders are what a fence has to tell
apart, and a third adds no new kind of claim. Two arbitrary clock readings with
leases of 1 give calls before, at and after a lease's end, and clocks that go
back. In `registry` a constraint (`MCSecondIsNew`) leaves the second incident as
it was created: what is asked of it is that the first one's end made room for
it, and that nothing done to the first touches it. In `agent` a lease of 1
is taken over twice within three times; an approval that begins before it is
stored runs out within them, one that begins in time outlasts the attempt that
used it, and one that begins later is met too early. A constraint
(`MCActsInTime`) does not follow an incident that has spent six versions without
an attempt, where both ways to the action need no more, nor an approval that
begins at the third time. In `postgres` two sessions are what a lock order needs to go wrong, six
versions reach every operation once (two lost claims before verification are
followed, more are not: `MCVerifiesInTime`), and of two clock readings one is truncated
and one is not. The worker runs have the ratios that matter: `worker` a lease
longer than a check and a backed-off wait, so that the uncheckable work stays
claimed while the worker comes round again; `worker_uncheckable` the default
one, lease equal to poll. `remediation_state` has one incident more than the
replicas could handle at once, so that a third action meets a used-up limit.
`recovery` has one pod more than the most replicas, so that the pod acted on,
its replacement and a third meet.

Versions and time are capped in the guards (`Version`, `Time`, `MaxIncidents`),
so the models of the registry, the agent and PostgreSQL do stop there: deadlock
checking is off in their runs, and nothing is concluded from stopping. Symmetry
is over holders, replicas, sessions or incidents, which the specifications treat
alike, and only safety properties are checked with it.

What the passing runs show:

- *Registry*: `ActiveIncidentUnique`, `ClaimIsLatestAudited`,
  `LeasesNeverOverlap`, `AuditIsAppendOnly` (claims), `ResolutionIsEvidenced`,
  `VerifyingLeftOnlyByEvidence`, `VerificationFollowsAttempt`,
  `RecoveredIsFinal`, `ResolvedIncidentIsFinal` (closing), `WaitingKeepsBinding`.
- *Attempts*: `AttemptWellFormed`, `TerminalAttemptIsFinal` and
  `ExactRetryAccepted`, with callers that lost their lease.
- *Agent*: `ExecutionAuthorised` (at most one action per incident, across
  crashes and takeovers, by the owner of the persisted attempt under an
  approval it checked), `AdvancedByLatestHolder` (Transition looks at no lease,
  the versions suffice), `ResumeFindsPlan`, `VerifyingHasWork`.
- *Refinement*: `AgentUsesRegistry` says the agent is an instance of
  `RegistrySpec`, so what is proved of the registry applies to it;
  `AgentImplementsLifecycle` maps stage, approval, attempt, action and verdict
  to `IncidentLifecycle`; `PostgresImplementsRegistry` maps rows to the state in
  memory, each transaction to one atomic operation at its commit, with the
  times the columns keep. What is proved of `RegistrySpec` is so carried over to
  both back ends.
- *PostgreSQL*: `HistoryComplete` (every version of an incident is accounted for
  by exactly one claim or transition row, whatever dies in between),
  `DecisionsStayTrue` (what a transaction decided on is still so when it
  commits, because it is locked), `NoWaitCycle` (the lock order), and
  `NoStatementRejected` (no CHECK constraint is met by surprise).
- *Worker*: `PendingIsJudged`, `RecoveredIsResolved` and `WorkerComesToRest` are
  the liveness of the loop; `ChecksExclusive` is what the deadline under the
  lease is for.
- *Remediation state*: `ChangesAreWholeCalls` and `ActionsAreCounted` (no write
  is lost, no action forgotten in its window), `OvershootBounded` (a replica
  alone keeps the limit; of n that act on one workload within the window, n - 1
  may pass it, once each).
- *Recovery check*: `TargetIsReplaced` (RECOVERED is never said while the pod
  acted on serves, unless the specification changed between the two reads) and
  `SettledIsJudged`.

What is deliberately weak in them: an approval may expire between its check and
the deletion; a slow executor may delete the pod after its attempt was declared
UNKNOWN or the incident closed (the deletion is bound to the pod's UID, not to a
lease). `Act` of the lifecycle says so. The cooldown is not among the
properties: a record overwrites the time of the last action, so a late record of
another replica can shorten it, and nothing says how far apart the actions of
two replicas must be. The check may answer NOT_RECOVERED, for good, for a
workload that is only slow, that is scaled between its two reads, or whose
ReplicaSet was replaced between them (its UID is compared in the first read
only). While an alert goes on firing the cycle claims its incident at each poll,
with a lease as long as the poll by default, and so may keep the worker from an
incident under verification; `PendingIsJudged` asks nothing for such work.

## 4. Findings

- **An action that was begun can be stranded** (`stranded`). The deletion, the
  completion and the beginning of verification run under one claim, and each
  has a timeout of its own, while the lease need only exceed one of them
  (30 s and 15 s). Slow but successful calls outlast the lease. The fence then
  refuses verification, and as the pod is gone no cycle returns to the incident.
  `CONTEXT.md:77` asks that a terminal attempt brings its incident to VERIFYING.
  A replica that is lost after the deletion ends in the same place by a shorter
  way: only a cycle recovers attempts, so its attempt stays STARTED and never
  becomes UNKNOWN, as `CONTEXT.md:67` says it must.
- **A planned incident can be stuck in DIAGNOSED** (`resumable`). A cycle that
  ends between the publication of the plan and the transition leaves an
  incident that every later cycle asks to move from DIAGNOSED to DIAGNOSED,
  which is refused. `CONTEXT.md:122` says that it can be resumed.
- **A waiting incident cannot be resumed on PostgreSQL** (`postgres_binding`).
  `Claim` there returns no approval binding, and the agent goes on with what the
  claim returned. `CONTEXT.md:122` says that the incident can be resumed.
- **An exact retry is refused on PostgreSQL** (`postgres_retry`). The stored
  finish time has lost its nanoseconds, and is compared with the retry's by
  `Equal`. `CONTEXT.md:87` says that an exact retry gets the same result.
- **Uncheckable work starves the work behind it** (`worker_uncheckable`). On
  PostgreSQL pending work is handed out oldest first, the error ends the
  iteration, and with the lease equal to the poll the same work is free again in
  the next one. `README.md:9` speaks of a continuous, recoverable loop.

`stranded` and `postgres_binding` use `FaultlessSpec`, without failing calls or
crashes (a deletion may still be refused by Kubernetes). What is violated in the
runs of the agent and in `postgres_retry` is an invariant or a property of
steps, so no fairness is involved; `worker_uncheckable` has the worker's
fairness and no fault at all.

## 5. Fairness

`VerificationWorker` assumes weak fairness of each replica's worker (a goroutine
that can go on is scheduled; its timer goes off; the kubelet restarts a process
that died), of each replica's cycle at its poll, and of time. Weak fairness is
enough, because a step of a goroutine stays enabled until it is taken: a call
that is under way is answered, with an error at its deadline at the latest
(`context.WithTimeout` around every check and every store call has the agent's
context). Nothing is assumed of the order of work, of `Begin`, of the answer of
a check, or of a crash. Faults are bounded by `MaxFaults`: with endless faults no
progress can be promised. Without fairness of time leases would never run out.

`RecoveryCheck` assumes weak fairness of the check's reads only: the worker comes
back to work that was not judged, which is `PendingIsJudged`'s business. Nothing
is assumed of the cluster; `SettledIsJudged` is about one that has come to rest.

The agent's own liveness is left unstated: what could be said of it fails, as the
findings `stranded` and `resumable` show by invariants, which need no fairness
at all.

## 6. What is proved

All theorems hold for every value of the constants under the assumptions named
in the modules: versions and times are sets of positive numbers, leases are
positive, an action key is a pair of incident and plan, `NoPlan` is no plan.
There is no bound on incidents, holders, keys, plans or clocks in them. The
theorems about the agent rest besides on `OnePlanAssumption` (one plan per
incident, as the abstractions of section 2 say) and `ClockAssumption` (the clock's
first value is a time). Those about PostgreSQL assume that no clock reads so
early that its stored value is Go's zero time, and that leases are whole numbers
of the column's units (`PrecisionAssumption`; microseconds, where the
configuration gives seconds). Those about the worker assume what `config.go`
demands of the durations (`WorkerDurations`: a deadline shorter than the lease),
and `DoublingMeetsLimit`: that doubling from 1 ends at the limit. The code has 8
for it, and TLC evaluates the assumption for the values of the runs; the values
of a recursive function are what the prover cannot compute.

- `ActionAttemptStoreProofs`: the shape of attempts is inductive as it stands
  (`AttemptInvariant`, with `AttemptTypes`), and `TerminalIsFinal` and
  `RetryIsAccepted` follow from it.
- `IncidentRegistryProofs`: `RegistryInvariant` is the inductive invariant
  `RegistryInv`, a conjunction of the checked invariants with three more.
  - `IDsInSequence` (incidents exist exactly up to `nextSequence`):
    `ActiveIncidentUnique` needs that a new ID is unused, and claims need that
    only existing incidents have any.
  - `WaitingIsBound` (a waiting incident has a binding): `WaitingKeepsBinding`
    is a statement about steps and needs it of the state before.
  - `AttemptWellFormed`: an attempt's finish time, on which
    `VerificationFollowsAttempt` and `ResolutionIsEvidenced` rest.
  - `LeasesNeverOverlap` is inductive only together with
    `ClaimIsLatestAudited`: a new claim is compared with the claim in force,
    and that must be the last one of the audit.

  There is one lemma per operation. `RegistryTypes`, `DeduplicationIsSound`,
  `TokensAreUnique`, `LeasesAreExclusive`, `EvidenceIsSound` and
  `VerificationsFollow` state the checked invariants as theorems of
  `RegistrySpec`.
  The action properties (`VerifyingNeedsEvidence`, `ResolvedIsFinal`,
  `BindingIsKept`, `AuditGrows`, `ResultsAreFinal`) follow from the same invariant.
- `RemediationAgentProofs`: `AgentKeepsToRegistry`, that the agent uses the
  registry and the attempt store only as `RegistrySpec` lets callers use them, so
  that every theorem about the registry holds of the agent; and
  `ExecutionsAreAuthorised`, that an action is executed at most once and only when
  it was authorised; with `AgentTypes`. The inductive invariant `AgentInv`
  (`AgentInvariant`) says that what a replica remembers between two calls stays
  true of the shared stores, whatever the others do in between:
  - `HoldsToken`: from `begin` on, the version a cycle holds is the token of an
    audited claim of its own. The registry demands that of whoever begins or
    recovers an attempt.
  - `ApprovalFound`: on the way to the action the approval that was found, as of
    the time it was looked at, is still there.
  - A cycle at `delete` owns a persisted attempt that has no execution yet. Two
    such cycles would hold the same token, and tokens are unique
    (`TokensAreUnique`), so they are one (lemma `OneExecutor`).
  - A cycle at `verify` remembers the terminal attempt the store has, since
    terminal attempts never change (`TerminalAttemptIsFinal`).
  - `PendingIsFirst`: the worker completes a verification from its first version.

  There is one lemma per action.
- `RemediationAgentLifecycleProofs`:
  - `LifecycleIsImplemented`, the refinement of `IncidentLifecycle`, with
    `WorkIsThere`. The invariant adds `VerifyingHasWork` to `AgentInv`: a new
    attempt belongs to an open incident only because an incident under
    verification already has one. A step of the agent is one step of one
    incident's lifecycle or does not show in it (`Quiet`).
  - `StaleHoldersGetNowhere`. The invariant adds that the version a cycle goes on
    with is behind its incident's or was given by its latest claim, since every
    claim advances the version.
  - `WaitingPlansAreFound`, for a registry whose claims return the binding. The
    invariant adds that a cycle about to wait has published its plan and that a
    cycle that claimed a waiting incident remembers its binding.
  - `ClosingIsEarned`: the lifecycle has no shortcut to its end, so an incident
    the agent closed was approved, acted on under an attempt that is over, and
    recovered.
- `PostgresRegistryProofs`: the tables and the open transactions, for any number
  of sessions, replicas, incidents and clock readings. `PostgresInvariant` is the
  inductive invariant `PostgresInv`:
  - `SessionsOK`: an open transaction holds exactly the locks of the steps behind
    it, has written what its operation writes from what it read, and every row it
    read under a lock is still as it read it; a fence it passed still has its
    audited claim.
  - `LocksExclude`: no two sessions hold conflicting locks. It is what makes
    `SessionsOK` inductive: a claim takes an unlocked row only, and a commit
    writes rows its own locks cover, so both leave every other transaction
    `Undisturbed`.
  - `RowsAccepted`, `RowsInSequence`: rows satisfy their CHECK constraints, the
    index of active incidents is unique, an attempt's token is an audited one.
  - `LeaseAudited`, `HistoryKept`: the lease in a row is that of its latest audited
    claim, and claims and transitions together tell each version once, chained from
    DETECTED to the row's state.

  From it: `PostgresTypesOK`, `StatementsAreAccepted`, `HistoriesAreComplete`,
  `DecisionsHold` and `NoWaitForever`. The last rests on `WaitsForFinish`: of two
  transactions that are not completions or recoveries of an attempt each owns its
  incident, so whoever waits, waits for one that finishes an attempt and asks for
  no more locks. Truncation to the column's precision is arithmetic (`Stored`):
  that it keeps the order of a stored time and a later reading
  (`StoredKeepsOrder`), and does not shorten a lease (`StoredLease`), is proved
  for every precision.

  `RegistryIsImplemented` is the refinement: the tables read as the registry in
  memory, an incident being its row, the claim in force the latest audited claim
  (`ClaimInForce`), the entry of the index the one row that is not resolved
  (`ActiveIsUnique`) and every time what the columns keep. A statement that
  commits by itself, and a commit, is one operation of `RegistrySpec` at the
  stored reading of its clock, or a stutter; every other statement, an abort
  included, leaves the image as it is. There is one lemma per operation
  (`...Maps`). The step of a commit needs all of `PostgresInv`: the operation's
  conditions were checked several statements ago, on rows that `SessionsOK` says
  are still so, and the fence that was passed with the full reading is passed
  with the truncated one, which is no later (`FenceMaps`).
- `VerificationWorkerProofs`: `WorkerTypes` and `OneChecks`, that no two replicas
  check the same workload at once, for any number of replicas and verifications
  and any durations the configuration accepts. Exclusion is not inductive: that
  no other replica is checking says nothing about the next tick. `WorkerInv`
  (`WorkerInvariant`) adds `ChecksCovered`: whoever checks, or is about to record
  the result, holds the claim with more of the lease left than of the deadline.
  A tick takes one from both, so the deadline is over first; only then can
  another replica, or a cycle, claim the incident.
- `RemediationStateProofs`, for any number of replicas, tries and failures:
  - `RemediationNeverLosesWrites`: every change of the ConfigMap is one whole
    call made on what was there. Its invariant is that a fresh copy equals what
    the call would make of the present state: `Get` establishes it, and whatever
    changes the state makes every other copy stale.
  - `ActionsStayCounted`. A count of recorded actions is awkward to carry through
    a step that adds some entries and drops others. `EntriesInv` says instead
    that the acknowledged actions can be assigned entries such that two actions
    of a workload within the window never share one; the counts follow, since an
    injection cannot lower a cardinality.
  - `LimitHolds`. The bound on the overshoot says nothing of the replicas on
    their way to an action. `LimitInv` (within `RemediationInvariant`) gives each
    of them a position in the history of actions: its snapshot has counted what
    came before, and none of its own actions came after. Each workload has such a
    position too, up to which the limit was kept; behind it every replica has
    acted at most once.
  - `RemediationTypes`.
- `RecoveryCheckProofs`: `RecoveryTypes` and `RecoveryReplacesTarget`, that
  RECOVERED is not answered while the pod acted on serves. The invariant ties
  the counts in the status to the generation the controller has observed, and
  what the check remembers of its first read to what the cluster was then.

Every invariant the passing runs check is also a theorem, and so is every action
property and both refinements that need no fairness. Only model-checked are the
liveness properties (`PendingIsJudged`, `RecoveredIsResolved`,
`WorkerComesToRest`, `SettledIsJudged`), since fairness, ENABLED and what recursive
definitions compute are out of the prover's reach, and the findings of section 4,
which are counterexamples. The modules declare no RECURSIVE operator.

## 7. Abstractions to know when reading the results

- Calls that are refused change nothing and, where nothing depends on the
  refusal, are left out.
- Which conditions on the model's decision hold (target, owner, confidence,
  risk) is one nondeterministic verdict.
- In `RemediationAgent` the answer of the check is open, the calls to the
  remediation state are atomic and the replicas share a clock. `RecoveryCheck`,
  `RemediationState` and `RegistrySpec` (clocks that disagree) have what is left
  out there.
- In `RemediationAgent` two replicas share one registry. The shared registry has
  the semantics of the in-memory code; `PostgresImplementsRegistry` is the reason
  why the adapter may be read so, and where it differs a constant says so
  (`ClaimReturnsBinding`).
- `PostgresRegistry` names a row by the order of insertion, where the code draws
  random IDs. A foreign key's FOR KEY SHARE is modelled only by what it waits
  for. A lease is a whole number of the column's units, so truncation shortens
  no lease below the fence's reading. The standalone `Begin` and `Complete` of
  the verification store are not used by the agent and are left out.
- `VerificationWorker` hands out pending work oldest first, as PostgreSQL does.
  The in-memory schedulers walk a map in random order, about which a liveness
  property under weak fairness can say nothing.
- `RecoveryCheck` folds NotFound into a ReplicaSet that is terminating or was
  replaced. The ReplicaSet controller is external: it is modelled as a reader of
  the specification that writes a status with its observed generation.

## 8. Not modelled

- `executeVerification` (`agent_verification.go`), called from tests only.
- The approval and plan stores of PostgreSQL: single statements with ON CONFLICT,
  whose identities and hashes the models abstract.
- Configuration and wiring (`config.go`, `incident_store.go`, `main1.go`): they
  choose constructors and validate durations, whose ranges are the assumptions
  of the modules.
- Runtime, health, readiness and metrics: observers of the two goroutines.
- The clients of Prometheus, Ollama and Kubernetes: input and output, whose
  answers are nondeterministic choices.
- Manifests and scripts.

## 9. Plan

What is left, in order of worth:

1. Approval and plan stores as a module, with conflicting plans and approvals:
   the statements of PostgreSQL with ON CONFLICT against the maps in memory.
2. The agent over the tables: `RegistryIsImplemented` and `AgentKeepsToRegistry`
   meet in `RegistrySpec`, but no module composes the two, because the clock of
   the agent and what a Claim returns (`ClaimReturnsBinding`) differ there.
