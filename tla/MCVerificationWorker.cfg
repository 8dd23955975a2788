SPECIFICATION WorkerSpec
CONSTANTS
  NoReplica = NoReplica
  Replica = {h1}
  MaxWork = 3
  Lease = 10
  Poll = 1
  Timeout = 1
  MaxDrain = 2
  MaxMultiplier = 8
  Uncheckable = {1}
  Unresolvable = {2}
  Firing = {}
  MaxFaults = 1
INVARIANT WorkerTypeOK
PROPERTIES PendingIsJudged RecoveredIsResolved WorkerComesToRest
