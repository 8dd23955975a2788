SPECIFICATION WorkerSpec
CONSTANTS
  NoReplica = NoReplica
  Replica = {h1, h2}
  MaxWork = 2
  Lease = 3
  Poll = 2
  Timeout = 1
  MaxDrain = 2
  MaxMultiplier = 8
  Uncheckable = {1}
  Unresolvable = {}
  Firing = {1}
  MaxFaults = 2
INVARIANT ChecksExclusive
PROPERTY PendingIsJudged
