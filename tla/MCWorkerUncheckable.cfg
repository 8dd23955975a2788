SPECIFICATION WorkerSpec
CONSTANTS
  NoReplica = NoReplica
  Replica = {h1}
  MaxWork = 2
  Lease = 2
  Poll = 2
  Timeout = 1
  MaxDrain = 8
  MaxMultiplier = 8
  Uncheckable = {1}
  Unresolvable = {}
  Firing = {}
  MaxFaults = 0
PROPERTY PendingIsJudged
