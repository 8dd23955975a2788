CONSTANTS
  r1 = r1  r2 = r2  pod1 = pod1  restart = restart  rs = rs
  Key = {pod1}
  MaxIncidents = 1
  Plan = {restart}
  NoPlan = NoPlan
  Holder = {r1}
  Lease = {2}
  Subject = {rs}
  ActionKey <- MCActionKey
  Version <- MCVersion
  Time <- MCTime
  OwnerOf <- MCOwnerOf
  LeaseDuration = 2
  AttemptWindow = 1
  RestartCooldown = 1
  MaximumAttempts = 1
  ApprovalWindow = 2
  ClaimReturnsBinding = FALSE
SPECIFICATION FaultlessSpec
INVARIANTS ResumeFindsPlan
CHECK_DEADLOCK FALSE
