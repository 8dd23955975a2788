CONSTANTS
  r1 = r1  r2 = r2  pod1 = pod1  restart = restart  rs = rs
  Key = {pod1}
  MaxIncidents = 1
  Plan = {restart}
  NoPlan = NoPlan
  Holder = {r1, r2}
  Lease = {1}
  Subject = {rs}
  ActionKey <- MCActionKey
  Version <- MCVersion
  Time <- MCTime
  OwnerOf <- MCOwnerOf
  LeaseDuration = 1
  AttemptWindow = 1
  RestartCooldown = 1
  MaximumAttempts = 1
  ApprovalWindow = 3
  ClaimReturnsBinding = TRUE
SPECIFICATION AgentSpec
SYMMETRY MCReplicaSymmetry
CONSTRAINT MCActsInTime
INVARIANTS AgentTypeOK ExecutionAuthorised ResumeFindsPlan VerifyingHasWork
PROPERTIES AdvancedByLatestHolder AgentUsesRegistry AgentImplementsLifecycle
CHECK_DEADLOCK FALSE
