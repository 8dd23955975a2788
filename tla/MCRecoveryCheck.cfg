SPECIFICATION RecoverySpec
CONSTANTS
  acted = acted  p1 = p1  p2 = p2  other = other
  Pod = {acted, p1, p2, other}
  Target = acted
  Foreign = {other}
  MaxReplicas = 2
  MaxGeneration = 3
  MaxFailures = 1
INVARIANTS RecoveryTypeOK
PROPERTIES TargetIsReplaced SettledIsJudged
CHECK_DEADLOCK FALSE
