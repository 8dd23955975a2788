SPECIFICATION RemediationSpec
CONSTANTS
  i1 = i1  i2 = i2  i3 = i3  dep = dep  r1 = r1  r2 = r2
  Replica = {r1, r2}
  Incident = {i1, i2, i3}
  Target = {dep}
  TargetOf <- MCTargetOf
  Cooldown = 1
  AttemptWindow = 1
  MaximumAttempts = 1
  MaxTries = 2
  MaxTime = 3
SYMMETRY MCSymmetry
INVARIANTS
  RemediationTypeOK
  ActionsAreCounted
  OvershootBounded
PROPERTY ChangesAreWholeCalls
