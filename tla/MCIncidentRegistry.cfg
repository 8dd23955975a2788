CONSTANTS
  h1 = h1  h2 = h2  p1 = p1  p2 = p2
  alert1 = alert1  alert2 = alert2  s1 = s1  s2 = s2
  Key = {alert1}
  MaxIncidents = 2
  Plan = {p1}
  NoPlan = NoPlan
  Holder = {h1, h2}
  Lease = {1}
  Subject = {s1}
  ActionKey <- MCActionKey
  Version <- MCVersion
  Time <- MCTime
SPECIFICATION RegistrySpec
CONSTRAINT MCSecondIsNew
SYMMETRY MCHolderSymmetry
INVARIANTS RegistryTypeOK ActiveIncidentUnique ClaimIsLatestAudited LeasesNeverOverlap ResolutionIsEvidenced VerificationFollowsAttempt AttemptWellFormed
PROPERTIES AuditIsAppendOnly VerifyingLeftOnlyByEvidence RecoveredIsFinal ResolvedIncidentIsFinal WaitingKeepsBinding TerminalAttemptIsFinal ExactRetryAccepted
CHECK_DEADLOCK FALSE
