SPECIFICATION PostgresSpec
CONSTANTS
  k1 = k1  plan1 = plan1  rs = rs  h1 = h1  h2 = h2  c1 = c1  c2 = c2
  MaxVersion = 5
  ActionKey <- MCActionKey
  Version <- MCVersion
  Clock <- MCClock
  Subject = {rs}
  Key = {k1}
  MaxIncidents = 1
  Plan = {plan1}
  NoPlan = NoPlan
  Holder = {h1}
  Lease = {2}
  Session = {c1}
  NoHolder = NoHolder
  Precision = 2
PROPERTY CompletionAnswersRetry
CHECK_DEADLOCK FALSE
