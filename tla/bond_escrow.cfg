SPECIFICATION FairSpec
CONSTANTS
  a = a
  m = m
  Bonds = {b1, b2}
  Parties = {a, m}
  Agent <- MCAgent
  ZeroKey = nokey
  Receipts = {r1}
  ZeroHash = r0
  GracePeriod = 1
  Supply = 2
  MaxExpiry = 1
  MaxTime = 3
INVARIANTS TypeOK OpenBacked RecordTellsOutcome
PROPERTIES TokensConserved KeepsPromise FundsNotLocked
CHECK_DEADLOCK FALSE
