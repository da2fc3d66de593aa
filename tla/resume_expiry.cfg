SPECIFICATION FairSpec
CONSTANTS
  Closers = {}
  Expirers = {}
  Requesters = {r1}
  Workers = {w1}
  None = None
  Stock = 1
  MaxCalls <- MCMaxCalls
  MaxTotalCalls = 3
  UsageCap = 2
  TokenTTL = 2
  BondTTL = 9
  ReservationTTL = 1
  Lease = 1
  MaxFaults = 1
PROPERTIES LockedSessionEnds
CHECK_DEADLOCK FALSE
