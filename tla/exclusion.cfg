SPECIFICATION Spec
CONSTANTS
  Closers = {}
  Expirers = {x1}
  Requesters = {r1}
  Workers = {w1}
  None = None
  Stock = 1
  MaxCalls <- MCMaxCalls
  MaxTotalCalls = 3
  UsageCap = 2
  TokenTTL = 2
  BondTTL = 3
  ReservationTTL = 1
  Lease = 2
  MaxFaults = 0
INVARIANTS SettlementExclusion
CHECK_DEADLOCK FALSE
