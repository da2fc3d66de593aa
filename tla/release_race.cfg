SPECIFICATION Spec
CONSTANTS
  Closers = {}
  Expirers = {}
  Requesters = {r1}
  Workers = {w1}
  None = None
  Stock = 1
  MaxCalls <- MCMaxCalls
  MaxTotalCalls = 3
  UsageCap = 2
  TokenTTL = 2
  BondTTL = 3
  ReservationTTL = 1
  Lease = 1
  MaxFaults = 0
PROPERTIES ReleasedIsNotPenalised
CHECK_DEADLOCK FALSE
