SPECIFICATION Spec
CONSTANTS
  Closers = {c1}
  Expirers = {}
  Requesters = {r1}
  Workers = {}
  None = None
  Stock = 1
  MaxCalls <- MCMaxCalls
  MaxTotalCalls = 3
  UsageCap = 2
  TokenTTL = 2
  BondTTL = 3
  ReservationTTL = 1
  Lease = 1
  MaxFaults = 0
INVARIANTS ClosedWithoutActiveReservation
CHECK_DEADLOCK FALSE
