SPECIFICATION Spec
CONSTANTS
  Closers = {c1}
  Expirers = {}
  Requesters = {r1}
  Workers = {w1}
  None = None
  Stock = 1
  MaxCalls <- MCMaxCalls
  MaxTotalCalls = 3
  UsageCap = 2
  TokenTTL = 2
  BondTTL = 2
  ReservationTTL = 1
  Lease = 1
  MaxFaults = 2
INVARIANTS SettledAsJournaled SessionAgreesWithChain
PROPERTIES ChainObeysProgram
CHECK_DEADLOCK FALSE
