SPECIFICATION Spec
CONSTANTS
  Reserve = Reserve
  Release = Release
  Expire = Expire
  Search = Search
  Inventory = Inventory
  Alien = Alien
  DefaultRate = 3
  LocalRate = 2
  DefaultTtl = 3
  HoldTtl = 1
  None = None
  Catalogs <- MCCatalogs
  Budgets <- MCBudgets
  Proposals <- MCProposals
  Asked = {0, 1, 3}
  MaxRepairs = 2
  Minute = 2
  Handlers = {h1, h2}
  MaxClock = 4
SYMMETRY Symmetry
INVARIANTS CompiledIsValid WithinBudget CallLimitsHold RateHolds
CHECK_DEADLOCK FALSE
