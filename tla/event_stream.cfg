SPECIFICATION Spec
CONSTANTS
  agent = agent
  other = other
  worker = worker
  g1 = g1
  job = job
  Emitters = {agent, other, worker}
  Gateways = {g1}
  Home <- MCHome
  Scripts <- MCScripts
  Before <- MCBefore
  MaxConnects = 2
  None = None
INVARIANTS SentOncePerConnection LiveMissesNothing EndIsShown
PROPERTIES ScreenGoesForward EveryEventShown
CHECK_DEADLOCK FALSE
