SPECIFICATION Spec
CONSTANTS
  a = a
  b = b
  d = d
  k1 = k1
  k2 = k2
  c1 = c1
  c2 = c2
  Ids <- MCIds
  Conns <- MCConns
  Callers <- MCCallers
  Connects <- MCConnects
  Sends <- MCSends
  None = None
  MaxLive = 1
  MaxFinished = 1
  MaxGeneration <- MCMaxGeneration
  MaxQueued = 2
PROPERTY SupersededChangesNothing
CHECK_DEADLOCK FALSE
