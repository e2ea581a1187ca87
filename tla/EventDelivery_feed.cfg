SPECIFICATION Spec
CONSTANTS
  traffic = traffic
  status = status
  Traffic = traffic
  Wires <- MCWires
  Requests <- BothWires
  Connections = 2
  Emitters = {t1}
  MaxEvents = 1
  MaxBatch = 2
  MaxSeq = 2
  MaxFrames = 1
  MaxEngines = 1
PROPERTIES ImplementsFeed OwedIsRead
CHECK_DEADLOCK FALSE
