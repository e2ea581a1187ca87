SPECIFICATION Spec
CONSTANTS
  traffic = traffic
  status = status
  Traffic = traffic
  Wires <- MCWires
  Requests <- OneOrBoth
  Connections = 2
  Emitters = {t1}
  MaxEvents = 1
  MaxBatch = 2
  MaxSeq = 2
  MaxFrames = 2
  MaxEngines = 2
INVARIANTS TypeOK TableMatchesLog NeverTwice
CHECK_DEADLOCK FALSE
