SPECIFICATION Spec
CONSTANTS
  Pumps = {p1}
  Callers = {t1, t2}
  MaxBatch = 3
  MaxSeq = 4
INVARIANTS TypeOK ExactlyOnce NoBatchStranded FrameNumber CallerOrder
PROPERTIES AcceptedIsSent
CHECK_DEADLOCK FALSE
