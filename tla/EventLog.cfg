SPECIFICATION Spec
CONSTANTS
  Wires = {ws, mail}
  Subscribers = {s1, s2}
  Emitters = {t1, t2}
  MaxEvents = 2
  MaxSeq = 3
SYMMETRY Symmetry
INVARIANTS TypeOK HistoryIsTail ReplayIsExact ResyncOnlyWhenLost DeliveredOnce
PROPERTY LostStaysLost
