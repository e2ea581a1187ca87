SPECIFICATION Spec
CONSTANTS
  c1 = c1
  s1 = s1
  Calls <- MCCalls
  Subs <- MCSubs
  MaxEvents = 2
INVARIANT CallsInFlightFail
CHECK_DEADLOCK FALSE
