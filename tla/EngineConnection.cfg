SPECIFICATION Spec
CONSTANTS
  c1 = c1
  s1 = s1
  Calls <- MCCalls
  Subs <- MCSubs
  MaxEvents = 2
INVARIANTS TypeOK WaitingIsPending FeedIsWhole GrantedIsAttached
PROPERTIES WaitingCallEnds SubscriberHearsEnd
CHECK_DEADLOCK FALSE
