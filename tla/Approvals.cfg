SPECIFICATION Spec
CONSTANTS
  w1 = w1
  w2 = w2
  n1 = n1
  n2 = n2
  other = other
  same = same
  different = different
  Calls <- MCCalls
  Keys <- MCKeys
  KeyOf <- MCKeyOf
  CanWait <- MCCanWait
  Cancellable <- OneStep
SYMMETRY Symmetry
INVARIANTS TypeOK OneCallPerApproval ApprovalNotLost QueuedOnce
PROPERTY DecisionFinal
CHECK_DEADLOCK FALSE
