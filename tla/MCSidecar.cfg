SPECIFICATION Spec
CONSTANTS
  s1 = s1
  s2 = s2
  create1 = create1
  send1 = send1
  control1 = control1
  close1 = close1
  hook1 = hook1
  nil = nil
  Nil = nil
  Sessions <- MCSessions
  Calls <- MCCalls
  Asks <- MCAsks
  Target <- MCTarget
  Method <- MCMethod
  Impatient <- MCImpatient
  MaxMessages = 2
INVARIANTS
  StatusAgrees
  MessagesInOrder
  QuietAfterClose
PROPERTIES
  CallsAreDeferred
  AsksAreDeferred
\* Every call is answered and nothing is left to do.
CHECK_DEADLOCK FALSE
