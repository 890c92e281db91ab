SPECIFICATION FairSpec
CONSTANTS
  s1 = s1
  s2 = s2
  create1 = create1
  send1 = send1
  control1 = control1
  close1 = close1
  hook1 = hook1
  nil = nil
  Nil = nil
  Sessions <- MCSessions
  Calls <- MCFewCalls
  Asks <- MCAsks
  Target <- MCTarget
  Method <- MCMethod
  Impatient <- MCImpatient
  MaxMessages = 1
PROPERTIES
  CallersAnswered
  SessionsLearn
\* Every call is answered and nothing is left to do.
CHECK_DEADLOCK FALSE
