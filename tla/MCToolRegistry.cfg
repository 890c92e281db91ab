SPECIFICATION FairSpec
CONSTANTS
  add = add
  add2 = add2
  outer = outer
  inner = inner
  nil = nil
  Nil = nil
  Registrations <- MCRegistrations
  Calls <- MCCalls
  Name <- MCName
  PeerCalls <- MCPeerCalls
  Parent <- MCParent
PROPERTIES
  ExecutionsAreDeferred
  ExecutionsEnd
  TasksEnd
\* Every call is answered and nothing is left to do.
CHECK_DEADLOCK FALSE
