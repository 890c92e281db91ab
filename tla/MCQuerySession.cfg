SPECIFICATION FairSpec
CONSTANTS
  id1 = id1
  create1 = create1
  create2 = create2
  send1 = send1
  send2 = send2
  control1 = control1
  resume1 = resume1
  close1 = close1
  close2 = close2
  nil = nil
  Nil = nil
  Requests <- MCRequests
  Request <- MCRequest
  SessionIds <- MCSessionIds
  Impatient <- MCImpatient
  Follows <- MCFollows
INVARIANTS
  
  PumpIsKnown
  OpenIsPumped
PROPERTIES
  CloseEnds
\* Every request is answered and nothing is left to do.
CHECK_DEADLOCK FALSE
