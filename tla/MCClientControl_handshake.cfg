SPECIFICATION FairSpec
CONSTANTS
  m1 = m1
  m2 = m2
  p1 = p1
  p2 = p2
  o1 = o1
  u1 = u1
  u2 = u2
  w1 = w1
  s1 = s1
  init = init
  nil = nil
  Initialize = init
  Nil = nil
  RaiseMode = TRUE
  MaxErrors = 1
  ModelRequests = {}
  ModeRequests = {}
  OtherRequests <- MCOtherRequests
  Payloads <- MCPayloads
  InitWaiters <- MCInitWaiters
  SentWaiters <- MCSentWaiters
INVARIANTS
  OutboundFifo
PROPERTIES
  HandshakeEnds
  CallersAnswered
\* The client may be stopped for good.
CHECK_DEADLOCK FALSE
