SPECIFICATION FairSpec
CONSTANTS
  r1 = r1
  r2 = r2
  r3 = r3
  Requests <- MCRequests
  Registered <- MCRegistered
INVARIANTS
  CancelIsFinal
  NoStuckEntry
  StopReachesTasks
PROPERTIES
  EveryHandlerAnswered
  RepliesAreDeferred
\* The client may be stopped for good.
CHECK_DEADLOCK FALSE
