SPECIFICATION FairSpec
CONSTANTS
  c1 = c1
  e1 = e1
  nil = nil
  Nil = nil
  Setups <- MCSetups
  Ensures <- MCEnsures
  MaxTasks = 3
  MaxClears = 1
  MaxRestarts = 1
INVARIANTS
  TypeOK
  NobodyForgotten
  StorageNotBehind
  RefreshScheduled
PROPERTIES
  WaitersAreDeferred
  
\* Nobody has to call the manager again.
CHECK_DEADLOCK FALSE
