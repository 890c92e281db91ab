SPECIFICATION FairSpec
CONSTANTS
  s1 = s1
  create1 = create1
  close1 = close1
  control1 = control1
  shutdown1 = shutdown1
  ping1 = ping1
  answer1 = answer1
  note1 = note1
  blank1 = blank1
  garbage1 = garbage1
  hook1 = hook1
  nil = nil
  Nil = nil
  Lines <- MCLines
  Kind <- MCKinds
  Sessions <- MCSessions
  Asks <- MCAsks
  Target <- MCTarget
  Follows <- MCFollows
  PipeSize = 3
INVARIANTS
  FramesAreWhole
  OneRequestAfterShutdown
  
PROPERTIES
  
  NoLeakedPromise
\* The process ends.
CHECK_DEADLOCK FALSE
