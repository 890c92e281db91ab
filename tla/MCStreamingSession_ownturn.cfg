SPECIFICATION Spec
CONSTANTS
  a = a
  b = b
  c = c
  nil = nil
  Nil = nil
  Calls <- MCCalls
  MaxRounds = 1
INVARIANT
  OwnTurn
\* Every consumer has left, or the session is down.
CHECK_DEADLOCK FALSE
