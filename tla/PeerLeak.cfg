CONSTANTS
  Ev = ev
  Workers = {w1}
  capacity = 1
  WeakCas = FALSE
  MaxConns = 1
  MaxSends = 3
SPECIFICATION Spec
INVARIANT ReleasedIsClosed
CHECK_DEADLOCK FALSE
