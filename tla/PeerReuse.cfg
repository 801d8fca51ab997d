CONSTANTS
  Ev = ev
  Workers = {w1, w2}
  capacity = 1
  WeakCas = FALSE
  MaxConns = 2
  MaxSends = 3
SPECIFICATION Spec
INVARIANTS
  HeldIsOpen
CHECK_DEADLOCK FALSE
