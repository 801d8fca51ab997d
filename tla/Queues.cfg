CONSTANTS
  Producers = {p1, p2, p3}
  Consumers = {c1, c2}
  Capacity = 2
  MaxCalls = 4
  Writers = {c1, c2}
  Readers = {r1, r2}
  RingCapacity = 2
  CursorMod = 4
  Uses <- RingUses
  WeakCas = FALSE
  RingCalls = 4
  DblWriters = {p1, p2, p3}
  DblCapacity = 2
  DblMaxCalls = 4
SPECIFICATION PartsSpec
SYMMETRY Symmetry
INVARIANTS
  NobodyForgotten
  RingHolds
  ReadsInOrder
  BufferKeeps
PROPERTIES
  ImplementsFifo
  BatchesInOrder
CHECK_DEADLOCK FALSE
