CONSTANTS
  Writers = {w1, w2}
  Capacity = 4
  CursorMod = 8
  Flags = {{}, {"WRITE_FUTEX"}, {"SINGLE_WRITER", "READ_BUSY_LOOP"}}
  WeakCas = FALSE
  MaxCalls = 6
  OrderCalls = 4
  Readers = {}
SPECIFICATION PartsSpec
SYMMETRY Symmetry
INVARIANTS
  IInv
  NoSlotRace
  StoresMayLag
PROPERTIES
  RefusedOnlyWhenFull
  ImplementsFifo
CHECK_DEADLOCK FALSE
