CONSTANTS
  InitCapacity = 2
  MaxCapacity = 4
  UIntMod = 64
  GrowEmpty = TRUE
SPECIFICATION MpSpec
INVARIANT NoDoubleOwner
