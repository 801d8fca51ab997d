CONSTANTS
  StartSizes = {0, 1, 2, 3, 4, 5, 6, 7, 12}
  char_a = char_a
  char_b = char_b
  char_nul = char_nul
  null = null
SPECIFICATION Spec
INVARIANTS
  AvlIsSound
  StructuresMatch
  SortsRight
  CiphersRight
  

  
CHECK_DEADLOCK FALSE
