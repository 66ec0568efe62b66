\* Four slots in every order of their allocation, one of them of two instructions.
SPECIFICATION Spec
CONSTANTS
  SlotBytes = 2
  TextBytes = 10
  PC = {0, 3, 4, 5, 8}
INVARIANTS
  TypeOK
  RangeInv
  OutputExact
CHECK_DEADLOCK FALSE
