SPECIFICATION Spec
CONSTANTS
  Sizes = {0, 1, 8, 12}
  Claims = {0, 1, 2, 3, 4, 5, 7, 11}
  MaxScan = 11
  Half = 16
  MaxBoxes = 6
  MaxIFDs = 4
  Tiffs <- MCTiffs
  Cmts <- MCCmts
  None = None
INVARIANTS TypeOK DateIsBest FoundIsKept
PROPERTY ReadEnds
CHECK_DEADLOCK FALSE
