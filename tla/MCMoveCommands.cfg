SPECIFICATION Spec
CONSTANTS
  CMD_BACKUP = 3
  LateMoves = FALSE
  MaxSequence = 6
  MaxLevels = 2
INVARIANTS TypeOK ExecutedOnceInOrder NothingFromFormerLevel LostOnlyAfterThree
  PredictsFromFrame
CHECK_DEADLOCK FALSE
