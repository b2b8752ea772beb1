SPECIFICATION Spec
CONSTANTS
  Setups <- ChessSetups
  CHM_USER_SIZE = 2
INVARIANTS RepliesAreMoves SearchLeavesNoTrace
PROPERTIES PlayerMovesByTheRules EndIsTrue UndoTakesBackTwo
CHECK_DEADLOCK FALSE
