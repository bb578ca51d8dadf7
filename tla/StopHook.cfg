SPECIFICATION Spec
CONSTANTS
  Churns <- MCChurns
  MaxChanges = 1
  MaxTurns = 1
INVARIANTS StopStaysInStep
CHECK_DEADLOCK FALSE
