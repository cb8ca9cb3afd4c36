CONSTANTS
  Updates = {a, b, c}
  None = None
SPECIFICATION Spec
INVARIANTS TypeOK NothingLost FailedLeavesNothing
PROPERTIES NeverReset IsRegister
