CONSTANTS
  Pool = 20
  Failing = {"input", "api"}
  MaxHandshakes = 3
SPECIFICATION Spec
INVARIANTS FreedOnce UndefinedNeedsApiFailure LossPerHandshake
CHECK_DEADLOCK FALSE
