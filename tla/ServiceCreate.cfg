\* Two attester instances that open their first sessions at the same time.
CONSTANTS
  Instances = {i1, i2}
  NoInstance = NoInstance
  MaxOpens = 2
SPECIFICATION Spec
INVARIANT CreatedBeforeOpened
CHECK_DEADLOCK FALSE
