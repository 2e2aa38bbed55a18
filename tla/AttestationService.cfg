\* Three attester instances, four sessions.
CONSTANTS
  Instances = {i1, i2, i3}
  NoInstance = NoInstance
  MaxOpens = 4
SPECIFICATION FairSpec
INVARIANTS StaticsExclusive NeverBusy CountsSessions AllocatedOnce DerivedUnlessRaced
PROPERTY Returns
CHECK_DEADLOCK FALSE
