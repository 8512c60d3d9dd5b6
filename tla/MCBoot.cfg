SPECIFICATION FairSpec
CONSTANTS
  NumCores = 6
  Assigned <- SomeAssigned
CHECK_DEADLOCK FALSE
INVARIANTS
  TypeOK
  StacksAreDistinct
  IdsAreOwn
PROPERTY
  BootCompletes
