SPECIFICATION FairSpec
CONSTANTS
  Size = 4
  Writers = {w1, w2}
  Reader = reader
  Free = free
  Chunks = {0, 1, 2, 3, 4}
  MaxBytes = 9
CHECK_DEADLOCK FALSE
INVARIANTS
  TypeOK
  NothingAfterEnd
  DrainInv
PROPERTIES
  ImplementsStream
  DropsOnlyWhenFull
  EndReached
