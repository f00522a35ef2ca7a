SPECIFICATION Spec
CONSTANTS
  u1 = u1 u2 = u2
  User = {u1, u2}
  Reader = u1
  MaxRows = 3
  Sizes = {0, 3}
  DefaultSize = 1
  LargestSize = 2
INVARIANTS
  TypeOK
  IndexesAgree
  NothingMissed
  RepeatsBounded
PROPERTIES
  KeepsPromise
