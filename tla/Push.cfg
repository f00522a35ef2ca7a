SPECIFICATION FairSpec
CONSTANTS
  u1 = u1 t1 = t1 t2 = t2 t3 = t3 w1 = w1 w2 = w2
  Nil = Nil
  User = {u1}
  Token = {t1, t2, t3}
  Worker = {w1}
  Kit <- AnyKit
  Body = {"good", "bad", "garbled"}
  Limit = 2
  MaxPush = 2
  MaxFaults = 1
INVARIANTS
  PrunedOnlyDead
PROPERTIES
  DeadTokensLeave
