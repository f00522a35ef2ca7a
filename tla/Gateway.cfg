SPECIFICATION Spec
CONSTANTS
  u1 = u1 u2 = u2 t1 = t1 c1 = c1 c2 = c2
  Nil = Nil
  User = {u1, u2}
  Topic = {t1}
  Challenge = {c1, c2}
  Rate = 1
  Burst = 2
  Interval = 2
  MaxTime = 4
  MaxMint = 1
SYMMETRY Alike
INVARIANTS
  WindowBound
  NeverStarved
  
