SPECIFICATION Spec
CONSTANTS
  u1 = u1 u2 = u2 t1 = t1 e1 = e1
  Nil = Nil
  User = {u1, u2}
  Event = {e1}
  Token = {t1}
  Day = 2
  Envelope <- KindEnvelope
  PrefOf <- KindPrefOf
  RetryCount = 0
  MaxCrashes = 1
  Faulty = {"count", "preference", "subscriber", "enqueue"}
  UserActions = {"prefer", "register"}
INVARIANTS
  OptOutRespected
  
