SPECIFICATION Spec
CONSTANTS
  u1 = u1 u2 = u2 t1 = t1 e1 = e1
  Nil = Nil
  User = {u1, u2}
  Event = {e1}
  Token = {t1}
  Day = 1
  Envelope <- RetryEnvelope
  PrefOf <- RetryPrefOf
  RetryCount = 1
  MaxCrashes = 0
  Faulty = {"create", "enqueue"}
  UserActions = {"read", "delete"}
INVARIANTS
  TypeOK
  AnnouncedRowExists
  IdAnnouncedOnce
  PushAfterInApp
  AckedMeansQueued
  AttemptsBounded
  BadgeCoversOwnRow
