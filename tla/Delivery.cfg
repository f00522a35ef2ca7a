SPECIFICATION DeliverySpec
CONSTANTS
  u1 = u1 u2 = u2 e1 = e1 w1 = w1
  Nil = Nil
  User = {u1, u2}
  Event = {e1}
  Token = {}
  Day = 1
  Envelope <- CommentEnvelope
  PrefOf <- CommentPrefOf
  RetryCount = 1
  MaxCrashes = 0
  Faulty = {"enqueue"}
  UserActions = {}
  Worker = {w1}
  MaxPush = 4
  MaxFaults = 1
  MaxStops = 1
INVARIANTS
  CopiesAreAttempts
PROPERTIES
  EventuallySettled
  AckedReachesRooms
  
