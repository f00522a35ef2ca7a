SPECIFICATION Spec
CONSTANTS
  u1 = u1
  Nil = Nil
  User = {u1}
  Day = 6
  Body <- Bodies
  Identity = {"video_ready", "video_failed"}
INVARIANTS
  BlockedIsBlocked
  QuietIsAnArc
