SPECIFICATION Spec
CONSTANTS
  u1 = u1 u2 = u2 s1 = s1 s2 = s2
  Nil = Nil
  User = {u1, u2}
  Slot = {s1, s2}
  MaxRows = 2
  Requests = {"notify", "silent", "read", "readAll", "delete"}
  Faulty = {"create", "write", "count", "enqueue"}
SYMMETRY Requesters
INVARIANTS
  TypeOK
  ReadEventsTrue
  
  
