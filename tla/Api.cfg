SPECIFICATION FairSpec
CONSTANTS
  k1 = k1 k2 = k2 a = a b = b s1 = s1 s2 = s2
  Nil = Nil
  Bad = Bad
  Kid = {k1, k2}
  Key = {a, b}
  First <- FirstSets
  Token <- Tokens
  Slot = {s1, s2}
  MaxRotations = 1
  MaxFaults = 1
  MaxStops = 1
INVARIANTS
  AcceptedWasPublished
  KnownNeedsNoProvider
  PublishedIsAccepted
  StoresOutliveRequests
PROPERTIES
  RequestsEnd
  ServesAgain
