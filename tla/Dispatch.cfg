SPECIFICATION FairSpec
CONSTANTS
  w1 = w1 w2 = w2
  Nil = Nil
  Worker = {w1, w2}
  Payload = {TRUE, FALSE}
  MaxPush = 2
  MaxFaults = 2
  MaxStops = 1
INVARIANTS
  StopCostsAtMostOne
  CountedOnce
  ConfirmedInOrder
PROPERTIES
  DeliversAtMostOnce
  EveryMessageLeaves
