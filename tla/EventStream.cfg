SPECIFICATION FairSpec
CONSTANTS
  Clients = {c1, c2}
  Generations = {g1}
  Capacity = 2
  MaxMessages = 3
INVARIANT ClosedOnce
PROPERTIES ShutsDown DeadlineEnds
