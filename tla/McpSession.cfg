SPECIFICATION FairSpec
CONSTANTS
  Client = {c1, c2}
  Main = c1
  Parts = 2
  MaxRequests = 3
  Nobody = Nobody
INVARIANTS CallHasSession OneServer
PROPERTIES LabelIsHonest EveryRequestEnds
CHECK_DEADLOCK FALSE
