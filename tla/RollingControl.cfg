SPECIFICATION ControlSpec
CONSTANTS
  N = 3
  Distance <- Line
  ShortageCost = 6
  OverflowCost = 2
  DistanceCost = 1
  MaxVehicle = 2
  Capacity = 2
  Surge <- Deltas
  MaxExtra = 2
  MaxCombinations = 4
  ImbalanceWeight = 20
  Hours = 2
  Net <- Flows
  Expected <- Forecasts
  Horizon = 2
  Alphas = {0, 1}
  Actions = {0, 2}
  Programs <- Simulated
  Quiet = {3}
  Vehicle = 1
INVARIANTS LoopsMoveToTarget OptimumKept PlansCarriedOut AllocationOptimal EncodingExact StationsLegal BikesAccountedFor
PROPERTIES EachMovePays
CHECK_DEADLOCK FALSE
