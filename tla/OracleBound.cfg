SPECIFICATION ControlSpec
CONSTANTS
  N = 3
  Distance <- Line
  ShortageCost = 10
  OverflowCost = 3
  DistanceCost = 4
  MaxVehicle = 2
  Capacity = 2
  Surge = {}
  MaxExtra = 2
  MaxCombinations = 4
  ImbalanceWeight = 20
  Hours = 2
  Net <- Flows
  Expected <- Forecasts
  Horizon = 2
  Alphas = {0, 1}
  Actions = {0, 2}
  Programs <- Compared
  Quiet = {3}
  Vehicle = 1
INVARIANTS OracleIsBound
CHECK_DEADLOCK FALSE
