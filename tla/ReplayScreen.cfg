SPECIFICATION ScreenSpec
CONSTANTS
  early = early
  late = late
  outside = outside
  NoCutoff = NoCutoff
  Cutoff = {early, late, outside}
  Window = {early, late}
  Default = early
  MaxRequests = 5
  MaxForeign = 2
  MaxMishaps = 1
  MaxOverlap = 2
INVARIANTS AsOfTheRequest AcknowledgedSetHolds SettledScreen
PROPERTIES NeverOvertaken
CHECK_DEADLOCK FALSE
