\* One run of the stream, no other program.
SPECIFICATION StoreSpec
CONSTANTS
  a1 = a1
  a2 = a2
  a3 = a3
  a4 = a4
  z1 = z1
  z2 = z2
  z3 = z3
  p1 = p1
  Article = {a1, a2, a3, a4}
  Zone = {z1, z2, z3}
  at <- Availability
  line <- FileOrder
  story <- Stories
  Accepted = {a1, a2, a3}
  place <- Places
  near <- Nearby
  Around <- Row
  Absent = Absent
  Torn = Torn
  MaxRuns = 1
  MaxKills = 0
  file <- Files
  Permit = {p1}
  permitPlace <- PermitPlaces
  Requests <- Loads
  MaxJobs = 0
INVARIANTS SourcesAsOf
CHECK_DEADLOCK FALSE
