\* The scheduled job alone, with cancelled calls and crashes.
SPECIFICATION FairSpec
CONSTANTS
  s1 = s1
  s2 = s2
  Feed = {"station_status", "station_information"}
  Station = {s1, s2}
  Payload <- AllBodies
  Session = {cron}
  Cron = cron
  cron = cron
  operator = operator
  Keep = 0
  MaxLog = 2
  MaxFaults = 1
INVARIANTS OneIngestPerPublication SnapshotsAudited MasterAudited
PROPERTIES OutcomeIsFinal AuditSpec EveryRequestResolved
