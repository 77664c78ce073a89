\* The scheduled job and an operator in overlapping calls.
SPECIFICATION FairSpec
CONSTANTS
  s1 = s1
  s2 = s2
  Feed = {"station_status"}
  Station = {s1, s2}
  Payload <- GoodAndBad
  Session = {cron, operator}
  Cron = cron
  cron = cron
  operator = operator
  Keep = 0
  MaxLog = 2
  MaxFaults = 0
INVARIANTS StoredNeverFailed
PROPERTIES EveryRequestResolved
