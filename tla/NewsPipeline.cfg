SPECIFICATION Spec
CONSTANTS
  a1 = a1
  a2 = a2
  a3 = a3
  Article = {a1, a2, a3}
  title <- Headlines
  Collector = {collector}
  Sync = {request}
  Stamp = {"latest"}
  Absent = Absent
  Torn = Torn
  MaxRuns = 3
  MaxKills = 1
INVARIANTS DeliveredOnce NoRecordTwice RecordAtItsVector StoreAccumulates VectorsMatchRecords
CHECK_DEADLOCK FALSE
