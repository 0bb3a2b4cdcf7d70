SPECIFICATION FairRetentionSpec
CONSTANTS
  t1 = t1
  t2 = t2
  w1 = w1
  w2 = w2
  c1 = c1
  c2 = c2
  NoWorker = NoWorker
  NoTask = NoTask
  Tasks <- OneTask
  Workers <- OneWorker
  Cancels <- OneCancel
  MaxAttempts = 2
  Faults <- HandoverFaults
  EnableReaper = FALSE
  AuditRetain = "long"
PROPERTIES
  JobsLeave
  InFlightDrains
