SPECIFICATION ReadsSpec
CONSTANTS
  t1 = t1
  t2 = t2
  w1 = w1
  w2 = w2
  c1 = c1
  c2 = c2
  r1 = r1
  l1 = l1
  NoWorker = NoWorker
  NoTask = NoTask
  Tasks <- OneTask
  Workers <- OneWorker
  Cancels <- NoCancel
  Readers <- OneReader
  Listers <- NoLister
  MaxAttempts = 2
  Faults <- OnlySettle
  EnableReaper = FALSE
  AuditRetain = "long"
INVARIANTS
  ResultIsFinal
