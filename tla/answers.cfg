SPECIFICATION FairReadsSpec
CONSTANTS
  t1 = t1
  t2 = t2
  w1 = w1
  w2 = w2
  c1 = c1
  c2 = c2
  r1 = r1
  l1 = l1
  NoWorker = NoWorker
  NoTask = NoTask
  Tasks <- OneTask
  Workers <- OneWorker
  Cancels <- OneCancel
  Readers <- OneReader
  Listers <- NoLister
  MaxAttempts = 2
  Faults <- ReadFaults
  EnableReaper = FALSE
  AuditRetain = "long"
INVARIANTS
  ReadsTypeOK
  AnswerJustified
  AnswersStick
  FailureStands
PROPERTIES
  ResultReturns
