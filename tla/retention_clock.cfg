SPECIFICATION FairClockSpec
CONSTANTS
  b1 = b1
  e1 = e1
  U64Range = 6
  Blobs <- OneBlob
  Entries <- OneEntry
  Retentions <- EdgeRetentions
  Starts <- Early
  MaxTime = 4
INVARIANTS
  ClockInv
PROPERTIES
  TtlHonored
  AuditKept
  OldGoes
