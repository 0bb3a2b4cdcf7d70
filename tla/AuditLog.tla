------------------------------ MODULE AuditLog -------------------------------
(***************************************************************************)
(* audit.rs: the audit log, one object per event.  Kept here as the set of *)
(* events recorded for each task.                                          *)
(***************************************************************************)
CONSTANTS Tasks

VARIABLES audit   \* audit[t]: the events on record for t

AuditEvent == {"submitted", "started", "completed", "failed", "cancelled"}

AuditTypeOK == audit \in [Tasks -> SUBSET AuditEvent]
AuditInit == audit = [t \in Tasks |-> {}]

\* record: append one event.
Record(t, event) == audit' = [audit EXCEPT ![t] = @ \union {event}]
==============================================================================
