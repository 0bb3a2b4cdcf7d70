---------------------------- MODULE MCTaskBackend ----------------------------
(***************************************************************************)
(* Instances of TaskBackend for TLC.                                       *)
(***************************************************************************)
EXTENDS TaskBackendProperties, TLC

CONSTANTS t1, t2, w1, w2, c1, c2

OneTask == {t1}
TwoTasks == {t1, t2}
OneWorker == {w1}
TwoWorkers == {w1, w2}
NoCancel == {}
OneCancel == {c1}
TwoCancels == {c1, c2}

NoFaults == {}
\* Every fault that loses no record on its way to a store.
RecordsHold == FaultKind \ {"put", "audit"}
\* No lease either.
LosslessFaults == RecordsHold \ {"lease"}
\* The faults under which every task still gets its outcome.
SoftFaults == {"enqueue", "settle"}
\* What takes a job from its worker, or the worker from its job, but for a
\* panic, and what loses a record.
HandoverFaults == {"crash", "upgrade", "rollback", "lease", "settle", "put", "audit"}
OnlyPanic == {"panic"}

\* Sound for safety: workers, and cancel requests, are interchangeable.
Interchangeable == Permutations({w1, w2}) \union Permutations({c1, c2})
==============================================================================
