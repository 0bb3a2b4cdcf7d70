----------------------------- MODULE MCTaskReads ------------------------------
(***************************************************************************)
(* Instances of TaskReads for TLC.                                         *)
(***************************************************************************)
EXTENDS TaskReadsProperties, MCRetention

CONSTANTS r1, l1

NoReader == {}
OneReader == {r1}
NoLister == {}
OneLister == {l1}

\* What ends a request or a job early and leaves what clients are told alone.
ReadFaults == {"crash", "settle", "read"}
OnlySettle == {"settle"}

\* Sound for safety: tasks are interchangeable.
TasksInterchangeable == Permutations({t1, t2})
==============================================================================
