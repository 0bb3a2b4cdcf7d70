------------------------- MODULE RetentionProperties --------------------------
(***************************************************************************)
(* What the retention sweep must get right beside the rest of the backend. *)
(***************************************************************************)
EXTENDS Retention, TaskBackendProperties

\* Between two sweeps, whoever is told the outcome of a task can still fetch
\* its result: a pointer outlives its blob only if its own delete failed, or if
\* the result had expired before its job was settled.
\* (run_reaper drops the pointer of every blob that reap has deleted.)
NoDangling ==
    Without({"put", "crash"}) =>
        \A t \in Tasks :
            sweep.pc = "asleep" /\ pointer[t] # "none" =>
                HasBlob(t) \/ t \in sweep.left \union sweep.early

\* The result of t was listed by a sweep as expired, and has been written anew
\* by another attempt or a cancel_task since.
Overtaken(t) == t \in sweep.early /\ (claims[t] > 1 \/ t \in asked)

\* A result stays until it has expired, and a pointer until its result is gone,
\* whatever fails or restarts, though reap deletes without looking again and
\* the pointer goes some awaits later.  A sweep takes a result that was written
\* since it read its clock in one case only: an earlier result of the task had
\* expired under the work on it, and it was then run again or cancelled.
KeptForRetention ==
    [][\A t \in Tasks :
         /\ HasBlob(t) /\ ~HasBlob(t)' => blob[t].expired \/ Overtaken(t)
         /\ pointer[t] # "none" /\ pointer'[t] = "none"
              => ~HasBlob(t) \/ Overtaken(t)]_retentionVars

\* No job is dead-lettered before its result blob is there for clients to find:
\* a worker that sees the last attempt fail writes it first, whether the worker
\* or the queue then dead-letters the job.  Only a result that expires before
\* it is settled can be missing.
DeadHasResult ==
    [][\A t \in Tasks :
         job[t].status # "dead" /\ job'[t].status = "dead"
             /\ Without({"put", "lease", "crash", "panic"})
         => HasBlob(t) \/ t \in sweep.early]_retentionVars

\* Every task whose job is in the queue gets an outcome a client can read,
\* unless someone asked to cancel it, or its result expired before it was
\* settled and a sweep has deleted it.
OutcomeReached ==
    \A t \in Tasks :
        Live(t) ~> \/ Terminal(Snapshot(t)) \/ t \in asked
                   \/ t \in sweep.early /\ ~Live(t) /\ ~HasBlob(t)

\* A task whose result has expired is forgotten, pointer and all: the sweeps
\* go on for ever, and each of them drops what it has deleted from both stores,
\* unless the pointer's own delete fails.
ExpiredForgotten ==
    \A t \in Tasks :
        Quiet(t) /\ blob[t].expired ~> Snapshot(t) = "unknown" \/ t \in sweep.left
==============================================================================
