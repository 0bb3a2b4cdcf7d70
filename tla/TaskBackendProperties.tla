------------------------ MODULE TaskBackendProperties ------------------------
(***************************************************************************)
(* What the write side of taquba-mcp must get right.  A property that a    *)
(* fault can break names the fault: it claims nothing of an instance in    *)
(* which that fault may happen.                                            *)
(***************************************************************************)
EXTENDS TaskBackend

Without(faults) == Faults \intersect faults = {}

Terminal(answer) == answer \in FinishedStatus

\* Nobody is going to touch t any more: its job has left the queue for good,
\* and no request and no worker is in the middle of it.
Quiet(t) ==
    /\ submit[t] = "submitted"
    /\ ~Live(t)
    /\ \A w \in Workers : TaskOf(w) # t
    /\ \A c \in Cancels : CancelOf(c) # t

(***************************************************************************)
(* Safety                                                                  *)
(***************************************************************************)
\* An in-flight entry, which outranks the result blob in tasks/get, is there
\* only while its job waits in the queue or a worker is about to clear it.
\* (mark before enqueue, enqueue_task; clear_in_flight, process_job.)  Only a
\* panicking tool leaves an entry behind.
NoPhantom ==
    \A t \in inFlight :
        \/ submit[t] \in {"marked", "refused"}
        \/ Waiting(t)
        \/ \E w \in Workers : Runs(w, t) \/ At(w, "dead")

\* The blob is written before the ack that commits the pointer, so whoever is
\* told the outcome of a task can fetch its result; and the two agree, unless
\* a cancellation was asked for: its blob may come last, or a worker whose
\* lease ran out puts its result over it.
PointerBacked ==
    \A t \in Tasks :
        pointer[t] # "none" /\ Without({"put"}) =>
            \/ blob[t].status = pointer[t]
            \/ blob[t].status = "cancelled" /\ t \in asked
            \/ ~Without({"lease"}) /\ pointer[t] = "cancelled"
                                  /\ blob[t].status = "completed"

\* No task is ever on record as cancelled that nobody asked to cancel: a token
\* fired for one job does not leak into the worker's next one, and a tool's
\* error alone is not a cancellation.
CancelledOnlyIfAsked ==
    \A t \in Tasks :
        (pointer[t] = "cancelled" \/ blob[t].status = "cancelled"
            \/ "cancelled" \in audit[t]) => t \in asked

\* A task is reported failed, or is dead-lettered, only when its attempts are
\* used up or a worker could not read its payload, and it is never claimed more
\* often than max_attempts allows (once, if max_attempts is 0).
RetryBudget ==
    \A t \in Tasks :
        /\ claims[t] <= IF MaxAttempts = 0 THEN 1 ELSE MaxAttempts
        /\ blob[t].status = "failed" \/ job[t].status = "dead" =>
               claims[t] >= MaxAttempts \/ t \in misread

\* A committed outcome is on record in the audit log, after a start: the audit
\* entry is written before the ack.
AuditedOutcome ==
    Without({"audit"}) =>
        \A t \in Tasks : pointer[t] # "none" => {"started", pointer[t]} \subseteq audit[t]

(***************************************************************************)
(* Steps                                                                   *)
(***************************************************************************)
\* Once tasks/get has answered with an outcome it never answers "working" or
\* "not found" again, whatever retries, cancellations and restarts follow:
\* a blob written ahead of the settlement of its job is not believed.
OutcomeSticks ==
    [][\A t \in Tasks :
         Terminal(Snapshot(t)) /\ Without({"lease"}) => Terminal(Snapshot(t)')]_vars

\* A job whose payload its worker cannot read fails at once and with a result,
\* whatever an earlier attempt has written: it is not retried, and only a
\* cancellation under way may put its own blob in place of the failure.
\* (process_job: write_failed and dead_letter without a tool call.)
UnreadableFails ==
    [][\A t \in undecodable :
         Without({"put", "lease"}) /\ job[t].status = "claimed"
             /\ job[t].holder # NoWorker /\ job'[t].status # "claimed"
         => job'[t].status = "dead" /\ blob[t].status \in {"failed", "cancelled"}]_vars

\* The status a client sees follows TaskLifecycle. A lease that runs out under
\* a worker is outside it: the worker marks the task in flight once more.
LifecycleStatus(t) ==
    IF Snapshot(t) = "unknown" /\ submit[t] # "new" THEN "lost" ELSE Snapshot(t)

Lifecycle == INSTANCE TaskLifecycle WITH
    status <- [t \in Tasks |-> LifecycleStatus(t)],
    committed <- {t \in Tasks : pointer[t] # "none"}

LifecycleSpec == Lifecycle!Spec

(***************************************************************************)
(* Liveness, under FairSpec                                                *)
(***************************************************************************)
\* Every job that is in the queue leaves it, however often the process
\* restarts, leases run out and settlements fail: the worker loop survives
\* each of them, and each of them uses up an attempt.
JobsLeave == \A t \in Tasks : Live(t) ~> ~Live(t)

\* An in-flight entry is always cleared again, on every path.
InFlightDrains == \A t \in Tasks : t \in inFlight ~> t \notin inFlight

(***************************************************************************)
(* What the comments and the change log say, and the code does not do      *)
(***************************************************************************)
\* backend.rs, cancel_task, on a job found claimed: "Either way the worker
\* writes the authoritative result blob".
ConfirmedCancelHasResult ==
    \A t \in Tasks : t \in confirmed /\ Quiet(t) => HasBlob(t)

\* backend.rs, cancel_task, on a worker that claims between peek and cancel:
\* "that worker's eventual result blob overwrites this one".
WorkerOutcomeWins ==
    \A t \in Tasks :
        pointer[t] = "completed" /\ Quiet(t) => blob[t].status # "cancelled"

\* CHANGELOG.md: "a stale in-flight entry can no longer mask a settled task".
NoMaskedOutcome ==
    \A t \in Tasks : job[t].status = "dead" /\ Quiet(t) => t \notin inFlight
==============================================================================
