----------------------------- MODULE TaqubaQueue -----------------------------
(***************************************************************************)
(* The Taquba job queue, as taquba-mcp uses it.  The crate is a            *)
(* dependency: every operator below is the contract src/ relies on, read   *)
(* off its call sites and the comments beside them.                        *)
(*                                                                         *)
(* One job per task.  A claim is identified by the worker that holds it: a *)
(* worker works on one job at a time, so it never holds two claims.  A     *)
(* claim whose worker is gone (restart, panic, failed settlement) has      *)
(* holder NoWorker until its lease runs out.  Time is left out: a lease    *)
(* may run out, and a backoff may end, at any moment.                      *)
(***************************************************************************)
EXTENDS Naturals

CONSTANTS
    Tasks,        \* task ids, each enqueued at most once (fresh ULIDs)
    Workers,      \* worker tasks of the pool
    NoWorker,     \* holder of a job nobody works on
    MaxAttempts   \* QueueConfig.max_attempts

ASSUME NoWorkerAssumption == NoWorker \notin Workers
ASSUME MaxAttemptsAssumption == MaxAttempts \in Nat

VARIABLES
    job,      \* job[t]: the job record; status "none" where get_job says None
    pointer,  \* pointer[t]: the terminal pointer under KV key mcp:task:<t>
    fired     \* workers whose claim's cancellation token has fired

queueVars == <<job, pointer, fired>>

JobStatus == {"none", "pending", "scheduled", "claimed", "done", "dead"}
PointerStatus == {"none", "completed", "cancelled"}

Job == [status: JobStatus, attempts: Nat, holder: Workers \union {NoWorker}]
NoJob == [status |-> "none", attempts |-> 0, holder |-> NoWorker]

QueueTypeOK ==
    /\ job \in [Tasks -> Job]
    /\ pointer \in [Tasks -> PointerStatus]
    /\ fired \subseteq Workers

QueueInit ==
    /\ job = [t \in Tasks |-> NoJob]
    /\ pointer = [t \in Tasks |-> "none"]
    /\ fired = {}

Waiting(t) == job[t].status \in {"pending", "scheduled"}
Live(t) == Waiting(t) \/ job[t].status = "claimed"
Holds(w, t) == job[t].status = "claimed" /\ job[t].holder = w

\* enqueue_with: the job becomes claimable.
Enqueue(t) ==
    /\ job' = [job EXCEPT ![t] = [NoJob EXCEPT !.status = "pending"]]
    /\ UNCHANGED <<pointer, fired>>

\* claim_with_wait: a pending job is leased to w with a fresh token.
Claim(w, t) ==
    /\ job[t].status = "pending"
    /\ job' = [job EXCEPT ![t] = [@ EXCEPT !.status = "claimed", !.holder = w]]
    /\ fired' = fired \ {w}
    /\ UNCHANGED pointer

\* ack_with: one transaction settles the job and writes the pointer.
AckWith(w, t, status) ==
    /\ Holds(w, t)
    /\ job' = [job EXCEPT ![t] = [@ EXCEPT !.status = "done", !.holder = NoWorker]]
    /\ pointer' = [pointer EXCEPT ![t] = status]
    /\ UNCHANGED fired

\* dead_letter: the job goes to the dead-letter queue, without a pointer.
DeadLetter(w, t) ==
    /\ Holds(w, t)
    /\ job' = [job EXCEPT ![t] = [@ EXCEPT !.status = "dead", !.holder = NoWorker]]
    /\ UNCHANGED <<pointer, fired>>

\* One more attempt is used up: the job is retried or, when the attempts are
\* exhausted, dead-lettered by the queue itself.
UseAttempt(t, retryStatus) ==
    LET next == job[t].attempts + 1 IN
    job' = [job EXCEPT ![t] =
              [status   |-> IF next >= MaxAttempts THEN "dead" ELSE retryStatus,
               attempts |-> next,
               holder   |-> NoWorker]]

\* nack: back to the queue, after a backoff.
Nack(w, t) ==
    /\ Holds(w, t)
    /\ UseAttempt(t, "scheduled")
    /\ UNCHANGED <<pointer, fired>>

\* A settlement that fails (ClaimLost, queue error) changes nothing durable;
\* if w still held the claim, nobody will settle it before the lease ends.
Abandon(w, t) ==
    /\ job' = IF Holds(w, t)
              THEN [job EXCEPT ![t] = [@ EXCEPT !.holder = NoWorker]] ELSE job
    /\ UNCHANGED <<pointer, fired>>

\* The queue's own reaper takes back a job whose lease ran out.
ExpireLease(t) ==
    /\ job[t].status = "claimed"
    /\ UseAttempt(t, "pending")
    /\ UNCHANGED <<pointer, fired>>

\* The backoff of a nacked job ends.
EndBackoff(t) ==
    /\ job[t].status = "scheduled"
    /\ job' = [job EXCEPT ![t] = [@ EXCEPT !.status = "pending"]]
    /\ UNCHANGED <<pointer, fired>>

\* The record of a settled job is dropped: get_job answers None from then on.
DropRecord(t) ==
    /\ job[t].status \in {"done", "dead"}
    /\ job' = [job EXCEPT ![t] = NoJob]
    /\ UNCHANGED <<pointer, fired>>

\* cancel: Removed for a waiting job, Requested for a claimed one (its token
\* fires), NotFound otherwise.
CancelOutcome(t) ==
    IF Waiting(t) THEN "removed"
    ELSE IF job[t].status = "claimed" THEN "requested" ELSE "notfound"

Cancel(t) ==
    /\ job' = IF Waiting(t) THEN [job EXCEPT ![t] = NoJob] ELSE job
    /\ fired' = fired \union {w \in Workers : Holds(w, t)}
    /\ UNCHANGED pointer
==============================================================================
