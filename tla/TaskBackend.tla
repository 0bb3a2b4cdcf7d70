----------------------------- MODULE TaskBackend -----------------------------
(***************************************************************************)
(* The write side of taquba-mcp: enqueue_task and cancel_task of           *)
(* backend.rs and the worker loop of worker.rs, over the Taquba queue, the *)
(* result store, the audit log and the in-memory in-flight map.            *)
(*                                                                         *)
(* Every await on shared state is a step of its own, so requests, workers, *)
(* lease expiry and a restart of the process interleave between any two.   *)
(* All tasks are calls of one tool: each tool has its own queue and        *)
(* workers, and tools share nothing that is not keyed by task id.          *)
(*                                                                         *)
(* A definition named Mutant_... is the definition that follows it with a  *)
(* plausible bug; no action uses it.                                       *)
(***************************************************************************)
EXTENDS TaqubaQueue

CONSTANTS
    NoTask,    \* task of an idle worker or request
    Cancels,   \* concurrent cancel_task requests
    Faults     \* what may go wrong in this instance, see FaultKind

\* crash: the process restarts.  upgrade: with a build that cannot decode some
\* of the stored payloads; rollback: with one that can decode them again.
\* lease: a lease runs out under a worker still on the job.  panic: a tool
\* handler panics.  The others: that call fails, without effect (list, delete
\* and unlink: a call of the retention sweep; read: of a request that only
\* reads).
FaultKind == {"crash", "upgrade", "rollback", "lease", "panic",
              "enqueue", "settle", "put", "audit", "cancel",
              "list", "delete", "unlink", "read"}

ASSUME NoTaskAssumption == NoTask \notin Tasks
ASSUME FaultsAssumption == Faults \subseteq FaultKind

VARIABLES
    blob, audit,   \* the result store and the audit log
    inFlight,      \* keys of the in-memory in_flight map
    submit,        \* submit[t]: where enqueue_task of t stands
    worker,        \* worker[w]: where process_job of w stands
    cancel,        \* cancel[c]: where cancel_task request c stands
    undecodable,   \* tasks whose payload this build cannot deserialize
    claims,        \* history: claims[t], how often t has been claimed
    asked,         \* history: tasks some cancel_task was called for
    confirmed,     \* history: tasks some cancel_task reported Cancelled for
    misread        \* history: tasks whose payload a worker could not read

INSTANCE ResultStore
INSTANCE AuditLog

histVars == <<claims, asked, confirmed, misread>>
vars == <<queueVars, blob, audit, inFlight, submit, worker, cancel, undecodable,
          histVars>>

WorkerPC == {"idle", "decode", "start", "call", "decide", "put", "record",
             "settle", "dead"}
Outcome == {"none", "ok", "err", "completed", "cancelled", "failed", "retry"}
WorkerState == [pc: WorkerPC, task: Tasks \union {NoTask}, attempts: Nat,
                outcome: Outcome]
IdleWorker == [pc |-> "idle", task |-> NoTask, attempts |-> 0, outcome |-> "none"]
DeadWorker == [IdleWorker EXCEPT !.pc = "dead"]

CancelPC == {"idle", "forget", "put", "record", "remove", "signal", "log", "check"}
CancelState == [pc: CancelPC, task: Tasks \union {NoTask}]
IdleCancel == [pc |-> "idle", task |-> NoTask]

SubmitPC == {"new", "marked", "refused", "landed", "rejected", "submitted"}

At(w, pc) == worker[w].pc = pc
TaskOf(w) == worker[w].task
Runs(w, t) == TaskOf(w) = t /\ worker[w].pc \in {"decode", "start", "call"}

TypeOK ==
    /\ QueueTypeOK
    /\ StoreTypeOK
    /\ AuditTypeOK
    /\ inFlight \subseteq Tasks
    /\ submit \in [Tasks -> SubmitPC]
    /\ worker \in [Workers -> WorkerState]
    /\ cancel \in [Cancels -> CancelState]
    /\ undecodable \subseteq Tasks
    /\ claims \in [Tasks -> Nat]
    /\ asked \subseteq Tasks
    /\ confirmed \subseteq Tasks
    /\ misread \subseteq Tasks

Init ==
    /\ QueueInit
    /\ StoreInit
    /\ AuditInit
    /\ inFlight = {}
    /\ submit = [t \in Tasks |-> "new"]
    /\ worker = [w \in Workers |-> IdleWorker]
    /\ cancel = [c \in Cancels |-> IdleCancel]
    /\ undecodable = {}
    /\ claims = [t \in Tasks |-> 0]
    /\ asked = {}
    /\ confirmed = {}
    /\ misread = {}

\* A result write whose error is only logged.
TryPut(t, status) ==
    \/ Put(t, status)
    \/ "put" \in Faults /\ UNCHANGED blob

\* An audit append whose error is dropped (let _ = ...).
TryRecord(t, event) ==
    \/ Record(t, event)
    \/ "audit" \in Faults /\ UNCHANGED audit

\* The blob is believed whether or not the job is settled.
Mutant_SnapshotTrustsBlob(t) ==
    IF pointer[t] # "none" THEN pointer[t]
    ELSE IF t \in inFlight THEN "working"
    ELSE IF HasBlob(t) THEN blob[t].status
    ELSE IF Live(t) THEN "working" ELSE "unknown"

\* No pointer: the blob alone tells the outcome, as in release 0.1.0.
Mutant_SnapshotIgnoresPointer(t) ==
    IF t \in inFlight \/ Live(t) THEN "working"
    ELSE IF HasBlob(t) THEN blob[t].status ELSE "unknown"

\* snapshot_task, as tasks/get reports it when nothing moves under the read:
\* the pointer, then the in-flight map, then the live job, then the blob.
Snapshot(t) ==
    IF pointer[t] # "none" THEN pointer[t]
    ELSE IF t \in inFlight \/ Live(t) THEN "working"
    ELSE IF HasBlob(t) THEN blob[t].status ELSE "unknown"

(***************************************************************************)
(* enqueue_task                                                            *)
(***************************************************************************)
SubmitGoto(t, from, to) ==
    /\ submit[t] = from
    /\ submit' = [submit EXCEPT ![t] = to]

\* The in-flight entry is written before the job becomes claimable.
EnqueueMark(t) ==
    /\ SubmitGoto(t, "new", "marked")
    /\ inFlight' = inFlight \union {t}
    /\ UNCHANGED <<queueVars, blob, audit, worker, cancel, undecodable, histVars>>

EnqueueJob(t) ==
    /\ SubmitGoto(t, "marked", "landed")
    /\ Enqueue(t)
    /\ UNCHANGED <<blob, audit, inFlight, worker, cancel, undecodable, histVars>>

EnqueueFails(t) ==
    /\ "enqueue" \in Faults
    /\ SubmitGoto(t, "marked", "refused")
    /\ UNCHANGED <<queueVars, blob, audit, inFlight, worker, cancel, undecodable,
                   histVars>>

\* The entry is kept when the enqueue fails.
Mutant_EnqueueNotUnmarked(t) ==
    /\ SubmitGoto(t, "refused", "rejected")
    /\ UNCHANGED <<queueVars, blob, audit, inFlight, worker, cancel, undecodable,
                   histVars>>

\* The optimistic entry is dropped and the client gets an error.
EnqueueUnmark(t) ==
    /\ SubmitGoto(t, "refused", "rejected")
    /\ inFlight' = inFlight \ {t}
    /\ UNCHANGED <<queueVars, blob, audit, worker, cancel, undecodable, histVars>>

EnqueueRecord(t) ==
    /\ SubmitGoto(t, "landed", "submitted")
    /\ TryRecord(t, "submitted")
    /\ UNCHANGED <<queueVars, blob, inFlight, worker, cancel, undecodable, histVars>>

\* The in-flight entry is written after the enqueue, as release 0.1.0 did.
Mutant_EnqueueMarksLast(t) ==
    \/ /\ SubmitGoto(t, "new", "landed")
       /\ Enqueue(t)
       /\ UNCHANGED <<blob, audit, inFlight, worker, cancel, undecodable, histVars>>
    \/ /\ SubmitGoto(t, "landed", "submitted")
       /\ inFlight' = inFlight \union {t}
       /\ TryRecord(t, "submitted")
       /\ UNCHANGED <<queueVars, blob, worker, cancel, undecodable, histVars>>

EnqueueTask(t) ==
    \/ EnqueueMark(t) \/ EnqueueJob(t) \/ EnqueueFails(t)
    \/ EnqueueUnmark(t) \/ EnqueueRecord(t)

(***************************************************************************)
(* run_tool_worker and process_job                                         *)
(***************************************************************************)
Goto(w, pc) == worker' = [worker EXCEPT ![w] = [@ EXCEPT !.pc = pc]]
Resolve(w, pc, outcome) ==
    worker' = [worker EXCEPT ![w] = [@ EXCEPT !.pc = pc, !.outcome = outcome]]

\* The worker keeps the job record of the claim, attempts included.
ClaimJob(w, t) ==
    /\ At(w, "idle")
    /\ Claim(w, t)
    /\ worker' = [worker EXCEPT ![w] =
                    [pc |-> "decode", task |-> t, attempts |-> job[t].attempts,
                     outcome |-> "none"]]
    /\ claims' = [claims EXCEPT ![t] = @ + 1]
    /\ UNCHANGED <<blob, audit, inFlight, submit, cancel, undecodable, asked,
                   confirmed, misread>>

\* The payload deserializes: the worker marks the task in flight.
MarkInFlight(w) ==
    /\ At(w, "decode")
    /\ TaskOf(w) \notin undecodable
    /\ inFlight' = inFlight \union {TaskOf(w)}
    /\ Goto(w, "start")
    /\ UNCHANGED <<queueVars, blob, audit, submit, cancel, undecodable, histVars>>

\* The payload that cannot be read is retried, like a tool's error.
Mutant_DecodeRetries(w) ==
    /\ At(w, "decode")
    /\ TaskOf(w) \in undecodable
    /\ Resolve(w, "record", "retry")
    /\ misread' = misread \union {TaskOf(w)}
    /\ UNCHANGED <<queueVars, blob, audit, inFlight, submit, cancel, undecodable,
                   claims, asked, confirmed>>

\* It does not: write_failed and dead_letter follow, the tool is not called.
DecodeFails(w) ==
    /\ At(w, "decode")
    /\ TaskOf(w) \in undecodable
    /\ Resolve(w, "put", "failed")
    /\ misread' = misread \union {TaskOf(w)}
    /\ UNCHANGED <<queueVars, blob, audit, inFlight, submit, cancel, undecodable,
                   claims, asked, confirmed>>

RecordStarted(w) ==
    /\ At(w, "start")
    /\ TryRecord(TaskOf(w), "started")
    /\ Goto(w, "call")
    /\ UNCHANGED <<queueVars, blob, inFlight, submit, cancel, undecodable, histVars>>

\* The entry is cleared only when the tool succeeds.
Mutant_CallClearsOnlyOk(w) ==
    /\ At(w, "call")
    /\ \E result \in {"ok", "err"} :
         /\ inFlight' = IF result = "ok" THEN inFlight \ {TaskOf(w)} ELSE inFlight
         /\ Resolve(w, "decide", result)
    /\ UNCHANGED <<queueVars, blob, audit, submit, cancel, undecodable, histVars>>

\* call_tool returns, and the in-flight entry goes before anything is written.
\* A tool may watch its token, ignore it, or just fail.
CallTool(w) ==
    /\ At(w, "call")
    /\ inFlight' = inFlight \ {TaskOf(w)}
    /\ \E result \in {"ok", "err"} : Resolve(w, "decide", result)
    /\ UNCHANGED <<queueVars, blob, audit, submit, cancel, undecodable, histVars>>

\* Every error of the tool is taken for a cancellation.
Mutant_VerdictErrIsCancel(w) ==
    IF worker[w].outcome = "ok" THEN "completed" ELSE "cancelled"

\* Terminal one attempt early.
Mutant_VerdictEarly(w) ==
    IF worker[w].outcome = "ok" THEN "completed"
    ELSE IF w \in fired THEN "cancelled"
    ELSE IF worker[w].attempts + 2 >= MaxAttempts THEN "failed" ELSE "retry"

\* Terminal one attempt late: > for >=.
Mutant_VerdictLate(w) ==
    IF worker[w].outcome = "ok" THEN "completed"
    ELSE IF w \in fired THEN "cancelled"
    ELSE IF worker[w].attempts + 1 > MaxAttempts THEN "failed" ELSE "retry"

\* From the token as it is by now, and the attempts of the claimed record.
Verdict(w) ==
    IF worker[w].outcome = "ok" THEN "completed"
    ELSE IF w \in fired THEN "cancelled"
    ELSE IF worker[w].attempts + 1 >= MaxAttempts THEN "failed" ELSE "retry"

\* No blob for the outcomes that get a pointer.
Mutant_DecideSkipsPut(w) ==
    /\ At(w, "decide")
    /\ Resolve(w, IF Verdict(w) = "failed" THEN "put" ELSE "record", Verdict(w))
    /\ UNCHANGED <<queueVars, blob, audit, inFlight, submit, cancel, undecodable,
                   histVars>>

\* Decided once: a token that fires later changes nothing.
DecideOutcome(w) ==
    /\ At(w, "decide")
    /\ Resolve(w, IF Verdict(w) = "retry" THEN "record" ELSE "put", Verdict(w))
    /\ UNCHANGED <<queueVars, blob, audit, inFlight, submit, cancel, undecodable,
                   histVars>>

\* The outcome is settled without its audit entry.
Mutant_PutSkipsAudit(w) ==
    /\ At(w, "put")
    /\ TryPut(TaskOf(w), worker[w].outcome)
    /\ Goto(w, "settle")
    /\ UNCHANGED <<queueVars, audit, inFlight, submit, cancel, undecodable, histVars>>

PutResult(w) ==
    /\ At(w, "put")
    /\ TryPut(TaskOf(w), worker[w].outcome)
    /\ Goto(w, "record")
    /\ UNCHANGED <<queueVars, audit, inFlight, submit, cancel, undecodable, histVars>>

\* A failed attempt that will be retried is on record as failed, too.
RecordOutcome(w) ==
    /\ At(w, "record")
    /\ TryRecord(TaskOf(w),
                 IF worker[w].outcome = "retry" THEN "failed" ELSE worker[w].outcome)
    /\ Goto(w, "settle")
    /\ UNCHANGED <<queueVars, blob, inFlight, submit, cancel, undecodable, histVars>>

\* What every settlement leaves alone, and the worker back at its loop.
Finish(w) ==
    /\ worker' = [worker EXCEPT ![w] = IdleWorker]
    /\ UNCHANGED <<blob, audit, inFlight, submit, cancel, undecodable, histVars>>

\* A failure is acked like any other outcome.
Mutant_AckFailure(w) ==
    /\ At(w, "settle")
    /\ worker[w].outcome # "retry"
    /\ AckWith(w, TaskOf(w), worker[w].outcome)
    /\ Finish(w)

AckJob(w) ==
    /\ At(w, "settle")
    /\ worker[w].outcome \in {"completed", "cancelled"}
    /\ AckWith(w, TaskOf(w), worker[w].outcome)
    /\ Finish(w)

DeadLetterJob(w) ==
    /\ At(w, "settle")
    /\ worker[w].outcome = "failed"
    /\ DeadLetter(w, TaskOf(w))
    /\ Finish(w)

NackJob(w) ==
    /\ At(w, "settle")
    /\ worker[w].outcome = "retry"
    /\ Nack(w, TaskOf(w))
    /\ Finish(w)

\* The error ends the worker (? for if let Err).
Mutant_SettleFailureExits(w) ==
    /\ At(w, "settle")
    /\ "settle" \in Faults \/ ~Holds(w, TaskOf(w))
    /\ Abandon(w, TaskOf(w))
    /\ worker' = [worker EXCEPT ![w] = DeadWorker]
    /\ UNCHANGED <<blob, audit, inFlight, submit, cancel, undecodable, histVars>>

\* The settlement errs: the claim was lost meanwhile, or the queue failed.
\* The error is logged and the worker goes on to its next job.
SettleFails(w) ==
    /\ At(w, "settle")
    /\ "settle" \in Faults \/ ~Holds(w, TaskOf(w))
    /\ Abandon(w, TaskOf(w))
    /\ Finish(w)

\* The tool panics: the worker task ends, and nothing it did is undone.
Panic(w) ==
    /\ "panic" \in Faults
    /\ At(w, "call")
    /\ Abandon(w, TaskOf(w))
    /\ worker' = [worker EXCEPT ![w] = DeadWorker]
    /\ UNCHANGED <<blob, audit, inFlight, submit, cancel, undecodable, histVars>>

RunToolWorker(w) ==
    \/ \E t \in Tasks : ClaimJob(w, t)
    \/ MarkInFlight(w) \/ DecodeFails(w) \/ RecordStarted(w) \/ CallTool(w)
    \/ DecideOutcome(w) \/ PutResult(w) \/ RecordOutcome(w)
    \/ AckJob(w) \/ DeadLetterJob(w) \/ NackJob(w) \/ SettleFails(w)

(***************************************************************************)
(* cancel_task                                                             *)
(***************************************************************************)
CancelAt(c, pc) == cancel[c].pc = pc
CancelOf(c) == cancel[c].task
CancelGoto(c, pc) == cancel' = [cancel EXCEPT ![c] = [@ EXCEPT !.pc = pc]]
CancelDone(c) == cancel' = [cancel EXCEPT ![c] = IdleCancel]

\* The peek that decides who owns the result blob.
CancelPeek(c, t) ==
    /\ CancelAt(c, "idle")
    /\ cancel' = [cancel EXCEPT ![c] =
                    [task |-> t,
                     pc |-> IF Waiting(t) THEN "forget"
                            ELSE IF job[t].status = "claimed" THEN "signal"
                            ELSE "check"]]
    /\ asked' = asked \union {t}
    /\ UNCHANGED <<queueVars, blob, audit, inFlight, submit, worker, undecodable,
                   claims, confirmed, misread>>

\* Pending or scheduled: drop the in-flight entry, ...
CancelForget(c) ==
    /\ CancelAt(c, "forget")
    /\ inFlight' = inFlight \ {CancelOf(c)}
    /\ CancelGoto(c, "put")
    /\ UNCHANGED <<queueVars, blob, audit, submit, worker, undecodable, histVars>>

\* ... record_cancelled: the Cancelled blob, ...
CancelPut(c) ==
    /\ CancelAt(c, "put")
    /\ TryPut(CancelOf(c), "cancelled")
    /\ CancelGoto(c, "record")
    /\ UNCHANGED <<queueVars, audit, inFlight, submit, worker, undecodable, histVars>>

\* ... its audit entry, ...
CancelRecord(c) ==
    /\ CancelAt(c, "record")
    /\ TryRecord(CancelOf(c), "cancelled")
    /\ CancelGoto(c, "remove")
    /\ UNCHANGED <<queueVars, blob, inFlight, submit, worker, undecodable, histVars>>

\* ... and the queue cancel, whose outcome is ignored.
CancelRemove(c) ==
    /\ CancelAt(c, "remove")
    /\ Cancel(CancelOf(c))
    /\ CancelDone(c)
    /\ confirmed' = confirmed \union {CancelOf(c)}
    /\ UNCHANGED <<blob, audit, inFlight, submit, worker, undecodable, claims, asked,
                   misread>>

\* Claimed: fire the token. Requested and Removed are treated alike.
CancelSignal(c) ==
    /\ CancelAt(c, "signal")
    /\ Cancel(CancelOf(c))
    /\ CancelGoto(c, IF CancelOutcome(CancelOf(c)) = "notfound" THEN "check" ELSE "log")
    /\ UNCHANGED <<blob, audit, inFlight, submit, worker, undecodable, histVars>>

CancelLog(c) ==
    /\ CancelAt(c, "log")
    /\ TryRecord(CancelOf(c), "cancelled")
    /\ CancelDone(c)
    /\ confirmed' = confirmed \union {CancelOf(c)}
    /\ UNCHANGED <<queueVars, blob, inFlight, submit, worker, undecodable, claims,
                   asked, misread>>

\* terminal_or_not_found: an error to the client either way.
CancelCheck(c) ==
    /\ CancelAt(c, "check")
    /\ CancelDone(c)
    /\ UNCHANGED <<queueVars, blob, audit, inFlight, submit, worker, undecodable,
                   histVars>>

\* The queue's cancel errs: so does the request, and what it wrote remains.
CancelFails(c) ==
    /\ "cancel" \in Faults
    /\ cancel[c].pc \in {"remove", "signal"}
    /\ CancelDone(c)
    /\ UNCHANGED <<queueVars, blob, audit, inFlight, submit, worker, undecodable,
                   histVars>>

CancelStep(c) ==
    \/ CancelForget(c) \/ CancelPut(c) \/ CancelRecord(c) \/ CancelRemove(c)
    \/ CancelSignal(c) \/ CancelLog(c) \/ CancelCheck(c) \/ CancelFails(c)

CancelTask(c) ==
    \/ \E t \in Tasks : CancelPeek(c, t)
    \/ CancelStep(c)

(***************************************************************************)
(* The queue's own steps, and a restart of the process                     *)
(***************************************************************************)
\* A lease ends when its worker is gone, or under a worker that is too slow:
\* the worker loop never renews it.
QueueExpireLease(t) ==
    /\ "lease" \in Faults \/ job[t].holder = NoWorker
    /\ ExpireLease(t)
    /\ UNCHANGED <<blob, audit, inFlight, submit, worker, cancel, undecodable, histVars>>

QueueEndBackoff(t) ==
    /\ EndBackoff(t)
    /\ UNCHANGED <<blob, audit, inFlight, submit, worker, cancel, undecodable, histVars>>

QueueDropRecord(t) ==
    /\ DropRecord(t)
    /\ UNCHANGED <<blob, audit, inFlight, submit, worker, cancel, undecodable, histVars>>

\* Memory is lost; the queue, the blobs and the audit log are reopened.
Restart ==
    /\ "crash" \in Faults
    /\ job' = [t \in Tasks |-> [job[t] EXCEPT !.holder = NoWorker]]
    /\ fired' = {}
    /\ inFlight' = {}
    /\ worker' = [w \in Workers |-> IdleWorker]
    /\ cancel' = [c \in Cancels |-> IdleCancel]
    /\ submit' = [t \in Tasks |->
                    IF submit[t] \in {"marked", "refused"} THEN "rejected"
                    ELSE IF submit[t] = "landed" THEN "submitted" ELSE submit[t]]
    /\ \E bad, good \in SUBSET {t \in Tasks : Live(t)} :
         /\ "upgrade" \in Faults \/ bad = {}
         /\ "rollback" \in Faults \/ good = {}
         /\ undecodable' = (undecodable \union bad) \ good
    /\ UNCHANGED <<pointer, blob, audit, histVars>>

Environment ==
    \/ \E t \in Tasks : QueueExpireLease(t) \/ QueueEndBackoff(t) \/ QueueDropRecord(t)
    \/ \E w \in Workers : Panic(w)

\* What happens while the process runs.
Running ==
    \/ \E t \in Tasks : EnqueueTask(t)
    \/ \E w \in Workers : RunToolWorker(w)
    \/ \E c \in Cancels : CancelTask(c)
    \/ Environment

Next == Running \/ Restart

Spec == Init /\ [][Next]_vars

(***************************************************************************)
(* Fairness: tokio runs every task that is ready, tools return, a lost     *)
(* lease runs out and a backoff ends.  Nobody has to call a method, and    *)
(* nothing has to fail.                                                    *)
(***************************************************************************)
Fairness ==
    /\ \A t \in Tasks :
         /\ WF_vars(EnqueueJob(t) \/ EnqueueUnmark(t) \/ EnqueueRecord(t))
         /\ WF_vars(QueueExpireLease(t) /\ job[t].holder = NoWorker)
         /\ WF_vars(QueueEndBackoff(t))
    /\ \A w \in Workers : WF_vars(RunToolWorker(w))
    /\ \A c \in Cancels : WF_vars(CancelStep(c))

FairSpec == Spec /\ Fairness
==============================================================================
