----------------------- MODULE TaskBackendSafetyProofs -----------------------
(***************************************************************************)
(* Inductive invariants of TaskBackend, for all tasks, workers, requests,  *)
(* faults and max_attempts.  Each rests on the types (TaskBackendProofs)   *)
(* and on HolderInv, that a claim is held by the worker busy with it.      *)
(***************************************************************************)
EXTENDS TaskBackendProofs

(***************************************************************************)
(* What the updates do, field by field.                                    *)
(***************************************************************************)
\* Nobody but w moves.
OnlyWorker(w) == \A v \in Workers \ {w} : worker'[v] = worker[v]
\* Nothing but the job of t changes.
OnlyJob(t) == \A u \in Tasks \ {t} : job'[u] = job[u]
OnlyCancel(c) == \A d \in Cancels \ {c} : cancel'[d] = cancel[d]

LEMMA WorkerFields ==
    ASSUME Typed, NEW w \in Workers
    PROVE  /\ worker[w] = [pc |-> worker[w].pc, task |-> worker[w].task,
                           attempts |-> worker[w].attempts,
                           outcome |-> worker[w].outcome]
           /\ worker[w].attempts \in Nat
           /\ worker[w].pc \in Busy <=> worker[w].task \in Tasks
  BY DEF Typed, GoodWorker, WorkerState

LEMMA GotoFacts ==
    ASSUME Typed, NEW w \in Workers, NEW pc, Goto(w, pc)
    PROVE  /\ worker'[w].pc = pc
           /\ worker'[w].task = worker[w].task
           /\ worker'[w].attempts = worker[w].attempts
           /\ worker'[w].outcome = worker[w].outcome
           /\ OnlyWorker(w)
  <1>1. worker'[w] = [worker[w] EXCEPT !.pc = pc]
    BY DEF Goto, Typed
  <1> QED
    BY <1>1, WorkerFields DEF Goto, Typed, OnlyWorker

LEMMA ResolveFacts ==
    ASSUME Typed, NEW w \in Workers, NEW pc, NEW outcome, Resolve(w, pc, outcome)
    PROVE  /\ worker'[w].pc = pc
           /\ worker'[w].task = worker[w].task
           /\ worker'[w].attempts = worker[w].attempts
           /\ worker'[w].outcome = outcome
           /\ OnlyWorker(w)
  <1>1. worker'[w] = [worker[w] EXCEPT !.pc = pc, !.outcome = outcome]
    BY DEF Resolve, Typed
  <1> QED
    BY <1>1, WorkerFields DEF Resolve, Typed, OnlyWorker

\* A settlement leaves the worker idle, a panic leaves it dead.
LEMMA LeaveFacts ==
    ASSUME Typed, NEW w \in Workers,
           worker' = [worker EXCEPT ![w] = IdleWorker]
             \/ worker' = [worker EXCEPT ![w] = DeadWorker]
    PROVE  /\ worker'[w].pc \in {"idle", "dead"}
           /\ worker'[w].task = NoTask
           /\ worker'[w].outcome = "none"
           /\ OnlyWorker(w)
  BY DEF Typed, IdleWorker, DeadWorker, OnlyWorker

LEMMA CancelFacts ==
    ASSUME Typed, NEW c \in Cancels, NEW pc, CancelGoto(c, pc) \/ CancelDone(c)
    PROVE  /\ CancelGoto(c, pc) => cancel'[c].pc = pc /\ cancel'[c].task = cancel[c].task
           /\ ~CancelGoto(c, pc) => cancel'[c] = IdleCancel
           /\ OnlyCancel(c)
  BY DEF Typed, GoodCancel, CancelState, CancelGoto, CancelDone, OnlyCancel

LEMMA UseAttemptFacts ==
    ASSUME QueueTypeOK, NEW t \in Tasks, NEW status \in {"pending", "scheduled"},
           UseAttempt(t, status)
    PROVE  /\ job'[t].attempts = job[t].attempts + 1
           /\ job'[t].status = IF job[t].attempts + 1 >= MaxAttempts THEN "dead" ELSE status
           /\ job'[t].holder = NoWorker
           /\ OnlyJob(t)
  BY DEF UseAttempt, QueueTypeOK, OnlyJob

\* A claim gives the job to the worker, and gives it a token of its own.
LEMMA ClaimFacts ==
    ASSUME QueueTypeOK, NEW t \in Tasks, NEW w \in Workers, Claim(w, t)
    PROVE  /\ job[t].status = "pending" /\ job'[t].status = "claimed"
           /\ job'[t].attempts = job[t].attempts
           /\ job'[t].holder = w
           /\ OnlyJob(t)
           /\ fired' = fired \ {w} /\ pointer' = pointer
  <1>1. job[t] \in Job
    BY DEF QueueTypeOK
  <1> QED
    BY <1>1 DEF Claim, QueueTypeOK, OnlyJob, Job

\* After any settlement by w, successful or not, w holds the job no longer.
LEMMA SettleFacts ==
    ASSUME QueueTypeOK, NEW t \in Tasks, NEW w \in Workers,
           \/ DeadLetter(w, t) \/ Nack(w, t) \/ Abandon(w, t)
           \/ \E status \in {"completed", "cancelled"} : AckWith(w, t, status)
    PROVE  /\ ~Holds(w, t)'
           /\ \A v \in Workers : Holds(v, t)' => Holds(v, t)
           /\ OnlyJob(t)
           /\ fired' = fired
  <1>1. job[t] \in Job
    BY DEF QueueTypeOK
  <1> USE NoWorkerAssumption DEF QueueTypeOK, OnlyJob, Job, Holds
  <1>2. CASE DeadLetter(w, t)
    BY <1>1, <1>2 DEF DeadLetter
  <1>3. CASE Nack(w, t)
    BY <1>3, UseAttemptFacts DEF Nack
  <1>4. CASE Abandon(w, t)
    BY <1>1, <1>4 DEF Abandon
  <1>5. CASE \E status \in {"completed", "cancelled"} : AckWith(w, t, status)
    BY <1>1, <1>5 DEF AckWith
  <1> QED
    BY <1>2, <1>3, <1>4, <1>5

\* A queue step that no worker takes gives no worker a claim.
LEMMA TimerFacts ==
    ASSUME QueueTypeOK, NEW t \in Tasks,
           ExpireLease(t) \/ EndBackoff(t) \/ DropRecord(t) \/ Enqueue(t) \/ Cancel(t)
    PROVE  /\ \A v \in Workers : Holds(v, t)' => Holds(v, t)
           /\ OnlyJob(t)
           /\ pointer' = pointer
  <1>1. job[t] \in Job
    BY DEF QueueTypeOK
  <1> USE NoWorkerAssumption DEF QueueTypeOK, OnlyJob, Job, Holds, NoJob
  <1>2. CASE ExpireLease(t)
    BY <1>2, UseAttemptFacts DEF ExpireLease
  <1>3. CASE EndBackoff(t)
    BY <1>1, <1>3 DEF EndBackoff
  <1>4. CASE DropRecord(t)
    BY <1>1, <1>4 DEF DropRecord
  <1>5. CASE Enqueue(t)
    BY <1>1, <1>5 DEF Enqueue
  <1>6. CASE Cancel(t)
    BY <1>1, <1>6 DEF Cancel
  <1> QED
    BY <1>2, <1>3, <1>4, <1>5, <1>6

(***************************************************************************)
(* A claim is held by the worker that is busy with it.                     *)
(***************************************************************************)
HolderInv == \A v \in Workers, u \in Tasks : Holds(v, u) => TaskOf(v) = u

LEMMA HolderInit == Init => HolderInv
  BY DEF Init, QueueInit, NoJob, HolderInv, Holds

\* It is enough that no worker gains a claim and none leaves its task.
LEMMA HolderFrame ==
    ASSUME HolderInv,
           \A v \in Workers, u \in Tasks : Holds(v, u)' => Holds(v, u),
           \A v \in Workers : TaskOf(v)' = TaskOf(v)
    PROVE  HolderInv'
  BY DEF HolderInv

LEMMA HolderWorker ==
    ASSUME Typed, HolderInv, NEW w \in Workers, RunToolWorker(w) \/ Panic(w)
    PROVE  HolderInv'
  <1>0. QueueTypeOK
    BY DEF Typed
  <1>1. ASSUME NEW t \in Tasks, ClaimJob(w, t)  PROVE HolderInv'
    <2>1. worker'[w].task = t /\ OnlyWorker(w)
      BY <1>1 DEF ClaimJob, Typed, OnlyWorker
    <2>2. \A u \in Tasks : ~Holds(w, u)
      BY <1>1, WorkerFields DEF ClaimJob, At, HolderInv, TaskOf, Busy
    <2>3. /\ OnlyJob(t) /\ job'[t].holder = w
      BY <1>0, <1>1, ClaimFacts DEF ClaimJob
    <2> QED
      BY <2>1, <2>2, <2>3 DEF HolderInv, Holds, TaskOf, OnlyJob, OnlyWorker
  <1>2. ASSUME UNCHANGED job,
               \E pc, outcome : Goto(w, pc) \/ Resolve(w, pc, outcome)
        PROVE  HolderInv'
    <2>1. PICK pc, outcome : Goto(w, pc) \/ Resolve(w, pc, outcome)
      BY <1>2
    <2>2. worker'[w].task = worker[w].task /\ OnlyWorker(w)
      BY <2>1, GotoFacts, ResolveFacts
    <2>3. \A v \in Workers : TaskOf(v)' = TaskOf(v)
      BY <2>2 DEF TaskOf, OnlyWorker
    <2> QED
      BY <1>2, <2>3, HolderFrame DEF Holds
  <1>3. ASSUME AckJob(w) \/ DeadLetterJob(w) \/ NackJob(w) \/ SettleFails(w) \/ Panic(w)
        PROVE  HolderInv'
    <2>0. worker[w].pc \in {"settle", "call"}
      BY <1>3 DEF AckJob, DeadLetterJob, NackJob, SettleFails, Panic, At
    <2>1. PICK t \in Tasks : t = TaskOf(w)
      BY <2>0, WorkerFields DEF Busy, WorkerPC, TaskOf
    <2>2. \/ DeadLetter(w, t) \/ Nack(w, t) \/ Abandon(w, t)
          \/ \E status \in {"completed", "cancelled"} : AckWith(w, t, status)
      BY <1>3, <2>1 DEF AckJob, DeadLetterJob, NackJob, SettleFails, Panic
    <2>3. /\ ~Holds(w, t)'
          /\ \A v \in Workers : Holds(v, t)' => Holds(v, t)
          /\ OnlyJob(t)
      BY <1>0, <2>1, <2>2, SettleFacts
    <2>4. OnlyWorker(w)
      BY <1>3, LeaveFacts
      DEF AckJob, DeadLetterJob, NackJob, SettleFails, Panic, Finish
    <2>5. \A u \in Tasks \ {t} : ~Holds(w, u)'
      BY <2>1, <2>3 DEF HolderInv, Holds, OnlyJob
    <2> QED
      BY <2>3, <2>4, <2>5 DEF HolderInv, Holds, TaskOf, OnlyJob, OnlyWorker
  <1> QED
    BY <1>1, <1>2, <1>3
    DEF RunToolWorker, MarkInFlight, DecodeFails, RecordStarted, CallTool, DecideOutcome,
        PutResult, RecordOutcome, queueVars

LEMMA HolderStep == Typed /\ HolderInv /\ [Next]_vars => HolderInv'
  <1> SUFFICES ASSUME Typed, HolderInv, [Next]_vars  PROVE HolderInv'
    OBVIOUS
  <1>0. QueueTypeOK
    BY DEF Typed
  <1>1. ASSUME NEW w \in Workers, RunToolWorker(w) \/ Panic(w)  PROVE HolderInv'
    BY <1>1, HolderWorker
  <1>2. ASSUME UNCHANGED <<job, worker>>  PROVE HolderInv'
    BY <1>2 DEF HolderInv, Holds, TaskOf
  <1>3. ASSUME UNCHANGED worker, NEW t \in Tasks,
               ExpireLease(t) \/ EndBackoff(t) \/ DropRecord(t) \/ Enqueue(t) \/ Cancel(t)
        PROVE  HolderInv'
    <2>1. \A v \in Workers : Holds(v, t)' => Holds(v, t)
      BY <1>0, <1>3, TimerFacts
    <2>2. OnlyJob(t)
      BY <1>0, <1>3, TimerFacts
    <2>3. \A v \in Workers, u \in Tasks : Holds(v, u)' => Holds(v, u)
      BY <2>1, <2>2 DEF OnlyJob, Holds
    <2> QED
      BY <1>3, <2>3, HolderFrame DEF TaskOf
  <1>4. ASSUME NEW t \in Tasks, EnqueueTask(t)  PROVE HolderInv'
    BY <1>2, <1>3, <1>4
    DEF EnqueueTask, EnqueueMark, EnqueueJob, EnqueueFails, EnqueueUnmark, EnqueueRecord,
        queueVars
  <1>5. ASSUME NEW c \in Cancels, CancelTask(c)  PROVE HolderInv'
    <2>1. CancelRemove(c) \/ CancelSignal(c) => CancelOf(c) \in Tasks
      BY DEF CancelRemove, CancelSignal, CancelAt, CancelOf, Typed, GoodCancel
    <2>2. CASE CancelRemove(c) \/ CancelSignal(c)
      BY <1>3, <2>1, <2>2 DEF CancelRemove, CancelSignal
    <2> QED
      BY <1>2, <1>5, <2>2
      DEF CancelTask, CancelStep, CancelPeek, CancelForget, CancelPut, CancelRecord,
          CancelLog, CancelCheck, CancelFails, queueVars
  <1>6. ASSUME NEW t \in Tasks,
               QueueExpireLease(t) \/ QueueEndBackoff(t) \/ QueueDropRecord(t)
        PROVE  HolderInv'
    BY <1>3, <1>6 DEF QueueExpireLease, QueueEndBackoff, QueueDropRecord
  <1>7. CASE Restart
    <2>1. \A u \in Tasks : job'[u].holder = NoWorker
      BY <1>0, <1>7 DEF Restart, QueueTypeOK, Job
    <2> QED
      BY <2>1, NoWorkerAssumption DEF HolderInv, Holds
  <1>8. CASE UNCHANGED vars
    BY <1>2, <1>8 DEF vars, queueVars
  <1> QED
    BY <1>1, <1>4, <1>5, <1>6, <1>7, <1>8 DEF Next, Running, Environment

LEMMA AlwaysHolder == Spec => []HolderInv
  BY HolderInit, HolderStep, AlwaysTyped, PTL DEF Spec

(***************************************************************************)
(* Cancelled only if asked.  The token of a claim fires, and a worker      *)
(* decides for "cancelled", only for a task somebody asked to cancel.      *)
(***************************************************************************)
CancelsAsked == \A c \in Cancels : ~CancelAt(c, "idle") => CancelOf(c) \in asked

TokensAsked == \A w \in fired : worker[w].pc \in Busy => TaskOf(w) \in asked

VerdictsAsked ==
    \A w \in Workers :
        worker[w].pc \in {"put", "record", "settle"} /\ worker[w].outcome = "cancelled" =>
            TaskOf(w) \in asked

AskedInv == CancelledOnlyIfAsked /\ CancelsAsked /\ TokensAsked /\ VerdictsAsked

LEMMA AskedInit == Init => AskedInv
  BY DEF Init, QueueInit, StoreInit, AuditInit, NoBlob, IdleWorker, IdleCancel, AskedInv,
         CancelledOnlyIfAsked, CancelsAsked, TokensAsked, VerdictsAsked, CancelAt

\* A put or an append of anything but an unasked cancellation is harmless.
LEMMA AskedPut ==
    ASSUME Typed, CancelledOnlyIfAsked, NEW t \in Tasks, NEW status,
           status = "cancelled" => t \in asked,
           TryPut(t, status), UNCHANGED <<pointer, audit, asked>>
    PROVE  CancelledOnlyIfAsked'
  <1>1. \A u \in Tasks : blob'[u].status = "cancelled" =>
          blob[u].status = "cancelled" \/ (u = t /\ status = "cancelled")
    BY DEF TryPut, Put, Typed, StoreTypeOK
  <1> QED
    BY <1>1 DEF CancelledOnlyIfAsked

LEMMA AskedRecord ==
    ASSUME Typed, CancelledOnlyIfAsked, NEW t \in Tasks, NEW event,
           event = "cancelled" => t \in asked,
           TryRecord(t, event), UNCHANGED <<pointer, blob, asked>>
    PROVE  CancelledOnlyIfAsked'
  <1>1. \A u \in Tasks : "cancelled" \in audit'[u] =>
          "cancelled" \in audit[u] \/ (u = t /\ event = "cancelled")
    BY DEF TryRecord, Record, Typed, AuditTypeOK
  <1> QED
    BY <1>1 DEF CancelledOnlyIfAsked

\* A step that leaves the stores alone, and at most adds to what was asked.
LEMMA AskedStoresFrame ==
    ASSUME CancelledOnlyIfAsked, UNCHANGED <<pointer, blob, audit>>, asked \subseteq asked'
    PROVE  CancelledOnlyIfAsked'
  BY DEF CancelledOnlyIfAsked

LEMMA AskedCancelsFrame ==
    ASSUME CancelsAsked, UNCHANGED <<cancel, asked>>
    PROVE  CancelsAsked'
  BY DEF CancelsAsked, CancelAt, CancelOf

LEMMA AskedWorkersFrame ==
    ASSUME TokensAsked, VerdictsAsked, UNCHANGED worker, fired' \subseteq fired,
           asked \subseteq asked'
    PROVE  TokensAsked' /\ VerdictsAsked'
  BY DEF TokensAsked, VerdictsAsked, TaskOf

\* A busy worker that keeps its task keeps its token asked for.
LEMMA AskedTokensFrame ==
    ASSUME Typed, TokensAsked, NEW w \in Workers, worker[w].pc \in Busy,
           OnlyWorker(w), worker'[w].pc \in Busy => worker'[w].task = worker[w].task,
           fired' = fired, asked' = asked
    PROVE  TokensAsked'
  <1>1. fired \subseteq Workers
    BY DEF Typed, QueueTypeOK
  <1> QED
    BY <1>1 DEF TokensAsked, TaskOf, OnlyWorker

LEMMA AskedWorker ==
    ASSUME Typed, HolderInv, AskedInv, NEW w \in Workers, RunToolWorker(w) \/ Panic(w)
    PROVE  AskedInv'
  <1>0. QueueTypeOK /\ fired \subseteq Workers
    BY DEF Typed, QueueTypeOK
  <1> USE DEF AskedInv
  <1>1. ASSUME NEW t \in Tasks, ClaimJob(w, t)  PROVE AskedInv'
    <2>1. worker'[w].pc = "decode" /\ OnlyWorker(w)
      BY <1>1 DEF ClaimJob, Typed, OnlyWorker
    <2>2. fired' = fired \ {w} /\ pointer' = pointer
      BY <1>0, <1>1, ClaimFacts DEF ClaimJob
    <2>3. TokensAsked' /\ VerdictsAsked'
      BY <1>0, <1>1, <2>1, <2>2
      DEF TokensAsked, VerdictsAsked, TaskOf, OnlyWorker, ClaimJob
    <2>4. CancelledOnlyIfAsked'
      BY <1>1, <2>2, AskedStoresFrame DEF ClaimJob
    <2>5. CancelsAsked'
      BY <1>1, AskedCancelsFrame DEF ClaimJob
    <2> QED
      BY <2>3, <2>4, <2>5
  \* Steps within a job: who they may make a "cancelled" worker, and the stores.
  <1>2. ASSUME worker[w].pc \in Busy, UNCHANGED <<pointer, fired, cancel, asked>>,
               CancelledOnlyIfAsked', OnlyWorker(w), worker'[w].task = worker[w].task,
               worker'[w].pc \in {"put", "record", "settle"}
                 /\ worker'[w].outcome = "cancelled" => TaskOf(w) \in asked
        PROVE  AskedInv'
    <2>1. TokensAsked'
      BY <1>2, AskedTokensFrame
    <2>2. VerdictsAsked'
      BY <1>2 DEF VerdictsAsked, TaskOf, OnlyWorker
    <2> QED
      BY <1>2, <2>1, <2>2, AskedCancelsFrame
  <1>3. CASE MarkInFlight(w)
    <2>1. CancelledOnlyIfAsked'
      BY <1>3, AskedStoresFrame DEF MarkInFlight, queueVars, histVars
    <2> QED
      BY <1>2, <1>3, <2>1, GotoFacts
      DEF MarkInFlight, At, Busy, WorkerPC, queueVars, histVars
  <1>4. CASE DecodeFails(w)
    <2>1. CancelledOnlyIfAsked'
      BY <1>4, AskedStoresFrame DEF DecodeFails, queueVars, histVars
    <2> QED
      BY <1>2, <1>4, <2>1, ResolveFacts
      DEF DecodeFails, At, Busy, WorkerPC, queueVars, histVars
  <1>5. CASE RecordStarted(w)
    <2>1. TaskOf(w) \in Tasks /\ worker[w].pc \in Busy
      BY <1>5, WorkerFields DEF RecordStarted, At, Busy, WorkerPC, TaskOf
    <2>2. CancelledOnlyIfAsked'
      BY <1>5, <2>1, AskedRecord DEF RecordStarted, queueVars, histVars
    <2> QED
      BY <1>2, <1>5, <2>1, <2>2, GotoFacts DEF RecordStarted, queueVars, histVars
  <1>6. CASE CallTool(w)
    <2>1. CancelledOnlyIfAsked'
      BY <1>6, AskedStoresFrame DEF CallTool, queueVars, histVars
    <2>2. PICK result \in {"ok", "err"} : Resolve(w, "decide", result)
      BY <1>6 DEF CallTool
    <2>3. worker'[w].pc = "decide" /\ worker'[w].task = worker[w].task /\ OnlyWorker(w)
      BY <2>2, ResolveFacts
    <2> QED
      BY <1>2, <1>6, <2>1, <2>3 DEF CallTool, At, Busy, WorkerPC, queueVars, histVars
  <1>7. CASE DecideOutcome(w)
    <2>1. CancelledOnlyIfAsked'
      BY <1>7, AskedStoresFrame DEF DecideOutcome, queueVars, histVars
    <2>2. worker[w].pc \in Busy
      BY <1>7 DEF DecideOutcome, At, Busy, WorkerPC
    <2>3. Verdict(w) = "cancelled" => TaskOf(w) \in asked
      BY <2>2 DEF Verdict, TokensAsked
    <2>4. /\ worker'[w].outcome = Verdict(w)
          /\ worker'[w].task = worker[w].task
          /\ OnlyWorker(w)
      BY <1>7, ResolveFacts DEF DecideOutcome
    <2> QED
      BY <1>2, <1>7, <2>1, <2>2, <2>3, <2>4 DEF DecideOutcome, queueVars, histVars
  <1>8. CASE PutResult(w)
    <2>1. TaskOf(w) \in Tasks /\ worker[w].pc \in Busy
      BY <1>8, WorkerFields DEF PutResult, At, Busy, WorkerPC, TaskOf
    <2>2. worker[w].outcome = "cancelled" => TaskOf(w) \in asked
      BY <1>8 DEF PutResult, At, VerdictsAsked
    <2>3. CancelledOnlyIfAsked'
      BY <1>8, <2>1, <2>2, AskedPut DEF PutResult, queueVars, histVars
    <2> QED
      BY <1>2, <1>8, <2>1, <2>2, <2>3, GotoFacts DEF PutResult, queueVars, histVars
  <1>9. CASE RecordOutcome(w)
    <2>1. TaskOf(w) \in Tasks /\ worker[w].pc \in Busy
      BY <1>9, WorkerFields DEF RecordOutcome, At, Busy, WorkerPC, TaskOf
    <2>2. worker[w].outcome = "cancelled" => TaskOf(w) \in asked
      BY <1>9 DEF RecordOutcome, At, VerdictsAsked
    <2>3. CancelledOnlyIfAsked'
      BY <1>9, <2>1, <2>2, AskedRecord DEF RecordOutcome, queueVars, histVars
    <2> QED
      BY <1>2, <1>9, <2>1, <2>2, <2>3, GotoFacts DEF RecordOutcome, queueVars, histVars
  <1>10. ASSUME AckJob(w) \/ DeadLetterJob(w) \/ NackJob(w) \/ SettleFails(w) \/ Panic(w)
         PROVE  AskedInv'
    <2>1. worker[w].pc \in {"settle", "call"}
      BY <1>10 DEF AckJob, DeadLetterJob, NackJob, SettleFails, Panic, At
    <2>2. PICK t \in Tasks : t = TaskOf(w)
      BY <2>1, WorkerFields DEF Busy, WorkerPC, TaskOf
    <2>3. UNCHANGED <<blob, audit, cancel, asked, fired>>
      BY <1>10
      DEF AckJob, DeadLetterJob, NackJob, SettleFails, Panic, Finish, histVars, AckWith,
          DeadLetter, Nack, Abandon
    <2>4. worker'[w].pc \in {"idle", "dead"} /\ OnlyWorker(w)
      BY <1>10, LeaveFacts
      DEF AckJob, DeadLetterJob, NackJob, SettleFails, Panic, Finish
    <2>5. TokensAsked' /\ VerdictsAsked'
      BY <1>0, <2>3, <2>4 DEF TokensAsked, VerdictsAsked, TaskOf, OnlyWorker, Busy
    <2>6. CancelledOnlyIfAsked'
      <3>1. CASE AckJob(w)
        <4>1. worker[w].outcome = "cancelled" => t \in asked
          BY <3>1, <2>2 DEF AckJob, At, VerdictsAsked
        <4>2. pointer' = [pointer EXCEPT ![t] = worker[w].outcome]
          BY <3>1, <2>2 DEF AckJob, AckWith
        <4> QED
          BY <2>3, <4>1, <4>2, <1>0 DEF CancelledOnlyIfAsked, QueueTypeOK
      <3>2. CASE ~AckJob(w)
        BY <1>10, <2>3, <3>2, AskedStoresFrame
        DEF DeadLetterJob, NackJob, SettleFails, Panic, DeadLetter, Nack, Abandon
      <3> QED
        BY <3>1, <3>2
    <2> QED
      BY <2>3, <2>5, <2>6, AskedCancelsFrame
  <1> QED
    BY <1>1, <1>3, <1>4, <1>5, <1>6, <1>7, <1>8, <1>9, <1>10 DEF RunToolWorker

LEMMA AskedCancel ==
    ASSUME Typed, HolderInv, AskedInv, NEW c \in Cancels, CancelTask(c)
    PROVE  AskedInv'
  <1>0. QueueTypeOK /\ fired \subseteq Workers
    BY DEF Typed, QueueTypeOK
  <1> USE DEF AskedInv
  <1>1. ASSUME NEW t \in Tasks, CancelPeek(c, t)  PROVE AskedInv'
    <2>1. cancel'[c].task = t /\ OnlyCancel(c) /\ t \in asked' /\ asked \subseteq asked'
      BY <1>1 DEF CancelPeek, Typed, OnlyCancel
    <2>2. CancelsAsked'
      BY <2>1 DEF CancelsAsked, CancelAt, CancelOf, OnlyCancel
    <2>3. CancelledOnlyIfAsked' /\ TokensAsked' /\ VerdictsAsked'
      BY <1>1, <2>1, AskedStoresFrame, AskedWorkersFrame DEF CancelPeek, queueVars
    <2> QED
      BY <2>2, <2>3
  <1>2. ASSUME ~CancelAt(c, "idle"), asked' = asked,
               \E pc : CancelGoto(c, pc) \/ CancelDone(c)
        PROVE  CancelsAsked'
    <2>1. PICK pc : CancelGoto(c, pc) \/ CancelDone(c)
      BY <1>2
    <2>2. OnlyCancel(c) /\ (cancel'[c].task = cancel[c].task \/ cancel'[c] = IdleCancel)
      BY <2>1, CancelFacts
    <2> QED
      BY <1>2, <2>2 DEF CancelsAsked, CancelAt, CancelOf, OnlyCancel, IdleCancel
  <1>3. ~CancelAt(c, "idle") => CancelOf(c) \in asked /\ CancelOf(c) \in Tasks
    BY DEF CancelsAsked, Typed, GoodCancel, CancelAt, CancelOf
  <1>4. CASE CancelForget(c)
    BY <1>2, <1>4, AskedStoresFrame, AskedWorkersFrame
    DEF CancelForget, CancelAt, queueVars, histVars
  <1>5. CASE CancelPut(c)
    BY <1>2, <1>3, <1>5, AskedPut, AskedWorkersFrame
    DEF CancelPut, CancelAt, queueVars, histVars
  <1>6. CASE CancelRecord(c)
    BY <1>2, <1>3, <1>6, AskedRecord, AskedWorkersFrame
    DEF CancelRecord, CancelAt, queueVars, histVars
  <1>7. CASE CancelRemove(c) \/ CancelSignal(c)
    <2>1. ~CancelAt(c, "idle") /\ Cancel(CancelOf(c))
      BY <1>7 DEF CancelRemove, CancelSignal, CancelAt
    <2>2. /\ UNCHANGED <<pointer, blob, audit, worker, asked>>
          /\ fired' = fired \union {w \in Workers : Holds(w, CancelOf(c))}
      BY <1>7 DEF CancelRemove, CancelSignal, Cancel, histVars
    <2>3. \A w \in fired' \ fired : TaskOf(w) \in asked
      BY <1>3, <2>1, <2>2 DEF HolderInv
    <2>4. TokensAsked' /\ VerdictsAsked'
      BY <2>2, <2>3 DEF TokensAsked, VerdictsAsked, TaskOf
    <2>5. CancelledOnlyIfAsked'
      BY <2>2, AskedStoresFrame
    <2>6. CancelsAsked'
      BY <1>2, <1>7, <2>1, <2>2 DEF CancelRemove, CancelSignal
    <2> QED
      BY <2>4, <2>5, <2>6
  <1>8. CASE CancelLog(c)
    BY <1>2, <1>3, <1>8, AskedRecord, AskedWorkersFrame
    DEF CancelLog, CancelAt, queueVars
  <1>9. CASE CancelCheck(c) \/ CancelFails(c)
    BY <1>2, <1>9, AskedStoresFrame, AskedWorkersFrame
    DEF CancelCheck, CancelFails, CancelAt, queueVars, histVars
  <1> QED
    BY <1>1, <1>4, <1>5, <1>6, <1>7, <1>8, <1>9 DEF CancelTask, CancelStep

LEMMA AskedStep == Typed /\ HolderInv /\ AskedInv /\ [Next]_vars => AskedInv'
  <1> SUFFICES ASSUME Typed, HolderInv, AskedInv, [Next]_vars  PROVE AskedInv'
    OBVIOUS
  <1> USE DEF AskedInv
  <1>1. ASSUME UNCHANGED <<pointer, fired, blob, audit, cancel, worker, asked>>
        PROVE  AskedInv'
    BY <1>1, AskedStoresFrame, AskedCancelsFrame, AskedWorkersFrame
  <1>2. ASSUME NEW t \in Tasks, EnqueueTask(t)  PROVE AskedInv'
    <2>1. CASE EnqueueRecord(t)
      <3>1. CancelledOnlyIfAsked'
        BY <2>1, AskedRecord DEF EnqueueRecord, queueVars, histVars
      <3> QED
        BY <2>1, <3>1, AskedCancelsFrame, AskedWorkersFrame
        DEF EnqueueRecord, queueVars, histVars
    <2> QED
      BY <1>1, <1>2, <2>1
      DEF EnqueueTask, EnqueueMark, EnqueueJob, Enqueue, EnqueueFails, EnqueueUnmark,
          queueVars, histVars
  <1>3. ASSUME NEW t \in Tasks,
               QueueExpireLease(t) \/ QueueEndBackoff(t) \/ QueueDropRecord(t)
        PROVE  AskedInv'
    BY <1>1, <1>3
    DEF QueueExpireLease, QueueEndBackoff, QueueDropRecord, ExpireLease, EndBackoff,
        DropRecord, histVars
  <1>4. CASE Restart
    <2>1. CancelledOnlyIfAsked'
      BY <1>4, AskedStoresFrame DEF Restart, histVars
    <2> QED
      BY <1>4, <2>1
      DEF Restart, CancelsAsked, CancelAt, IdleCancel, TokensAsked, VerdictsAsked, IdleWorker
  <1>5. CASE UNCHANGED vars
    BY <1>1, <1>5 DEF vars, queueVars, histVars
  <1> QED
    BY <1>2, <1>3, <1>4, <1>5, AskedWorker, AskedCancel DEF Next, Running, Environment

\* No pointer, result blob or audit entry says that a task was cancelled unless
\* cancel_task was called for it, whatever fails and whatever the tools do.
THEOREM CancelledOnlyOnRequest == Spec => []CancelledOnlyIfAsked
  <1>1. Spec => []AskedInv
    BY AskedInit, AskedStep, AlwaysTyped, AlwaysHolder, PTL DEF Spec
  <1>2. AskedInv => CancelledOnlyIfAsked
    BY DEF AskedInv
  <1> QED
    BY <1>1, <1>2, PTL

(***************************************************************************)
(* The retry budget.  The attempts of a job in the queue, and those a      *)
(* worker remembers of its claim, count the claims there have been.        *)
(***************************************************************************)
Cap == IF MaxAttempts = 0 THEN 1 ELSE MaxAttempts

Spent(t) == claims[t] >= MaxAttempts \/ t \in misread

JobBudget(t) ==
    /\ Waiting(t) => claims[t] = job[t].attempts /\ job[t].attempts < Cap
    /\ job[t].status = "claimed" => claims[t] = job[t].attempts + 1 /\ job[t].attempts < Cap
    /\ claims[t] <= Cap
    /\ submit[t] \in {"new", "marked", "refused", "rejected"} =>
           job[t].status = "none" /\ claims[t] = 0
    /\ job[t].status = "dead" => Spent(t)

BlobBudget(t) == blob[t].status = "failed" => Spent(t)

WorkerBudget(w) ==
    /\ worker[w].pc \in Busy => worker[w].attempts + 1 <= claims[TaskOf(w)]
    /\ worker[w].pc \in {"put", "record", "settle"} /\ worker[w].outcome = "failed" =>
           Spent(TaskOf(w))

BudgetInv ==
    /\ \A t \in Tasks : JobBudget(t) /\ BlobBudget(t)
    /\ \A w \in Workers : WorkerBudget(w)

LEMMA BudgetInit == Init => BudgetInv
  BY MaxAttemptsAssumption, NoTaskAssumption
  DEF Init, QueueInit, StoreInit, NoJob, NoBlob, IdleWorker, BudgetInv, JobBudget,
      BlobBudget, WorkerBudget, Waiting, Cap, Busy

LEMMA BudgetImplies == Typed /\ BudgetInv => RetryBudget
  BY MaxAttemptsAssumption DEF BudgetInv, JobBudget, BlobBudget, Spent, RetryBudget, Cap

\* What is spent stays spent.
LEMMA JobBudgetFrame ==
    ASSUME NEW t, JobBudget(t), job'[t] = job[t], claims' = claims, submit' = submit,
           misread \subseteq misread'
    PROVE  JobBudget(t)'
  BY DEF JobBudget, Waiting, Spent

LEMMA BlobBudgetFrame ==
    ASSUME BudgetInv, UNCHANGED <<blob, claims>>, misread \subseteq misread'
    PROVE  \A t \in Tasks : BlobBudget(t)'
  BY DEF BudgetInv, BlobBudget, Spent

LEMMA WorkerBudgetFrame ==
    ASSUME NEW w, WorkerBudget(w), worker'[w] = worker[w], claims' = claims,
           misread \subseteq misread'
    PROVE  WorkerBudget(w)'
  BY DEF WorkerBudget, TaskOf, Spent

LEMMA BudgetFrame ==
    ASSUME BudgetInv, UNCHANGED <<job, claims, submit, blob, worker>>,
           misread \subseteq misread'
    PROVE  BudgetInv'
  <1>1. \A t \in Tasks : JobBudget(t)'
    BY JobBudgetFrame DEF BudgetInv
  <1>2. \A w \in Workers : WorkerBudget(w)'
    BY WorkerBudgetFrame DEF BudgetInv
  <1> QED
    BY <1>1, <1>2, BlobBudgetFrame DEF BudgetInv

\* Only the job of t changes, to a record that keeps its budget.
LEMMA JobStepFrame ==
    ASSUME BudgetInv, NEW t \in Tasks, OnlyJob(t), JobBudget(t)',
           UNCHANGED <<claims, submit, misread>>
    PROVE  \A u \in Tasks : JobBudget(u)'
  BY JobBudgetFrame DEF BudgetInv, OnlyJob

\* An attempt used up is an attempt claimed.
LEMMA UseAttemptBudget ==
    ASSUME Typed, BudgetInv, NEW t \in Tasks, NEW status \in {"pending", "scheduled"},
           job[t].status = "claimed", UseAttempt(t, status),
           UNCHANGED <<claims, submit, misread>>
    PROVE  \A u \in Tasks : JobBudget(u)'
  <1>1. /\ job'[t].attempts = job[t].attempts + 1
        /\ job'[t].status = IF job[t].attempts + 1 >= MaxAttempts THEN "dead" ELSE status
        /\ OnlyJob(t)
    BY UseAttemptFacts DEF Typed
  <1>2. job[t].attempts \in Nat
    BY DEF Typed, QueueTypeOK, Job
  <1>3. JobBudget(t)
    BY DEF BudgetInv
  <1>4. JobBudget(t)'
    BY <1>1, <1>2, <1>3, MaxAttemptsAssumption DEF JobBudget, Waiting, Spent, Cap
  <1> QED
    BY <1>1, <1>4, JobStepFrame

LEMMA BudgetWorker ==
    ASSUME Typed, HolderInv, BudgetInv, NEW w \in Workers, RunToolWorker(w) \/ Panic(w)
    PROVE  BudgetInv'
  <1>0. QueueTypeOK /\ claims \in [Tasks -> Nat]
    BY DEF Typed
  <1>1. ASSUME NEW t \in Tasks, ClaimJob(w, t)  PROVE BudgetInv'
    <2>1. /\ job[t].status = "pending" /\ job'[t].status = "claimed"
          /\ job'[t].attempts = job[t].attempts
          /\ OnlyJob(t)
      BY <1>0, <1>1, ClaimFacts DEF ClaimJob
    <2>2. /\ claims'[t] = claims[t] + 1
          /\ \A u \in Tasks \ {t} : claims'[u] = claims[u]
      BY <1>0, <1>1 DEF ClaimJob
    <2>3. /\ worker'[w].task = t /\ worker'[w].pc = "decode"
          /\ worker'[w].attempts = job[t].attempts
          /\ OnlyWorker(w)
      BY <1>1 DEF ClaimJob, Typed, OnlyWorker
    <2>4. UNCHANGED <<submit, misread, blob>>
      BY <1>1 DEF ClaimJob
    <2>5. claims[t] = job[t].attempts /\ job[t].attempts < Cap /\ job[t].attempts \in Nat
      BY <1>0, <2>1 DEF BudgetInv, JobBudget, Waiting, QueueTypeOK, Job
    <2>6. JobBudget(t)'
      BY <2>1, <2>2, <2>4, <2>5, MaxAttemptsAssumption
      DEF BudgetInv, JobBudget, Waiting, Cap
    <2>7. \A u \in Tasks \ {t} : JobBudget(u)'
      BY <2>1, <2>2, <2>4 DEF BudgetInv, JobBudget, Waiting, Spent, OnlyJob
    <2>8. \A u \in Tasks : Spent(u) => Spent(u)'
      BY <1>0, <2>2, <2>4, MaxAttemptsAssumption DEF Spent
    <2>9. \A u \in Tasks : BlobBudget(u)'
      BY <2>4, <2>8 DEF BudgetInv, BlobBudget
    <2>10. WorkerBudget(w)'
      BY <2>2, <2>3, <2>5 DEF WorkerBudget, TaskOf
    <2>11. ASSUME NEW v \in Workers \ {w}  PROVE WorkerBudget(v)'
      <3>1. worker'[v] = worker[v] /\ WorkerBudget(v)
        BY <2>3 DEF OnlyWorker, BudgetInv
      <3>2. worker[v].pc \in Busy => TaskOf(v) \in Tasks /\ worker[v].attempts \in Nat
        BY WorkerFields DEF TaskOf
      <3> QED
        BY <1>0, <2>2, <2>8, <3>1, <3>2 DEF WorkerBudget, TaskOf, Busy, WorkerPC
    <2> QED
      BY <2>6, <2>7, <2>9, <2>10, <2>11 DEF BudgetInv
  \* Steps within a job.
  <1>2. ASSUME UNCHANGED <<job, claims, submit>>, misread \subseteq misread',
               \A t \in Tasks : BlobBudget(t)', OnlyWorker(w), worker[w].pc \in Busy,
               worker'[w].task = worker[w].task, worker'[w].attempts = worker[w].attempts,
               worker'[w].pc \in {"put", "record", "settle"}
                 /\ worker'[w].outcome = "failed" =>
                       Spent(TaskOf(w)) \/ TaskOf(w) \in misread'
        PROVE  BudgetInv'
    <2>1. \A t \in Tasks : JobBudget(t)'
      BY <1>2, JobBudgetFrame DEF BudgetInv
    <2>2. WorkerBudget(w)'
      BY <1>2 DEF BudgetInv, WorkerBudget, TaskOf, Spent
    <2>3. \A v \in Workers \ {w} : WorkerBudget(v)'
      BY <1>2, WorkerBudgetFrame DEF BudgetInv, OnlyWorker
    <2> QED
      BY <1>2, <2>1, <2>2, <2>3 DEF BudgetInv
  <1>3. CASE MarkInFlight(w)
    BY <1>2, <1>3, BlobBudgetFrame, GotoFacts
    DEF MarkInFlight, At, Busy, WorkerPC, queueVars, histVars
  <1>4. CASE DecodeFails(w)
    BY <1>2, <1>4, BlobBudgetFrame, ResolveFacts
    DEF DecodeFails, At, Busy, WorkerPC, Spent, queueVars, histVars
  <1>5. CASE RecordStarted(w)
    BY <1>2, <1>5, BlobBudgetFrame, GotoFacts
    DEF RecordStarted, At, Busy, WorkerPC, queueVars, histVars
  <1>6. CASE CallTool(w)
    <2>1. PICK result \in {"ok", "err"} : Resolve(w, "decide", result)
      BY <1>6 DEF CallTool
    <2>2. /\ worker'[w].pc = "decide" /\ worker'[w].task = worker[w].task
          /\ worker'[w].attempts = worker[w].attempts /\ OnlyWorker(w)
      BY <2>1, ResolveFacts
    <2> QED
      BY <1>2, <1>6, <2>2, BlobBudgetFrame
      DEF CallTool, At, Busy, WorkerPC, queueVars, histVars
  <1>7. CASE DecideOutcome(w)
    <2>1. worker[w].pc \in Busy
      BY <1>7 DEF DecideOutcome, At, Busy, WorkerPC
    <2>2. TaskOf(w) \in Tasks /\ worker[w].attempts \in Nat
      BY <2>1, WorkerFields DEF TaskOf
    <2>3. Verdict(w) = "failed" => Spent(TaskOf(w))
      BY <1>0, <2>1, <2>2, MaxAttemptsAssumption DEF Verdict, BudgetInv, WorkerBudget, Spent
    <2>4. /\ worker'[w].outcome = Verdict(w) /\ worker'[w].task = worker[w].task
          /\ worker'[w].attempts = worker[w].attempts /\ OnlyWorker(w)
      BY <1>7, ResolveFacts DEF DecideOutcome
    <2> QED
      BY <1>2, <1>7, <2>1, <2>3, <2>4, BlobBudgetFrame
      DEF DecideOutcome, queueVars, histVars
  <1>8. CASE PutResult(w)
    <2>1. worker[w].pc \in Busy /\ TaskOf(w) \in Tasks
      BY <1>8, WorkerFields DEF PutResult, At, Busy, WorkerPC, TaskOf
    <2>2. worker[w].outcome = "failed" => Spent(TaskOf(w))
      BY <1>8 DEF PutResult, At, BudgetInv, WorkerBudget
    <2>3. \A t \in Tasks : blob'[t].status = "failed" =>
            blob[t].status = "failed" \/ (t = TaskOf(w) /\ worker[w].outcome = "failed")
      BY <1>8, <2>1 DEF PutResult, TryPut, Put, Typed, StoreTypeOK
    <2>4. UNCHANGED <<job, claims, submit, misread>>
      BY <1>8 DEF PutResult, queueVars, histVars
    <2>5. \A t \in Tasks : BlobBudget(t)'
      BY <2>2, <2>3, <2>4 DEF BudgetInv, BlobBudget, Spent
    <2> QED
      BY <1>2, <1>8, <2>1, <2>2, <2>4, <2>5, GotoFacts DEF PutResult
  <1>9. CASE RecordOutcome(w)
    <2>1. worker[w].pc \in Busy
      BY <1>9 DEF RecordOutcome, At, Busy, WorkerPC
    <2>2. worker[w].outcome = "failed" => Spent(TaskOf(w))
      BY <1>9 DEF RecordOutcome, At, BudgetInv, WorkerBudget
    <2> QED
      BY <1>2, <1>9, <2>1, <2>2, BlobBudgetFrame, GotoFacts
      DEF RecordOutcome, queueVars, histVars
  <1>10. ASSUME AckJob(w) \/ DeadLetterJob(w) \/ NackJob(w) \/ SettleFails(w) \/ Panic(w)
         PROVE  BudgetInv'
    <2>1. worker[w].pc \in {"settle", "call"}
      BY <1>10 DEF AckJob, DeadLetterJob, NackJob, SettleFails, Panic, At
    <2>2. PICK t \in Tasks : t = TaskOf(w)
      BY <2>1, WorkerFields DEF Busy, WorkerPC, TaskOf
    <2>3. UNCHANGED <<blob, claims, submit, misread>>
      BY <1>10
      DEF AckJob, DeadLetterJob, NackJob, SettleFails, Panic, Finish, histVars
    <2>4. worker'[w].pc \in {"idle", "dead"} /\ OnlyWorker(w)
      BY <1>10, LeaveFacts
      DEF AckJob, DeadLetterJob, NackJob, SettleFails, Panic, Finish
    <2>5. WorkerBudget(w)'
      BY <2>4 DEF WorkerBudget, Busy
    <2>6. \A v \in Workers \ {w} : WorkerBudget(v)'
      BY <2>3, <2>4, WorkerBudgetFrame DEF BudgetInv, OnlyWorker
    <2>7. job[t] \in Job /\ JobBudget(t)
      BY <1>0 DEF QueueTypeOK, BudgetInv
    <2>8. \A u \in Tasks : JobBudget(u)'
      <3>1. CASE NackJob(w)
        BY <2>2, <2>3, <3>1, UseAttemptBudget DEF NackJob, Nack, Holds
      <3>2. CASE AckJob(w)
        <4>1. job'[t].status = "done" /\ Holds(w, t) /\ OnlyJob(t)
          BY <1>0, <2>2, <2>7, <3>2 DEF AckJob, AckWith, Job, QueueTypeOK, OnlyJob
        <4>2. JobBudget(t)'
          BY <2>3, <2>7, <4>1 DEF JobBudget, Waiting, Holds
        <4> QED
          BY <2>3, <4>1, <4>2, JobStepFrame
      <3>3. CASE DeadLetterJob(w)
        <4>1. job'[t].status = "dead" /\ Holds(w, t) /\ OnlyJob(t)
          BY <1>0, <2>2, <2>7, <3>3 DEF DeadLetterJob, DeadLetter, Job, QueueTypeOK, OnlyJob
        <4>2. Spent(t)
          BY <2>2, <3>3 DEF DeadLetterJob, At, BudgetInv, WorkerBudget
        <4>3. JobBudget(t)'
          BY <2>3, <2>7, <4>1, <4>2 DEF JobBudget, Waiting, Holds, Spent
        <4> QED
          BY <2>3, <4>1, <4>3, JobStepFrame
      <3>4. CASE SettleFails(w) \/ Panic(w)
        <4>1. Abandon(w, t)
          BY <2>2, <3>4 DEF SettleFails, Panic
        <4>2. /\ job'[t].status = job[t].status /\ job'[t].attempts = job[t].attempts
              /\ OnlyJob(t)
          BY <1>0, <2>7, <4>1 DEF Abandon, Job, QueueTypeOK, OnlyJob
        <4>3. JobBudget(t)'
          BY <2>3, <2>7, <4>2 DEF JobBudget, Waiting, Spent
        <4> QED
          BY <2>3, <4>2, <4>3, JobStepFrame
      <3> QED
        BY <1>10, <3>1, <3>2, <3>3, <3>4
    <2> QED
      BY <2>3, <2>5, <2>6, <2>8, BlobBudgetFrame DEF BudgetInv
  <1> QED
    BY <1>1, <1>3, <1>4, <1>5, <1>6, <1>7, <1>8, <1>9, <1>10 DEF RunToolWorker

\* Enough for a step that neither claims nor moves a worker.
LEMMA BudgetQueueFrame ==
    ASSUME BudgetInv, \A t \in Tasks : JobBudget(t)',
           UNCHANGED <<blob, worker, claims>>, misread \subseteq misread'
    PROVE  BudgetInv'
  <1>1. \A w \in Workers : WorkerBudget(w)'
    BY WorkerBudgetFrame DEF BudgetInv
  <1> QED
    BY <1>1, BlobBudgetFrame DEF BudgetInv

LEMMA BudgetEnqueue ==
    ASSUME Typed, BudgetInv, NEW t \in Tasks, EnqueueTask(t)
    PROVE  BudgetInv'
  <1>0. submit \in [Tasks -> SubmitPC] /\ QueueTypeOK
    BY DEF Typed
  <1>1. \A u \in Tasks \ {t} : submit'[u] = submit[u]
    BY <1>0
    DEF EnqueueTask, EnqueueMark, EnqueueJob, EnqueueFails, EnqueueUnmark, EnqueueRecord,
        SubmitGoto
  <1>2. UNCHANGED <<blob, worker, claims, misread>>
    BY DEF EnqueueTask, EnqueueMark, EnqueueJob, EnqueueFails, EnqueueUnmark, EnqueueRecord,
           histVars
  <1>3. JobBudget(t)
    BY DEF BudgetInv
  <1>4. CASE EnqueueJob(t)
    <2>1. submit[t] = "marked" /\ submit'[t] = "landed"
      BY <1>0, <1>4 DEF EnqueueJob, SubmitGoto
    <2>2. job'[t].status = "pending" /\ job'[t].attempts = 0 /\ OnlyJob(t)
      BY <1>0, <1>4 DEF EnqueueJob, Enqueue, NoJob, QueueTypeOK, OnlyJob
    <2>3. JobBudget(t)'
      BY <1>2, <1>3, <2>1, <2>2, MaxAttemptsAssumption DEF JobBudget, Waiting, Cap
    <2>4. \A u \in Tasks \ {t} : JobBudget(u)'
      BY <1>1, <1>2, <2>2 DEF BudgetInv, JobBudget, Waiting, Spent, OnlyJob
    <2> QED
      BY <1>2, <2>3, <2>4, BudgetQueueFrame
  <1>5. CASE EnqueueMark(t) \/ EnqueueFails(t) \/ EnqueueUnmark(t) \/ EnqueueRecord(t)
    <2>1. UNCHANGED job
      BY <1>5 DEF EnqueueMark, EnqueueFails, EnqueueUnmark, EnqueueRecord, queueVars
    <2>2. submit'[t] \in {"new", "marked", "refused", "rejected"} =>
            submit[t] \in {"new", "marked", "refused", "rejected"}
      BY <1>0, <1>5 DEF EnqueueMark, EnqueueFails, EnqueueUnmark, EnqueueRecord, SubmitGoto
    <2>3. \A u \in Tasks : JobBudget(u)'
      BY <1>1, <1>2, <2>1, <2>2 DEF BudgetInv, JobBudget, Waiting, Spent
    <2> QED
      BY <1>2, <2>3, BudgetQueueFrame
  <1> QED
    BY <1>4, <1>5 DEF EnqueueTask

LEMMA BudgetCancel ==
    ASSUME Typed, BudgetInv, NEW c \in Cancels, CancelTask(c)
    PROVE  BudgetInv'
  <1>1. CASE CancelPut(c)
    <2>1. UNCHANGED <<job, claims, submit, worker, misread>>
      BY <1>1 DEF CancelPut, queueVars, histVars
    <2>2. \A t \in Tasks : blob'[t].status = "failed" => blob[t].status = "failed"
      BY <1>1 DEF CancelPut, TryPut, Put, Typed, StoreTypeOK
    <2>3. \A t \in Tasks : BlobBudget(t)' /\ JobBudget(t)'
      BY <2>1, <2>2, JobBudgetFrame DEF BudgetInv, BlobBudget, Spent
    <2>4. \A w \in Workers : WorkerBudget(w)'
      BY <2>1, WorkerBudgetFrame DEF BudgetInv
    <2> QED
      BY <2>3, <2>4 DEF BudgetInv
  <1>2. CASE CancelRemove(c) \/ CancelSignal(c)
    <2>1. PICK t \in Tasks : t = CancelOf(c)
      BY <1>2 DEF CancelRemove, CancelSignal, CancelAt, CancelOf, Typed, GoodCancel
    <2>2. UNCHANGED <<blob, worker, claims, submit, misread>>
      BY <1>2 DEF CancelRemove, CancelSignal, histVars
    <2>3. /\ job'[t] = job[t] \/ job'[t] = NoJob
          /\ Waiting(t) \/ job'[t] = job[t]
          /\ OnlyJob(t)
      BY <1>2, <2>1 DEF CancelRemove, CancelSignal, Cancel, Typed, QueueTypeOK, OnlyJob
    <2>4. JobBudget(t)'
      BY <2>2, <2>3 DEF BudgetInv, JobBudget, Waiting, Spent, NoJob
    <2> QED
      BY <2>2, <2>3, <2>4, JobStepFrame, BudgetQueueFrame
  <1>3. CASE ~(CancelPut(c) \/ CancelRemove(c) \/ CancelSignal(c))
    BY <1>3, BudgetFrame
    DEF CancelTask, CancelStep, CancelPeek, CancelForget, CancelRecord, CancelLog,
        CancelCheck, CancelFails, queueVars, histVars
  <1> QED
    BY <1>1, <1>2, <1>3

LEMMA BudgetEnvironment ==
    ASSUME Typed, HolderInv, BudgetInv, Environment \/ Restart
    PROVE  BudgetInv'
  <1>0. QueueTypeOK
    BY DEF Typed
  <1>1. ASSUME NEW t \in Tasks, QueueExpireLease(t)  PROVE BudgetInv'
    <2>1. UNCHANGED <<blob, worker, claims, submit, misread>>
      BY <1>1 DEF QueueExpireLease, histVars
    <2>2. \A u \in Tasks : JobBudget(u)'
      BY <1>1, <2>1, UseAttemptBudget DEF QueueExpireLease, ExpireLease
    <2> QED
      BY <2>1, <2>2, BudgetQueueFrame
  <1>2. ASSUME NEW t \in Tasks, QueueEndBackoff(t) \/ QueueDropRecord(t)  PROVE BudgetInv'
    <2>1. UNCHANGED <<blob, worker, claims, submit, misread>>
      BY <1>2 DEF QueueEndBackoff, QueueDropRecord, histVars
    <2>2. job[t] \in Job /\ JobBudget(t)
      BY <1>0 DEF QueueTypeOK, BudgetInv
    <2>3. /\ OnlyJob(t)
          /\ \/ /\ job'[t].status = "pending" /\ job[t].status = "scheduled"
                /\ job'[t].attempts = job[t].attempts
             \/ job'[t].status = "none"
      BY <1>0, <1>2, <2>2
      DEF QueueEndBackoff, EndBackoff, QueueDropRecord, DropRecord, NoJob, Job, QueueTypeOK,
          OnlyJob
    <2>4. JobBudget(t)'
      BY <2>1, <2>2, <2>3 DEF JobBudget, Waiting
    <2> QED
      BY <2>1, <2>3, <2>4, JobStepFrame, BudgetQueueFrame
  <1>3. CASE Restart
    <2>1. UNCHANGED <<blob, claims, misread>>
      BY <1>3 DEF Restart, histVars
    <2>2. \A t \in Tasks : /\ job'[t].status = job[t].status
                            /\ job'[t].attempts = job[t].attempts
      BY <1>0, <1>3 DEF Restart, QueueTypeOK, Job
    <2>3. \A t \in Tasks : submit'[t] \in {"new", "marked", "refused", "rejected"} =>
            submit[t] \in {"new", "marked", "refused", "rejected"}
      BY <1>3 DEF Restart
    <2>4. \A t \in Tasks : JobBudget(t)'
      BY <2>1, <2>2, <2>3 DEF BudgetInv, JobBudget, Waiting, Spent
    <2>5. \A w \in Workers : WorkerBudget(w)'
      BY <1>3 DEF Restart, IdleWorker, WorkerBudget, Busy
    <2> QED
      BY <2>1, <2>4, <2>5, BlobBudgetFrame DEF BudgetInv
  <1> QED
    BY <1>1, <1>2, <1>3, BudgetWorker DEF Environment

LEMMA BudgetStep == Typed /\ HolderInv /\ BudgetInv /\ [Next]_vars => BudgetInv'
  <1> SUFFICES ASSUME Typed, HolderInv, BudgetInv, [Next]_vars  PROVE BudgetInv'
    OBVIOUS
  <1>1. CASE Next
    BY <1>1, BudgetEnqueue, BudgetWorker, BudgetCancel, BudgetEnvironment DEF Next, Running
  <1>2. CASE UNCHANGED vars
    BY <1>2, BudgetFrame DEF vars, queueVars, histVars
  <1> QED
    BY <1>1, <1>2

LEMMA AlwaysBudget == Spec => []BudgetInv
  BY BudgetInit, BudgetStep, AlwaysTyped, AlwaysHolder, PTL DEF Spec

\* No task is claimed more often than max_attempts allows, and none is reported
\* failed or dead-lettered before its attempts are used up (or its payload
\* proves unreadable): stale claims, lost leases and restarts included.
THEOREM RetriesAreBudgeted == Spec => []RetryBudget
  BY AlwaysBudget, BudgetImplies, AlwaysTyped, PTL

(***************************************************************************)
(* No phantom.  An in-flight entry whose job waits in the queue is there   *)
(* only until the first claim, and only while no cancellation has got past *)
(* dropping it; from the first claim on, a worker answers for it.          *)
(***************************************************************************)
Fresh(t) ==
    /\ Waiting(t)
    /\ claims[t] = 0
    /\ \A c \in Cancels : CancelOf(c) = t => cancel[c].pc \in {"forget", "check"}

Excused(t) ==
    \/ submit[t] \in {"marked", "refused"}
    \/ Fresh(t)
    \/ \E w \in Workers : Runs(w, t) \/ At(w, "dead")

\* A cancellation acts only on a job it has seen in the queue, and signals
\* only one it has seen claimed.
CancelsKnow ==
    \A c \in Cancels, t \in Tasks :
        CancelOf(c) = t /\ cancel[c].pc # "check" =>
            /\ submit[t] \notin {"new", "marked", "refused"}
            /\ cancel[c].pc \in {"signal", "log"} => claims[t] # 0

\* A payload turns out unreadable only after a restart, which empties the map.
UndecodableOut ==
    \A t \in undecodable : t \notin inFlight /\ submit[t] \notin {"new", "marked", "refused"}

PhantomInv == (\A t \in inFlight : Excused(t)) /\ CancelsKnow /\ UndecodableOut

LEMMA PhantomInit == Init => PhantomInv
  BY NoTaskAssumption
  DEF Init, PhantomInv, CancelsKnow, UndecodableOut, CancelOf, IdleCancel

LEMMA PhantomImplies == PhantomInv => NoPhantom
  BY DEF PhantomInv, Excused, Fresh, NoPhantom

LEMMA CancelsKnowFrame ==
    ASSUME CancelsKnow, UNCHANGED cancel,
           \A t \in Tasks : submit'[t] = submit[t] /\ (claims[t] # 0 => claims'[t] # 0)
    PROVE  CancelsKnow'
  BY DEF CancelsKnow, CancelOf

LEMMA UndecodableFrame ==
    ASSUME Typed, UndecodableOut, UNCHANGED <<submit, undecodable>>,
           \A t \in inFlight' : t \in inFlight \/ t \notin undecodable
    PROVE  UndecodableOut'
  BY DEF UndecodableOut

LEMMA FreshFrame ==
    ASSUME NEW t, Fresh(t), UNCHANGED <<claims, cancel>>, Waiting(t)'
    PROVE  Fresh(t)'
  BY DEF Fresh, CancelOf

LEMMA PhantomWorker ==
    ASSUME Typed, HolderInv, BudgetInv, PhantomInv, NEW w \in Workers,
           RunToolWorker(w) \/ Panic(w)
    PROVE  PhantomInv'
  <1>0. QueueTypeOK /\ claims \in [Tasks -> Nat] /\ inFlight \subseteq Tasks
    BY DEF Typed
  <1> USE DEF PhantomInv
  <1>1. ASSUME NEW t \in Tasks, ClaimJob(w, t)  PROVE PhantomInv'
    <2>1. OnlyJob(t)
      BY <1>0, <1>1, ClaimFacts DEF ClaimJob
    <2>2. /\ claims'[t] = claims[t] + 1
          /\ \A u \in Tasks \ {t} : claims'[u] = claims[u]
      BY <1>0, <1>1 DEF ClaimJob
    <2>3. worker'[w].task = t /\ worker'[w].pc = "decode" /\ OnlyWorker(w)
      BY <1>1 DEF ClaimJob, Typed, OnlyWorker
    <2>4. UNCHANGED <<submit, undecodable, inFlight, cancel>>
      BY <1>1 DEF ClaimJob
    <2>5. worker[w].pc = "idle"
      BY <1>1 DEF ClaimJob, At
    <2>6. Runs(w, t)'
      BY <2>3 DEF Runs, TaskOf
    <2>7. ASSUME NEW u \in inFlight', u # t  PROVE Excused(u)'
      <3>1. Excused(u) /\ u \in Tasks
        BY <1>0, <2>4, <2>7
      <3>2. Fresh(u) => Fresh(u)'
        BY <2>1, <2>2, <2>4, <2>7, <3>1 DEF Fresh, Waiting, CancelOf, OnlyJob
      <3> QED
        BY <2>3, <2>4, <2>5, <3>1, <3>2 DEF Excused, Runs, At, TaskOf, OnlyWorker
    <2>8. CancelsKnow'
      BY <1>0, <2>2, <2>4, CancelsKnowFrame
    <2>9. UndecodableOut'
      BY <2>4, UndecodableFrame
    <2> QED
      BY <2>6, <2>7, <2>8, <2>9 DEF Excused
  \* Steps within a job, and its end.
  <1>2. ASSUME UNCHANGED <<claims, cancel, submit, undecodable>>, OnlyWorker(w),
               \A t \in Tasks : Waiting(t) => Waiting(t)',
               At(w, "dead") => At(w, "dead")',
               \A t \in inFlight' : \/ t \in inFlight /\ ~Runs(w, t)
                                    \/ t \notin undecodable /\ (Runs(w, t)' \/ At(w, "dead")')
        PROVE  PhantomInv'
    <2>1. ASSUME NEW t \in inFlight', t \in inFlight, ~Runs(w, t)  PROVE Excused(t)'
      <3>1. Excused(t) /\ t \in Tasks
        BY <1>0, <2>1
      <3>2. Fresh(t) => Fresh(t)'
        BY <1>2, <3>1, FreshFrame DEF Fresh
      <3> QED
        BY <1>2, <2>1, <3>1, <3>2 DEF Excused, Runs, At, TaskOf, OnlyWorker
    <2>2. \A t \in inFlight' : Excused(t)'
      BY <1>2, <2>1 DEF Excused
    <2> QED
      BY <1>2, <2>2, CancelsKnowFrame, UndecodableFrame
  <1>3. CASE MarkInFlight(w)
    <2>1. /\ worker'[w].pc = "start" /\ worker'[w].task = worker[w].task
          /\ OnlyWorker(w)
      BY <1>3, GotoFacts DEF MarkInFlight
    <2> QED
      BY <1>2, <1>3, <2>1
      DEF MarkInFlight, Runs, At, TaskOf, Waiting, UndecodableOut, queueVars, histVars
  <1>4. CASE DecodeFails(w)
    <2>1. OnlyWorker(w)
      BY <1>4, ResolveFacts DEF DecodeFails
    <2> QED
      BY <1>2, <1>4, <2>1
      DEF DecodeFails, Runs, At, TaskOf, Waiting, UndecodableOut, queueVars, histVars
  <1>5. CASE RecordStarted(w)
    <2>1. /\ worker'[w].pc = "call" /\ worker'[w].task = worker[w].task
          /\ OnlyWorker(w)
      BY <1>5, GotoFacts DEF RecordStarted
    <2> QED
      BY <1>2, <1>5, <2>1
      DEF RecordStarted, Runs, At, TaskOf, Waiting, UndecodableOut, queueVars, histVars
  <1>6. CASE CallTool(w)
    <2>1. PICK result \in {"ok", "err"} : Resolve(w, "decide", result)
      BY <1>6 DEF CallTool
    <2>2. /\ worker'[w].pc = "decide" /\ worker'[w].task = worker[w].task
          /\ OnlyWorker(w)
      BY <2>1, ResolveFacts
    <2> QED
      BY <1>2, <1>6, <2>2
      DEF CallTool, Runs, At, TaskOf, Waiting, UndecodableOut, queueVars, histVars
  <1>7. CASE DecideOutcome(w)
    <2>1. OnlyWorker(w)
      BY <1>7, ResolveFacts DEF DecideOutcome
    <2> QED
      BY <1>2, <1>7, <2>1 DEF DecideOutcome, Runs, At, TaskOf, Waiting, queueVars, histVars
  <1>8. CASE PutResult(w)
    <2>1. OnlyWorker(w)
      BY <1>8, GotoFacts DEF PutResult
    <2> QED
      BY <1>2, <1>8, <2>1 DEF PutResult, Runs, At, TaskOf, Waiting, queueVars, histVars
  <1>9. CASE RecordOutcome(w)
    <2>1. OnlyWorker(w)
      BY <1>9, GotoFacts DEF RecordOutcome
    <2> QED
      BY <1>2, <1>9, <2>1 DEF RecordOutcome, Runs, At, TaskOf, Waiting, queueVars, histVars
  <1>10. ASSUME AckJob(w) \/ DeadLetterJob(w) \/ NackJob(w) \/ SettleFails(w) \/ Panic(w)
         PROVE  PhantomInv'
    <2>1. worker[w].pc = "settle" \/ (worker[w].pc = "call" /\ Panic(w))
      BY <1>10 DEF AckJob, DeadLetterJob, NackJob, SettleFails, Panic, At
    <2>2. PICK t \in Tasks : t = TaskOf(w)
      BY <2>1, WorkerFields DEF Busy, WorkerPC, TaskOf
    <2>3. UNCHANGED <<inFlight, claims, cancel, submit, undecodable>>
      BY <1>10
      DEF AckJob, DeadLetterJob, NackJob, SettleFails, Panic, Finish, histVars
    <2>4. OnlyWorker(w)
      BY <1>10, LeaveFacts
      DEF AckJob, DeadLetterJob, NackJob, SettleFails, Panic, Finish
    <2>5. Panic(w) => At(w, "dead")'
      BY DEF Panic, At, DeadWorker, Typed
    <2>6. \/ DeadLetter(w, t) \/ Nack(w, t) \/ Abandon(w, t)
          \/ \E status \in {"completed", "cancelled"} : AckWith(w, t, status)
      BY <1>10, <2>2 DEF AckJob, DeadLetterJob, NackJob, SettleFails, Panic
    <2>7. OnlyJob(t)
      BY <1>0, <2>6, SettleFacts
    <2>8. Waiting(t) => job'[t] = job[t]
      BY <2>6 DEF DeadLetter, Nack, Abandon, AckWith, Holds, Waiting
    <2>9. \A u \in Tasks : Waiting(u) => Waiting(u)'
      BY <2>7, <2>8 DEF Waiting, OnlyJob
    <2>10. CASE worker[w].pc = "settle"
      BY <1>2, <2>3, <2>4, <2>9, <2>10 DEF Runs, At
    <2>11. CASE Panic(w)
      BY <1>2, <2>1, <2>3, <2>4, <2>5, <2>9, <2>11 DEF Runs, At, UndecodableOut
    <2> QED
      BY <2>1, <2>10, <2>11
  <1> QED
    BY <1>1, <1>3, <1>4, <1>5, <1>6, <1>7, <1>8, <1>9, <1>10 DEF RunToolWorker

\* Steps that move no worker.
LEMMA PhantomFrame ==
    ASSUME Typed, PhantomInv, UNCHANGED <<worker, submit, undecodable>>,
           inFlight' \subseteq inFlight,
           \A t \in inFlight' : Fresh(t) => Fresh(t)', CancelsKnow'
    PROVE  PhantomInv'
  <1>1. \A t \in inFlight' : Excused(t)'
    BY DEF PhantomInv, Excused, Runs, At, TaskOf
  <1>2. UndecodableOut'
    BY UndecodableFrame DEF PhantomInv
  <1> QED
    BY <1>1, <1>2 DEF PhantomInv

LEMMA PhantomEnqueue ==
    ASSUME Typed, BudgetInv, PhantomInv, NEW t \in Tasks, EnqueueTask(t)
    PROVE  PhantomInv'
  <1>0. submit \in [Tasks -> SubmitPC] /\ QueueTypeOK /\ inFlight \subseteq Tasks
        /\ undecodable \subseteq Tasks
    BY DEF Typed
  <1>1. /\ UNCHANGED <<worker, cancel, claims, undecodable>>
        /\ \A u \in Tasks \ {t} : submit'[u] = submit[u]
        /\ inFlight' \subseteq inFlight \union {t}
        /\ OnlyJob(t)
    BY <1>0
    DEF EnqueueTask, EnqueueMark, EnqueueJob, Enqueue, EnqueueFails, EnqueueUnmark,
        EnqueueRecord, SubmitGoto, queueVars, histVars, OnlyJob, QueueTypeOK
  <1>2. /\ submit[t] \in {"new", "marked", "refused", "landed"}
        /\ submit'[t] \in {"new", "marked", "refused"} => submit[t] \in {"new", "marked", "refused"}
    BY <1>0
    DEF EnqueueTask, EnqueueMark, EnqueueJob, EnqueueFails, EnqueueUnmark, EnqueueRecord,
        SubmitGoto
  <1>3. CancelsKnow'
    BY <1>1, <1>2 DEF PhantomInv, CancelsKnow, CancelOf
  <1>4. UndecodableOut'
    <2>1. t \in inFlight' => t \in inFlight \/ submit[t] = "new"
      BY DEF EnqueueTask, EnqueueMark, EnqueueJob, EnqueueFails, EnqueueUnmark,
             EnqueueRecord, SubmitGoto
    <2> QED
      BY <1>0, <1>1, <1>2, <2>1 DEF PhantomInv, UndecodableOut
  <1>5. ASSUME NEW u \in inFlight', u # t  PROVE Excused(u)'
    <2>1. u \in Tasks /\ Excused(u)
      BY <1>0, <1>1, <1>5 DEF PhantomInv
    <2>2. Fresh(u) => Fresh(u)'
      BY <1>1, <1>5, <2>1, FreshFrame DEF Fresh, Waiting, OnlyJob
    <2> QED
      BY <1>1, <1>5, <2>1, <2>2 DEF Excused, Runs, At, TaskOf
  <1>6. ASSUME t \in inFlight'  PROVE Excused(t)'
    <2>1. CASE EnqueueMark(t) \/ EnqueueFails(t)
      BY <1>0, <2>1 DEF EnqueueMark, EnqueueFails, SubmitGoto, Excused
    <2>2. CASE EnqueueUnmark(t)
      BY <1>6, <2>2 DEF EnqueueUnmark
    <2>3. CASE EnqueueJob(t)
      <3>1. submit[t] = "marked" /\ job'[t].status = "pending"
        BY <1>0, <2>3 DEF EnqueueJob, SubmitGoto, Enqueue, QueueTypeOK, NoJob
      <3>2. claims[t] = 0
        BY <3>1 DEF BudgetInv, JobBudget
      <3>3. \A c \in Cancels : CancelOf(c) = t => cancel[c].pc = "check"
        BY <3>1 DEF PhantomInv, CancelsKnow
      <3> QED
        BY <1>1, <3>1, <3>2, <3>3 DEF Excused, Fresh, Waiting, CancelOf
    <2>4. CASE EnqueueRecord(t)
      <3>1. t \in inFlight /\ submit[t] = "landed" /\ job' = job
        BY <1>6, <2>4 DEF EnqueueRecord, SubmitGoto, queueVars
      <3>2. Excused(t)
        BY <3>1 DEF PhantomInv
      <3>3. Fresh(t) => Fresh(t)'
        BY <1>1, <3>1, FreshFrame DEF Fresh, Waiting
      <3> QED
        BY <1>1, <3>1, <3>2, <3>3 DEF Excused, Runs, At, TaskOf
    <2> QED
      BY <2>1, <2>2, <2>3, <2>4 DEF EnqueueTask
  <1> QED
    BY <1>3, <1>4, <1>5, <1>6 DEF PhantomInv

LEMMA PhantomCancel ==
    ASSUME Typed, BudgetInv, PhantomInv, NEW c \in Cancels, CancelTask(c)
    PROVE  PhantomInv'
  <1>0. QueueTypeOK /\ inFlight \subseteq Tasks /\ claims \in [Tasks -> Nat]
    BY DEF Typed
  <1>1. ASSUME NEW t \in Tasks, CancelPeek(c, t)  PROVE PhantomInv'
    <2>1. UNCHANGED <<worker, submit, undecodable, inFlight, job, claims>>
      BY <1>1 DEF CancelPeek, queueVars
    <2>2. /\ cancel'[c].task = t
          /\ cancel'[c].pc = IF Waiting(t) THEN "forget"
                             ELSE IF job[t].status = "claimed" THEN "signal" ELSE "check"
          /\ OnlyCancel(c)
      BY <1>1 DEF CancelPeek, Typed, OnlyCancel
    <2>3. \A u \in Tasks : Fresh(u) => Fresh(u)'
      BY <2>1, <2>2 DEF Fresh, CancelOf, OnlyCancel, Waiting
    <2>4. JobBudget(t) /\ job[t].attempts \in Nat
      BY <1>0 DEF BudgetInv, QueueTypeOK, Job
    <2>5. CancelsKnow'
      BY <1>0, <2>1, <2>2, <2>4
      DEF PhantomInv, CancelsKnow, CancelOf, OnlyCancel, JobBudget, Waiting
    <2> QED
      BY <1>0, <2>1, <2>3, <2>5, PhantomFrame
  <1>2. ASSUME CancelStep(c)  PROVE PhantomInv'
    <2>0. PICK t \in Tasks : t = CancelOf(c)
      BY <1>2
      DEF CancelStep, CancelForget, CancelPut, CancelRecord, CancelRemove, CancelSignal,
          CancelLog, CancelCheck, CancelFails, CancelAt, CancelOf, Typed, GoodCancel
    <2>1. UNCHANGED <<worker, submit, undecodable, claims>> /\ inFlight' \subseteq inFlight
      BY <1>2
      DEF CancelStep, CancelForget, CancelPut, CancelRecord, CancelRemove, CancelSignal,
          CancelLog, CancelCheck, CancelFails, queueVars, histVars
    <2>2. \/ cancel'[c] = IdleCancel
          \/ cancel'[c].task = t /\ cancel'[c].pc \in {"put", "record", "remove", "check"}
          \/ cancel'[c].task = t /\ cancel'[c].pc = "log" /\ cancel[c].pc = "signal"
      <3>1. \A pc : CancelGoto(c, pc) => cancel'[c].pc = pc /\ cancel'[c].task = cancel[c].task
        BY CancelFacts
      <3>2. CancelDone(c) => cancel'[c] = IdleCancel
        BY DEF CancelDone, Typed
      <3> QED
        BY <1>2, <2>0, <3>1, <3>2
        DEF CancelStep, CancelForget, CancelPut, CancelRecord, CancelRemove, CancelSignal,
            CancelLog, CancelCheck, CancelFails, CancelAt, CancelOf
    <2>3. OnlyCancel(c)
      BY <1>2, CancelFacts
      DEF CancelStep, CancelForget, CancelPut, CancelRecord, CancelRemove, CancelSignal,
          CancelLog, CancelCheck, CancelFails
    <2>4. cancel[c].pc = "check" => cancel'[c] = IdleCancel
      BY <1>2
      DEF CancelStep, CancelForget, CancelPut, CancelRecord, CancelRemove, CancelSignal,
          CancelLog, CancelCheck, CancelFails, CancelAt, CancelDone, Typed
    <2>5. CancelsKnow'
      BY <2>0, <2>1, <2>2, <2>3, <2>4, NoTaskAssumption
      DEF PhantomInv, CancelsKnow, CancelOf, OnlyCancel, IdleCancel
    <2>6. CASE CancelForget(c)
      <3>1. t \notin inFlight' /\ UNCHANGED job
        BY <2>0, <2>6 DEF CancelForget, queueVars
      <3>2. \A u \in inFlight' : Fresh(u) => Fresh(u)'
        BY <1>0, <2>0, <2>1, <2>2, <2>3, <3>1, NoTaskAssumption
        DEF Fresh, Waiting, CancelOf, OnlyCancel, IdleCancel
      <3> QED
        BY <2>1, <2>5, <3>2, PhantomFrame
    <2>7. CASE CancelCheck(c)
      <3>1. cancel'[c] = IdleCancel /\ UNCHANGED job
        BY <2>4, <2>7 DEF CancelCheck, CancelAt, queueVars
      <3>2. \A u \in inFlight' : Fresh(u) => Fresh(u)'
        BY <1>0, <2>1, <2>3, <3>1, NoTaskAssumption
        DEF Fresh, Waiting, CancelOf, OnlyCancel, IdleCancel
      <3> QED
        BY <2>1, <2>5, <3>2, PhantomFrame
    <2>8. CASE ~(CancelForget(c) \/ CancelCheck(c))
      <3>1. cancel[c].pc \notin {"forget", "check"} /\ OnlyJob(t)
        BY <1>0, <1>2, <2>0, <2>8, TimerFacts
        DEF CancelStep, CancelPut, CancelRecord, CancelRemove, CancelSignal, CancelLog,
            CancelFails, CancelAt, queueVars, OnlyJob
      <3>2. ~Fresh(t)
        BY <2>0, <3>1 DEF Fresh
      <3>3. \A u \in inFlight' : Fresh(u) => Fresh(u)'
        BY <1>0, <2>0, <2>1, <2>2, <2>3, <3>1, <3>2, NoTaskAssumption
        DEF Fresh, Waiting, CancelOf, OnlyCancel, OnlyJob, IdleCancel
      <3> QED
        BY <2>1, <2>5, <3>3, PhantomFrame
    <2> QED
      BY <2>6, <2>7, <2>8
  <1> QED
    BY <1>1, <1>2 DEF CancelTask

LEMMA PhantomEnvironment ==
    ASSUME Typed, HolderInv, BudgetInv, PhantomInv, Environment \/ Restart
    PROVE  PhantomInv'
  <1>0. QueueTypeOK /\ inFlight \subseteq Tasks
    BY DEF Typed
  <1>1. ASSUME NEW t \in Tasks,
               QueueExpireLease(t) \/ QueueEndBackoff(t) \/ QueueDropRecord(t)
        PROVE  PhantomInv'
    <2>1. UNCHANGED <<worker, submit, undecodable, inFlight, claims, cancel>>
      BY <1>1 DEF QueueExpireLease, QueueEndBackoff, QueueDropRecord, histVars
    <2>2. OnlyJob(t)
      BY <1>0, <1>1, TimerFacts DEF QueueExpireLease, QueueEndBackoff, QueueDropRecord
    <2>3. Waiting(t) => Waiting(t)'
      BY <1>0, <1>1
      DEF QueueExpireLease, QueueEndBackoff, QueueDropRecord, ExpireLease, EndBackoff,
          DropRecord, Waiting, QueueTypeOK, Job
    <2>4. \A u \in inFlight' : Fresh(u) => Fresh(u)'
      BY <1>0, <2>1, <2>2, <2>3, FreshFrame DEF Fresh, Waiting, OnlyJob
    <2>5. CancelsKnow'
      BY <2>1, CancelsKnowFrame DEF PhantomInv
    <2> QED
      BY <2>1, <2>4, <2>5, PhantomFrame
  <1>2. CASE Restart
    <2>1. inFlight' = {} /\ cancel' = [c \in Cancels |-> IdleCancel]
      BY <1>2 DEF Restart
    <2>2. CancelsKnow'
      BY <2>1, NoTaskAssumption DEF CancelsKnow, CancelOf, IdleCancel
    <2>3. \A t \in Tasks : Live(t) => submit[t] \notin {"new", "marked", "refused"}
      BY DEF BudgetInv, JobBudget, Live, Waiting
    <2>4. \A t \in Tasks : submit[t] \notin {"new", "marked", "refused"} =>
                            submit'[t] \notin {"new", "marked", "refused"}
      BY <1>2 DEF Restart
    <2>5. \A t \in undecodable' : t \in Tasks /\ (t \in undecodable \/ Live(t))
      BY <1>2 DEF Restart, Typed
    <2>6. UndecodableOut'
      BY <2>1, <2>3, <2>4, <2>5 DEF PhantomInv, UndecodableOut
    <2> QED
      BY <2>1, <2>2, <2>6 DEF PhantomInv
  <1> QED
    BY <1>1, <1>2, PhantomWorker DEF Environment

LEMMA PhantomStep ==
    Typed /\ HolderInv /\ BudgetInv /\ PhantomInv /\ [Next]_vars => PhantomInv'
  <1> SUFFICES ASSUME Typed, HolderInv, BudgetInv, PhantomInv, [Next]_vars
               PROVE  PhantomInv'
    OBVIOUS
  <1>1. CASE Next
    BY <1>1, PhantomEnqueue, PhantomWorker, PhantomCancel, PhantomEnvironment DEF Next, Running
  <1>2. CASE UNCHANGED vars
    <2>1. \A t \in inFlight' : Fresh(t) => Fresh(t)'
      BY <1>2, FreshFrame DEF vars, queueVars, histVars, Fresh, Waiting
    <2>2. CancelsKnow'
      BY <1>2, CancelsKnowFrame DEF vars, histVars, PhantomInv
    <2> QED
      BY <1>2, <2>1, <2>2, PhantomFrame DEF vars
  <1> QED
    BY <1>1, <1>2

\* The in-flight map holds no phantom: every entry belongs to a task that is
\* being submitted, waits in the queue, or is in the hands of a worker that
\* will clear it, unless a tool has panicked.
THEOREM InFlightIsHonest == Spec => []NoPhantom
  <1>1. Spec => []PhantomInv
    BY PhantomInit, PhantomStep, AlwaysTyped, AlwaysHolder, AlwaysBudget, PTL DEF Spec
  <1> QED
    BY <1>1, PhantomImplies, PTL

(***************************************************************************)
(* Claims, stale ones included.  ClaimInv: what a worker believes of its   *)
(* claim, and what is the case.  A worker that has lost its claim to an    *)
(* expired lease goes on with its attempt; the invariant says how far it   *)
(* is behind the job, and that it is behind for good once the outcome is   *)
(* committed.                                                              *)
(***************************************************************************)
\* The job of t has reached the queue.
Landed(t) == submit[t] \in {"landed", "submitted"}

Decided(w) == worker[w].pc \in {"put", "record", "settle"}
Decoded(w) ==
    \/ worker[w].pc \in {"start", "call", "decide"}
    \/ Decided(w) /\ worker[w].outcome # "failed"

\* A pointer is the end of a job: no claim follows.
PointerFinal(t) ==
    pointer[t] # "none" => ~Live(t) /\ t \notin undecodable /\ Landed(t)

\* What worker w decided from its copy of the claimed record.
VerdictSound(w) ==
    /\ Decoded(w) => TaskOf(w) \notin undecodable
    /\ Decided(w) /\ worker[w].outcome = "failed" =>
         worker[w].attempts + 1 >= MaxAttempts \/ TaskOf(w) \in undecodable
    /\ Decided(w) /\ worker[w].outcome = "retry" => worker[w].attempts + 1 < MaxAttempts

\* A worker that has lost its claim is behind the job's attempts, and once the
\* outcome is committed it is behind for good.
ClaimSound(w) ==
    LET t == TaskOf(w) IN
    /\ Landed(t)
    /\ Holds(w, t) => worker[w].attempts = job[t].attempts
    /\ Live(t) /\ ~Holds(w, t) => worker[w].attempts < job[t].attempts
    /\ pointer[t] # "none" => worker[w].attempts + 1 < MaxAttempts
    /\ Without({"lease"}) => Holds(w, t)

WorkerClaim(w) == worker[w].pc \in Busy => ClaimSound(w) /\ VerdictSound(w)

CancelClaim(c) ==
    cancel[c].pc \in {"forget", "put", "record", "remove"} => Landed(CancelOf(c))

ClaimInv ==
    /\ \A t \in Tasks : PointerFinal(t)
    /\ \A w \in Workers : WorkerClaim(w)
    /\ \A c \in Cancels : CancelClaim(c)

LEMMA ClaimInit == Init => ClaimInv
  BY NoTaskAssumption
  DEF Init, QueueInit, IdleWorker, IdleCancel, ClaimInv, PointerFinal, WorkerClaim,
      CancelClaim, Busy

\* A job that is or was in the queue has landed, and has attempts to use.
LEMMA LiveLanded ==
    ASSUME Typed, BudgetInv, NEW t \in Tasks
    PROVE  /\ job[t].status # "none" => Landed(t)
           /\ Live(t) => job[t].attempts < Cap
  BY DEF BudgetInv, JobBudget, Typed, SubmitPC, Landed, Live

\* Submission goes one way.
LEMMA LandedStays ==
    ASSUME Typed, [Next]_vars, NEW t \in Tasks, Landed(t)
    PROVE  Landed(t)'
  <1>1. ASSUME NEW u \in Tasks, EnqueueTask(u)  PROVE Landed(t)'
    BY <1>1
    DEF EnqueueTask, EnqueueMark, EnqueueJob, EnqueueFails, EnqueueUnmark, EnqueueRecord,
        SubmitGoto, Typed, Landed
  <1>2. CASE Restart
    BY <1>2 DEF Restart, Landed
  <1>3. CASE UNCHANGED submit
    BY <1>3 DEF Landed
  <1>4. ASSUME NEW w \in Workers, RunToolWorker(w) \/ Panic(w)  PROVE UNCHANGED submit
    BY <1>4
    DEF RunToolWorker, ClaimJob, MarkInFlight, DecodeFails, RecordStarted, CallTool,
        DecideOutcome, PutResult, RecordOutcome, AckJob, DeadLetterJob, NackJob,
        SettleFails, Panic, Finish
  <1>5. ASSUME NEW c \in Cancels, CancelTask(c)  PROVE UNCHANGED submit
    BY <1>5
    DEF CancelTask, CancelStep, CancelPeek, CancelForget, CancelPut, CancelRecord,
        CancelRemove, CancelSignal, CancelLog, CancelCheck, CancelFails
  <1>6. ASSUME NEW u \in Tasks,
               QueueExpireLease(u) \/ QueueEndBackoff(u) \/ QueueDropRecord(u)
        PROVE  UNCHANGED submit
    BY <1>6 DEF QueueExpireLease, QueueEndBackoff, QueueDropRecord
  <1> QED
    BY <1>1, <1>2, <1>3, <1>4, <1>5, <1>6 DEF Next, Running, Environment, vars

\* What a step may do to a job without worker v learning of it: it leaves the
\* queue or moves on in its attempts, and v gains no claim.
Behind(v, t) ==
    /\ Live(t)' => Live(t) /\ job'[t].attempts >= job[t].attempts
    /\ Holds(v, t)' => Holds(v, t) /\ job'[t].attempts = job[t].attempts
    /\ Holds(v, t) /\ Live(t)' /\ ~Holds(v, t)' => job'[t].attempts > job[t].attempts

LEMMA BehindSame ==
    ASSUME QueueTypeOK, NEW v \in Workers, NEW t \in Tasks, job'[t] = job[t]
    PROVE  Behind(v, t) /\ (Holds(v, t) => Holds(v, t)')
  BY DEF Behind, Holds, Live, Waiting, QueueTypeOK, Job

\* The steps of the queue, and a cancellation.
LEMMA TimerBehind ==
    ASSUME QueueTypeOK, NEW t \in Tasks, NEW v \in Workers, NEW u \in Tasks,
           ExpireLease(t) \/ EndBackoff(t) \/ DropRecord(t) \/ Cancel(t)
    PROVE  /\ Behind(v, u)
           /\ ~ExpireLease(t) => (Holds(v, u) => Holds(v, u)')
  <1>1. job[t] \in Job /\ OnlyJob(t)
    BY TimerFacts DEF QueueTypeOK
  <1>2. CASE u # t
    BY <1>1, <1>2, BehindSame DEF OnlyJob
  <1>3. CASE u = t /\ ExpireLease(t)
    BY <1>1, <1>3, UseAttemptFacts, NoWorkerAssumption
    DEF ExpireLease, Behind, Holds, Live, Waiting, Job
  <1>4. CASE u = t /\ EndBackoff(t)
    BY <1>1, <1>4 DEF EndBackoff, Behind, Holds, Live, Waiting, Job, QueueTypeOK
  <1>5. CASE u = t /\ DropRecord(t)
    BY <1>1, <1>5 DEF DropRecord, NoJob, Behind, Holds, Live, Waiting, Job, QueueTypeOK
  <1>6. CASE u = t /\ Cancel(t)
    BY <1>1, <1>6 DEF Cancel, NoJob, Behind, Holds, Live, Waiting, Job, QueueTypeOK
  <1> QED
    BY <1>2, <1>3, <1>4, <1>5, <1>6

\* What worker w does to its job, seen from another worker.
LEMMA OtherBehind ==
    ASSUME QueueTypeOK, NEW t \in Tasks, NEW w \in Workers, NEW v \in Workers \ {w},
           NEW u \in Tasks,
           \/ Claim(w, t) \/ DeadLetter(w, t) \/ Nack(w, t) \/ Abandon(w, t)
           \/ \E status \in {"completed", "cancelled"} : AckWith(w, t, status)
    PROVE  Behind(v, u) /\ (Holds(v, u) => Holds(v, u)')
  <1>1. job[t] \in Job
    BY DEF QueueTypeOK
  <1>2. OnlyJob(t)
    BY ClaimFacts, SettleFacts
  <1>3. CASE u # t
    BY <1>2, <1>3, BehindSame DEF OnlyJob
  <1> USE NoWorkerAssumption DEF Behind, Holds, Live, Waiting
  <1>4. CASE u = t /\ Claim(w, t)
    BY <1>1, <1>4, ClaimFacts DEF Job
  <1>5. CASE u = t /\ DeadLetter(w, t)
    BY <1>1, <1>5 DEF DeadLetter, Job, QueueTypeOK
  <1>6. CASE u = t /\ Nack(w, t)
    BY <1>1, <1>6, UseAttemptFacts DEF Nack, Job
  <1>7. CASE u = t /\ Abandon(w, t)
    BY <1>1, <1>7 DEF Abandon, Job, QueueTypeOK
  <1>8. CASE u = t /\ \E status \in {"completed", "cancelled"} : AckWith(w, t, status)
    BY <1>1, <1>8 DEF AckWith, Job, QueueTypeOK
  <1> QED
    BY <1>3, <1>4, <1>5, <1>6, <1>7, <1>8

\* A step that leaves a worker v busy with t no less sound.
Bears(v, t) ==
    /\ Behind(v, t)
    /\ Without({"lease"}) /\ Holds(v, t) => Holds(v, t)'
    /\ pointer'[t] # "none" => pointer[t] # "none" \/ worker[v].attempts + 1 < MaxAttempts
    /\ Landed(t) => Landed(t)'

\* A worker that does not move stays sound.
LEMMA ClaimFrame ==
    ASSUME Typed, Typed', NEW v \in Workers, WorkerClaim(v), worker'[v] = worker[v],
           \A t \in Tasks : worker[v].pc \in Busy /\ TaskOf(v) = t => Bears(v, t),
           undecodable' = undecodable
    PROVE  WorkerClaim(v)'
  <1> SUFFICES ASSUME worker[v].pc \in Busy  PROVE ClaimSound(v)' /\ VerdictSound(v)'
    BY DEF WorkerClaim
  <1>0. PICK t \in Tasks : t = TaskOf(v)
    BY WorkerFields DEF TaskOf
  <1>1. TaskOf(v)' = t /\ worker[v].attempts \in Nat /\ Bears(v, t)
    BY <1>0, WorkerFields DEF TaskOf
  <1>2. job[t].attempts \in Nat /\ job'[t].attempts \in Nat
    BY DEF Typed, QueueTypeOK, Job
  <1>3. (Holds(v, t) => Live(t)) /\ (Holds(v, t)' => Live(t)')
    BY DEF Holds, Live
  <1>4. /\ Landed(t)
        /\ Holds(v, t) => worker[v].attempts = job[t].attempts
        /\ Live(t) /\ ~Holds(v, t) => worker[v].attempts < job[t].attempts
        /\ pointer[t] # "none" => worker[v].attempts + 1 < MaxAttempts
        /\ Without({"lease"}) => Holds(v, t)
    BY <1>0 DEF WorkerClaim, ClaimSound
  <1>5. VerdictSound(v)'
    BY <1>0, <1>1 DEF WorkerClaim, VerdictSound, Decoded, Decided
  <1>6. /\ Landed(t)'
        /\ pointer'[t] # "none" => worker[v].attempts + 1 < MaxAttempts
        /\ Without({"lease"}) => Holds(v, t)'
        /\ Holds(v, t)' => worker[v].attempts = job'[t].attempts
    BY <1>1, <1>4 DEF Bears, Behind
  <1>7. Live(t)' /\ ~Holds(v, t)' => worker[v].attempts < job'[t].attempts
    BY <1>1, <1>2, <1>3, <1>4 DEF Bears, Behind
  <1>8. ClaimSound(v)'
    BY <1>1, <1>6, <1>7 DEF ClaimSound, Without, Landed, Live, Waiting, Holds
  <1> QED
    BY <1>5, <1>8

\* A final attempt, and the claim of a job in the queue: one worker has both.
LEMMA OutOfDate ==
    ASSUME Typed, BudgetInv, NEW v \in Workers, worker[v].pc \in Busy, ClaimSound(v),
           Live(TaskOf(v)), ~Holds(v, TaskOf(v))
    PROVE  worker[v].attempts + 1 < MaxAttempts
  <1>1. TaskOf(v) \in Tasks /\ worker[v].attempts \in Nat
    BY WorkerFields DEF TaskOf
  <1>2. job[TaskOf(v)].attempts \in Nat
    BY <1>1 DEF Typed, QueueTypeOK, Job
  <1>3. job[TaskOf(v)].attempts < Cap
    BY <1>1, LiveLanded
  <1>4. worker[v].attempts < job[TaskOf(v)].attempts
    BY DEF ClaimSound
  <1> QED
    BY <1>1, <1>2, <1>3, <1>4, MaxAttemptsAssumption DEF Cap

LEMMA ClaimTasksFrame ==
    ASSUME ClaimInv, pointer' = pointer, undecodable' = undecodable,
           \A t \in Tasks : /\ Live(t)' => Live(t)
                            /\ Landed(t) => Landed(t)'
    PROVE  \A t \in Tasks : PointerFinal(t)'
  BY DEF ClaimInv, PointerFinal

LEMMA ClaimCancelsFrame ==
    ASSUME Typed, ClaimInv, cancel' = cancel, \A t \in Tasks : Landed(t) => Landed(t)'
    PROVE  \A c \in Cancels : CancelClaim(c)'
  <1> SUFFICES ASSUME NEW c \in Cancels,
                      cancel[c].pc \in {"forget", "put", "record", "remove"}
               PROVE  Landed(CancelOf(c))'
    BY DEF CancelClaim
  <1>1. CancelOf(c) \in Tasks
    BY DEF Typed, GoodCancel, CancelOf
  <1> QED
    BY <1>1 DEF ClaimInv, CancelClaim, CancelOf

\* A step of worker w within its job.
LEMMA ClaimMoves ==
    ASSUME Typed, Typed', ClaimInv, NEW w \in Workers,
           UNCHANGED <<job, pointer, submit, cancel, undecodable>>,
           worker[w].pc \in Busy, OnlyWorker(w),
           worker'[w].task = worker[w].task, worker'[w].attempts = worker[w].attempts,
           VerdictSound(w)'
    PROVE  ClaimInv'
  <1>0. QueueTypeOK
    BY DEF Typed
  <1>1. \A t \in Tasks : /\ Live(t)' => Live(t)
                         /\ Landed(t) => Landed(t)'
    BY DEF Live, Waiting, Landed
  <1>2. ASSUME NEW v \in Workers \ {w}  PROVE WorkerClaim(v)'
    <2>1. worker'[v] = worker[v] /\ WorkerClaim(v)
      BY DEF OnlyWorker, ClaimInv
    <2>2. \A t \in Tasks : Bears(v, t)
      BY <1>0, <1>1, BehindSame DEF Bears, Holds, Landed
    <2> QED
      BY <2>1, <2>2, ClaimFrame
  <1>3. WorkerClaim(w)'
    <2>1. ClaimSound(w)
      BY DEF ClaimInv, WorkerClaim
    <2>2. TaskOf(w)' = TaskOf(w)
      BY DEF TaskOf
    <2>3. ClaimSound(w)'
      BY <2>1, <2>2 DEF ClaimSound, Landed, Live, Waiting, Holds, Without
    <2> QED
      BY <2>3 DEF WorkerClaim
  <1>4. \A t \in Tasks : PointerFinal(t)'
    BY <1>1, ClaimTasksFrame DEF PointerFinal, Live, Waiting, Landed
  <1>5. \A c \in Cancels : CancelClaim(c)'
    BY <1>1, ClaimCancelsFrame DEF CancelClaim, Landed
  <1> QED
    BY <1>2, <1>3, <1>4, <1>5 DEF ClaimInv

LEMMA ClaimWithin ==
    ASSUME Typed, Typed', ClaimInv, NEW w \in Workers,
           \/ MarkInFlight(w) \/ DecodeFails(w) \/ RecordStarted(w) \/ CallTool(w)
           \/ DecideOutcome(w) \/ PutResult(w) \/ RecordOutcome(w)
    PROVE  ClaimInv'
  <1>0. UNCHANGED <<job, pointer, submit, cancel, undecodable>>
    BY DEF MarkInFlight, DecodeFails, RecordStarted, CallTool, DecideOutcome, PutResult,
           RecordOutcome, queueVars
  <1>1. worker[w].pc \in Busy
    BY DEF MarkInFlight, DecodeFails, RecordStarted, CallTool, DecideOutcome, PutResult,
           RecordOutcome, At, Busy, WorkerPC
  <1>2. /\ OnlyWorker(w)
        /\ worker'[w].task = worker[w].task /\ worker'[w].attempts = worker[w].attempts
    BY GotoFacts, ResolveFacts
    DEF MarkInFlight, DecodeFails, RecordStarted, CallTool, DecideOutcome, PutResult,
        RecordOutcome
  <1>3. TaskOf(w)' = TaskOf(w)
    BY <1>2 DEF TaskOf
  <1>4. VerdictSound(w) /\ worker[w].attempts \in Nat
    BY <1>1, WorkerFields DEF ClaimInv, WorkerClaim
  <1>5. VerdictSound(w)'
    <2> USE <1>0, <1>2, <1>3, <1>4 DEF VerdictSound, Decoded, Decided
    <2>1. CASE MarkInFlight(w)
      BY <2>1, GotoFacts DEF MarkInFlight
    <2>2. CASE DecodeFails(w)
      BY <2>2, ResolveFacts DEF DecodeFails
    <2>3. CASE RecordStarted(w)
      BY <2>3, GotoFacts DEF RecordStarted, At
    <2>4. CASE CallTool(w)
      BY <2>4, ResolveFacts DEF CallTool, At
    <2>5. CASE DecideOutcome(w)
      <3>1. worker'[w].outcome = Verdict(w) /\ worker'[w].pc \in {"put", "record"}
        BY <2>5, ResolveFacts DEF DecideOutcome
      <3>2. TaskOf(w) \notin undecodable
        BY <2>5 DEF DecideOutcome, At
      <3>3. /\ Verdict(w) = "failed" => worker[w].attempts + 1 >= MaxAttempts
            /\ Verdict(w) = "retry" => worker[w].attempts + 1 < MaxAttempts
        BY MaxAttemptsAssumption DEF Verdict
      <3> QED
        BY <3>1, <3>2, <3>3
    <2>6. CASE PutResult(w)
      BY <2>6, GotoFacts DEF PutResult, At
    <2>7. CASE RecordOutcome(w)
      BY <2>7, GotoFacts DEF RecordOutcome, At
    <2> QED
      BY <2>1, <2>2, <2>3, <2>4, <2>5, <2>6, <2>7
  <1> QED
    BY <1>0, <1>1, <1>2, <1>5, ClaimMoves

\* A claim: the job has landed and has no pointer yet.
LEMMA ClaimClaims ==
    ASSUME Typed, Typed', BudgetInv, ClaimInv, NEW w \in Workers, NEW t \in Tasks,
           ClaimJob(w, t)
    PROVE  ClaimInv'
  <1>0. QueueTypeOK
    BY DEF Typed
  <1>1. /\ job[t].status = "pending" /\ job'[t].status = "claimed"
        /\ job'[t].attempts = job[t].attempts /\ job'[t].holder = w
        /\ OnlyJob(t) /\ pointer' = pointer
    BY <1>0, ClaimFacts DEF ClaimJob
  <1>2. UNCHANGED <<submit, cancel, undecodable>>
    BY DEF ClaimJob
  <1>3. /\ worker'[w].pc = "decode" /\ worker'[w].task = t
        /\ worker'[w].attempts = job[t].attempts
        /\ OnlyWorker(w)
    BY DEF ClaimJob, Typed, OnlyWorker
  <1>4. \A u \in Tasks : /\ Live(u)' => Live(u)
                         /\ Landed(u) => Landed(u)'
    BY <1>1, <1>2 DEF Live, Waiting, Landed, OnlyJob
  <1>5. ASSUME NEW v \in Workers \ {w}  PROVE WorkerClaim(v)'
    <2>1. worker'[v] = worker[v] /\ WorkerClaim(v)
      BY <1>3 DEF OnlyWorker, ClaimInv
    <2>2. \A u \in Tasks : Behind(v, u) /\ (Holds(v, u) => Holds(v, u)')
      BY <1>0, OtherBehind DEF ClaimJob
    <2>3. \A u \in Tasks : Bears(v, u)
      BY <1>1, <1>4, <2>2 DEF Bears, Holds, Live, Waiting, Landed
    <2> QED
      BY <1>2, <2>1, <2>3, ClaimFrame
  <1>6. WorkerClaim(w)'
    <2>1. Landed(t)'
      <3>1. Landed(t)
        BY <1>1, LiveLanded
      <3> QED
        BY <1>4, <3>1 DEF Live, Waiting, Landed
    <2>2. pointer'[t] = "none"
      BY <1>1 DEF ClaimInv, PointerFinal, Live, Waiting
    <2>3. Holds(w, t)' /\ TaskOf(w)' = t
      BY <1>1, <1>3 DEF Holds, TaskOf
    <2>4. ClaimSound(w)'
      BY <1>1, <1>3, <2>1, <2>2, <2>3 DEF ClaimSound
    <2>5. VerdictSound(w)'
      BY <1>3 DEF VerdictSound, Decoded, Decided
    <2> QED
      BY <2>4, <2>5 DEF WorkerClaim
  <1>7. \A u \in Tasks : PointerFinal(u)'
    BY <1>1, <1>2, <1>4, ClaimTasksFrame DEF PointerFinal, Live, Waiting, Landed
  <1>8. \A c \in Cancels : CancelClaim(c)'
    BY <1>2, <1>4, ClaimCancelsFrame DEF CancelClaim, Landed
  <1> QED
    BY <1>5, <1>6, <1>7, <1>8 DEF ClaimInv

\* A settlement, a failed one, or a panic.
LEMMA ClaimSettles ==
    ASSUME Typed, Typed', BudgetInv, ClaimInv, NEW w \in Workers,
           AckJob(w) \/ DeadLetterJob(w) \/ NackJob(w) \/ SettleFails(w) \/ Panic(w)
    PROVE  ClaimInv'
  <1>0. QueueTypeOK
    BY DEF Typed
  <1>1. worker[w].pc \in {"settle", "call"} /\ worker[w].pc \in Busy
    BY DEF AckJob, DeadLetterJob, NackJob, SettleFails, Panic, At, Busy, WorkerPC
  <1>2. PICK t \in Tasks : t = TaskOf(w)
    BY <1>1, WorkerFields DEF TaskOf
  <1>3. \/ DeadLetter(w, t) \/ Nack(w, t) \/ Abandon(w, t)
        \/ \E status \in {"completed", "cancelled"} : AckWith(w, t, status)
    BY <1>2 DEF AckJob, DeadLetterJob, NackJob, SettleFails, Panic
  <1>4. UNCHANGED <<submit, cancel, undecodable>>
    BY DEF AckJob, DeadLetterJob, NackJob, SettleFails, Panic, Finish
  <1>5. worker'[w].pc \in {"idle", "dead"} /\ OnlyWorker(w)
    BY LeaveFacts DEF AckJob, DeadLetterJob, NackJob, SettleFails, Panic, Finish
  <1>6. job[t] \in Job /\ OnlyJob(t)
    BY <1>0, <1>3, SettleFacts DEF QueueTypeOK
  <1>7. \A u \in Tasks : /\ Live(u)' => Live(u)
                         /\ Landed(u) => Landed(u)'
    <2>1. Live(t)' => Live(t)
      <3>1. CASE DeadLetter(w, t) \/ Nack(w, t)
        BY <3>1 DEF DeadLetter, Nack, Holds, Live
      <3>2. CASE Abandon(w, t)
        BY <1>0, <1>6, <3>2 DEF Abandon, Live, Waiting, Job, QueueTypeOK
      <3>3. CASE \E status \in {"completed", "cancelled"} : AckWith(w, t, status)
        BY <3>3 DEF AckWith, Holds, Live
      <3> QED
        BY <1>3, <3>1, <3>2, <3>3
    <2> QED
      BY <1>4, <1>6, <2>1 DEF Live, Waiting, Landed, OnlyJob
  <1>8. /\ \A u \in Tasks \ {t} : pointer'[u] = pointer[u]
        /\ pointer'[t] # pointer[t] => AckJob(w)
    BY <1>2, <1>0
    DEF AckJob, AckWith, DeadLetterJob, DeadLetter, NackJob, Nack, SettleFails, Panic,
        Abandon, QueueTypeOK
  <1>9. AckJob(w) => /\ Holds(w, t) /\ ~Live(t)' /\ t \notin undecodable /\ Landed(t)
    <2> SUFFICES ASSUME AckJob(w)
                 PROVE  Holds(w, t) /\ ~Live(t)' /\ t \notin undecodable /\ Landed(t)
      OBVIOUS
    <2>1. Holds(w, t) /\ ~Live(t)'
      BY <1>0, <1>2, <1>6 DEF AckJob, AckWith, Live, Waiting, Job, QueueTypeOK
    <2>2. Decoded(w)
      BY DEF AckJob, At, Decoded, Decided
    <2> QED
      BY <1>1, <1>2, <2>1, <2>2 DEF ClaimInv, WorkerClaim, ClaimSound, VerdictSound
  <1>10. \A u \in Tasks : PointerFinal(u)'
    BY <1>4, <1>7, <1>8, <1>9 DEF ClaimInv, PointerFinal, Live, Waiting, Landed
  <1>11. ASSUME NEW v \in Workers \ {w}  PROVE WorkerClaim(v)'
    <2>1. worker'[v] = worker[v] /\ WorkerClaim(v)
      BY <1>5 DEF OnlyWorker, ClaimInv
    <2>3. \A u \in Tasks : Behind(v, u) /\ (Holds(v, u) => Holds(v, u)')
      BY <1>0, <1>3, OtherBehind
    <2>4. worker[v].pc \in Busy /\ TaskOf(v) = t /\ AckJob(w) =>
            worker[v].attempts + 1 < MaxAttempts
      <3> SUFFICES ASSUME worker[v].pc \in Busy, TaskOf(v) = t, AckJob(w)
                   PROVE  worker[v].attempts + 1 < MaxAttempts
        OBVIOUS
      <3>1. Live(t) /\ ~Holds(v, t)
        BY <1>9 DEF Holds, Live
      <3> QED
        BY <2>1, <3>1, OutOfDate DEF WorkerClaim
    <2>5. \A u \in Tasks : worker[v].pc \in Busy /\ TaskOf(v) = u => Bears(v, u)
      BY <1>7, <1>8, <2>3, <2>4 DEF Bears, Holds, Live, Waiting, Landed
    <2> QED
      BY <1>4, <2>1, <2>5, ClaimFrame
  <1>12. WorkerClaim(w)'
    BY <1>5 DEF WorkerClaim, Busy
  <1>13. \A c \in Cancels : CancelClaim(c)'
    BY <1>4, <1>7, ClaimCancelsFrame DEF CancelClaim, Landed
  <1> QED
    BY <1>10, <1>11, <1>12, <1>13 DEF ClaimInv

\* A step that no worker takes.
LEMMA ClaimOutside ==
    ASSUME Typed, Typed', ClaimInv, worker' = worker, undecodable' = undecodable,
           pointer' = pointer,
           \A t \in Tasks : Landed(t) => Landed(t)',
           \A t \in Tasks : Landed(t) /\ Live(t)' => Live(t),
           \A v \in Workers, t \in Tasks :
             worker[v].pc \in Busy /\ TaskOf(v) = t =>
               Behind(v, t) /\ (Without({"lease"}) /\ Holds(v, t) => Holds(v, t)'),
           \A c \in Cancels : CancelClaim(c)'
    PROVE  ClaimInv'
  <1>1. ASSUME NEW v \in Workers  PROVE WorkerClaim(v)'
    <2>1. \A t \in Tasks : worker[v].pc \in Busy /\ TaskOf(v) = t => Bears(v, t)
      BY DEF Bears, Landed, Holds
    <2>2. worker'[v] = worker[v] /\ WorkerClaim(v)
      BY DEF ClaimInv
    <2> QED
      BY <2>1, <2>2, ClaimFrame
  <1>2. \A t \in Tasks : PointerFinal(t)'
    BY DEF ClaimInv, PointerFinal, Live, Waiting, Landed
  <1> QED
    BY <1>1, <1>2 DEF ClaimInv

\* A new job: nobody is at work on it yet.
LEMMA ClaimEnqueue ==
    ASSUME Typed, Typed', ClaimInv, NEW t \in Tasks, EnqueueTask(t)
    PROVE  ClaimInv'
  <1>0. QueueTypeOK
    BY DEF Typed
  <1>1. UNCHANGED <<pointer, worker, cancel, undecodable>>
    BY DEF EnqueueTask, EnqueueMark, EnqueueJob, EnqueueFails, EnqueueUnmark,
           EnqueueRecord, Enqueue, queueVars
  <1>2. \A u \in Tasks : Landed(u) => Landed(u)'
    BY DEF EnqueueTask, EnqueueMark, EnqueueJob, EnqueueFails, EnqueueUnmark,
           EnqueueRecord, SubmitGoto, Landed, Typed
  <1>3. \A u \in Tasks : Landed(u) => job'[u] = job[u]
    <2>1. CASE EnqueueJob(t)
      <3>1. ~Landed(t) /\ OnlyJob(t)
        BY <1>0, <2>1, TimerFacts DEF EnqueueJob, SubmitGoto, Landed
      <3> QED
        BY <3>1 DEF OnlyJob
    <2>2. CASE ~EnqueueJob(t)
      BY <2>2
      DEF EnqueueTask, EnqueueMark, EnqueueFails, EnqueueUnmark, EnqueueRecord, queueVars
    <2> QED
      BY <2>1, <2>2
  <1>4. ASSUME NEW v \in Workers, NEW u \in Tasks, worker[v].pc \in Busy, TaskOf(v) = u
        PROVE  Behind(v, u) /\ (Holds(v, u) => Holds(v, u)')
    <2>1. Landed(u)
      BY <1>4 DEF ClaimInv, WorkerClaim, ClaimSound
    <2> QED
      BY <1>0, <1>3, <2>1, BehindSame
  <1>5. \A u \in Tasks : Landed(u) /\ Live(u)' => Live(u)
    BY <1>3 DEF Live, Waiting
  <1>6. \A c \in Cancels : CancelClaim(c)'
    BY <1>1, <1>2, ClaimCancelsFrame DEF CancelClaim, Landed
  <1>7. \A v \in Workers, u \in Tasks :
          worker[v].pc \in Busy /\ TaskOf(v) = u =>
            Behind(v, u) /\ (Without({"lease"}) /\ Holds(v, u) => Holds(v, u)')
    BY <1>4 DEF Holds
  <1> QED
    BY <1>1, <1>2, <1>5, <1>6, <1>7, ClaimOutside
    DEF Landed, Live, Waiting, Holds, CancelClaim

\* Cancellations end jobs that wait, and leave a claimed one to its worker.
LEMMA ClaimCancel ==
    ASSUME Typed, Typed', BudgetInv, ClaimInv, NEW c \in Cancels, CancelTask(c)
    PROVE  ClaimInv'
  <1>0. QueueTypeOK
    BY DEF Typed
  <1>1. UNCHANGED <<pointer, submit, worker, undecodable>>
    BY DEF CancelTask, CancelStep, CancelPeek, CancelForget, CancelPut, CancelRecord,
           CancelRemove, CancelSignal, CancelLog, CancelCheck, CancelFails, Cancel,
           queueVars
  <1>2. job' = job \/ \E t \in Tasks : Cancel(t)
    <2>1. CASE CancelRemove(c) \/ CancelSignal(c)
      <3>1. CancelOf(c) \in Tasks
        BY <2>1 DEF CancelRemove, CancelSignal, CancelAt, CancelOf, Typed, GoodCancel
      <3> QED
        BY <2>1, <3>1 DEF CancelRemove, CancelSignal
    <2>2. CASE ~(CancelRemove(c) \/ CancelSignal(c))
      BY <2>2
      DEF CancelTask, CancelStep, CancelPeek, CancelForget, CancelPut, CancelRecord,
          CancelLog, CancelCheck, CancelFails, queueVars
    <2> QED
      BY <2>1, <2>2
  <1>3. \A v \in Workers, u \in Tasks : Behind(v, u) /\ (Holds(v, u) => Holds(v, u)')
    <2>1. CASE job' = job
      BY <1>0, <2>1, BehindSame DEF Holds
    <2>2. ASSUME NEW t \in Tasks, Cancel(t)
          PROVE  \A v \in Workers, u \in Tasks :
                   Behind(v, u) /\ (Holds(v, u) => Holds(v, u)')
      <3> SUFFICES ASSUME NEW v \in Workers, NEW u \in Tasks
                   PROVE  Behind(v, u) /\ (Holds(v, u) => Holds(v, u)')
        BY DEF Holds
      <3>1. Behind(v, u)
        BY <1>0, <2>2, TimerBehind
      <3>2. Holds(v, u) => Holds(v, u)'
        BY <1>0, <2>2 DEF Cancel, Waiting, Holds, QueueTypeOK
      <3> QED
        BY <3>1, <3>2
    <2> QED
      BY <1>2, <2>1, <2>2 DEF Holds
  <1>4. \A u \in Tasks : Live(u)' => Live(u)
    <2>1. CASE job' = job
      BY <2>1 DEF Live, Waiting
    <2>2. ASSUME NEW t \in Tasks, Cancel(t)  PROVE \A u \in Tasks : Live(u)' => Live(u)
      BY <1>0, <2>2 DEF Cancel, NoJob, Live, Waiting, QueueTypeOK
    <2> QED
      BY <1>2, <2>1, <2>2 DEF Live, Waiting
  <1>5. ASSUME NEW d \in Cancels  PROVE CancelClaim(d)'
    <2>0. CancelClaim(d)
      BY DEF ClaimInv
    <2>1. CASE d # c
      <3>1. cancel'[d] = cancel[d]
        BY <2>1
        DEF CancelTask, CancelStep, CancelPeek, CancelForget, CancelPut, CancelRecord,
            CancelRemove, CancelSignal, CancelLog, CancelCheck, CancelFails, CancelGoto,
            CancelDone, Typed
      <3> QED
        BY <1>1, <2>0, <3>1 DEF CancelClaim, CancelOf, Landed
    <2>2. ASSUME d = c, NEW t \in Tasks, CancelPeek(c, t)  PROVE CancelClaim(d)'
      <3>1. cancel'[c].task = t /\ (cancel'[c].pc = "forget" => Waiting(t))
            /\ cancel'[c].pc \in {"forget", "signal", "check"}
        BY <2>2 DEF CancelPeek, Typed
      <3>2. Waiting(t) => Landed(t)
        BY LiveLanded DEF Waiting
      <3> QED
        BY <1>1, <2>2, <3>1, <3>2 DEF CancelClaim, CancelOf, Landed
    <2>3. ASSUME d = c, CancelForget(c) \/ CancelPut(c) \/ CancelRecord(c)
          PROVE  CancelClaim(d)'
      <3>1. cancel'[c].task = cancel[c].task
            /\ cancel[c].pc \in {"forget", "put", "record"}
        BY <2>3, CancelFacts DEF CancelForget, CancelPut, CancelRecord, CancelAt
      <3> QED
        BY <1>1, <2>0, <2>3, <3>1 DEF CancelClaim, CancelOf, Landed
    <2>4. ASSUME d = c, CancelSignal(c)  PROVE CancelClaim(d)'
      <3>1. cancel'[c].pc \in {"check", "log"}
        BY <2>4, CancelFacts DEF CancelSignal
      <3> QED
        BY <2>4, <3>1 DEF CancelClaim
    <2>5. ASSUME d = c,
                 CancelRemove(c) \/ CancelLog(c) \/ CancelCheck(c) \/ CancelFails(c)
          PROVE  CancelClaim(d)'
      <3>1. cancel'[c].pc = "idle"
        BY <2>5 DEF CancelRemove, CancelLog, CancelCheck, CancelFails, CancelDone, IdleCancel,
                    Typed
      <3> QED
        BY <2>5, <3>1 DEF CancelClaim
    <2> QED
      BY <2>1, <2>2, <2>3, <2>4, <2>5 DEF CancelTask, CancelStep
  <1> QED
    BY <1>1, <1>3, <1>4, <1>5, ClaimOutside DEF Landed, Live, Waiting, Holds, CancelClaim

\* A lease that may run out under a worker excuses the worker from its claim.
LEMMA ClaimTimers ==
    ASSUME Typed, Typed', HolderInv, ClaimInv, NEW t \in Tasks,
           QueueExpireLease(t) \/ QueueEndBackoff(t) \/ QueueDropRecord(t)
    PROVE  ClaimInv'
  <1>0. QueueTypeOK
    BY DEF Typed
  <1>1. /\ UNCHANGED <<submit, worker, cancel, undecodable>>
        /\ ExpireLease(t) \/ EndBackoff(t) \/ DropRecord(t)
    BY DEF QueueExpireLease, QueueEndBackoff, QueueDropRecord
  <1>2. pointer' = pointer /\ OnlyJob(t)
    BY <1>0, <1>1, TimerFacts
  <1>3. \A u \in Tasks : Live(u)' => Live(u)
    <2>1. Live(t)' => Live(t)
      <3>1. CASE ExpireLease(t)
        BY <3>1 DEF ExpireLease, Live
      <3>2. CASE EndBackoff(t)
        BY <3>2 DEF EndBackoff, Live, Waiting
      <3>3. CASE DropRecord(t)
        BY <1>0, <3>3 DEF DropRecord, NoJob, Live, Waiting, QueueTypeOK
      <3> QED
        BY <1>1, <3>1, <3>2, <3>3
    <2> QED
      BY <1>2, <2>1 DEF OnlyJob, Live, Waiting
  <1>4. ASSUME NEW v \in Workers, NEW u \in Tasks
        PROVE  Behind(v, u) /\ (Without({"lease"}) /\ Holds(v, u) => Holds(v, u)')
    <2>1. Behind(v, u)
      BY <1>0, <1>1, TimerBehind
    <2>2. CASE u # t
      BY <1>2, <2>1, <2>2 DEF OnlyJob, Holds
    <2>3. CASE u = t /\ QueueExpireLease(t)
      BY <2>1, <2>3, NoWorkerAssumption DEF QueueExpireLease, Without, Holds
    <2>4. CASE u = t /\ ~QueueExpireLease(t)
      BY <2>1, <2>4 DEF QueueEndBackoff, QueueDropRecord, EndBackoff, DropRecord, Holds
    <2> QED
      BY <2>2, <2>3, <2>4
  <1>5. \A c \in Cancels : CancelClaim(c)'
    BY <1>1, ClaimCancelsFrame DEF CancelClaim, Landed
  <1> QED
    BY <1>1, <1>2, <1>3, <1>4, <1>5, ClaimOutside
    DEF Landed, Live, Waiting, Holds, CancelClaim

\* After a restart nobody is at work.
LEMMA ClaimRestart == ASSUME Typed, ClaimInv, Restart  PROVE ClaimInv'
  <1>1. \A w \in Workers : WorkerClaim(w)'
    BY DEF Restart, IdleWorker, WorkerClaim, Busy
  <1>2. \A c \in Cancels : CancelClaim(c)'
    BY DEF Restart, IdleCancel, CancelClaim
  <1>3. \A t \in Tasks : job'[t].status = job[t].status /\ (Landed(t) => Landed(t)')
    BY DEF Restart, Landed, Typed, QueueTypeOK, Job
  <1>4. pointer' = pointer
        /\ \A t \in undecodable' : t \in undecodable \/ t \in {u \in Tasks : Live(u)}
    BY DEF Restart
  <1>5. \A t \in Tasks : PointerFinal(t)'
    BY <1>3, <1>4 DEF ClaimInv, PointerFinal, Live, Waiting, Landed
  <1> QED
    BY <1>1, <1>2, <1>5 DEF ClaimInv

LEMMA ClaimStep ==
    ASSUME Typed, Typed', HolderInv, BudgetInv, ClaimInv, [Next]_vars  PROVE ClaimInv'
  <1>1. CASE UNCHANGED vars
    BY <1>1
    DEF vars, queueVars, histVars, ClaimInv, PointerFinal, WorkerClaim, CancelClaim,
        ClaimSound, VerdictSound, Decoded, Decided, Landed, Live, Waiting, Holds, TaskOf,
        CancelOf, Without
  <1>2. ASSUME NEW w \in Workers, RunToolWorker(w) \/ Panic(w)  PROVE ClaimInv'
    BY <1>2, ClaimWithin, ClaimClaims, ClaimSettles DEF RunToolWorker
  <1> QED
    BY <1>1, <1>2, ClaimEnqueue, ClaimCancel, ClaimTimers, ClaimRestart
    DEF Next, Running, Environment

LEMMA AlwaysClaim == Spec => []ClaimInv
  <1>1. Init => ClaimInv
    BY ClaimInit
  <1>2. Typed /\ Typed' /\ HolderInv /\ BudgetInv /\ ClaimInv /\ [Next]_vars => ClaimInv'
    BY ClaimStep
  <1> QED
    BY <1>1, <1>2, AlwaysTyped, AlwaysHolder, AlwaysBudget, PTL DEF Spec
==============================================================================
