-------------------------- MODULE TaskBackendProofs --------------------------
(***************************************************************************)
(* Proofs about TaskBackend, for all tasks, workers, requests, faults and  *)
(* max_attempts.                                                           *)
(***************************************************************************)
EXTENDS TaskBackendProperties, TLAPS

(***************************************************************************)
(* Type correctness.  TypeOK is not inductive by itself: what a worker     *)
(* writes depends on the outcome it carries from step to step.             *)
(***************************************************************************)
Busy == WorkerPC \ {"idle", "dead"}

GoodWorker == {r \in WorkerState :
    /\ r.pc \in Busy <=> r.task \in Tasks
    /\ r.pc = "put" => r.outcome \in FinishedStatus
    /\ r.pc \in {"record", "settle"} => r.outcome \in FinishedStatus \union {"retry"}}

GoodCancel == {r \in CancelState : r.pc # "idle" => r.task \in Tasks}

Typed ==
    /\ QueueTypeOK
    /\ StoreTypeOK
    /\ AuditTypeOK
    /\ inFlight \subseteq Tasks
    /\ submit \in [Tasks -> SubmitPC]
    /\ worker \in [Workers -> GoodWorker]
    /\ cancel \in [Cancels -> GoodCancel]
    /\ undecodable \subseteq Tasks
    /\ claims \in [Tasks -> Nat]
    /\ asked \subseteq Tasks
    /\ confirmed \subseteq Tasks
    /\ misread \subseteq Tasks

LEMMA TypedIsTypeOK == Typed => TypeOK
  BY DEF Typed, TypeOK, GoodWorker, GoodCancel

\* The null records are good ones.
LEMMA NullRecords ==
    /\ NoJob \in Job
    /\ IdleWorker \in GoodWorker
    /\ DeadWorker \in GoodWorker
    /\ IdleCancel \in GoodCancel
  <1>1. NoJob \in Job
    BY DEF NoJob, Job, JobStatus
  <1>2. IdleWorker \in GoodWorker
    BY NoTaskAssumption
    DEF IdleWorker, GoodWorker, WorkerState, WorkerPC, Outcome, Busy
  <1>3. DeadWorker \in GoodWorker
    BY NoTaskAssumption
    DEF DeadWorker, IdleWorker, GoodWorker, WorkerState, WorkerPC, Outcome, Busy
  <1>4. IdleCancel \in GoodCancel
    BY DEF IdleCancel, GoodCancel, CancelState, CancelPC
  <1> QED
    BY <1>1, <1>2, <1>3, <1>4

\* The initial state is typed.
LEMMA TypedInit == Init => Typed
  BY NullRecords
  DEF Init, QueueInit, StoreInit, AuditInit, Typed, QueueTypeOK, StoreTypeOK,
      AuditTypeOK, PointerStatus, Blob, NoBlob, AuditEvent, SubmitPC

(***************************************************************************)
(* The queue keeps its types.                                              *)
(***************************************************************************)
LEMMA UseAttemptTyped ==
    ASSUME QueueTypeOK, NEW t \in Tasks, NEW status \in {"pending", "scheduled"},
           UseAttempt(t, status)
    PROVE  job' \in [Tasks -> Job]
  <1> DEFINE next == [status   |-> IF job[t].attempts + 1 >= MaxAttempts
                                   THEN "dead" ELSE status,
                      attempts |-> job[t].attempts + 1,
                      holder   |-> NoWorker]
  <1>1. next \in Job
    BY DEF QueueTypeOK, Job, JobStatus
  <1>2. job' = [job EXCEPT ![t] = next]
    BY DEF UseAttempt
  <1> HIDE DEF next
  <1> QED
    BY <1>1, <1>2 DEF QueueTypeOK

\* What a worker does to the queue.
LEMMA QueueTyped ==
    ASSUME QueueTypeOK, NEW t \in Tasks, NEW w \in Workers,
           \/ Claim(w, t) \/ DeadLetter(w, t) \/ Nack(w, t) \/ Abandon(w, t)
           \/ \E status \in {"completed", "cancelled"} : AckWith(w, t, status)
    PROVE  QueueTypeOK'
  <1>0. job[t] \in Job
    BY DEF QueueTypeOK
  <1> USE DEF QueueTypeOK
  <1>1. CASE Claim(w, t)
    BY <1>0, <1>1 DEF Claim, Job, JobStatus
  <1>2. CASE DeadLetter(w, t)
    BY <1>0, <1>2 DEF DeadLetter, Job, JobStatus
  <1>3. CASE Abandon(w, t)
    BY <1>0, <1>3 DEF Abandon, Job, JobStatus
  <1>4. CASE Nack(w, t)
    BY <1>4, UseAttemptTyped DEF Nack
  <1>5. ASSUME NEW status \in {"completed", "cancelled"}, AckWith(w, t, status)
        PROVE  QueueTypeOK'
    BY <1>0, <1>5 DEF AckWith, Job, JobStatus, PointerStatus
  <1> QED
    BY <1>1, <1>2, <1>3, <1>4, <1>5

\* What a request does to it.
LEMMA CancelTyped ==
    ASSUME QueueTypeOK, NEW t \in Tasks, Cancel(t)
    PROVE  QueueTypeOK'
  BY NullRecords DEF Cancel, QueueTypeOK

\* What it does by itself.
LEMMA TimerTyped ==
    ASSUME QueueTypeOK, NEW t \in Tasks,
           ExpireLease(t) \/ EndBackoff(t) \/ DropRecord(t)
    PROVE  QueueTypeOK'
  <1>1. CASE ExpireLease(t)
    BY <1>1, UseAttemptTyped DEF ExpireLease, QueueTypeOK
  <1>2. CASE EndBackoff(t)
    BY <1>2 DEF EndBackoff, QueueTypeOK, Job, JobStatus
  <1>3. CASE DropRecord(t)
    BY <1>3, NullRecords DEF DropRecord, QueueTypeOK
  <1> QED
    BY <1>1, <1>2, <1>3

(***************************************************************************)
(* The stores keep their types: a put or an append that is tried.          *)
(***************************************************************************)
LEMMA PutTyped ==
    ASSUME StoreTypeOK, NEW t \in Tasks, NEW status \in FinishedStatus, TryPut(t, status)
    PROVE  StoreTypeOK'
  <1>1. CASE Put(t, status)
    <2>1. [status |-> status, expired |-> FALSE] \in Blob
      BY DEF Blob
    <2> QED
      BY <1>1, <2>1 DEF Put, StoreTypeOK
  <1>2. CASE UNCHANGED blob
    BY <1>2 DEF StoreTypeOK
  <1> QED
    BY <1>1, <1>2 DEF TryPut

LEMMA RecordTyped ==
    ASSUME AuditTypeOK, NEW t \in Tasks, NEW event \in AuditEvent, TryRecord(t, event)
    PROVE  AuditTypeOK'
  <1>1. CASE Record(t, event)
    <2>1. audit[t] \union {event} \in SUBSET AuditEvent
      BY DEF AuditTypeOK
    <2> QED
      BY <1>1, <2>1 DEF Record, AuditTypeOK
  <1>2. CASE UNCHANGED audit
    BY <1>2 DEF AuditTypeOK
  <1> QED
    BY <1>1, <1>2 DEF TryRecord

(***************************************************************************)
(* Every action keeps the types.                                           *)
(***************************************************************************)
LEMMA TypedEnqueue ==
    ASSUME Typed, NEW t \in Tasks, EnqueueTask(t)
    PROVE  Typed'
  <1>1. CASE EnqueueMark(t)
    BY <1>1
    DEF EnqueueMark, SubmitGoto, SubmitPC, Typed, QueueTypeOK, StoreTypeOK, AuditTypeOK,
        queueVars, histVars
  <1>2. CASE EnqueueJob(t)
    <2>1. QueueTypeOK'
      <3>1. job' \in [Tasks -> Job]
        BY <1>2, NullRecords DEF EnqueueJob, Enqueue, Typed, QueueTypeOK, Job, JobStatus, NoJob
      <3> QED
        BY <1>2, <3>1 DEF EnqueueJob, Enqueue, Typed, QueueTypeOK
    <2> QED
      BY <1>2, <2>1
      DEF EnqueueJob, SubmitGoto, SubmitPC, Typed, StoreTypeOK, AuditTypeOK, histVars
  <1>3. CASE EnqueueFails(t)
    BY <1>3
    DEF EnqueueFails, SubmitGoto, SubmitPC, Typed, QueueTypeOK, StoreTypeOK, AuditTypeOK,
        queueVars, histVars
  <1>4. CASE EnqueueUnmark(t)
    BY <1>4
    DEF EnqueueUnmark, SubmitGoto, SubmitPC, Typed, QueueTypeOK, StoreTypeOK, AuditTypeOK,
        queueVars, histVars
  <1>5. CASE EnqueueRecord(t)
    <2>1. AuditTypeOK'
      BY <1>5, RecordTyped DEF EnqueueRecord, Typed, AuditEvent
    <2> QED
      BY <1>5, <2>1
      DEF EnqueueRecord, SubmitGoto, SubmitPC, Typed, QueueTypeOK, StoreTypeOK, queueVars,
          histVars
  <1> QED
    BY <1>1, <1>2, <1>3, <1>4, <1>5 DEF EnqueueTask

\* A worker that moves on within its job stays good.
LEMMA GotoGood ==
    ASSUME Typed, NEW w \in Workers, NEW pc \in Busy,
           worker[w].pc \in Busy,
           pc = "put" => worker[w].outcome \in FinishedStatus,
           pc \in {"record", "settle"} => worker[w].outcome \in FinishedStatus \union {"retry"},
           Goto(w, pc)
    PROVE  worker' \in [Workers -> GoodWorker]
  <1>1. worker[w] \in GoodWorker
    BY DEF Typed
  <1>2. [worker[w] EXCEPT !.pc = pc] \in GoodWorker
    BY <1>1 DEF GoodWorker, WorkerState, Busy
  <1> QED
    BY <1>2 DEF Goto, Typed

LEMMA ResolveGood ==
    ASSUME Typed, NEW w \in Workers, NEW pc \in Busy, NEW outcome \in Outcome,
           worker[w].pc \in Busy,
           pc = "put" => outcome \in FinishedStatus,
           pc \in {"record", "settle"} => outcome \in FinishedStatus \union {"retry"},
           Resolve(w, pc, outcome)
    PROVE  worker' \in [Workers -> GoodWorker]
  <1>1. worker[w] \in GoodWorker
    BY DEF Typed
  <1>2. [worker[w] EXCEPT !.pc = pc, !.outcome = outcome] \in GoodWorker
    BY <1>1 DEF GoodWorker, WorkerState, Busy
  <1> QED
    BY <1>2 DEF Resolve, Typed

\* A worker that is not busy any more is good as well.
LEMMA FinishTyped ==
    ASSUME Typed, NEW w \in Workers, QueueTypeOK',
           worker' = [worker EXCEPT ![w] = IdleWorker]
             \/ worker' = [worker EXCEPT ![w] = DeadWorker],
           UNCHANGED <<blob, audit, inFlight, submit, cancel, undecodable, histVars>>
    PROVE  Typed'
  <1>1. worker' \in [Workers -> GoodWorker]
    BY NullRecords DEF Typed
  <1> QED
    BY <1>1 DEF Typed, StoreTypeOK, AuditTypeOK, histVars

LEMMA TypedWorker ==
    ASSUME Typed, NEW w \in Workers, RunToolWorker(w) \/ Panic(w)
    PROVE  Typed'
  <1>0. worker[w] \in GoodWorker /\ QueueTypeOK
    BY DEF Typed
  <1>a. worker[w].pc \in Busy => TaskOf(w) \in Tasks
    BY <1>0 DEF GoodWorker, TaskOf
  <1>1. ASSUME NEW t \in Tasks, ClaimJob(w, t)  PROVE Typed'
    <2>1. QueueTypeOK'
      BY <1>0, <1>1, QueueTyped DEF ClaimJob
    <2>2. job[t].attempts \in Nat
      BY <1>0 DEF QueueTypeOK, Job
    <2>3. [pc |-> "decode", task |-> t, attempts |-> job[t].attempts,
           outcome |-> "none"] \in GoodWorker
      BY <2>2 DEF GoodWorker, WorkerState, WorkerPC, Outcome, Busy
    <2>4. worker' \in [Workers -> GoodWorker]
      BY <1>1, <2>3 DEF ClaimJob, Typed
    <2> QED
      BY <1>1, <2>1, <2>4 DEF ClaimJob, Typed, StoreTypeOK, AuditTypeOK
  <1>2. CASE MarkInFlight(w)
    <2>1. worker' \in [Workers -> GoodWorker]
      BY <1>2, GotoGood DEF MarkInFlight, At, Busy, WorkerPC
    <2>2. TaskOf(w) \in Tasks
      BY <1>2, <1>a DEF MarkInFlight, At, Busy, WorkerPC
    <2> QED
      BY <1>2, <2>1, <2>2
      DEF MarkInFlight, Typed, QueueTypeOK, StoreTypeOK, AuditTypeOK, queueVars, histVars
  <1>3. CASE DecodeFails(w)
    <2>1. worker' \in [Workers -> GoodWorker]
      BY <1>3, ResolveGood DEF DecodeFails, At, Busy, WorkerPC, Outcome, FinishedStatus
    <2> QED
      BY <1>3, <2>1
      DEF DecodeFails, Typed, QueueTypeOK, StoreTypeOK, AuditTypeOK, queueVars, histVars
  <1>4. CASE RecordStarted(w)
    <2>1. worker' \in [Workers -> GoodWorker]
      BY <1>4, GotoGood DEF RecordStarted, At, Busy, WorkerPC
    <2>2. AuditTypeOK'
      BY <1>4, <1>a, RecordTyped DEF RecordStarted, At, Busy, WorkerPC, Typed, AuditEvent
    <2> QED
      BY <1>4, <2>1, <2>2
      DEF RecordStarted, Typed, QueueTypeOK, StoreTypeOK, queueVars, histVars
  <1>5. CASE CallTool(w)
    <2>1. worker' \in [Workers -> GoodWorker]
      BY <1>5, ResolveGood DEF CallTool, At, Busy, WorkerPC, Outcome
    <2> QED
      BY <1>5, <2>1
      DEF CallTool, Typed, QueueTypeOK, StoreTypeOK, AuditTypeOK, queueVars, histVars
  <1>6. CASE DecideOutcome(w)
    <2>1. Verdict(w) \in {"completed", "cancelled", "failed", "retry"}
      BY DEF Verdict
    <2>2. worker' \in [Workers -> GoodWorker]
      BY <1>6, <2>1, ResolveGood
      DEF DecideOutcome, At, Busy, WorkerPC, Outcome, FinishedStatus
    <2> QED
      BY <1>6, <2>2
      DEF DecideOutcome, Typed, QueueTypeOK, StoreTypeOK, AuditTypeOK, queueVars, histVars
  <1>7. CASE PutResult(w)
    <2>1. worker[w].outcome \in FinishedStatus /\ TaskOf(w) \in Tasks
      BY <1>0, <1>7, <1>a DEF PutResult, At, GoodWorker, Busy, WorkerPC
    <2>2. worker' \in [Workers -> GoodWorker]
      BY <1>7, <2>1, GotoGood DEF PutResult, At, Busy, WorkerPC
    <2>3. StoreTypeOK'
      BY <1>7, <2>1, PutTyped DEF PutResult, Typed
    <2> QED
      BY <1>7, <2>2, <2>3
      DEF PutResult, Typed, QueueTypeOK, AuditTypeOK, queueVars, histVars
  <1>8. CASE RecordOutcome(w)
    <2>1. worker[w].outcome \in FinishedStatus \union {"retry"} /\ TaskOf(w) \in Tasks
      BY <1>0, <1>8, <1>a DEF RecordOutcome, At, GoodWorker, Busy, WorkerPC
    <2>2. worker' \in [Workers -> GoodWorker]
      BY <1>8, <2>1, GotoGood DEF RecordOutcome, At, Busy, WorkerPC
    <2>3. AuditTypeOK'
      BY <1>8, <2>1, RecordTyped DEF RecordOutcome, Typed, AuditEvent, FinishedStatus
    <2> QED
      BY <1>8, <2>2, <2>3
      DEF RecordOutcome, Typed, QueueTypeOK, StoreTypeOK, queueVars, histVars
  <1>9. ASSUME AckJob(w) \/ DeadLetterJob(w) \/ NackJob(w) \/ SettleFails(w)
        PROVE  Typed'
    <2>1. TaskOf(w) \in Tasks
      BY <1>9, <1>a DEF AckJob, DeadLetterJob, NackJob, SettleFails, At, Busy, WorkerPC
    <2>2. QueueTypeOK'
      BY <1>0, <1>9, <2>1, QueueTyped DEF AckJob, DeadLetterJob, NackJob, SettleFails
    <2> QED
      BY <1>9, <2>2, FinishTyped DEF AckJob, DeadLetterJob, NackJob, SettleFails, Finish
  <1>10. CASE Panic(w)
    <2>1. TaskOf(w) \in Tasks
      BY <1>10, <1>a DEF Panic, At, Busy, WorkerPC
    <2>2. QueueTypeOK'
      BY <1>0, <1>10, <2>1, QueueTyped DEF Panic
    <2> QED
      BY <1>10, <2>2, FinishTyped DEF Panic
  <1> QED
    BY <1>1, <1>2, <1>3, <1>4, <1>5, <1>6, <1>7, <1>8, <1>9, <1>10 DEF RunToolWorker

LEMMA TypedCancel ==
    ASSUME Typed, NEW c \in Cancels, CancelTask(c)
    PROVE  Typed'
  <1>0. cancel[c] \in GoodCancel /\ QueueTypeOK
    BY DEF Typed
  <1>a. ~CancelAt(c, "idle") => CancelOf(c) \in Tasks
    BY <1>0 DEF GoodCancel, CancelAt, CancelOf
  <1>b. ASSUME NEW pc \in CancelPC, ~CancelAt(c, "idle"), CancelGoto(c, pc) \/ CancelDone(c)
        PROVE  cancel' \in [Cancels -> GoodCancel]
    <2>1. [cancel[c] EXCEPT !.pc = pc] \in GoodCancel
      BY <1>0, <1>b DEF GoodCancel, CancelState, CancelAt
    <2> QED
      BY <1>b, <2>1, NullRecords DEF CancelGoto, CancelDone, Typed
  <1>1. ASSUME NEW t \in Tasks, CancelPeek(c, t)  PROVE Typed'
    <2>1. PICK pc \in CancelPC : cancel' = [cancel EXCEPT ![c] = [task |-> t, pc |-> pc]]
      BY <1>1 DEF CancelPeek, CancelPC
    <2>2. [task |-> t, pc |-> pc] \in GoodCancel
      BY DEF GoodCancel, CancelState
    <2>3. cancel' \in [Cancels -> GoodCancel]
      BY <2>1, <2>2 DEF Typed
    <2> QED
      BY <1>1, <2>3
      DEF CancelPeek, Typed, QueueTypeOK, StoreTypeOK, AuditTypeOK, queueVars
  <1>2. CASE CancelForget(c)
    <2>1. cancel' \in [Cancels -> GoodCancel]
      BY <1>2, <1>b DEF CancelForget, CancelAt, CancelPC
    <2> QED
      BY <1>2, <2>1
      DEF CancelForget, Typed, QueueTypeOK, StoreTypeOK, AuditTypeOK, queueVars, histVars
  <1>3. CASE CancelPut(c)
    <2>1. cancel' \in [Cancels -> GoodCancel]
      BY <1>3, <1>b DEF CancelPut, CancelAt, CancelPC
    <2>2. StoreTypeOK'
      BY <1>3, <1>a, PutTyped DEF CancelPut, CancelAt, Typed, FinishedStatus
    <2> QED
      BY <1>3, <2>1, <2>2
      DEF CancelPut, Typed, QueueTypeOK, AuditTypeOK, queueVars, histVars
  <1>4. CASE CancelRecord(c)
    <2>1. cancel' \in [Cancels -> GoodCancel]
      BY <1>4, <1>b DEF CancelRecord, CancelAt, CancelPC
    <2>2. AuditTypeOK'
      BY <1>4, <1>a, RecordTyped DEF CancelRecord, CancelAt, Typed, AuditEvent
    <2> QED
      BY <1>4, <2>1, <2>2
      DEF CancelRecord, Typed, QueueTypeOK, StoreTypeOK, queueVars, histVars
  <1>5. CASE CancelRemove(c)
    <2>1. cancel' \in [Cancels -> GoodCancel] /\ CancelOf(c) \in Tasks
      BY <1>5, <1>a, <1>b DEF CancelRemove, CancelAt, CancelPC
    <2>2. QueueTypeOK'
      BY <1>0, <1>5, <2>1, CancelTyped DEF CancelRemove
    <2> QED
      BY <1>5, <2>1, <2>2
      DEF CancelRemove, Typed, StoreTypeOK, AuditTypeOK
  <1>6. CASE CancelSignal(c)
    <2>1. cancel' \in [Cancels -> GoodCancel] /\ CancelOf(c) \in Tasks
      BY <1>6, <1>a, <1>b DEF CancelSignal, CancelAt, CancelPC
    <2>2. QueueTypeOK'
      BY <1>0, <1>6, <2>1, CancelTyped DEF CancelSignal
    <2> QED
      BY <1>6, <2>1, <2>2
      DEF CancelSignal, Typed, StoreTypeOK, AuditTypeOK, histVars
  <1>7. CASE CancelLog(c)
    <2>1. cancel' \in [Cancels -> GoodCancel] /\ CancelOf(c) \in Tasks
      BY <1>7, <1>a, <1>b DEF CancelLog, CancelAt, CancelPC
    <2>2. AuditTypeOK'
      BY <1>7, <2>1, RecordTyped DEF CancelLog, Typed, AuditEvent
    <2> QED
      BY <1>7, <2>1, <2>2
      DEF CancelLog, Typed, QueueTypeOK, StoreTypeOK, queueVars
  <1>8. CASE CancelCheck(c)
    <2>1. cancel' \in [Cancels -> GoodCancel]
      BY <1>8, <1>b DEF CancelCheck, CancelAt, CancelPC
    <2> QED
      BY <1>8, <2>1
      DEF CancelCheck, Typed, QueueTypeOK, StoreTypeOK, AuditTypeOK, queueVars, histVars
  <1>9. CASE CancelFails(c)
    <2>1. cancel' \in [Cancels -> GoodCancel]
      BY <1>9, <1>b DEF CancelFails, CancelAt, CancelPC
    <2> QED
      BY <1>9, <2>1
      DEF CancelFails, Typed, QueueTypeOK, StoreTypeOK, AuditTypeOK, queueVars, histVars
  <1> QED
    BY <1>1, <1>2, <1>3, <1>4, <1>5, <1>6, <1>7, <1>8, <1>9 DEF CancelTask, CancelStep

LEMMA TypedEnvironment ==
    ASSUME Typed, Environment \/ Restart
    PROVE  Typed'
  <1>0. QueueTypeOK
    BY DEF Typed
  <1>1. ASSUME NEW t \in Tasks,
               QueueExpireLease(t) \/ QueueEndBackoff(t) \/ QueueDropRecord(t)
        PROVE  Typed'
    <2>1. QueueTypeOK'
      BY <1>0, <1>1, TimerTyped DEF QueueExpireLease, QueueEndBackoff, QueueDropRecord
    <2> QED
      BY <1>1, <2>1
      DEF QueueExpireLease, QueueEndBackoff, QueueDropRecord, Typed, StoreTypeOK,
          AuditTypeOK, histVars
  <1>2. ASSUME NEW w \in Workers, Panic(w)  PROVE Typed'
    BY <1>2, TypedWorker
  <1>3. CASE Restart
    <2>1. job' \in [Tasks -> Job]
      <3>1. \A t \in Tasks : [job[t] EXCEPT !.holder = NoWorker] \in Job
        BY <1>0 DEF QueueTypeOK, Job
      <3> QED
        BY <1>3, <3>1 DEF Restart
    <2>2. submit' \in [Tasks -> SubmitPC]
      BY <1>3 DEF Restart, Typed, SubmitPC
    <2>3. undecodable' \subseteq Tasks
      BY <1>3 DEF Restart, Typed
    <2> QED
      BY <1>3, <2>1, <2>2, <2>3, NullRecords
      DEF Restart, Typed, QueueTypeOK, StoreTypeOK, AuditTypeOK, histVars
  <1> QED
    BY <1>1, <1>2, <1>3 DEF Environment

LEMMA TypedStep == Typed /\ [Next]_vars => Typed'
  <1> SUFFICES ASSUME Typed, [Next]_vars  PROVE Typed'
    OBVIOUS
  <1>1. CASE Next
    BY <1>1, TypedEnqueue, TypedWorker, TypedCancel, TypedEnvironment DEF Next, Running
  <1>2. CASE UNCHANGED vars
    BY <1>2 DEF vars, Typed, QueueTypeOK, StoreTypeOK, AuditTypeOK, queueVars, histVars
  <1> QED
    BY <1>1, <1>2

LEMMA AlwaysTyped == Spec => []Typed
  BY TypedInit, TypedStep, PTL DEF Spec

\* Every variable keeps its type: whatever a worker or a request carries
\* across its awaits is fit for the store it is then written to.
THEOREM TypeCorrect == Spec => []TypeOK
  BY AlwaysTyped, TypedIsTypeOK, PTL
==============================================================================
