--------------------- MODULE TaskBackendRefinementProofs ---------------------
(***************************************************************************)
(* The write side implements TaskLifecycle: without slow workers, every    *)
(* step of a request, a worker, the queue or a restart is, for the status  *)
(* a client sees, one of the steps TaskLifecycle allows, or no step.       *)
(***************************************************************************)
EXTENDS TaskBackendOutcomeProofs

(***************************************************************************)
(* The in-flight map and the submission of a task                          *)
(***************************************************************************)
MapInv ==
    \A t \in Tasks :
        /\ submit[t] = "new" => t \notin inFlight
        /\ submit[t] \in {"marked", "refused"} => t \in inFlight

LEMMA MapInit == Init => MapInv
  BY DEF Init, MapInv

\* Whoever changes the entry of a task otherwise has seen its job in the queue.
LEMMA MapStep ==
    ASSUME Typed, ClaimInv, MapInv, [Next]_vars  PROVE MapInv'
  <1>1. ASSUME NEW t \in Tasks, EnqueueTask(t)  PROVE MapInv'
    BY <1>1
    DEF EnqueueTask, EnqueueMark, EnqueueJob, EnqueueFails, EnqueueUnmark, EnqueueRecord,
        SubmitGoto, MapInv, Typed
  <1>2. ASSUME NEW t, Landed(t), submit' = submit,
               inFlight' \in {inFlight \union {t}, inFlight \ {t}, inFlight}
        PROVE  MapInv'
    BY <1>2 DEF MapInv, Landed
  <1>3. ASSUME NEW w \in Workers, RunToolWorker(w) \/ Panic(w)  PROVE MapInv'
    <2>1. CASE MarkInFlight(w) \/ CallTool(w)
      <3>1. Landed(TaskOf(w))
        BY <2>1
        DEF MarkInFlight, CallTool, At, Busy, WorkerPC, ClaimInv, WorkerClaim,
            ClaimSound
      <3> QED
        BY <1>2, <2>1, <3>1 DEF MarkInFlight, CallTool
    <2>2. CASE ~(MarkInFlight(w) \/ CallTool(w))
      <3>1. UNCHANGED <<submit, inFlight>>
        BY <1>3, <2>2
        DEF RunToolWorker, ClaimJob, DecodeFails, RecordStarted, DecideOutcome, PutResult,
            RecordOutcome, AckJob, DeadLetterJob, NackJob, SettleFails, Panic, Finish
      <3> QED
        BY <3>1 DEF MapInv
    <2> QED
      BY <2>1, <2>2
  <1>4. ASSUME NEW c \in Cancels, CancelTask(c)  PROVE MapInv'
    <2>1. CASE CancelForget(c)
      <3>1. Landed(CancelOf(c))
        BY <2>1 DEF CancelForget, CancelAt, ClaimInv, CancelClaim
      <3> QED
        BY <1>2, <2>1, <3>1 DEF CancelForget
    <2>2. CASE ~CancelForget(c)
      <3>1. UNCHANGED <<submit, inFlight>>
        BY <1>4, <2>2
        DEF CancelTask, CancelStep, CancelPeek, CancelPut, CancelRecord, CancelRemove,
            CancelSignal, CancelLog, CancelCheck, CancelFails
      <3> QED
        BY <3>1 DEF MapInv
    <2> QED
      BY <2>1, <2>2
  <1>5. ASSUME NEW t \in Tasks,
               QueueExpireLease(t) \/ QueueEndBackoff(t) \/ QueueDropRecord(t)
        PROVE  MapInv'
    BY <1>5 DEF QueueExpireLease, QueueEndBackoff, QueueDropRecord, MapInv
  <1>6. CASE Restart
    BY <1>6 DEF Restart, MapInv
  <1>7. CASE UNCHANGED vars
    BY <1>7 DEF vars, MapInv
  <1> QED
    BY <1>1, <1>3, <1>4, <1>5, <1>6, <1>7 DEF Next, Running, Environment

LEMMA AlwaysMap == Spec => []MapInv
  <1>1. Typed /\ ClaimInv /\ MapInv /\ [Next]_vars => MapInv'
    BY MapStep
  <1> QED
    BY <1>1, MapInit, AlwaysTyped, AlwaysClaim, PTL DEF Spec

(***************************************************************************)
(* What a client sees                                                      *)
(***************************************************************************)
Outcomes == {"completed", "failed", "cancelled"}

LEMMA StatusFacts ==
    ASSUME Typed, BudgetInv, ClaimInv, BlobInv, MapInv, NEW t \in Tasks
    PROVE  /\ submit[t] = "new" =>
                LifecycleStatus(t) = "unknown" /\ pointer[t] = "none"
           /\ submit[t] \in {"marked", "refused"} \/ Live(t) =>
                LifecycleStatus(t) = "working" /\ pointer[t] = "none"
           /\ LifecycleStatus(t) = "working" => pointer[t] = "none"
           /\ submit[t] # "new" => LifecycleStatus(t) \in Outcomes \union {"working", "lost"}
  <1>1. pointer[t] # "none" => ~Live(t) /\ Landed(t)
    BY DEF ClaimInv, PointerFinal
  <1>2. (Live(t) => Landed(t)) /\ (HasBlob(t) => Landed(t))
    BY LiveLanded DEF BlobInv, BlobCore, Live, Waiting
  <1>3. /\ submit[t] = "new" => t \notin inFlight
        /\ submit[t] \in {"marked", "refused"} => t \in inFlight
    BY DEF MapInv
  <1>4. pointer[t] \in {"none", "completed", "cancelled"}
    BY DEF Typed, QueueTypeOK, PointerStatus
  <1>5. HasBlob(t) => blob[t].status \in Outcomes
    BY DEF Typed, StoreTypeOK, Blob, FinishedStatus, HasBlob, Outcomes
  <1> QED
    BY <1>1, <1>2, <1>3, <1>4, <1>5 DEF LifecycleStatus, Snapshot, Landed, Outcomes

\* The answer about t does not change.
Steady(t) == LifecycleStatus(t)' = LifecycleStatus(t)

LEMMA SteadySame ==
    ASSUME NEW t \in Tasks, pointer'[t] = pointer[t], blob'[t] = blob[t],
           t \in inFlight' <=> t \in inFlight, Live(t)' <=> Live(t),
           submit'[t] = "new" <=> submit[t] = "new"
    PROVE  Steady(t)
  BY DEF Steady, LifecycleStatus, Snapshot, HasBlob

LifecycleStep == [Lifecycle!Next]_(Lifecycle!vars)

LEMMA NothingHappens ==
    ASSUME \A t \in Tasks : Steady(t), pointer' = pointer
    PROVE  LifecycleStep
  BY DEF Steady, LifecycleStep, Lifecycle!vars

LEMMA BecomeFacts ==
    ASSUME NEW t \in Tasks, NEW to, LifecycleStatus(t)' = to,
           \A u \in Tasks \ {t} : Steady(u)
    PROVE  Lifecycle!Become(t, to)
  BY DEF Steady, Lifecycle!Become

\* The job or the in-flight entry of a task goes, or not, and no outcome is
\* committed: the task is still working, has an outcome, or is lost.
LEMMA Drops ==
    ASSUME Typed', NEW t \in Tasks, \A u \in Tasks \ {t} : Steady(u),
           pointer' = pointer, pointer[t] = "none", LifecycleStatus(t) = "working",
           submit'[t] # "new"
    PROVE  LifecycleStep
  <1>1. PICK to : to = LifecycleStatus(t)'
    OBVIOUS
  <1>2. to \in Outcomes \union {"lost", "working"}
    BY <1>1
    DEF LifecycleStatus, Snapshot, HasBlob, Outcomes, Typed, StoreTypeOK, Blob,
        FinishedStatus
  <1>3. CASE to = "working"
    <2>1. \A u \in Tasks : Steady(u)
      BY <1>1, <1>3 DEF Steady
    <2> QED
      BY <2>1, NothingHappens
  <1>4. CASE to # "working"
    <2>1. Lifecycle!Become(t, to)
      BY <1>1, BecomeFacts
    <2>2. Lifecycle!Conclude(t)
      BY <1>2, <1>4, <2>1 DEF Lifecycle!Conclude, Lifecycle!Outcome, Outcomes
    <2> QED
      BY <2>2 DEF LifecycleStep, Lifecycle!Next
  <1> QED
    BY <1>3, <1>4

(***************************************************************************)
(* Every step                                                              *)
(***************************************************************************)
Invariants == Typed /\ BudgetInv /\ ClaimInv /\ BlobInv /\ MapInv

LEMMA RefineEnqueue ==
    ASSUME Invariants, Typed', NEW t \in Tasks, EnqueueTask(t)
    PROVE  LifecycleStep
  <1> USE DEF Invariants
  <1>0. QueueTypeOK
    BY DEF Typed
  <1>1. UNCHANGED <<pointer, blob>> /\ OnlyJob(t)
    <2>1. CASE EnqueueJob(t)
      BY <1>0, <2>1, TimerFacts DEF EnqueueJob
    <2>2. CASE ~EnqueueJob(t)
      BY <2>2
      DEF EnqueueTask, EnqueueMark, EnqueueFails, EnqueueUnmark, EnqueueRecord, OnlyJob,
          queueVars
    <2> QED
      BY <2>1, <2>2
  <1>2. \A u \in Tasks \ {t} : submit'[u] = submit[u] /\ (u \in inFlight' <=> u \in inFlight)
    BY DEF EnqueueTask, EnqueueMark, EnqueueJob, EnqueueFails, EnqueueUnmark,
           EnqueueRecord, SubmitGoto, Typed
  <1>3. ASSUME NEW u \in Tasks \ {t}  PROVE Steady(u)
    <2>1. Live(u)' <=> Live(u)
      BY <1>1 DEF OnlyJob, Live, Waiting
    <2> QED
      BY <1>1, <1>2, <2>1, SteadySame DEF Live, Waiting
  <1>4. CASE EnqueueMark(t)
    <2>1. LifecycleStatus(t) = "unknown" /\ pointer[t] = "none" /\ t \in inFlight'
      BY <1>4, StatusFacts DEF EnqueueMark, SubmitGoto
    <2>2. LifecycleStatus(t)' = "working"
      BY <1>1, <2>1 DEF LifecycleStatus, Snapshot
    <2>3. Lifecycle!Accept(t)
      BY <1>1, <1>3, <2>1, <2>2, BecomeFacts DEF Lifecycle!Accept
    <2> QED
      BY <2>3 DEF LifecycleStep, Lifecycle!Next
  <1>5. CASE EnqueueJob(t) \/ EnqueueFails(t) \/ EnqueueUnmark(t)
    <2>1. submit[t] \in {"marked", "refused"} /\ submit'[t] # "new"
      BY <1>5 DEF EnqueueJob, EnqueueFails, EnqueueUnmark, SubmitGoto, Typed
    <2> QED
      BY <1>1, <1>3, <2>1, StatusFacts, Drops
  <1>6. CASE EnqueueRecord(t)
    <2>1. /\ job' = job /\ inFlight' = inFlight
          /\ submit[t] # "new" /\ submit'[t] # "new"
      BY <1>6 DEF EnqueueRecord, SubmitGoto, Typed, queueVars
    <2>2. Steady(t)
      BY <1>1, <2>1, SteadySame DEF Live, Waiting
    <2> QED
      BY <1>1, <1>3, <2>2, NothingHappens
  <1> QED
    BY <1>4, <1>5, <1>6 DEF EnqueueTask

\* A worker acts on a job that is in the queue.
LEMMA RefineWorker ==
    ASSUME Without({"lease"}), Invariants, Typed', NEW w \in Workers,
           RunToolWorker(w) \/ Panic(w)
    PROVE  LifecycleStep
  <1> USE DEF Invariants
  <1>0. QueueTypeOK /\ inFlight \subseteq Tasks
    BY DEF Typed
  <1>1. ASSUME NEW t \in Tasks, Live(t), OnlyJob(t), UNCHANGED <<pointer, submit>>,
               \A u \in Tasks \ {t} : /\ blob'[u] = blob[u]
                                      /\ u \in inFlight' <=> u \in inFlight
        PROVE  LifecycleStep
    <2>1. ASSUME NEW u \in Tasks \ {t}  PROVE Steady(u)
      <3>1. Live(u)' <=> Live(u)
        BY <1>1 DEF OnlyJob, Live, Waiting
      <3> QED
        BY <1>1, <3>1, SteadySame DEF Live, Waiting
    <2>2. submit[t] # "new"
      BY <1>1, LiveLanded DEF Live, Waiting, Landed
    <2> QED
      BY <1>1, <2>1, <2>2, StatusFacts, Drops
  <1>2. ASSUME NEW t \in Tasks, ClaimJob(w, t)  PROVE LifecycleStep
    <2>1. Live(t) /\ OnlyJob(t) /\ UNCHANGED <<pointer, submit, blob, inFlight>>
      BY <1>0, <1>2, ClaimFacts DEF ClaimJob, Live, Waiting
    <2> QED
      BY <1>1, <2>1
  <1>3. ASSUME NEW t \in Tasks, t = TaskOf(w), Live(t), AckJob(w)  PROVE LifecycleStep
    <2>1. PICK status \in {"completed", "cancelled"} :
            status = worker[w].outcome /\ AckWith(w, t, status)
      BY <1>3 DEF AckJob
    <2>2. /\ pointer' = [pointer EXCEPT ![t] = status]
          /\ UNCHANGED <<submit, blob, inFlight>> /\ OnlyJob(t)
      BY <1>0, <1>3, <2>1, SettleFacts DEF AckJob, AckWith, Finish
    <2>3. \A u \in Tasks \ {t} : pointer'[u] = pointer[u]
      BY <1>0, <2>2 DEF QueueTypeOK
    <2>4. ASSUME NEW u \in Tasks \ {t}  PROVE Steady(u)
      <3>1. Live(u)' <=> Live(u)
        BY <2>2 DEF OnlyJob, Live, Waiting
      <3> QED
        BY <2>2, <2>3, <3>1, SteadySame DEF Live, Waiting
    <2>5. LifecycleStatus(t) = "working" /\ LifecycleStatus(t)' = status
      <3>1. pointer'[t] = status /\ status # "none"
        BY <1>0, <2>1, <2>2 DEF QueueTypeOK
      <3> QED
        BY <1>3, <2>1, <3>1, StatusFacts DEF LifecycleStatus, Snapshot
    <2>6. Lifecycle!Become(t, status)
      BY <2>4, <2>5, BecomeFacts
    <2>7. {u \in Tasks : pointer'[u] # "none"} = {u \in Tasks : pointer[u] # "none"} \union {t}
      BY <1>0, <2>1, <2>2, <2>3 DEF QueueTypeOK
    <2>8. Lifecycle!Commit(t)
      BY <2>1, <2>5, <2>6, <2>7 DEF Lifecycle!Commit
    <2> QED
      BY <2>8 DEF LifecycleStep, Lifecycle!Next
  <1>4. ASSUME NEW t \in Tasks, t = TaskOf(w), Live(t), ~AckJob(w),
               \A u \in Tasks : ~ClaimJob(w, u)
        PROVE  LifecycleStep
    <2>1. /\ UNCHANGED submit
          /\ \A u \in Tasks \ {t} : u \in inFlight' <=> u \in inFlight
      BY <1>4
      DEF RunToolWorker, MarkInFlight, DecodeFails, RecordStarted, CallTool, DecideOutcome,
          PutResult, RecordOutcome, DeadLetterJob, NackJob, SettleFails, Panic, Finish
    <2>2. \A u \in Tasks \ {t} : blob'[u] = blob[u]
      <3>1. CASE PutResult(w)
        <4>1. PICK status \in FinishedStatus : TryPut(t, status)
          BY <1>4, <3>1 DEF PutResult, At, Typed, GoodWorker
        <4> QED
          BY <4>1, TryPutFacts
      <3>2. CASE ~PutResult(w)
        BY <1>4, <3>2
        DEF RunToolWorker, MarkInFlight, DecodeFails, RecordStarted, CallTool,
            DecideOutcome, RecordOutcome, DeadLetterJob, NackJob, SettleFails, Panic,
            Finish
      <3> QED
        BY <3>1, <3>2
    <2>3. OnlyJob(t) /\ pointer' = pointer
      <3>1. CASE DeadLetterJob(w) \/ NackJob(w) \/ SettleFails(w) \/ Panic(w)
        <4>1. DeadLetter(w, t) \/ Nack(w, t) \/ Abandon(w, t)
          BY <1>4, <3>1 DEF DeadLetterJob, NackJob, SettleFails, Panic
        <4> QED
          BY <1>0, <4>1, SettleFacts DEF DeadLetter, Nack, Abandon
      <3>2. CASE ~(DeadLetterJob(w) \/ NackJob(w) \/ SettleFails(w) \/ Panic(w))
        BY <1>4, <3>2
        DEF RunToolWorker, MarkInFlight, DecodeFails, RecordStarted, CallTool,
            DecideOutcome, PutResult, RecordOutcome, OnlyJob, queueVars
      <3> QED
        BY <3>1, <3>2
    <2> QED
      BY <1>1, <1>4, <2>1, <2>2, <2>3
  <1>5. ASSUME \A u \in Tasks : ~ClaimJob(w, u)
        PROVE  worker[w].pc \in Busy
    BY <1>5
    DEF RunToolWorker, MarkInFlight, DecodeFails, RecordStarted, CallTool, DecideOutcome,
        PutResult, RecordOutcome, AckJob, DeadLetterJob, NackJob, SettleFails, Panic, At,
        Busy, WorkerPC
  <1>6. ASSUME worker[w].pc \in Busy  PROVE \E t \in Tasks : t = TaskOf(w) /\ Live(t)
    BY <1>6, WorkerFields, BusyHolds DEF TaskOf
  <1> QED
    BY <1>2, <1>3, <1>4, <1>5, <1>6

LEMMA RefineCancel ==
    ASSUME Invariants, Typed', NEW c \in Cancels, CancelTask(c)
    PROVE  LifecycleStep
  <1> USE DEF Invariants
  <1>0. QueueTypeOK
    BY DEF Typed
  <1>1. UNCHANGED <<pointer, submit>>
    BY DEF CancelTask, CancelStep, CancelPeek, CancelForget, CancelPut, CancelRecord,
           CancelRemove, CancelSignal, CancelLog, CancelCheck, CancelFails, Cancel,
           queueVars
  <1>2. ASSUME UNCHANGED <<job, blob, inFlight>>  PROVE LifecycleStep
    <2>1. \A u \in Tasks : Live(u)' <=> Live(u)
      BY <1>2 DEF Live, Waiting
    <2>2. \A u \in Tasks : Steady(u)
      BY <1>1, <1>2, <2>1, SteadySame DEF Live, Waiting
    <2> QED
      BY <1>1, <2>2, NothingHappens
  <1>3. CASE CancelForget(c)
    <2>1. PICK t \in Tasks : t = CancelOf(c)
      BY <1>3 DEF CancelForget, CancelAt, CancelOf, Typed, GoodCancel
    <2>2. Landed(t) /\ inFlight' = inFlight \ {t} /\ UNCHANGED <<job, blob>>
      BY <1>3, <2>1 DEF CancelForget, CancelAt, ClaimInv, CancelClaim, queueVars
    <2>3. \A u \in Tasks : Live(u)' <=> Live(u)
      BY <2>2 DEF Live, Waiting
    <2>4. \A u \in Tasks \ {t} : Steady(u)
      BY <1>1, <2>2, <2>3, SteadySame DEF Live, Waiting
    <2>5. CASE pointer[t] = "none" /\ t \in inFlight
      <3>1. LifecycleStatus(t) = "working" /\ submit'[t] # "new"
        BY <1>1, <2>2, <2>5 DEF LifecycleStatus, Snapshot, Landed
      <3> QED
        BY <1>1, <2>4, <2>5, <3>1, Drops
    <2>6. CASE t \notin inFlight
      BY <1>2, <2>2, <2>6
    <2>7. CASE pointer[t] # "none"
      <3>1. Steady(t)
        BY <1>1, <2>7 DEF Steady, LifecycleStatus, Snapshot
      <3> QED
        BY <1>1, <2>4, <3>1, NothingHappens
    <2> QED
      BY <2>5, <2>6, <2>7
  <1>4. CASE CancelPut(c)
    <2>1. PICK t \in Tasks : t = CancelOf(c)
      BY <1>4 DEF CancelPut, CancelAt, CancelOf, Typed, GoodCancel
    <2>2. /\ Landed(t) /\ TryPut(t, "cancelled") /\ UNCHANGED <<job, inFlight>>
          /\ "cancelled" \in FinishedStatus
      BY <1>4, <2>1
      DEF CancelPut, CancelAt, ClaimInv, CancelClaim, queueVars, FinishedStatus
    <2>3. \A u \in Tasks : Live(u)' <=> Live(u)
      BY <2>2 DEF Live, Waiting
    <2>4. ASSUME NEW u \in Tasks \ {t}  PROVE Steady(u)
      <3>1. blob'[u] = blob[u]
        BY <2>2, TryPutFacts
      <3> QED
        BY <1>1, <2>2, <2>3, <3>1, SteadySame DEF Live, Waiting
    <2>5. CASE blob' = blob
      BY <1>2, <2>2, <2>5
    <2>6. CASE pointer[t] # "none" \/ t \in inFlight \/ Live(t)
      <3>1. Steady(t)
        BY <1>1, <2>2, <2>6 DEF Steady, LifecycleStatus, Snapshot, Live, Waiting
      <3> QED
        BY <1>1, <2>4, <3>1, NothingHappens
    <2>7. CASE Put(t, "cancelled") /\ pointer[t] = "none" /\ t \notin inFlight /\ ~Live(t)
      <3>1. blob'[t].status = "cancelled"
        BY <2>7 DEF Put, Typed, StoreTypeOK
      <3>2. LifecycleStatus(t)' = "cancelled"
        BY <1>1, <2>2, <2>7, <3>1
        DEF LifecycleStatus, Snapshot, HasBlob, Live, Waiting
      <3>3. LifecycleStatus(t) \in Outcomes \union {"lost"}
        <4>1. LifecycleStatus(t) \in Outcomes \union {"working", "lost"}
          BY <2>2, StatusFacts DEF Landed
        <4>2. LifecycleStatus(t) # "working"
          BY <2>7 DEF LifecycleStatus, Snapshot, HasBlob, Typed, StoreTypeOK, Blob,
                      FinishedStatus
        <4> QED
          BY <4>1, <4>2
      <3>4. Lifecycle!Become(t, "cancelled")
        BY <2>4, <3>2, BecomeFacts
      <3>5. Lifecycle!Supersede(t)
        BY <1>1, <2>7, <3>3, <3>4 DEF Lifecycle!Supersede, Lifecycle!Outcome, Outcomes
      <3> QED
        BY <3>5 DEF LifecycleStep, Lifecycle!Next
    <2> QED
      BY <2>2, <2>5, <2>6, <2>7 DEF TryPut
  <1>5. CASE CancelRemove(c) \/ CancelSignal(c)
    <2>1. PICK t \in Tasks : t = CancelOf(c)
      BY <1>5 DEF CancelRemove, CancelSignal, CancelAt, CancelOf, Typed, GoodCancel
    <2>2. Cancel(t) /\ UNCHANGED <<blob, inFlight>>
      BY <1>5, <2>1 DEF CancelRemove, CancelSignal
    <2>3. OnlyJob(t)
      BY <1>0, <2>2, TimerFacts
    <2>4. CASE Waiting(t)
      <3>1. ASSUME NEW u \in Tasks \ {t}  PROVE Steady(u)
        <4>1. Live(u)' <=> Live(u)
          BY <2>3 DEF OnlyJob, Live, Waiting
        <4> QED
          BY <1>1, <2>2, <4>1, SteadySame DEF Live, Waiting
      <3>2. Live(t) /\ submit'[t] # "new"
        BY <1>1, <2>4, LiveLanded DEF Live, Waiting, Landed
      <3> QED
        BY <1>1, <3>1, <3>2, StatusFacts, Drops
    <2>5. CASE ~Waiting(t)
      BY <1>2, <2>2, <2>5 DEF Cancel
    <2> QED
      BY <2>4, <2>5
  <1>6. CASE ~CancelForget(c) /\ ~CancelPut(c) /\ ~CancelRemove(c) /\ ~CancelSignal(c)
    <2>1. UNCHANGED <<job, blob, inFlight>>
      BY <1>6
      DEF CancelTask, CancelStep, CancelPeek, CancelRecord, CancelLog, CancelCheck,
          CancelFails, queueVars
    <2> QED
      BY <1>2, <2>1
  <1> QED
    BY <1>3, <1>4, <1>5, <1>6

LEMMA RefineTimers ==
    ASSUME Invariants, Typed', NEW t \in Tasks,
           QueueExpireLease(t) \/ QueueEndBackoff(t) \/ QueueDropRecord(t)
    PROVE  LifecycleStep
  <1> USE DEF Invariants
  <1>0. QueueTypeOK
    BY DEF Typed
  <1>1. /\ UNCHANGED <<submit, blob, inFlight>>
        /\ ExpireLease(t) \/ EndBackoff(t) \/ DropRecord(t)
    BY DEF QueueExpireLease, QueueEndBackoff, QueueDropRecord
  <1>2. pointer' = pointer /\ OnlyJob(t)
    BY <1>0, <1>1, TimerFacts
  <1>3. ASSUME NEW u \in Tasks \ {t}  PROVE Steady(u)
    <2>1. Live(u)' <=> Live(u)
      BY <1>2 DEF OnlyJob, Live, Waiting
    <2> QED
      BY <1>1, <1>2, <2>1, SteadySame DEF Live, Waiting
  <1>4. CASE Live(t)
    <2>1. submit'[t] # "new"
      BY <1>1, <1>4, LiveLanded DEF Live, Waiting, Landed
    <2> QED
      BY <1>2, <1>3, <1>4, <2>1, StatusFacts, Drops
  <1>5. CASE ~Live(t)
    <2>1. DropRecord(t)
      BY <1>1, <1>5 DEF ExpireLease, EndBackoff, Live, Waiting
    <2>2. ~Live(t)'
      BY <1>0, <2>1 DEF DropRecord, NoJob, Live, Waiting, QueueTypeOK
    <2>3. Steady(t)
      BY <1>1, <1>2, <1>5, <2>2, SteadySame DEF Live, Waiting
    <2> QED
      BY <1>2, <1>3, <2>3, NothingHappens
  <1> QED
    BY <1>4, <1>5

\* A restart ends the tasks that were working only in memory.
LEMMA RefineRestart ==
    ASSUME Invariants, Typed', Restart
    PROVE  LifecycleStep
  <1> USE DEF Invariants
  <1>1. UNCHANGED <<pointer, blob>> /\ inFlight' = {}
    BY DEF Restart
  <1>2. \A t \in Tasks : /\ Live(t)' <=> Live(t)
                         /\ submit'[t] = "new" <=> submit[t] = "new"
    BY DEF Restart, Live, Waiting, Typed, QueueTypeOK, Job
  <1> DEFINE gone == {t \in Tasks : LifecycleStatus(t) = "working" /\ ~Steady(t)}
             end == [t \in gone |-> LifecycleStatus(t)']
  <1>3. ASSUME NEW t \in Tasks, LifecycleStatus(t) # "working"  PROVE Steady(t)
    <2>1. CASE pointer[t] # "none"
      BY <1>1, <2>1
      DEF Steady, LifecycleStatus, Snapshot, Typed, QueueTypeOK, PointerStatus
    <2>2. CASE pointer[t] = "none"
      <3>1. t \notin inFlight /\ t \notin inFlight'
        BY <1>1, <1>3, <2>2 DEF LifecycleStatus, Snapshot
      <3> QED
        BY <1>1, <1>2, <3>1, SteadySame DEF Live, Waiting
    <2> QED
      BY <2>1, <2>2
  <1>4. ASSUME NEW t \in gone
        PROVE  LifecycleStatus(t)' \in Lifecycle!Outcome \union {"lost"}
    <2>1. submit[t] # "new"
      BY <1>4, StatusFacts
    <2>2. pointer[t] = "none"
      BY <1>4, StatusFacts
    <2>3. LifecycleStatus(t)' # "working"
      BY <1>4 DEF Steady
    <2> QED
      BY <1>1, <1>2, <2>1, <2>2, <2>3
      DEF LifecycleStatus, Snapshot, HasBlob, Lifecycle!Outcome, Typed, StoreTypeOK, Blob,
          FinishedStatus
  <1>5. \A t \in Tasks :
          LifecycleStatus(t)' = IF t \in gone THEN end[t] ELSE LifecycleStatus(t)
    BY <1>3 DEF Steady
  <1>6. end \in [gone -> Lifecycle!Outcome \union {"lost"}]
    BY <1>4
  <1>7. [t \in Tasks |-> LifecycleStatus(t)]' =
          [t \in Tasks |-> IF t \in gone THEN end[t]
                           ELSE [u \in Tasks |-> LifecycleStatus(u)][t]]
    BY <1>5
  <1>8. gone \in SUBSET {t \in Tasks : [u \in Tasks |-> LifecycleStatus(u)][t] = "working"}
    OBVIOUS
  <1>9. {t \in Tasks : pointer[t] # "none"}' = {t \in Tasks : pointer[t] # "none"}
    BY <1>1
  <1>10. Lifecycle!LoseSome
    <2> HIDE DEF gone, end
    <2> QED
      BY <1>6, <1>7, <1>8, <1>9 DEF Lifecycle!LoseSome
  <1> QED
    BY <1>10 DEF LifecycleStep, Lifecycle!Next

LEMMA RefineInit == Init => Lifecycle!Init
  BY DEF Init, QueueInit, NoJob, StoreInit, NoBlob, Lifecycle!Init, LifecycleStatus,
         Snapshot, HasBlob, Live, Waiting

LEMMA RefineStep ==
    ASSUME Without({"lease"}), Typed, Typed', BudgetInv, ClaimInv, BlobInv, MapInv,
           [Next]_vars
    PROVE  LifecycleStep
  <1>1. Invariants
    BY DEF Invariants
  <1>2. CASE UNCHANGED vars
    <2>1. \A t \in Tasks : Live(t)' <=> Live(t)
      BY <1>2 DEF vars, queueVars, Live, Waiting
    <2>2. \A t \in Tasks : Steady(t)
      BY <1>2, <2>1, SteadySame DEF vars, queueVars, Live, Waiting
    <2> QED
      BY <1>2, <2>2, NothingHappens DEF vars, queueVars
  <1> QED
    BY <1>1, <1>2, RefineEnqueue, RefineWorker, RefineCancel, RefineTimers, RefineRestart
    DEF Next, Running, Environment

\* Without slow workers, what tasks/get answers about the tasks follows the
\* lifecycle promised to clients: a task that has an outcome never works again,
\* and a committed outcome is final.
THEOREM ImplementsLifecycle == ASSUME Without({"lease"})  PROVE Spec => LifecycleSpec
  <1>1. Typed /\ Typed' /\ BudgetInv /\ ClaimInv /\ BlobInv /\ MapInv /\ [Next]_vars =>
          [Lifecycle!Next]_(Lifecycle!vars)
    BY RefineStep DEF LifecycleStep
  <1> QED
    BY <1>1, RefineInit, AlwaysTyped, AlwaysBudget, AlwaysClaim, AlwaysBlob, AlwaysMap,
       PTL DEF Spec, LifecycleSpec, Lifecycle!Spec
==============================================================================
