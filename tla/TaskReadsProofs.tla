---------------------------- MODULE TaskReadsProofs ----------------------------
(***************************************************************************)
(* What clients may rely on when they read a task while it moves, for all  *)
(* tasks, readers, listings, workers, requests and faults.                 *)
(***************************************************************************)
EXTENDS TaskReadsProperties, RetentionProofs

(***************************************************************************)
(* What the reads rest on                                                  *)
(***************************************************************************)
\* Only a tool that panics ends its worker; a task is marked in flight before
\* its job is enqueued.
MarksInv ==
    /\ Without({"panic"}) => \A w \in Workers : ~At(w, "dead")
    /\ \A t \in Tasks : submit[t] \in {"marked", "refused"} => t \in inFlight

\* enqueue_task of t is past its optimistic entry.
Past(t) == submit[t] \in {"landed", "submitted", "rejected"}

\* Nobody works on t any more, and its result is there.
Finished(t) == Landed(t) /\ ~Live(t) /\ t \notin inFlight /\ HasBlob(t)

\* A request is about a task, in the steps of its method.
RequestSound(r) ==
    /\ ~ReadAt(r, "idle") => ReadTask(r) \in Tasks /\ submit[ReadTask(r)] # "new"
    /\ reader[r].pc \in InfoPC => reader[r].method = "info"
    /\ reader[r].pc \in ResultPC => reader[r].method = "result"

ReadsTyped ==
    /\ reader \in [Readers -> ReaderState]
    /\ lister \in [Listers -> ListerState]
    /\ told \in [Tasks -> SUBSET (Method \X FinishedStatus)]
    /\ \A r \in Readers : RequestSound(r)

(***************************************************************************)
(* The four reads of snapshot_task                                         *)
(***************************************************************************)
\* Where nothing goes wrong but settlements, restarts and failing calls.
Careful == Without({"lease", "panic", "put"}) /\ ~EnableReaper

InfoSound(r) ==
    /\ reader[r].pc \in InfoPC => Snapshot(ReadTask(r)) \in reader[r].seen
    /\ reader[r].pc \in {"job", "blob"} => Past(ReadTask(r))
    /\ ReadAt(r, "blob") => ~Live(ReadTask(r))

Justified(r) ==
    Answered(r, "info") =>
        \/ reader[r].answer \in reader[r].seen
        \/ reader[r].answer = "cancelled" /\ ReadTask(r) \in asked

InfoInv == Careful => \A r \in Readers : InfoSound(r) /\ Justified(r)

(***************************************************************************)
(* What has been told                                                      *)
(***************************************************************************)
\* A client that get_task_info told an outcome before this request.
Knows(r) == \E o \in FinishedStatus : <<"info", o>> \in reader[r].after

Sticks(r) ==
    /\ Answered(r, "info") /\ reader[r].answer \in FinishedStatus => Finished(ReadTask(r))
    /\ Knows(r) /\ ~ReadAt(r, "idle") =>
         /\ Finished(ReadTask(r))
         /\ reader[r].pc \in InfoPC \union {"wait", "fetch", "done"}
         /\ ReadAt(r, "done") => reader[r].answer \in FinishedStatus

StickInv == Careful =>
    /\ \A t \in Tasks : (\E o \in FinishedStatus : <<"info", o>> \in told[t]) => Finished(t)
    /\ \A r \in Readers : Sticks(r)

\* A client that was told a failure before this request.
KnowsFailed(r) == \E m \in Method : <<m, "failed">> \in reader[r].after

Stands(r) ==
    /\ ReadAt(r, "done") /\ reader[r].answer = "failed" => Doomed(ReadTask(r))
    /\ KnowsFailed(r) /\ ~ReadAt(r, "idle") =>
         /\ Doomed(ReadTask(r))
         /\ ReadAt(r, "done") => reader[r].answer # "completed"

FailureInv == Without({"lease", "rollback"}) =>
    /\ \A t \in Tasks : (\E m \in Method : <<m, "failed">> \in told[t]) => Doomed(t)
    /\ \A r \in Readers : Stands(r)

(***************************************************************************)
(* list_tasks                                                              *)
(***************************************************************************)
\* The result of t has been swept, or is one that a sweep may take under the work.
Lost(t) == Swept(t) \/ t \in sweep.early

Lists(l) == \A t \in lister[l].known :
    /\ HasBlob(t) \/ Lost(t)
    /\ ListAt(l, "get") => t \in lister[l].todo \union lister[l].found \/ Lost(t)
    /\ ListAt(l, "done") => t \in lister[l].found \/ Lost(t)

ListInv == Without({"put"}) => \A l \in Listers : Lists(l)

(***************************************************************************)
(* The rest of the backend, as the readers find it                         *)
(***************************************************************************)
LEMMA SubmitStays ==
    ASSUME Typed, [RetentionNext]_retentionVars, NEW t \in Tasks
    PROVE  /\ submit[t] # "new" => submit'[t] # "new"
           /\ Past(t) => Past(t)'
           /\ submit[t] = "rejected" => submit'[t] = "rejected"
           /\ asked \subseteq asked'
  <1>1. ASSUME NEW u \in Tasks, EnqueueTask(u)
        PROVE  /\ submit[t] # "new" => submit'[t] # "new"
               /\ Past(t) => Past(t)'
               /\ submit[t] = "rejected" => submit'[t] = "rejected"
               /\ asked' = asked
    BY <1>1
    DEF EnqueueTask, EnqueueMark, EnqueueJob, EnqueueFails, EnqueueUnmark,
        EnqueueRecord, SubmitGoto, Typed, Past, histVars
  <1>2. CASE Restart
    BY <1>2 DEF Restart, Past, histVars, Typed
  <1>3. CASE UNCHANGED submit /\ asked \subseteq asked'
    BY <1>3 DEF Past
  <1>4. ASSUME NEW w \in Workers, RunToolWorker(w) \/ Panic(w)
        PROVE  UNCHANGED <<submit, asked>>
    BY <1>4
    DEF RunToolWorker, ClaimJob, MarkInFlight, DecodeFails, RecordStarted, CallTool,
        DecideOutcome, PutResult, RecordOutcome, AckJob, DeadLetterJob, NackJob,
        SettleFails, Panic, Finish, histVars
  <1>5. ASSUME NEW c \in Cancels, CancelTask(c)
        PROVE  UNCHANGED submit /\ asked \subseteq asked'
    BY <1>5
    DEF CancelTask, CancelStep, CancelPeek, CancelForget, CancelPut, CancelRecord,
        CancelRemove, CancelSignal, CancelLog, CancelCheck, CancelFails, histVars
  <1>6. ASSUME NEW u \in Tasks,
               QueueExpireLease(u) \/ QueueEndBackoff(u) \/ QueueDropRecord(u)
        PROVE  UNCHANGED <<submit, asked>>
    BY <1>6 DEF histVars, QueueExpireLease, QueueEndBackoff, QueueDropRecord
  <1>7. ASSUME Reaps  PROVE UNCHANGED <<submit, asked>>
    BY <1>7
    DEF Reaps, ExpireBlob, Sweep, SweepWake, SweepListed, SweepListFails, SweepDeleted,
        SweepUnlinked, SweepAudit, SweepGet, SweepDelete, SweepDeleteFails, SweepUnlink,
        SweepUnlinkFails, OthersKeep, histVars
  <1>8. CASE UNCHANGED vars
    BY <1>8 DEF vars, histVars, Past
  <1>9. CASE Next
    BY <1>1, <1>2, <1>3, <1>4, <1>5, <1>6, <1>9 DEF Next, Running, Environment
  <1> QED
    BY <1>3, <1>7, <1>8, <1>9, RetentionCases, BesideNext

LEMMA MarksInit == Init => MarksInv
  BY DEF Init, IdleWorker, MarksInv, At

LEMMA MarksStep ==
    ASSUME Typed, ClaimInv, MarksInv, [Next]_vars
    PROVE  MarksInv'
  <1> DEFINE Marks == \A t \in Tasks : submit[t] \in {"marked", "refused"} => t \in inFlight
             Dead == Without({"panic"}) => \A w \in Workers : ~At(w, "dead")
  <1>1. ASSUME NEW u \in Tasks, EnqueueTask(u)  PROVE MarksInv'
    <2>1. worker' = worker
      BY <1>1
      DEF EnqueueTask, EnqueueMark, EnqueueJob, EnqueueFails, EnqueueUnmark, EnqueueRecord
    <2>2. Marks'
      BY <1>1
      DEF EnqueueTask, EnqueueMark, EnqueueJob, EnqueueFails, EnqueueUnmark,
          EnqueueRecord, SubmitGoto, Typed, MarksInv
    <2> QED
      BY <2>1, <2>2 DEF MarksInv, At
  <1>2. ASSUME NEW w \in Workers, RunToolWorker(w) \/ Panic(w)  PROVE MarksInv'
    <2>1. submit' = submit
      BY <1>2
      DEF RunToolWorker, ClaimJob, MarkInFlight, DecodeFails, RecordStarted, CallTool,
          DecideOutcome, PutResult, RecordOutcome, AckJob, DeadLetterJob, NackJob,
          SettleFails, Panic, Finish
    <2>2. Marks'
      <3>1. CASE CallTool(w)
        <4>1. inFlight' = inFlight \ {TaskOf(w)} /\ Landed(TaskOf(w))
          BY <3>1
          DEF CallTool, At, Busy, WorkerPC, ClaimInv, WorkerClaim, ClaimSound
        <4> QED
          BY <2>1, <4>1 DEF MarksInv, Landed
      <3>2. CASE ~CallTool(w)
        <4>1. inFlight \subseteq inFlight'
          BY <1>2, <3>2
          DEF RunToolWorker, ClaimJob, MarkInFlight, DecodeFails, RecordStarted, DecideOutcome,
              PutResult, RecordOutcome, AckJob, DeadLetterJob, NackJob, SettleFails,
              Panic, Finish
        <4> QED
          BY <2>1, <4>1 DEF MarksInv
      <3> QED
        BY <3>1, <3>2
    <2>3. Dead'
      <3>1. CASE Panic(w)
        BY <3>1 DEF Panic, Without
      <3>2. CASE RunToolWorker(w)
        <4>1. ASSUME NEW u \in Tasks, ClaimJob(w, u)
              PROVE  OnlyWorker(w) /\ worker'[w].pc # "dead"
          BY <4>1 DEF ClaimJob, Typed, OnlyWorker
        <4>2. CASE \A u \in Tasks : ~ClaimJob(w, u)
          <5>1. OnlyWorker(w) /\ worker'[w].pc # "dead"
            BY <3>2, <4>2, GotoFacts, ResolveFacts, LeaveFacts
            DEF RunToolWorker, MarkInFlight, DecodeFails, RecordStarted, CallTool,
                DecideOutcome, PutResult, RecordOutcome, AckJob, DeadLetterJob, NackJob,
                SettleFails, Finish, IdleWorker, Typed
          <5> QED
            BY <5>1 DEF MarksInv, OnlyWorker, At, Without
        <4> QED
          BY <4>1, <4>2 DEF MarksInv, OnlyWorker, At, Without
      <3> QED
        BY <1>2, <3>1, <3>2
    <2> QED
      BY <2>2, <2>3 DEF MarksInv
  <1>3. ASSUME NEW c \in Cancels, CancelTask(c)  PROVE MarksInv'
    <2>1. UNCHANGED <<submit, worker>>
      BY <1>3
      DEF CancelTask, CancelStep, CancelPeek, CancelForget, CancelPut, CancelRecord,
          CancelRemove, CancelSignal, CancelLog, CancelCheck, CancelFails
    <2>2. CASE CancelForget(c)
      <3>1. inFlight' = inFlight \ {CancelOf(c)} /\ Landed(CancelOf(c))
        BY <2>2 DEF CancelForget, CancelAt, ClaimInv, CancelClaim
      <3> QED
        BY <2>1, <3>1 DEF MarksInv, Landed, At
    <2>3. CASE ~CancelForget(c)
      <3>1. inFlight' = inFlight
        BY <1>3, <2>3
        DEF CancelTask, CancelStep, CancelPeek, CancelPut, CancelRecord, CancelRemove,
            CancelSignal, CancelLog, CancelCheck, CancelFails
      <3> QED
        BY <2>1, <3>1 DEF MarksInv, At
    <2> QED
      BY <2>2, <2>3
  <1>4. ASSUME NEW u \in Tasks,
               QueueExpireLease(u) \/ QueueEndBackoff(u) \/ QueueDropRecord(u)
        PROVE  UNCHANGED <<submit, worker, inFlight>>
    BY <1>4 DEF QueueExpireLease, QueueEndBackoff, QueueDropRecord
  <1>5. CASE Restart
    BY <1>5 DEF Restart, IdleWorker, MarksInv, At, Typed, SubmitPC
  <1>6. CASE UNCHANGED <<submit, worker, inFlight>>
    BY <1>6 DEF MarksInv, At
  <1> QED
    BY <1>1, <1>2, <1>3, <1>4, <1>5, <1>6 DEF Next, Running, Environment, vars

Base == RetentionInv /\ MarksInv

LEMMA BaseStep == Base /\ [RetentionNext]_retentionVars => Base'
  <1> SUFFICES ASSUME Base, [RetentionNext]_retentionVars  PROVE Base'
    OBVIOUS
  <1>0. Core /\ Typed /\ ClaimInv /\ SweepInv /\ ExpiryInv /\ OnceInv /\ MarksInv
    BY DEF Base, RetentionInv, Core
  <1>1. RetentionInv'
    BY CoreKept, SweepStep, ExpiryStep, AnchorStep, OnceStep, DoomStep
    DEF Base, RetentionInv
  <1>2. MarksInv'
    <2>1. CASE Beside
      BY <1>0, <2>1, MarksStep, BesideNext
    <2>2. CASE Reaps
      BY <1>0, <2>2, ReapFacts DEF MarksInv, At
    <2> QED
      BY <2>1, <2>2, RetentionCases
  <1> QED
    BY <1>1, <1>2 DEF Base

LEMMA BaseInit == ReadsInit => Base
  BY MarksInit, CoreInit, SweepInit, OnceInit DEF ReadsInit, RetentionInit, RetentionInv, Base

\* A job that has left the queue has left the in-flight map.
LEMMA OutOfMap ==
    ASSUME Base, Careful, NEW t \in Tasks, Past(t), ~Live(t)
    PROVE  t \notin inFlight
  <1>1. NoPhantom /\ ClaimInv /\ Without({"lease"}) /\ Without({"panic"})
    BY PhantomImplies DEF Base, RetentionInv, Core, Careful, Without
  <1>2. \A w \in Workers : ~Runs(w, t) /\ ~At(w, "dead")
    BY <1>1, BusyHolds DEF Runs, Busy, WorkerPC, Base, MarksInv
  <1> QED
    BY <1>1, <1>2 DEF NoPhantom, Past, Live

\* A pointer is the outcome of a task that is finished.
LEMMA PointerFinished ==
    ASSUME Base, Careful, NEW t \in Tasks, pointer[t] # "none"
    PROVE  /\ Finished(t) /\ pointer[t] \in FinishedStatus
           /\ blob[t].status = pointer[t] \/ (blob[t].status = "cancelled" /\ t \in asked)
  <1>1. /\ PointerFinal(t) /\ Anchored(t) /\ Typed /\ t \in Timely
        /\ Without({"put"}) /\ Without({"lease"})
    BY DEF Base, RetentionInv, Core, ClaimInv, AnchorInv, SweepInv, Timely, Careful, Without
  <1>2. Landed(t) /\ ~Live(t) /\ t \notin inFlight
    BY <1>1, OutOfMap DEF PointerFinal, Past, Landed
  <1>3. pointer[t] \in FinishedStatus
    BY <1>1 DEF Typed, QueueTypeOK, PointerStatus, FinishedStatus
  <1>4. blob[t].status = pointer[t] \/ (blob[t].status = "cancelled" /\ t \in asked)
    BY <1>1 DEF Anchored, Backed, Careful
  <1> QED
    BY <1>2, <1>3, <1>4 DEF Finished, HasBlob

\* What a client is told of a finished task.
LEMMA FinishedAnswers ==
    ASSUME Base, NEW t \in Tasks, Finished(t)
    PROVE  /\ blob[t].status \in FinishedStatus
           /\ pointer[t] # "none" => pointer[t] \in FinishedStatus
  BY DEF Base, RetentionInv, Core, Typed, QueueTypeOK, StoreTypeOK, Blob, PointerStatus,
         FinishedStatus, Finished, HasBlob

LEMMA FinishedStays ==
    ASSUME Base, Careful, [RetentionNext]_retentionVars, NEW t \in Tasks, Finished(t)
    PROVE  Finished(t)'
  <1>1. Typed /\ Typed' /\ ClaimInv /\ Without({"lease"})
    BY BaseStep DEF Base, RetentionInv, Core, Careful, Without
  <1>2. [Next]_vars
    BY RetentionCases, NoReaper, BesideNext DEF Base, RetentionInv, Careful
  <1> QED
    BY <1>1, <1>2, SettledStays, LandedStays, BlobStays DEF Finished

(***************************************************************************)
(* Steps of the readers, and steps of the others beside them               *)
(***************************************************************************)
\* A request goes on, whatever it has seen.
SameRequest(r) ==
    /\ reader'[r].pc = reader[r].pc /\ reader'[r].task = reader[r].task
    /\ reader'[r].method = reader[r].method /\ reader'[r].after = reader[r].after
    /\ reader'[r].answer = reader[r].answer
    /\ reader[r].seen \subseteq reader'[r].seen

\* The rest of the backend moves: a get_task_info under way watches its task.
Watches ==
    /\ [RetentionNext]_retentionVars /\ UNCHANGED <<lister, told>>
    /\ reader' \in [Readers -> ReaderState]
    /\ \A r \in Readers :
         /\ SameRequest(r)
         /\ reader[r].pc \in InfoPC =>
              \E t \in Tasks :
                /\ t = ReadTask(r)
                /\ reader'[r].seen = reader[r].seen \union {Snapshot(t)'}

\* The process restarts, and every request is gone.
Vanish ==
    /\ [RetentionNext]_retentionVars /\ UNCHANGED told
    /\ reader' = [r \in Readers |-> IdleReader]
    /\ lister' = [l \in Listers |-> IdleLister]

Begins(r) ==
    \E t \in Tasks, method \in Method :
        /\ submit[t] # "new"
        /\ reader'[r] = [IdleReader EXCEPT
                           !.pc = IF method = "info" THEN "pointer" ELSE "wait",
                           !.task = t,
                           !.method = method,
                           !.after = told[t],
                           !.seen = IF method = "info" THEN {Snapshot(t)} ELSE {}]

\* A request goes on to its next read.
Advances(r) ==
    /\ \/ ReadAt(r, "pointer") /\ reader'[r].pc = "inflight"
       \/ ReadAt(r, "inflight") /\ reader'[r].pc = "job" /\ ReadTask(r) \notin inFlight
       \/ ReadAt(r, "job") /\ reader'[r].pc = "blob" /\ ~Live(ReadTask(r))
       \/ /\ reader[r].pc \in ResultPC /\ reader'[r].pc \in ResultPC
          /\ \/ reader[r].pc \notin {"wait", "fetch"}
             \/ reader'[r].pc \in {"wait", "fetch"}
             \/ ~HasBlob(ReadTask(r))
    /\ reader'[r].answer = reader[r].answer

\* A read decides the answer.
Answers(r) ==
    LET t == ReadTask(r)
        answer == reader'[r].answer IN
    /\ reader'[r].pc = "done"
    /\ \/ ReadAt(r, "pointer") /\ answer = pointer[t] /\ answer # "none"
       \/ ReadAt(r, "inflight") /\ t \in inFlight /\ answer = "working"
       \/ ReadAt(r, "job") /\ Live(t) /\ answer = "working"
       \/ ReadAt(r, "blob") /\ answer = IF HasBlob(t) THEN blob[t].status ELSE "unknown"
       \/ ReadAt(r, "fetch") /\ HasBlob(t) /\ answer = blob[t].status
       \/ reader[r].pc \in {"lookup", "deadline"} /\ answer \in {"unknown", "notyet"}

GoesOnReading(r) ==
    /\ Advances(r) \/ Answers(r)
    /\ reader'[r].task = reader[r].task /\ reader'[r].method = reader[r].method
    /\ reader'[r].after = reader[r].after /\ reader'[r].seen = reader[r].seen

\* A request ends; what it answered may have been told.
Ends(r) ==
    /\ reader'[r] = IdleReader
    /\ told' \in [Tasks -> SUBSET (Method \X FinishedStatus)]
    /\ \A t \in Tasks :
         \/ told'[t] = told[t]
         \/ /\ t = ReadTask(r) /\ ReadAt(r, "done") /\ reader[r].answer \in FinishedStatus
            /\ told'[t] = told[t] \union {<<reader[r].method, reader[r].answer>>}

Reads(r) ==
    /\ UNCHANGED <<retentionVars, lister>>
    /\ reader' \in [Readers -> ReaderState]
    /\ \A q \in Readers \ {r} : reader'[q] = reader[q]
    /\ Ends(r) \/ (UNCHANGED told /\ (Begins(r) \/ GoesOnReading(r)))

LEMMA SnapshotTyped ==
    ASSUME Typed, NEW t \in Tasks
    PROVE  Snapshot(t) \in FinishedStatus \union {"working", "unknown"}
  BY DEF Typed, QueueTypeOK, StoreTypeOK, Blob, PointerStatus, FinishedStatus, Snapshot,
         HasBlob

LEMMA SnapshotAfter ==
    ASSUME Typed', NEW t \in Tasks
    PROVE  Snapshot(t)' \in FinishedStatus \union {"working", "unknown"}
  BY DEF Typed, QueueTypeOK, StoreTypeOK, Blob, PointerStatus, FinishedStatus, Snapshot,
         HasBlob

LEMMA ReadFields ==
    ASSUME ReadsTyped, NEW r \in Readers
    PROVE  /\ reader[r] \in ReaderState /\ reader \in [Readers -> ReaderState]
           /\ \A pc \in InfoPC \union ResultPC \union {"done"} :
                reader[r].pc = pc => reader[r].task \in Tasks
           /\ DOMAIN reader = Readers
  BY DEF ReadsTyped, RequestSound, ReadAt, ReadTask, InfoPC, ResultPC

LEMMA GotoReads ==
    ASSUME ReadsTyped, NEW r \in Readers, NEW pc \in InfoPC \union ResultPC,
           ReadGoto(r, pc)
    PROVE  /\ UNCHANGED <<retentionVars, lister, told>>
           /\ \A q \in Readers \ {r} : reader'[q] = reader[q]
           /\ reader' \in [Readers -> ReaderState] /\ reader'[r].pc = pc
           /\ reader'[r].task = reader[r].task /\ reader'[r].method = reader[r].method
           /\ reader'[r].after = reader[r].after /\ reader'[r].seen = reader[r].seen
           /\ reader'[r].answer = reader[r].answer
  BY DEF ReadGoto, OnlyReader, ReadsTyped, ReaderState

LEMMA AnswerReads ==
    ASSUME ReadsTyped, NEW r \in Readers, NEW answer \in Answer, ReadAnswer(r, answer)
    PROVE  /\ UNCHANGED <<retentionVars, lister, told>>
           /\ \A q \in Readers \ {r} : reader'[q] = reader[q]
           /\ reader' \in [Readers -> ReaderState] /\ reader'[r].pc = "done"
           /\ reader'[r].answer = answer
           /\ reader'[r].task = reader[r].task /\ reader'[r].method = reader[r].method
           /\ reader'[r].after = reader[r].after /\ reader'[r].seen = reader[r].seen
  BY DEF ReadAnswer, OnlyReader, ReadsTyped, ReaderState

LEMMA InfoReads ==
    ASSUME Typed, ReadsTyped, NEW r \in Readers,
           InfoPointer(r) \/ InfoInFlight(r) \/ InfoJob(r) \/ InfoBlob(r)
    PROVE  Reads(r)
  <1> USE DEF ReadAt, ReadTask, InfoPC, ResultPC
  <1>0. PICK t \in Tasks : t = ReadTask(r)
    BY ReadFields DEF InfoPointer, InfoInFlight, InfoJob, InfoBlob
  <1>1. CASE InfoPointer(r)
    <2>1. CASE pointer[t] # "none"
      <3>1. pointer[t] \in Answer
        BY <2>1 DEF Typed, QueueTypeOK, PointerStatus, Answer, FinishedStatus
      <3> QED
        BY <1>0, <1>1, <2>1, <3>1, AnswerReads
        DEF InfoPointer, Reads, GoesOnReading, Answers
    <2>2. CASE pointer[t] = "none"
      BY <1>0, <1>1, <2>2, GotoReads DEF InfoPointer, Reads, GoesOnReading, Advances
    <2> QED
      BY <2>1, <2>2
  <1>2. CASE InfoInFlight(r)
    <2>1. CASE t \in inFlight
      BY <1>0, <1>2, <2>1, AnswerReads
      DEF InfoInFlight, Reads, GoesOnReading, Answers, Answer
    <2>2. CASE t \notin inFlight
      BY <1>0, <1>2, <2>2, GotoReads DEF InfoInFlight, Reads, GoesOnReading, Advances
    <2> QED
      BY <2>1, <2>2
  <1>3. CASE InfoJob(r)
    <2>1. CASE Live(t)
      BY <1>0, <1>3, <2>1, AnswerReads DEF InfoJob, Reads, GoesOnReading, Answers, Answer
    <2>2. CASE ~Live(t)
      BY <1>0, <1>3, <2>2, GotoReads DEF InfoJob, Reads, GoesOnReading, Advances
    <2> QED
      BY <2>1, <2>2
  <1>4. CASE InfoBlob(r)
    <2>1. (IF HasBlob(t) THEN blob[t].status ELSE "unknown") \in Answer
      BY DEF HasBlob, Typed, StoreTypeOK, Blob, Answer
    <2> QED
      BY <1>0, <1>4, <2>1, AnswerReads DEF InfoBlob, Reads, GoesOnReading, Answers
  <1> QED
    BY <1>1, <1>2, <1>3, <1>4

LEMMA ResultReads ==
    ASSUME Typed, ReadsTyped, NEW r \in Readers,
           \/ ResultWait(r) \/ ResultFetch(r) \/ ResultRunning(r) \/ ResultLookup(r)
           \/ ResultDeadline(r) \/ DeadlinePasses(r)
    PROVE  Reads(r)
  <1> USE DEF ReadAt, ReadTask, InfoPC, ResultPC
  <1>0. PICK t \in Tasks : t = ReadTask(r)
    BY ReadFields
    DEF ResultWait, ResultFetch, ResultRunning, ResultLookup, ResultDeadline,
        DeadlinePasses
  <1>1. CASE ResultWait(r)
    BY <1>0, <1>1, GotoReads DEF ResultWait, Reads, GoesOnReading, Advances
  <1>2. CASE ResultFetch(r)
    <2>1. CASE HasBlob(t)
      <3>1. blob[t].status \in Answer
        BY <2>1 DEF HasBlob, Typed, StoreTypeOK, Blob, Answer
      <3> QED
        BY <1>0, <1>2, <2>1, <3>1, AnswerReads
        DEF ResultFetch, Reads, GoesOnReading, Answers
    <2>2. CASE ~HasBlob(t)
      BY <1>0, <1>2, <2>2, GotoReads DEF ResultFetch, Reads, GoesOnReading, Advances
    <2> QED
      BY <2>1, <2>2
  <1>3. CASE ResultRunning(r)
    <2>1. PICK pc \in {"deadline", "lookup"} : ReadGoto(r, pc)
      BY <1>3 DEF ResultRunning
    <2> QED
      BY <1>0, <1>3, <2>1, GotoReads DEF ResultRunning, Reads, GoesOnReading, Advances
  <1>4. CASE ResultLookup(r)
    <2>1. CASE ReadAnswer(r, "unknown")
      BY <1>0, <1>4, <2>1, AnswerReads
      DEF ResultLookup, Reads, GoesOnReading, Answers, Answer
    <2>2. CASE ReadGoto(r, "deadline")
      BY <1>0, <1>4, <2>2, GotoReads DEF ResultLookup, Reads, GoesOnReading, Advances
    <2> QED
      BY <1>4, <2>1, <2>2 DEF ResultLookup
  <1>5. CASE ResultDeadline(r)
    <2>1. CASE ReadAnswer(r, "notyet")
      BY <1>0, <1>5, <2>1, AnswerReads
      DEF ResultDeadline, Reads, GoesOnReading, Answers, Answer
    <2>2. CASE ReadGoto(r, "fetch")
      BY <1>0, <1>5, <2>2, GotoReads DEF ResultDeadline, Reads, GoesOnReading, Advances
    <2> QED
      BY <1>5, <2>1, <2>2 DEF ResultDeadline
  <1>6. CASE DeadlinePasses(r)
    <2>1. /\ reader' \in [Readers -> ReaderState] /\ reader'[r].pc = reader[r].pc
          /\ reader'[r].task = reader[r].task /\ reader'[r].method = reader[r].method
          /\ reader'[r].after = reader[r].after /\ reader'[r].seen = reader[r].seen
          /\ reader'[r].answer = reader[r].answer
          /\ \A q \in Readers \ {r} : reader'[q] = reader[q]
      <3> DEFINE late == [reader[r] EXCEPT !.late = TRUE]
      <3>1. late \in ReaderState
        BY ReadFields DEF ReaderState
      <3>2. /\ late.pc = reader[r].pc /\ late.task = reader[r].task
            /\ late.method = reader[r].method /\ late.after = reader[r].after
            /\ late.seen = reader[r].seen /\ late.answer = reader[r].answer
        BY ReadFields DEF ReaderState
      <3>3. reader' = [reader EXCEPT ![r] = late]
        BY <1>6 DEF DeadlinePasses
      <3> HIDE DEF late
      <3> QED
        BY <3>1, <3>2, <3>3, ReadFields
    <2> QED
      BY <1>6, <2>1 DEF DeadlinePasses, OnlyReader, Reads, GoesOnReading, Advances
  <1> QED
    BY <1>1, <1>2, <1>3, <1>4, <1>5, <1>6

LEMMA EveryRead == ASSUME Typed, ReadsTyped, NEW r \in Readers, Read(r)  PROVE Reads(r)
  <1>0. IdleReader \in ReaderState
    BY DEF IdleReader, ReaderState, Method
  <1>1. CASE ReadFails(r)
    BY <1>0, <1>1 DEF ReadFails, OnlyReader, Reads, Ends, ReadsTyped
  <1>2. CASE Deliver(r)
    <2>1. CASE reader[r].answer \in FinishedStatus
      <3>1. <<reader[r].method, reader[r].answer>> \in Method \X FinishedStatus
        BY <2>1, ReadFields DEF ReaderState
      <3>2. ReadTask(r) \in Tasks
        BY <1>2, ReadFields DEF Deliver, ReadAt, ReadTask
      <3> QED
        BY <1>0, <1>2, <2>1, <3>1, <3>2 DEF Deliver, Reads, Ends, ReadsTyped
    <2>2. CASE reader[r].answer \notin FinishedStatus
      BY <1>0, <1>2, <2>2 DEF Deliver, Reads, Ends, ReadsTyped
    <2> QED
      BY <2>1, <2>2
  <1>3. ASSUME NEW t \in Tasks, NEW method \in Method, StartRead(r, t, method)
        PROVE  Reads(r)
    <2>1. Snapshot(t) \in Answer
      BY SnapshotTyped DEF Answer
    <2>2. told[t] \in SUBSET (Method \X FinishedStatus)
      BY DEF ReadsTyped
    <2> DEFINE seen == IF method = "info" THEN {Snapshot(t)} ELSE {}
               pc == IF method = "info" THEN "pointer" ELSE "wait"
               begun == [IdleReader EXCEPT !.pc = pc, !.task = t, !.method = method,
                                           !.after = told[t], !.seen = seen]
    <2>3. seen \in SUBSET Answer /\ pc \in InfoPC \union ResultPC
      BY <2>1 DEF InfoPC, ResultPC
    <2> HIDE DEF seen, pc
    <2>4. begun \in ReaderState
      BY <2>2, <2>3 DEF IdleReader, ReaderState
    <2> USE DEF seen, pc
    <2>5. reader' = [reader EXCEPT ![r] = begun]
      BY <1>3 DEF StartRead
    <2> HIDE DEF begun
    <2>6. reader' \in [Readers -> ReaderState] /\ reader'[r] = begun
      BY <2>4, <2>5, ReadFields
    <2>7. Begins(r)
      BY <1>3, <2>6 DEF StartRead, Begins, begun
    <2> QED
      BY <1>3, <2>5, <2>6, <2>7 DEF StartRead, OnlyReader, Reads
  <1> QED
    BY <1>1, <1>2, <1>3, InfoReads, ResultReads DEF Read, ReadStep

\* A step of a listing.
Listing(l) ==
    /\ UNCHANGED <<retentionVars, reader, told>>
    /\ lister' \in [Listers -> ListerState]
    /\ \A k \in Listers \ {l} : lister'[k] = lister[k]
    /\ \/ lister'[l] = IdleLister
       \/ /\ lister'[l].pc = "map"
          /\ lister'[l].known = {t \in Tasks : Snapshot(t) \in FinishedStatus}
       \/ /\ lister'[l].known = lister[l].known
          /\ \/ lister'[l].pc = "list"
             \/ /\ lister'[l].pc = "get"
                /\ \A t \in Tasks : HasBlob(t) => t \in lister'[l].todo
             \/ /\ ListAt(l, "get") /\ lister'[l].pc = "get"
                /\ lister[l].todo \union lister[l].found \subseteq
                     lister'[l].todo \union lister'[l].found
             \/ /\ ListAt(l, "get") /\ lister'[l].pc = "done"
                /\ lister[l].todo = {} /\ lister'[l].found = lister[l].found

LEMMA EveryListing ==
    ASSUME Typed, ReadsTyped, NEW l \in Listers, ListTasks(l)  PROVE Listing(l)
  <1>0. lister \in [Listers -> ListerState] /\ lister[l] \in ListerState
    BY DEF ReadsTyped
  <1> DEFINE Alone == \A k \in Listers \ {l} : lister'[k] = lister[k]
  <1>1. OnlyLister
    BY DEF ListTasks, StartList, ListMap, ListStore, ListFails, ListDone, ListReturn,
           ListGet
  <1>2. CASE StartList(l)
    <2>1. /\ Alone /\ lister'[l].pc = "map" /\ lister' \in [Listers -> ListerState]
          /\ lister'[l].known = {t \in Tasks : Snapshot(t) \in FinishedStatus}
      BY <1>0, <1>2 DEF StartList, IdleLister, ListerState
    <2> QED
      BY <1>1, <2>1 DEF Listing, OnlyLister
  <1>3. CASE ListMap(l)
    <2>1. /\ Alone /\ lister'[l].pc = "list" /\ lister' \in [Listers -> ListerState]
          /\ lister'[l].known = lister[l].known
      BY <1>0, <1>3 DEF ListMap, ListerState, Typed
    <2> QED
      BY <1>1, <2>1 DEF Listing, OnlyLister
  <1>4. CASE ListStore(l)
    <2>1. /\ Alone /\ lister'[l].pc = "get" /\ lister' \in [Listers -> ListerState]
          /\ lister'[l].known = lister[l].known
          /\ lister'[l].todo = {t \in Tasks : HasBlob(t)}
      BY <1>0, <1>4 DEF ListStore, ListerState
    <2> QED
      BY <1>1, <2>1 DEF Listing, OnlyLister
  <1>5. ASSUME NEW t \in Tasks, ListGet(l, t)  PROVE Listing(l)
    <2>1. /\ Alone /\ ListAt(l, "get") /\ lister'[l].pc = "get"
          /\ lister' \in [Listers -> ListerState] /\ lister'[l].known = lister[l].known
          /\ lister'[l].todo = lister[l].todo \ {t}
          /\ lister'[l].found = lister[l].found \union {t}
      BY <1>0, <1>5 DEF ListGet, ListerState, ListAt
    <2> QED
      BY <1>1, <2>1 DEF Listing, OnlyLister
  <1>6. CASE ListDone(l)
    <2>1. /\ Alone /\ ListAt(l, "get") /\ lister'[l].pc = "done"
          /\ lister' \in [Listers -> ListerState] /\ lister'[l].known = lister[l].known
          /\ lister[l].todo = {} /\ lister'[l].found = lister[l].found
      BY <1>0, <1>6 DEF ListDone, ListerState, ListAt
    <2> QED
      BY <1>1, <2>1 DEF Listing, OnlyLister
  <1>7. CASE ListFails(l) \/ ListReturn(l)
    <2>0. IdleLister \in ListerState
      BY DEF IdleLister, ListerState
    <2>1. Alone /\ lister'[l] = IdleLister /\ lister' \in [Listers -> ListerState]
      <3>1. lister' = [lister EXCEPT ![l] = IdleLister]
        BY <1>7 DEF ListFails, ListReturn
      <3> QED
        BY <1>0, <2>0, <3>1
    <2> QED
      BY <1>1, <2>1 DEF Listing, OnlyLister
  <1> QED
    BY <1>2, <1>3, <1>4, <1>5, <1>6, <1>7 DEF ListTasks

\* Whatever happens, the rest of the backend takes a step of its own or none.
LEMMA ReadsAside == [ReadsNext]_readVars => [RetentionNext]_retentionVars
  BY DEF ReadsNext, RetentionNext, Read, ReadStep, StartRead, InfoPointer, InfoInFlight,
         InfoJob, InfoBlob, ResultWait, ResultFetch, ResultRunning, ResultLookup,
         ResultDeadline, ReadFails, Deliver, DeadlinePasses, ReadGoto, ReadAnswer,
         OnlyReader, ListTasks, StartList, ListMap, ListStore, ListFails, ListDone,
         ListReturn, ListGet, OnlyLister, readVars

\* Reading changes nothing: beside readers and listings, the writers, the queue and
\* the sweep do what they do without them.
THEOREM ReadsImplementRetention == ReadsSpec => RetentionSpec
  <1>1. ReadsInit => RetentionInit
    BY DEF ReadsInit
  <1> QED
    BY <1>1, ReadsAside, PTL DEF ReadsSpec, RetentionSpec

LEMMA ReadsCases ==
    ASSUME Base, ReadsTyped, [ReadsNext]_readVars
    PROVE  \/ Watches \/ Vanish \/ UNCHANGED readVars
           \/ \E r \in Readers : Reads(r)
           \/ \E l \in Listers : Listing(l)
  <1>0. Typed'
    BY ReadsAside, BaseStep DEF Base, RetentionInv, Core
  <1>1. ASSUME RetentionRunning, Watch, UNCHANGED <<lister, told>>  PROVE Watches
    <2>1. ASSUME NEW r \in Readers, reader[r].pc \in InfoPC
          PROVE  /\ SameRequest(r) /\ reader'[r] \in ReaderState
                 /\ \E t \in Tasks :
                      /\ t = ReadTask(r)
                      /\ reader'[r].seen = reader[r].seen \union {Snapshot(t)'}
      <3>1. PICK t \in Tasks : t = ReadTask(r)
        BY <2>1, ReadFields DEF ReadTask
      <3>2. SnapshotNow'[ReadTask(r)] = Snapshot(t)'
        BY <3>1 DEF SnapshotNow
      <3>3. Snapshot(t)' \in Answer
        BY <1>0, SnapshotAfter DEF Answer
      <3> QED
        BY <1>1, <2>1, <3>1, <3>2, <3>3, ReadFields DEF Watch, SameRequest, ReaderState
    <2>2. ASSUME NEW r \in Readers, reader[r].pc \notin InfoPC
          PROVE  SameRequest(r) /\ reader'[r] \in ReaderState
      BY <1>1, <2>2, ReadFields DEF Watch, SameRequest
    <2>3. [RetentionNext]_retentionVars
      BY <1>1 DEF RetentionNext
    <2>4. reader' \in [Readers -> ReaderState]
      BY <1>1, <2>1, <2>2 DEF Watch
    <2> QED
      BY <1>1, <2>1, <2>2, <2>3, <2>4 DEF Watches
  <1>2. ASSUME RetentionRestart, reader' = [r \in Readers |-> IdleReader],
               lister' = [l \in Listers |-> IdleLister], UNCHANGED told
        PROVE  Vanish
    BY <1>2 DEF Vanish, RetentionNext
  <1> QED
    BY <1>1, <1>2, EveryRead, EveryListing DEF ReadsNext, Base, RetentionInv, Core

(***************************************************************************)
(* Requests are sound                                                      *)
(***************************************************************************)
LEMMA RestSame ==
    ASSUME UNCHANGED retentionVars, NEW t
    PROVE  /\ Snapshot(t)' = Snapshot(t) /\ submit'[t] = submit[t]
           /\ Live(t)' <=> Live(t)
           /\ HasBlob(t)' <=> HasBlob(t)
           /\ Past(t)' <=> Past(t)
           /\ Finished(t)' <=> Finished(t)
           /\ Doomed(t)' <=> Doomed(t)
           /\ Lost(t)' <=> Lost(t)
           /\ asked' = asked
  BY DEF retentionVars, vars, queueVars, histVars, Snapshot, Live, Waiting, HasBlob, Past,
         Finished, Landed, Doomed, Decided, At, TaskOf, Lost, Swept, Over, CancelOf

LEMMA ReadsTypedInit == ReadsInit => ReadsTyped
  BY DEF ReadsInit, ReadsTyped, RequestSound, IdleReader, ReaderState, IdleLister,
         ListerState, Method, ReadAt, InfoPC, ResultPC

LEMMA ReadsTypedStep ==
    ASSUME Base, ReadsTyped, [ReadsNext]_readVars
    PROVE  ReadsTyped'
  <1>0. Typed /\ [RetentionNext]_retentionVars
    BY ReadsAside DEF Base, RetentionInv, Core
  <1> USE DEF ReadAt, ReadTask
  <1>1. CASE Watches
    <2>1. ASSUME NEW r \in Readers  PROVE RequestSound(r)'
      <3>1. SameRequest(r) /\ RequestSound(r)
        BY <1>1 DEF Watches, ReadsTyped
      <3> QED
        BY <1>0, <3>1, SubmitStays DEF RequestSound, SameRequest
    <2> QED
      BY <1>1, <2>1 DEF Watches, ReadsTyped
  <1>2. CASE Vanish
    <2>1. ReadsTyped'
      BY <1>2
      DEF Vanish, ReadsTyped, RequestSound, IdleReader, ReaderState, IdleLister,
          ListerState, Method, InfoPC, ResultPC
    <2> QED
      BY <2>1
  <1>3. CASE UNCHANGED readVars
    BY <1>3 DEF readVars, retentionVars, vars, ReadsTyped, RequestSound
  <1>4. ASSUME NEW q \in Readers, Reads(q)  PROVE ReadsTyped'
    <2>0. UNCHANGED retentionVars /\ submit' = submit
      BY <1>4 DEF Reads, retentionVars, vars
    <2>1. ASSUME NEW r \in Readers, r # q  PROVE RequestSound(r)'
      BY <1>4, <2>0, <2>1 DEF Reads, ReadsTyped, RequestSound
    <2>2. RequestSound(q) /\ reader[q] \in ReaderState
      BY DEF ReadsTyped
    <2>3. RequestSound(q)'
      <3>1. CASE Ends(q)
        BY <3>1 DEF Ends, RequestSound, IdleReader, InfoPC, ResultPC
      <3>2. CASE Begins(q)
        BY <2>0, <3>2 DEF Begins, RequestSound, IdleReader, InfoPC, ResultPC, Method
      <3>3. CASE GoesOnReading(q)
        BY <2>0, <2>2, <3>3
        DEF GoesOnReading, Advances, Answers, RequestSound, InfoPC, ResultPC
      <3> QED
        BY <1>4, <3>1, <3>2, <3>3 DEF Reads
    <2>4. told' \in [Tasks -> SUBSET (Method \X FinishedStatus)]
      BY <1>4 DEF Reads, Ends, ReadsTyped
    <2> QED
      BY <1>4, <2>1, <2>3, <2>4 DEF Reads, ReadsTyped
  <1>5. ASSUME NEW l \in Listers, Listing(l)  PROVE ReadsTyped'
    BY <1>5 DEF Listing, ReadsTyped, RequestSound, retentionVars, vars
  <1> QED
    BY <1>1, <1>2, <1>3, <1>4, <1>5, ReadsCases

(***************************************************************************)
(* get_task_info tells what was so                                         *)
(***************************************************************************)
\* A job that has left the queue never comes back.
LEMMA GoneStays ==
    ASSUME Base, Careful, [RetentionNext]_retentionVars, NEW t \in Tasks, Past(t), ~Live(t)
    PROVE  ~Live(t)'
  <1>1. Typed /\ Typed' /\ ClaimInv /\ BudgetInv' /\ Without({"lease"})
    BY BaseStep DEF Base, RetentionInv, Core, Careful, Without
  <1>2. [Next]_vars
    BY RetentionCases, NoReaper, BesideNext DEF Base, RetentionInv, Careful
  <1>3. CASE Landed(t)
    BY <1>1, <1>2, <1>3, SettledStays
  <1>4. CASE submit[t] = "rejected"
    <2>1. submit'[t] = "rejected"
      BY <1>1, <1>4, SubmitStays
    <2>2. job'[t].status = "none"
      BY <1>1, <2>1 DEF BudgetInv, JobBudget
    <2> QED
      BY <2>2 DEF Live, Waiting
  <1> QED
    BY <1>3, <1>4 DEF Past, Landed

\* A request goes on: what has been read bears on what is read next.
LEMMA InfoAdvances ==
    ASSUME Base, Careful, ReadsTyped, NEW r \in Readers, InfoSound(r), Reads(r),
           GoesOnReading(r), Advances(r)
    PROVE  InfoSound(r)' /\ Justified(r)'
  <1> USE DEF ReadAt, ReadTask, InfoPC, ResultPC
  <1>0. UNCHANGED retentionVars
    BY DEF Reads
  <1>1. PICK t \in Tasks : t = ReadTask(r) /\ ReadTask(r)' = t /\ submit[t] # "new"
    BY DEF Advances, GoesOnReading, ReadsTyped, RequestSound
  <1>2. reader'[r].seen = reader[r].seen /\ reader'[r].pc \in InfoPC \union ResultPC
    BY DEF GoesOnReading, Advances
  <1>3. Past(t) \/ t \in inFlight
    BY <1>1 DEF Past, Base, MarksInv, RetentionInv, Core, Typed, SubmitPC
  <1>4. reader'[r].pc \in InfoPC => Snapshot(t) \in reader[r].seen
    BY <1>1 DEF InfoSound, Advances
  <1>5. reader'[r].pc \in {"job", "blob"} => Past(t)
    BY <1>1, <1>3 DEF InfoSound, Advances
  <1>6. reader'[r].pc = "blob" => ~Live(t)
    BY <1>1 DEF InfoSound, Advances
  <1>7. InfoSound(r)'
    BY <1>0, <1>1, <1>2, <1>4, <1>5, <1>6, RestSame DEF InfoSound
  <1> QED
    BY <1>2, <1>7 DEF Justified, Answered

LEMMA InfoAnswers ==
    ASSUME Base, Careful, ReadsTyped, NEW r \in Readers, InfoSound(r), Reads(r),
           GoesOnReading(r), Answers(r)
    PROVE  InfoSound(r)' /\ Justified(r)'
  <1> USE DEF ReadAt, ReadTask, InfoPC, ResultPC
  <1>0. UNCHANGED retentionVars
    BY DEF Reads
  <1>1. PICK t \in Tasks : t = ReadTask(r) /\ ReadTask(r)' = t
    BY DEF Answers, GoesOnReading, ReadsTyped, RequestSound
  <1> DEFINE answer == reader'[r].answer
  <1>2. SUFFICES ASSUME reader[r].method = "info"
                 PROVE  answer = Snapshot(t) \/ (answer = "cancelled" /\ t \in asked)
    <2>1. Answered(r, "info")' => reader[r].method = "info"
      BY DEF Answered, GoesOnReading
    <2>2. reader[r].method = "info" => Snapshot(t) \in reader[r].seen
      BY <1>1 DEF Answers, ReadsTyped, RequestSound, InfoSound
    <2> QED
      BY <1>0, <1>1, <2>1, <2>2, RestSame
      DEF Justified, InfoSound, Answers, GoesOnReading
  <1>3. CASE pointer[t] # "none"
    <2>1. /\ Finished(t)
          /\ blob[t].status = pointer[t] \/ (blob[t].status = "cancelled" /\ t \in asked)
      BY <1>3, PointerFinished
    <2>2. Snapshot(t) = pointer[t]
      BY <1>3 DEF Snapshot
    <2> QED
      BY <1>1, <1>2, <2>1, <2>2 DEF Answers, ReadsTyped, RequestSound, Finished
  <1>4. CASE pointer[t] = "none"
    <2>1. reader[r].pc = "blob" => ~Live(t) /\ t \notin inFlight
      BY <1>1, OutOfMap DEF InfoSound
    <2> QED
      BY <1>1, <1>2, <1>4, <2>1 DEF Answers, ReadsTyped, RequestSound, Snapshot
  <1> QED
    BY <1>3, <1>4

LEMMA InfoStep ==
    ASSUME Base, ReadsTyped, InfoInv, [ReadsNext]_readVars
    PROVE  InfoInv'
  <1> SUFFICES ASSUME Careful, NEW r \in Readers  PROVE InfoSound(r)' /\ Justified(r)'
    BY DEF InfoInv, Careful, Without
  <1>0. /\ Typed /\ [RetentionNext]_retentionVars
        /\ \A q \in Readers : InfoSound(q) /\ Justified(q)
    BY ReadsAside DEF Base, RetentionInv, Core, InfoInv
  <1>1. CASE Watches
    <2>1. SameRequest(r)
      BY <1>1 DEF Watches
    <2>2. ASSUME reader[r].pc \in InfoPC  PROVE InfoSound(r)'
      <3>1. PICK t \in Tasks : /\ t = ReadTask(r)
                               /\ reader'[r].seen = reader[r].seen \union {Snapshot(t)'}
        BY <1>1, <2>2 DEF Watches
      <3>2. ReadTask(r)' = t
        BY <2>1, <3>1 DEF SameRequest, ReadTask
      <3>3. Past(t) => Past(t)' /\ (~Live(t) => ~Live(t)')
        BY <1>0, SubmitStays, GoneStays
      <3> QED
        BY <1>0, <2>1, <3>1, <3>2, <3>3 DEF InfoSound, SameRequest, ReadAt
    <2>3. ASSUME reader[r].pc \notin InfoPC  PROVE InfoSound(r)'
      BY <2>1, <2>3 DEF InfoSound, SameRequest, ReadAt, InfoPC
    <2>4. Justified(r)'
      <3>1. Answered(r, "info") => ReadTask(r) \in Tasks
        BY ReadFields DEF Answered, ReadAt, ReadTask
      <3>2. \A t \in Tasks : asked \subseteq asked'
        BY <1>0, SubmitStays
      <3> QED
        BY <1>0, <2>1, <3>1, <3>2 DEF Justified, Answered, SameRequest, ReadAt, ReadTask
    <2> QED
      BY <2>2, <2>3, <2>4
  <1>2. CASE Vanish
    BY <1>2 DEF Vanish, InfoSound, Justified, Answered, ReadAt, IdleReader, InfoPC
  <1>3. ASSUME UNCHANGED retentionVars, reader'[r] = reader[r]
        PROVE  InfoSound(r)' /\ Justified(r)'
    <2>1. ReadTask(r)' = ReadTask(r)
      BY <1>3 DEF ReadTask
    <2> QED
      BY <1>0, <1>3, <2>1, RestSame DEF InfoSound, Justified, Answered, ReadAt
  <1>4. CASE Reads(r)
    <2>1. CASE Ends(r)
      BY <2>1 DEF Ends, InfoSound, Justified, Answered, ReadAt, IdleReader, InfoPC
    <2>2. CASE Begins(r)
      <3>1. PICK t \in Tasks, method \in Method :
              /\ reader'[r].task = t
              /\ reader'[r].pc = IF method = "info" THEN "pointer" ELSE "wait"
              /\ reader'[r].seen = IF method = "info" THEN {Snapshot(t)} ELSE {}
        BY <2>2 DEF Begins, IdleReader
      <3>2. Snapshot(t)' = Snapshot(t)
        BY <1>4, RestSame DEF Reads
      <3>3. ReadTask(r)' = t
        BY <3>1 DEF ReadTask
      <3> QED
        BY <3>1, <3>2, <3>3 DEF InfoSound, Justified, Answered, ReadAt, InfoPC
    <2> QED
      BY <1>0, <1>4, <2>1, <2>2, InfoAdvances, InfoAnswers DEF Reads, GoesOnReading
  <1> QED
    BY <1>1, <1>2, <1>3, <1>4, ReadsCases DEF Reads, Listing, readVars

(***************************************************************************)
(* What is told stays true                                                 *)
(***************************************************************************)
\* What clients have been told is what they knew, and what a request answers.
LEMMA ToldGrows ==
    ASSUME Base, ReadsTyped, [ReadsNext]_readVars, NEW t \in Tasks,
           NEW m \in Method, NEW o \in FinishedStatus, <<m, o>> \in told'[t]
    PROVE  \/ <<m, o>> \in told[t]
           \/ \E r \in Readers : /\ ReadTask(r) = t /\ Answered(r, m)
                                 /\ reader[r].answer = o
  <1>1. ASSUME NEW r \in Readers, Reads(r), <<m, o>> \notin told[t]
        PROVE  ReadTask(r) = t /\ Answered(r, m) /\ reader[r].answer = o
    <2>1. Ends(r) /\ told'[t] = told[t] \union {<<reader[r].method, reader[r].answer>>}
      BY <1>1 DEF Reads, Ends
    <2>2. <<m, o>> = <<reader[r].method, reader[r].answer>>
      BY <1>1, <2>1
    <2> QED
      BY <1>1, <2>1, <2>2 DEF Ends, Answered, ReadAt
  <1> QED
    BY <1>1, ReadsCases DEF Watches, Vanish, Listing, readVars

\* The answer of a get_task_info is final: its task is finished.
LEMMA StickAnswers ==
    ASSUME Base, Careful, ReadsTyped, NEW r \in Readers, InfoSound(r), Sticks(r),
           Reads(r), GoesOnReading(r)
    PROVE  Sticks(r)'
  <1> USE DEF ReadAt, ReadTask, InfoPC, ResultPC
  <1>0. UNCHANGED retentionVars
    BY DEF Reads
  <1>1. PICK t \in Tasks : t = ReadTask(r) /\ ReadTask(r)' = t
    BY DEF Advances, Answers, GoesOnReading, ReadsTyped, RequestSound
  <1>2. ~ReadAt(r, "idle") /\ reader[r].pc \in InfoPC \union ResultPC
    BY DEF Advances, Answers, GoesOnReading
  <1>3. reader[r].pc \in ResultPC => reader[r].method = "result"
    BY DEF ReadsTyped, RequestSound
  <1>4. reader[r].pc = "blob" /\ HasBlob(t) => Finished(t)
    BY <1>1, OutOfMap DEF InfoSound, Finished, Base, RetentionInv, Core, BlobCore
  <1>5. pointer[t] # "none" => Finished(t)
    BY PointerFinished
  <1>6. ASSUME Answered(r, "info")', reader'[r].answer \in FinishedStatus
        PROVE  Finished(t)
    <2>1. Answers(r) /\ reader[r].method = "info"
      BY <1>6 DEF Answered, GoesOnReading, Advances
    <2>2. CASE reader[r].pc = "pointer"
      BY <1>1, <1>5, <2>1, <2>2 DEF Answers
    <2>3. CASE reader[r].pc = "blob"
      <3>1. "unknown" \notin FinishedStatus
        BY DEF FinishedStatus
      <3> QED
        BY <1>1, <1>4, <1>6, <2>1, <2>3, <3>1 DEF Answers
    <2>4. CASE reader[r].pc \in {"inflight", "job"}
      BY <1>6, <2>1, <2>4 DEF Answers, FinishedStatus
    <2> QED
      BY <1>2, <1>3, <2>1, <2>2, <2>3, <2>4
  <1>7. ASSUME Knows(r)
        PROVE  /\ Finished(t) /\ reader'[r].pc \in InfoPC \union {"wait", "fetch", "done"}
               /\ reader'[r].pc = "done" => reader'[r].answer \in FinishedStatus
    <2>1. Finished(t) /\ reader[r].pc \in InfoPC \union {"wait", "fetch"}
      BY <1>1, <1>2, <1>7 DEF Sticks
    <2>2. /\ blob[t].status \in FinishedStatus
          /\ pointer[t] # "none" => pointer[t] \in FinishedStatus
      BY <2>1, FinishedAnswers
    <2> QED
      BY <1>1, <2>1, <2>2 DEF Finished, Advances, Answers, GoesOnReading
  <1>8. Knows(r)' => Knows(r)
    BY DEF Knows, GoesOnReading
  <1>9. Finished(t)' <=> Finished(t)
    BY <1>0, RestSame
  <1> QED
    BY <1>1, <1>6, <1>7, <1>8, <1>9 DEF Sticks

LEMMA StickStep ==
    ASSUME Base, ReadsTyped, InfoInv, StickInv, [ReadsNext]_readVars
    PROVE  StickInv'
  <1> SUFFICES ASSUME Careful
               PROVE  /\ \A t \in Tasks :
                           (\E o \in FinishedStatus : <<"info", o>> \in told'[t])
                             => Finished(t)'
                      /\ \A r \in Readers : Sticks(r)'
    BY DEF StickInv, Careful, Without
  <1> USE DEF ReadAt, ReadTask
  <1>0. /\ [RetentionNext]_retentionVars
        /\ \A q \in Readers : InfoSound(q) /\ Sticks(q)
        /\ \A t \in Tasks : Finished(t) => Finished(t)'
    BY ReadsAside, FinishedStays DEF InfoInv, StickInv
  <1>1. ASSUME NEW t \in Tasks, NEW o \in FinishedStatus, <<"info", o>> \in told'[t]
        PROVE  Finished(t)'
    <2>1. \/ <<"info", o>> \in told[t]
          \/ \E r \in Readers : /\ ReadTask(r) = t /\ Answered(r, "info")
                                /\ reader[r].answer = o
      BY <1>1, ToldGrows DEF Method
    <2> QED
      BY <1>0, <2>1 DEF StickInv, Sticks
  <1>2. ASSUME NEW r \in Readers  PROVE Sticks(r)'
    <2>1. CASE Watches
      <3>1. SameRequest(r) /\ Sticks(r)
        BY <1>0, <2>1 DEF Watches
      <3>2. ~ReadAt(r, "idle") => \E t \in Tasks : t = reader[r].task /\ t = reader'[r].task
        BY <3>1 DEF ReadsTyped, RequestSound, SameRequest
      <3>3. Knows(r)' <=> Knows(r)
        BY <3>1 DEF Knows, SameRequest
      <3> QED
        BY <1>0, <3>1, <3>2, <3>3 DEF Sticks, Answered, SameRequest
    <2>2. CASE Vanish
      BY <2>2 DEF Vanish, Sticks, Answered, Knows, IdleReader
    <2>3. ASSUME UNCHANGED retentionVars, reader'[r] = reader[r]
          PROVE  Sticks(r)'
      <3>1. PICK t : t = reader[r].task /\ t = reader'[r].task
        BY <2>3
      <3>2. Finished(t)' <=> Finished(t)
        BY <2>3, RestSame
      <3>3. Knows(r)' <=> Knows(r)
        BY <2>3 DEF Knows
      <3> QED
        BY <1>0, <2>3, <3>1, <3>2, <3>3 DEF Sticks, Answered
    <2>4. CASE Reads(r)
      <3>1. CASE Ends(r)
        BY <3>1 DEF Ends, Sticks, Answered, Knows, IdleReader
      <3>2. CASE Begins(r)
        <4>1. PICK t \in Tasks, method \in Method :
                /\ reader'[r].task = t /\ reader'[r].after = told[t]
                /\ reader'[r].pc = IF method = "info" THEN "pointer" ELSE "wait"
          BY <3>2 DEF Begins, IdleReader
        <4>2. Knows(r)' => Finished(t)
          BY <4>1 DEF Knows, StickInv
        <4> QED
          BY <1>0, <4>1, <4>2 DEF Sticks, Answered, InfoPC
      <3> QED
        BY <1>0, <2>4, <3>1, <3>2, StickAnswers DEF Reads
    <2> QED
      BY <2>1, <2>2, <2>3, <2>4, ReadsCases DEF Reads, Listing, readVars
  <1> QED
    BY <1>1, <1>2

\* A request that tells a failure tells it of a doomed task, and a completion
\* is told of no doomed task.
LEMMA FailureAnswers ==
    ASSUME Base, Without({"lease", "rollback"}), ReadsTyped, NEW r \in Readers, Stands(r), Reads(r),
           GoesOnReading(r)
    PROVE  Stands(r)'
  <1> USE DEF ReadAt, ReadTask, InfoPC, ResultPC
  <1>0. UNCHANGED retentionVars
    BY DEF Reads
  <1>1. PICK t \in Tasks : t = ReadTask(r) /\ ReadTask(r)' = t
    BY DEF Advances, Answers, GoesOnReading, ReadsTyped, RequestSound
  <1>2. pointer[t] # "failed" /\ (blob[t].status = "failed" => Doomed(t))
    BY DEF Base, RetentionInv, Core, Typed, QueueTypeOK, PointerStatus, DoomInv
  <1>3. Doomed(t) => pointer[t] = "none" /\ blob[t].status # "completed"
    BY DEF Doomed
  <1>4. reader'[r].pc = "done" =>
          reader'[r].answer \in {pointer[t], blob[t].status, "working", "unknown", "notyet"}
    BY <1>1 DEF GoesOnReading, Advances, Answers
  <1>5. /\ Doomed(t)' <=> Doomed(t)
        /\ KnowsFailed(r)' <=> KnowsFailed(r)
    BY <1>0, RestSame DEF KnowsFailed, GoesOnReading
  <1>6. ~ReadAt(r, "idle")
    BY DEF GoesOnReading, Advances, Answers
  <1> QED
    BY <1>1, <1>2, <1>3, <1>4, <1>5, <1>6 DEF Stands

LEMMA FailureStep ==
    ASSUME Base, ReadsTyped, FailureInv, [ReadsNext]_readVars
    PROVE  FailureInv'
  <1> SUFFICES ASSUME Without({"lease", "rollback"})
               PROVE  /\ \A t \in Tasks :
                           (\E m \in Method : <<m, "failed">> \in told'[t]) => Doomed(t)'
                      /\ \A r \in Readers : Stands(r)'
    BY DEF FailureInv, Without
  <1> USE DEF ReadAt, ReadTask
  <1>0. /\ Core /\ SweepInv /\ ExpiryInv /\ [RetentionNext]_retentionVars
        /\ \A q \in Readers : Stands(q)
    BY ReadsAside DEF Base, RetentionInv, FailureInv
  <1>1. \A t \in Tasks : Doomed(t) => Doomed(t)'
    BY <1>0, DoomedAlways DEF Without
  <1>2. ASSUME NEW t \in Tasks, NEW m \in Method, <<m, "failed">> \in told'[t]
        PROVE  Doomed(t)'
    <2>1. \/ <<m, "failed">> \in told[t]
          \/ \E r \in Readers : /\ ReadTask(r) = t /\ Answered(r, m)
                                /\ reader[r].answer = "failed"
      BY <1>2, ToldGrows DEF FinishedStatus
    <2> QED
      BY <1>0, <1>1, <2>1 DEF FailureInv, Stands, Answered
  <1>3. ASSUME NEW r \in Readers  PROVE Stands(r)'
    <2>1. CASE Watches
      <3>1. SameRequest(r) /\ Stands(r)
        BY <1>0, <2>1 DEF Watches
      <3>2. ~ReadAt(r, "idle") => \E t \in Tasks : t = reader[r].task /\ t = reader'[r].task
        BY <3>1 DEF ReadsTyped, RequestSound, SameRequest
      <3>3. KnowsFailed(r)' <=> KnowsFailed(r)
        BY <3>1 DEF KnowsFailed, SameRequest
      <3> QED
        BY <1>1, <3>1, <3>2, <3>3 DEF Stands, SameRequest
    <2>2. CASE Vanish
      BY <2>2 DEF Vanish, Stands, KnowsFailed, IdleReader
    <2>3. ASSUME UNCHANGED retentionVars, reader'[r] = reader[r]
          PROVE  Stands(r)'
      <3>1. PICK t : t = reader[r].task /\ t = reader'[r].task
        BY <2>3
      <3>2. Doomed(t)' <=> Doomed(t)
        BY <2>3, RestSame
      <3>3. KnowsFailed(r)' <=> KnowsFailed(r)
        BY <2>3 DEF KnowsFailed
      <3> QED
        BY <1>0, <2>3, <3>1, <3>2, <3>3 DEF Stands
    <2>4. CASE Reads(r)
      <3>1. CASE Ends(r)
        BY <3>1 DEF Ends, Stands, KnowsFailed, IdleReader
      <3>2. CASE Begins(r)
        <4>1. PICK t \in Tasks, method \in Method :
                /\ reader'[r].task = t /\ reader'[r].after = told[t]
                /\ reader'[r].pc = IF method = "info" THEN "pointer" ELSE "wait"
          BY <3>2 DEF Begins, IdleReader
        <4>2. KnowsFailed(r)' => Doomed(t)
          BY <4>1 DEF KnowsFailed, FailureInv
        <4> QED
          BY <1>1, <4>1, <4>2 DEF Stands
      <3> QED
        BY <1>0, <2>4, <3>1, <3>2, FailureAnswers DEF Reads
    <2> QED
      BY <2>1, <2>2, <2>3, <2>4, ReadsCases DEF Reads, Listing, readVars
  <1> QED
    BY <1>2, <1>3

(***************************************************************************)
(* Nothing is missing from a listing                                       *)
(***************************************************************************)
\* A result stays where it is until a sweep takes it, and then for good.
LEMMA KeptOrLost ==
    ASSUME Base, [RetentionNext]_retentionVars, NEW t \in Tasks, HasBlob(t) \/ Lost(t)
    PROVE  /\ HasBlob(t)' \/ Lost(t)'
           /\ Lost(t) => Lost(t)'
  <1>0. Core /\ Typed /\ SweepInv /\ ExpiryInv /\ sweep \in SweepState
    BY DEF Base, RetentionInv, Core, SweepInv
  <1>1. sweep.early \subseteq sweep'.early
    BY <1>0, RetentionCases, BesideSweep, ReapsLose DEF Loses
  <1>2. Lost(t) => Lost(t)'
    BY <1>0, <1>1, SweptStays DEF Lost
  <1>3. CASE Beside
    BY <1>0, <1>2, <1>3, BlobStays, BesideNext
  <1>4. CASE Reaps
    <2>1. Loses
      BY <1>0, <1>4, ReapsLose
    <2> QED
      BY <1>2, <2>1 DEF Loses, HasBlob, Lost, Timely
  <1> QED
    BY <1>2, <1>3, <1>4, RetentionCases

\* What has an outcome has a result, unless a sweep has taken it.
LEMMA OutcomeHasBlob ==
    ASSUME Base, Without({"put"}), NEW t \in Tasks, Snapshot(t) \in FinishedStatus
    PROVE  HasBlob(t) \/ Lost(t)
  <1>1. CASE pointer[t] # "none"
    <2>1. Backed(t, pointer[t]) \/ Lost(t)
      BY <1>1 DEF Base, RetentionInv, AnchorInv, Anchored, Timely, Lost
    <2> QED
      BY <1>1, <2>1 DEF Backed, HasBlob
  <1>2. CASE pointer[t] = "none"
    BY <1>2 DEF Snapshot, FinishedStatus
  <1> QED
    BY <1>1, <1>2

LEMMA ListStep ==
    ASSUME Base, ReadsTyped, ListInv, [ReadsNext]_readVars
    PROVE  ListInv'
  <1> SUFFICES ASSUME Without({"put"}), NEW l \in Listers  PROVE Lists(l)'
    BY DEF ListInv, Without
  <1> USE DEF ListAt
  <1>0. /\ [RetentionNext]_retentionVars /\ Lists(l)
        /\ lister[l].known \subseteq Tasks
    BY ReadsAside DEF ListInv, ReadsTyped, ListerState
  <1>1. ASSUME lister'[l] = lister[l]  PROVE Lists(l)'
    <2>1. \A t \in lister[l].known : /\ HasBlob(t)' \/ Lost(t)'
                                     /\ Lost(t) => Lost(t)'
      BY <1>0, KeptOrLost DEF Lists
    <2> QED
      BY <1>0, <1>1, <2>1 DEF Lists
  <1>2. CASE Vanish
    BY <1>2 DEF Vanish, Lists, IdleLister
  <1>3. CASE Listing(l)
    <2>0. \A t : (HasBlob(t)' <=> HasBlob(t)) /\ (Lost(t)' <=> Lost(t))
      BY <1>3, RestSame DEF Listing
    <2>1. CASE lister'[l] = IdleLister
      BY <2>1 DEF Lists, IdleLister
    <2>2. CASE /\ lister'[l].pc = "map"
               /\ lister'[l].known = {t \in Tasks : Snapshot(t) \in FinishedStatus}
      <3>1. \A t \in lister'[l].known : HasBlob(t) \/ Lost(t)
        BY <2>2, OutcomeHasBlob
      <3> QED
        BY <2>0, <2>2, <3>1 DEF Lists
    <2>3. CASE lister'[l].known = lister[l].known /\ lister'[l].pc = "list"
      BY <1>0, <2>0, <2>3 DEF Lists
    <2>4. CASE /\ lister'[l].known = lister[l].known /\ lister'[l].pc = "get"
               /\ \A t \in Tasks : HasBlob(t) => t \in lister'[l].todo
      BY <1>0, <2>0, <2>4 DEF Lists
    <2>5. CASE /\ lister'[l].known = lister[l].known
               /\ ListAt(l, "get") /\ lister'[l].pc = "get"
               /\ lister[l].todo \union lister[l].found \subseteq
                    lister'[l].todo \union lister'[l].found
      BY <1>0, <2>0, <2>5 DEF Lists
    <2>6. CASE /\ lister'[l].known = lister[l].known
               /\ ListAt(l, "get") /\ lister'[l].pc = "done"
               /\ lister[l].todo = {} /\ lister'[l].found = lister[l].found
      BY <1>0, <2>0, <2>6 DEF Lists
    <2> QED
      BY <1>3, <2>1, <2>2, <2>3, <2>4, <2>5, <2>6 DEF Listing
  <1> QED
    BY <1>1, <1>2, <1>3, ReadsCases DEF Watches, Reads, Listing, readVars

(***************************************************************************)
(* The theorems                                                            *)
(***************************************************************************)
ReadsInv == Base /\ ReadsTyped /\ InfoInv /\ StickInv /\ FailureInv /\ ListInv

LEMMA AlwaysReads == ReadsSpec => []ReadsInv
  <1>1. ReadsInit => ReadsInv
    <2> SUFFICES ASSUME ReadsInit  PROVE ReadsInv
      OBVIOUS
    <2>1. Base /\ ReadsTyped
      BY BaseInit, ReadsTypedInit
    <2>2. InfoInv /\ StickInv /\ FailureInv /\ ListInv
      BY DEF ReadsInit, IdleReader, IdleLister, InfoInv, InfoSound, Justified, StickInv,
             Sticks, Knows, FailureInv, Stands, KnowsFailed, ListInv, Lists, Answered,
             ReadAt, ListAt, InfoPC
    <2> QED
      BY <2>1, <2>2 DEF ReadsInv
  <1>2. ReadsInv /\ [ReadsNext]_readVars => ReadsInv'
    BY ReadsAside, BaseStep, ReadsTypedStep, InfoStep, StickStep, FailureStep, ListStep
    DEF ReadsInv
  <1> QED
    BY <1>1, <1>2, PTL DEF ReadsSpec

\* The readers' state stays within its type beside every step of the backend.
THEOREM ReadsTypeCorrect == ReadsSpec => []ReadsTypeOK
  <1>1. ReadsInv => ReadsTypeOK
    BY TypedIsTypeOK
    DEF ReadsInv, Base, RetentionInv, Core, SweepInv, RetentionTypeOK, ReadsTyped,
        ReadsTypeOK
  <1> QED
    BY <1>1, AlwaysReads, PTL

\* Though the four reads of snapshot_task are apart, get_task_info tells a
\* status that its task had at some moment of the request.
THEOREM AnswersAreJustified == ReadsSpec => []AnswerJustified
  <1>1. ReadsInv => AnswerJustified
    BY DEF ReadsInv, InfoInv, Careful, Justified, AnswerJustified
  <1> QED
    BY <1>1, AlwaysReads, PTL

\* Once get_task_info has told an outcome, every later request of either method
\* tells one too.
THEOREM AnswersStay == ReadsSpec => []AnswersStick
  <1>1. ReadsInv => AnswersStick
    BY DEF ReadsInv, StickInv, Careful, Sticks, Knows, ReadAt, AnswersStick
  <1> QED
    BY <1>1, AlwaysReads, PTL

\* No request tells that a task completed after one that told that it failed.
THEOREM FailuresAreFinal == ReadsSpec => []FailureStands
  <1>1. ReadsInv => FailureStands
    BY DEF ReadsInv, FailureInv, Stands, KnowsFailed, ReadAt, FailureStands
  <1> QED
    BY <1>1, AlwaysReads, PTL

\* list_tasks drops no task that had an outcome when it was called, but those
\* whose result a sweep has taken meanwhile.
THEOREM ListingsAreComplete == ReadsSpec => []ListComplete
  <1>1. ReadsInv => ListComplete
    BY DEF ReadsInv, ListInv, Lists, Lost, Swept, ListAt, ListComplete
  <1> QED
    BY <1>1, AlwaysReads, PTL
==============================================================================
