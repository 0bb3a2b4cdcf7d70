--------------------------- MODULE RetentionProofs ----------------------------
(***************************************************************************)
(* The retention sweep beside the rest of the backend, for all tasks,      *)
(* workers, requests and faults: what TaskBackend guarantees it guarantees *)
(* next to the sweep, and the sweep takes nothing but what has expired.    *)
(***************************************************************************)
EXTENDS RetentionProperties, TaskBackendRefinementProofs

(***************************************************************************)
(* Tasks nobody works on any more                                          *)
(***************************************************************************)
\* Nobody is going to write the blob or the pointer of t again.  Requests may
\* still come for t, and will find that there is nothing to cancel.
Over(t) ==
    /\ Landed(t) /\ ~Live(t)
    /\ \A w \in Workers : TaskOf(w) # t
    /\ \A c \in Cancels :
         CancelOf(c) = t => cancel[c].pc \in {"idle", "signal", "log", "check"}

\* What is over stays over, and its blob and its pointer stay what they are.
Rests(t) == Over(t)' /\ blob'[t] = blob[t] /\ pointer'[t] = pointer[t]

LEMMA OverSame ==
    ASSUME NEW t \in Tasks, Over(t), Landed(t)', UNCHANGED <<worker, cancel>>,
           job'[t] = job[t], blob'[t] = blob[t], pointer'[t] = pointer[t]
    PROVE  Rests(t)
  BY DEF Rests, Over, Live, Waiting, TaskOf, CancelOf

\* A worker that is about another task leaves t alone.
LEMMA WorkerElsewhere ==
    ASSUME Typed, NEW t \in Tasks, NEW w \in Workers, TaskOf(w) # t,
           RunToolWorker(w) \/ Panic(w), \A u \in Tasks : ~ClaimJob(w, u)
    PROVE  /\ job'[t] = job[t] /\ pointer'[t] = pointer[t] /\ blob'[t] = blob[t]
           /\ OnlyWorker(w) /\ TaskOf(w)' # t
  <1>0. QueueTypeOK /\ StoreTypeOK
    BY DEF Typed
  <1>1. TaskOf(w) \in Tasks \ {t}
    BY WorkerFields
    DEF RunToolWorker, MarkInFlight, DecodeFails, RecordStarted, CallTool,
        DecideOutcome, PutResult, RecordOutcome, AckJob, DeadLetterJob, NackJob,
        SettleFails, Panic, At, Busy, WorkerPC, TaskOf
  <1>2. OnlyWorker(w) /\ (TaskOf(w)' = TaskOf(w) \/ TaskOf(w)' = NoTask)
    BY GotoFacts, ResolveFacts, LeaveFacts
    DEF RunToolWorker, MarkInFlight, DecodeFails, RecordStarted, CallTool,
        DecideOutcome, PutResult, RecordOutcome, AckJob, DeadLetterJob, NackJob,
        SettleFails, Panic, Finish, TaskOf
  <1>3. job'[t] = job[t] /\ pointer'[t] = pointer[t]
    BY <1>0, <1>1
    DEF RunToolWorker, MarkInFlight, DecodeFails, RecordStarted, CallTool,
        DecideOutcome, PutResult, RecordOutcome, AckJob, AckWith, DeadLetterJob,
        DeadLetter, NackJob, Nack, UseAttempt, SettleFails, Panic, Abandon,
        QueueTypeOK, queueVars
  <1>4. blob'[t] = blob[t]
    BY <1>0, <1>1
    DEF RunToolWorker, MarkInFlight, DecodeFails, RecordStarted, CallTool,
        DecideOutcome, PutResult, TryPut, Put, RecordOutcome, AckJob, DeadLetterJob,
        NackJob, SettleFails, Panic, Finish, StoreTypeOK
  <1> QED
    BY <1>1, <1>2, <1>3, <1>4, NoTaskAssumption

LEMMA OverWorker ==
    ASSUME Typed, NEW t \in Tasks, Over(t), Landed(t)', NEW w \in Workers,
           RunToolWorker(w) \/ Panic(w)
    PROVE  Rests(t)
  <1>0. QueueTypeOK /\ StoreTypeOK /\ TaskOf(w) # t
    BY DEF Typed, Over
  <1>1. cancel' = cancel
    BY DEF RunToolWorker, ClaimJob, MarkInFlight, DecodeFails, RecordStarted, CallTool,
           DecideOutcome, PutResult, RecordOutcome, AckJob, DeadLetterJob, NackJob,
           SettleFails, Panic, Finish
  <1>2. ASSUME NEW u \in Tasks, ClaimJob(w, u)  PROVE Rests(t)
    <2>1. u # t /\ OnlyJob(u) /\ UNCHANGED <<pointer, blob>>
      BY <1>0, <1>2, ClaimFacts DEF ClaimJob, Over, Live, Waiting
    <2>2. OnlyWorker(w) /\ worker'[w].task = u
      BY <1>2 DEF ClaimJob, Typed, OnlyWorker
    <2>3. \A v \in Workers : TaskOf(v)' # t
      BY <2>1, <2>2 DEF OnlyWorker, TaskOf, Over
    <2> QED
      BY <1>1, <2>1, <2>3 DEF Rests, Over, Live, Waiting, OnlyJob, CancelOf
  <1>3. CASE \A u \in Tasks : ~ClaimJob(w, u)
    <2>1. /\ job'[t] = job[t] /\ pointer'[t] = pointer[t] /\ blob'[t] = blob[t]
          /\ OnlyWorker(w) /\ TaskOf(w)' # t
      BY <1>0, <1>3, WorkerElsewhere
    <2>2. \A v \in Workers : TaskOf(v)' # t
      BY <2>1 DEF OnlyWorker, TaskOf, Over
    <2> QED
      BY <1>1, <2>1, <2>2 DEF Rests, Over, Live, Waiting, CancelOf
  <1> QED
    BY <1>2, <1>3

LEMMA OverCancel ==
    ASSUME Typed, NEW t \in Tasks, Over(t), Landed(t)', NEW c \in Cancels, CancelTask(c)
    PROVE  Rests(t)
  <1>0. QueueTypeOK /\ StoreTypeOK
    BY DEF Typed
  <1>1. worker' = worker /\ pointer' = pointer
    BY DEF CancelTask, CancelStep, CancelPeek, CancelForget, CancelPut, CancelRecord,
           CancelRemove, CancelSignal, CancelLog, CancelCheck, CancelFails, Cancel,
           queueVars
  <1>2. job'[t] = job[t]
    BY <1>0
    DEF CancelTask, CancelStep, CancelPeek, CancelForget, CancelPut, CancelRecord,
        CancelRemove, CancelSignal, CancelLog, CancelCheck, CancelFails, Cancel, Over,
        Live, Waiting, QueueTypeOK, queueVars
  <1>3. blob'[t] = blob[t]
    <2>1. CASE CancelPut(c)
      <3>1. CancelOf(c) # t
        BY <2>1 DEF CancelPut, CancelAt, Over
      <3> QED
        BY <1>0, <2>1, <3>1 DEF CancelPut, TryPut, Put, StoreTypeOK
    <2>2. CASE ~CancelPut(c)
      BY <2>2
      DEF CancelTask, CancelStep, CancelPeek, CancelForget, CancelRecord, CancelRemove,
          CancelSignal, CancelLog, CancelCheck, CancelFails
    <2> QED
      BY <2>1, <2>2
  <1>4. OnlyCancel(c) /\ (cancel'[c].task = t =>
                            cancel'[c].pc \in {"idle", "signal", "log", "check"})
    <2>1. ASSUME NEW u \in Tasks, CancelPeek(c, u)
          PROVE  OnlyCancel(c) /\ (cancel'[c].task = t => cancel'[c].pc \in {"signal", "check"})
      BY <2>1 DEF CancelPeek, Typed, OnlyCancel, Over, Live
    <2>2. ASSUME NEW pc \in {"put", "record", "remove", "check", "log"}, CancelGoto(c, pc),
                 pc \in {"put", "record", "remove"} =>
                   cancel[c].pc \in {"forget", "put", "record"}
          PROVE  OnlyCancel(c) /\ (cancel'[c].task = t => cancel'[c].pc \in {"log", "check"})
      <3>1. OnlyCancel(c) /\ cancel'[c].pc = pc /\ cancel'[c].task = cancel[c].task
        BY <2>2, CancelFacts
      <3> QED
        BY <2>2, <3>1 DEF Over, CancelOf
    <2>3. ASSUME CancelDone(c)
          PROVE  OnlyCancel(c) /\ cancel'[c].pc = "idle"
      BY <2>3 DEF CancelDone, Typed, OnlyCancel, IdleCancel
    <2> QED
      BY <2>1, <2>2, <2>3
      DEF CancelTask, CancelStep, CancelForget, CancelPut, CancelRecord, CancelRemove,
          CancelSignal, CancelLog, CancelCheck, CancelFails, CancelAt
  <1> QED
    BY <1>1, <1>2, <1>3, <1>4 DEF Rests, Over, Live, Waiting, TaskOf, CancelOf, OnlyCancel

LEMMA OverStays ==
    ASSUME Typed, [Next]_vars, NEW t \in Tasks, Over(t)  PROVE Rests(t)
  <1>0. QueueTypeOK /\ Landed(t)'
    BY LandedStays DEF Typed, Over
  <1>1. ASSUME NEW u \in Tasks, EnqueueTask(u)  PROVE Rests(t)
    <2>1. UNCHANGED <<worker, cancel, blob, pointer>>
      BY <1>1
      DEF EnqueueTask, EnqueueMark, EnqueueJob, EnqueueFails, EnqueueUnmark,
          EnqueueRecord, Enqueue, queueVars
    <2>2. CASE u = t
      BY <1>0, <1>1, <2>1, <2>2, OverSame
      DEF EnqueueTask, EnqueueMark, EnqueueJob, EnqueueFails, EnqueueUnmark,
          EnqueueRecord, SubmitGoto, Over, Landed, queueVars
    <2>3. CASE u # t
      <3>1. job'[t] = job[t]
        BY <1>0, <1>1, <2>3
        DEF EnqueueTask, EnqueueMark, EnqueueJob, EnqueueFails, EnqueueUnmark,
            EnqueueRecord, Enqueue, QueueTypeOK, queueVars
      <3> QED
        BY <1>0, <2>1, <3>1, OverSame
    <2> QED
      BY <2>2, <2>3
  <1>2. ASSUME NEW u \in Tasks,
               QueueExpireLease(u) \/ QueueEndBackoff(u) \/ QueueDropRecord(u)
        PROVE  Rests(t)
    <2>1. ExpireLease(u) \/ EndBackoff(u) \/ DropRecord(u)
      BY <1>2 DEF QueueExpireLease, QueueEndBackoff, QueueDropRecord
    <2>2. OnlyJob(u) /\ UNCHANGED <<pointer, blob, worker, cancel>>
      BY <1>0, <1>2, <2>1, TimerFacts
      DEF QueueExpireLease, QueueEndBackoff, QueueDropRecord
    <2>3. CASE u # t
      BY <1>0, <2>2, <2>3, OverSame DEF OnlyJob
    <2>4. CASE u = t
      <3>1. DropRecord(t)
        BY <2>1, <2>4 DEF ExpireLease, EndBackoff, Over, Live, Waiting
      <3>2. ~Live(t)'
        BY <1>0, <3>1 DEF DropRecord, NoJob, Live, Waiting, QueueTypeOK
      <3> QED
        BY <1>0, <2>2, <3>2 DEF Rests, Over, TaskOf, CancelOf
    <2> QED
      BY <2>3, <2>4
  <1>3. CASE Restart
    <2>1. /\ job'[t].status = job[t].status
          /\ UNCHANGED <<blob, pointer>>
      BY <1>0, <1>3 DEF Restart, QueueTypeOK, Job
    <2>2. \A w \in Workers : TaskOf(w)' # t
      BY <1>3, NoTaskAssumption DEF Restart, IdleWorker, TaskOf
    <2>3. \A c \in Cancels : cancel'[c].pc = "idle"
      BY <1>3 DEF Restart, IdleCancel
    <2> QED
      BY <1>0, <2>1, <2>2, <2>3 DEF Rests, Over, Live, Waiting
  <1>4. CASE UNCHANGED vars
    BY <1>0, <1>4, OverSame DEF vars, queueVars
  <1> QED
    BY <1>0, <1>1, <1>2, <1>3, <1>4, OverWorker, OverCancel DEF Next, Running, Environment

(***************************************************************************)
(* Steps of the reaper, and steps of the others beside it                  *)
(***************************************************************************)
\* A step of the rest of the backend, which a sweep under way survives unless
\* the process restarts.
Beside ==
    \/ Running /\ Unread
    \/ RetentionRestart
    \/ UNCHANGED retentionVars

\* A step of the reaper or of the clock.
Reaps == Sweep \/ \E t \in Tasks : ExpireBlob(t)

LEMMA RetentionCases == ASSUME [RetentionNext]_retentionVars  PROVE Beside \/ Reaps
  BY DEF RetentionNext, RetentionRunning, Beside, Reaps

LEMMA BesideNext == ASSUME Beside  PROVE [Next]_vars
  BY DEF Beside, RetentionRestart, Next, retentionVars

LEMMA BesideSweep ==
    ASSUME Beside, sweep \in SweepState
    PROVE  /\ sweep'.early = sweep.early /\ sweep'.left = sweep.left
           /\ \/ /\ sweep' = [sweep EXCEPT !.todo = sweep'.todo]
                 /\ sweep'.todo = {t \in sweep.todo : blob'[t] = blob[t]}
              \/ RetentionRestart
  <1>1. CASE Unread
    BY <1>1 DEF Unread, SweepState
  <1>2. CASE RetentionRestart
    BY <1>2 DEF RetentionRestart, SweepTo, Asleep
  <1>3. CASE UNCHANGED retentionVars
    BY <1>3 DEF retentionVars, vars, SweepState
  <1> QED
    BY <1>1, <1>2, <1>3 DEF Beside

(***************************************************************************)
(* What TaskBackend guarantees, next to the sweep                          *)
(***************************************************************************)
\* The tasks whose result has not expired but when nobody would write it again.
Timely == Tasks \ sweep.early

Core ==
    /\ Typed /\ HolderInv /\ BudgetInv /\ AskedInv
    /\ ClaimInv /\ PhantomInv /\ MapInv /\ BlobCore(Timely)

LEMMA CoreInit == RetentionInit => Core
  <1> SUFFICES ASSUME RetentionInit  PROVE Core
    OBVIOUS
  <1>1. Init /\ Timely = Tasks
    BY DEF RetentionInit, Asleep, Timely
  <1> QED
    BY <1>1, TypedInit, HolderInit, BudgetInit, AskedInit, ClaimInit, PhantomInit,
       MapInit, BlobInit DEF Core, BlobInv

LEMMA CoreStep ==
    ASSUME Core, Beside, sweep \in SweepState
    PROVE  Core' /\ Upholds(Timely) /\ Timely' = Timely
  <1>0. PICK T \in SUBSET Tasks : T = Timely /\ T = Timely'
    BY BesideSweep DEF Timely
  <1>1. /\ Typed /\ Typed' /\ HolderInv /\ BudgetInv /\ AskedInv /\ ClaimInv
        /\ [Next]_vars /\ BlobCore(T)
    BY <1>0, TypedStep, BesideNext DEF Core
  <1>2. HolderInv' /\ BudgetInv' /\ AskedInv' /\ ClaimInv' /\ PhantomInv' /\ MapInv'
    BY <1>1, HolderStep, BudgetStep, AskedStep, ClaimStep, PhantomStep, MapStep DEF Core
  <1>3. Upholds(T)
    BY <1>1, BlobUpheld
  <1>4. BlobCore(T)'
    BY <1>1, <1>3, CoreUpheld
  <1>5. BlobCore(Timely)'
    BY <1>0, <1>4 DEF BlobCore
  <1> QED
    BY <1>0, <1>1, <1>2, <1>3, <1>5 DEF Core

\* Swept: the result of t is gone for good.
Swept(t) == ~HasBlob(t) /\ Over(t)

\* A step that only takes from the stores, and no blob anybody still needs.
Loses ==
    /\ UNCHANGED <<job, fired, inFlight, submit, worker, cancel, undecodable, histVars>>
    /\ pointer' \in [Tasks -> PointerStatus] /\ StoreTypeOK' /\ AuditTypeOK'
    /\ sweep.early \subseteq sweep'.early
    /\ \A t \in Tasks : /\ pointer'[t] \in {pointer[t], "none"}
                        /\ blob'[t].status \in {blob[t].status, "none"}
                        /\ audit'[t] \subseteq audit[t]
    /\ \A t \in Timely' : blob'[t].status = blob[t].status \/ Swept(t)'

LEMMA LosesCore == ASSUME Core, Loses  PROVE Core'
  <1> USE DEF Loses, histVars
  <1>1. Typed'
    BY DEF Core, Typed, QueueTypeOK
  <1>2. HolderInv'
    BY DEF Core, HolderInv, Holds, TaskOf
  <1>3. /\ \A t \in Tasks : blob'[t].status = blob[t].status \/ blob'[t].status = "none"
        /\ Timely' \subseteq Timely
    BY DEF Timely
  <1>4. BudgetInv'
    <2>1. \A t \in Tasks : JobBudget(t)'
      BY DEF Core, BudgetInv, JobBudget, Waiting, Spent
    <2>2. \A t \in Tasks : BlobBudget(t)'
      BY <1>3 DEF Core, BudgetInv, BlobBudget, Spent
    <2>3. \A w \in Workers : WorkerBudget(w)'
      BY DEF Core, BudgetInv, WorkerBudget, Spent, TaskOf
    <2> QED
      BY <2>1, <2>2, <2>3 DEF BudgetInv
  <1>5. AskedInv'
    <2>1. CancelledOnlyIfAsked'
      BY <1>3 DEF Core, AskedInv, CancelledOnlyIfAsked
    <2> QED
      BY <2>1
      DEF Core, AskedInv, CancelsAsked, TokensAsked, VerdictsAsked, CancelAt, CancelOf,
          TaskOf
  <1>6. ClaimInv'
    <2>1. \A t \in Tasks : PointerFinal(t)'
      BY DEF Core, ClaimInv, PointerFinal, Live, Waiting, Landed
    <2>2. ASSUME NEW w \in Workers, worker[w].pc \in Busy
          PROVE  ClaimSound(w)' /\ VerdictSound(w)'
      <3>1. PICK t \in Tasks : t = TaskOf(w)
        BY <2>2, WorkerFields DEF Core, TaskOf
      <3>2. ClaimSound(w) /\ VerdictSound(w) /\ TaskOf(w)' = t
        BY <2>2, <3>1 DEF Core, ClaimInv, WorkerClaim, TaskOf
      <3>3. pointer'[t] # "none" => pointer[t] # "none"
        OBVIOUS
      <3>4. ClaimSound(w)'
        BY <3>1, <3>2, <3>3 DEF ClaimSound, Landed, Live, Waiting, Holds, Without
      <3>5. VerdictSound(w)'
        BY <3>1, <3>2 DEF VerdictSound, Decoded, Decided
      <3> QED
        BY <3>4, <3>5
    <2>3. \A w \in Workers : WorkerClaim(w)'
      BY <2>2 DEF WorkerClaim
    <2>4. \A c \in Cancels : CancelClaim(c)'
      BY DEF Core, ClaimInv, CancelClaim, Landed, CancelOf
    <2> QED
      BY <2>1, <2>3, <2>4 DEF ClaimInv
  <1>7. PhantomInv'
    BY DEF Core, PhantomInv, Excused, Fresh, CancelsKnow, UndecodableOut, Runs, At,
           TaskOf, Waiting, CancelOf
  <1>8. MapInv'
    BY DEF Core, MapInv
  <1>9. BlobCore(Timely)'
    <2>1. \A t \in Tasks : HasBlob(t)' => Landed(t)'
      BY <1>3 DEF Core, BlobCore, HasBlob, Landed
    <2>2. ASSUME NEW w \in Workers, Written(w), TaskOf(w) \in Timely'
          PROVE  WorkerBlob(w)'
      <3>1. PICK t \in Timely' : t = TaskOf(w)
        BY <2>2
      <3>2. blob'[t].status = blob[t].status
        BY <3>1 DEF Swept, Over, TaskOf
      <3>3. WorkerBlob(w)
        BY <1>3, <2>2 DEF Core, BlobCore
      <3> QED
        BY <2>2, <3>1, <3>2, <3>3
        DEF WorkerBlob, Written, HasBlob, Holds, Backed, TaskOf, Without
    <2>3. \A w \in Workers : TaskOf(w)' \in Timely' => WorkerBlob(w)'
      BY <2>2 DEF WorkerBlob, Written, TaskOf
    <2>4. ASSUME NEW t \in Timely', job[t].status = "claimed"  PROVE GivenUp(t)'
      <3>1. blob'[t].status = blob[t].status
        BY <2>4 DEF Swept, Over, Live
      <3>2. GivenUp(t)
        BY <1>3 DEF Core, BlobCore
      <3> QED
        BY <3>1, <3>2 DEF GivenUp, HasBlob, Without
    <2>5. \A t \in Timely' : GivenUp(t)'
      BY <2>4 DEF GivenUp
    <2> QED
      BY <2>1, <2>3, <2>5 DEF BlobCore
  <1> QED
    BY <1>1, <1>2, <1>4, <1>5, <1>6, <1>7, <1>8, <1>9 DEF Core

(***************************************************************************)
(* What the sweep takes                                                    *)
(***************************************************************************)
\* What has expired is the result of a task that is over, or expired early.
ExpiryInv ==
    \A t \in Tasks : blob[t].expired => HasBlob(t) /\ (Over(t) \/ t \in sweep.early)

\* What the sweep is about to delete has expired, and what it is about to
\* unlink is deleted, unless it expired early; it forgets neither on the way.
SweepInv ==
    /\ sweep \in SweepState
    /\ ~EnableReaper => sweep.pc = "asleep" /\ sweep.early = {}
    /\ sweep.todo # {} => sweep.pc = "list"
    /\ sweep.expired # {} => sweep.pc \in {"list", "delete"}
    /\ sweep.gone # {} => sweep.pc \in {"delete", "unlink"}
    /\ \A t \in sweep.todo : blob[t].expired
    /\ \A t \in sweep.expired : blob[t].expired \/ t \in sweep.early
    /\ \A t \in sweep.gone : Swept(t) \/ t \in sweep.early

\* A pointer has its blob, as in PointerBacked, or is one that the sweep has
\* yet to delete, or could not.
Anchored(t) ==
    t \in Timely /\ pointer[t] # "none" /\ Without({"put"}) =>
        /\ Backed(t, pointer[t]) \/ (Swept(t) /\ EnableReaper)
        /\ Without({"crash"}) => HasBlob(t) \/ t \in sweep.gone \union sweep.left

AnchorInv == \A t \in Tasks : Anchored(t)

(***************************************************************************)
(* A failure is final                                                      *)
(***************************************************************************)
\* Nobody is ever going to write that t completed: whoever works on t writes
\* that it failed, and no attempt follows but to find that out again.
Doomed(t) ==
    /\ Landed(t) /\ pointer[t] = "none" /\ blob[t].status # "completed"
    /\ \A w \in Workers : TaskOf(w) = t =>
         \/ Decided(w) /\ worker[w].outcome = "failed"
         \/ At(w, "decode") /\ t \in undecodable
    /\ \/ t \in undecodable
       \/ ~Waiting(t) /\ (job[t].status = "claimed" => job[t].attempts + 1 >= MaxAttempts)

DoomInv == Without({"lease", "rollback"}) =>
    \A t \in Tasks : blob[t].status = "failed" => Doomed(t)

(***************************************************************************)
(* What a write leaves, and what the reaper takes                          *)
(***************************************************************************)
\* A write gives a blob a fresh expiry.
LEMMA BlobsFresh ==
    ASSUME Typed, [Next]_vars, NEW t \in Tasks
    PROVE  blob'[t] = blob[t] \/ ~blob'[t].expired
  <1>1. ASSUME NEW status, Writes(t, status)  PROVE ~blob'[t].expired
    BY <1>1 DEF Writes
  <1> QED
    BY <1>1, BlobWriters

\* Neither the reaper nor the clock touches what a task that is over rests on.
LEMMA OverAside ==
    ASSUME NEW t \in Tasks, UNCHANGED <<job, submit, worker, cancel>>
    PROVE  Over(t)' <=> Over(t)
  BY DEF Over, Landed, Live, Waiting, TaskOf, CancelOf

LEMMA ReapFacts ==
    ASSUME Typed, SweepInv, ExpiryInv, Reaps
    PROVE  /\ UNCHANGED <<job, fired, inFlight, submit, worker, cancel, undecodable,
                          histVars>>
           /\ pointer' \in [Tasks -> PointerStatus] /\ StoreTypeOK' /\ AuditTypeOK'
           /\ sweep.early \subseteq sweep'.early
           /\ \A t \in Tasks :
                /\ pointer'[t] = pointer[t] \/ (pointer'[t] = "none" /\ t \in sweep.gone)
                /\ \/ blob'[t] = blob[t]
                   \/ /\ blob'[t].status = blob[t].status /\ HasBlob(t)
                      /\ ~AtWork(t) \/ t \in sweep'.early
                   \/ blob'[t] = NoBlob /\ t \in sweep.expired
                /\ audit'[t] \subseteq audit[t]
  <1> USE DEF Typed, QueueTypeOK
  <1>1. ASSUME NEW u \in Tasks, ExpireBlob(u)
        PROVE  /\ StoreTypeOK' /\ sweep.early \subseteq sweep'.early
               /\ \A t \in Tasks : \/ blob'[t] = blob[t]
                                   \/ /\ blob'[t].status = blob[t].status /\ HasBlob(t)
                                      /\ ~AtWork(t) \/ t \in sweep'.early
    <2>1. sweep'.early = sweep.early \union {v \in {u} : AtWork(v)}
      BY <1>1 DEF ExpireBlob, SweepInv, SweepState
    <2>2. StoreTypeOK' /\ \A t \in Tasks \ {u} : blob'[t] = blob[t]
      BY <1>1 DEF ExpireBlob, StoreTypeOK, Blob
    <2>3. blob'[u].status = blob[u].status /\ HasBlob(u)
      BY <1>1 DEF ExpireBlob, StoreTypeOK, Blob
    <2> QED
      BY <2>1, <2>2, <2>3
  <1>2. ASSUME NEW u \in Tasks, SweepDelete(u)
        PROVE  /\ StoreTypeOK'
               /\ \A t \in Tasks : \/ blob'[t] = blob[t]
                                   \/ blob'[t] = NoBlob /\ t \in sweep.expired
    BY <1>2 DEF SweepDelete, Delete, NoBlob, StoreTypeOK, Blob
  <1>3. ASSUME NEW u \in Tasks, SweepUnlink(u)
        PROVE  /\ pointer' \in [Tasks -> PointerStatus]
               /\ \A t \in Tasks : \/ pointer'[t] = pointer[t]
                                   \/ pointer'[t] = "none" /\ t \in sweep.gone
    BY <1>3 DEF SweepUnlink, PointerStatus
  <1>4. ASSUME SweepAudit
        PROVE  AuditTypeOK' /\ \A t \in Tasks : audit'[t] \subseteq audit[t]
    BY <1>4 DEF SweepAudit, AuditTypeOK
  <1>5. ASSUME NEW u \in Tasks, ExpireBlob(u)
        PROVE  UNCHANGED <<queueVars, audit, inFlight, submit, worker, cancel,
                           undecodable, histVars>>
    BY <1>5 DEF ExpireBlob
  <1>6. ASSUME Sweep
        PROVE  /\ OthersKeep
               /\ pointer' = pointer \/ \E u \in Tasks : SweepUnlink(u)
               /\ blob' = blob \/ \E u \in Tasks : SweepDelete(u)
               /\ audit' = audit \/ SweepAudit
    BY <1>6
    DEF Sweep, SweepWake, SweepListed, SweepListFails, SweepDeleted, SweepUnlinked,
        SweepAudit, SweepGet, SweepDelete, SweepDeleteFails, SweepUnlink,
        SweepUnlinkFails
  <1>9. ASSUME Sweep  PROVE sweep'.early = sweep.early
    <2> USE DEF SweepInv, SweepState, SweepTo, Asleep
    <2>1. CASE \/ SweepWake \/ SweepListed \/ SweepListFails \/ SweepDeleted
               \/ SweepUnlinked \/ SweepAudit
      BY <2>1
      DEF SweepWake, SweepListed, SweepListFails, SweepDeleted, SweepUnlinked, SweepAudit
    <2>2. ASSUME NEW u \in Tasks,
                 \/ SweepGet(u) \/ SweepDelete(u) \/ SweepDeleteFails(u)
                 \/ SweepUnlink(u) \/ SweepUnlinkFails(u)
          PROVE  sweep'.early = sweep.early
      BY <2>2 DEF SweepGet, SweepDelete, SweepDeleteFails, SweepUnlink, SweepUnlinkFails
    <2> QED
      BY <1>9, <2>1, <2>2 DEF Sweep
  <1>7. CASE Sweep
    BY <1>2, <1>3, <1>4, <1>6, <1>7, <1>9 DEF OthersKeep, StoreTypeOK, AuditTypeOK
  <1>8. CASE \E u \in Tasks : ExpireBlob(u)
    BY <1>1, <1>5, <1>8 DEF queueVars, AuditTypeOK
  <1> QED
    BY <1>7, <1>8 DEF Reaps

LEMMA ReapsLose == ASSUME Core, SweepInv, ExpiryInv, Reaps  PROVE Loses
  <1>1. Typed
    BY DEF Core
  <1>2. ASSUME NEW t \in Timely', t \in sweep.expired, blob'[t] = NoBlob
        PROVE  Swept(t)'
    <2>1. (Over(t)' <=> Over(t)) /\ t \notin sweep.early /\ t \in Tasks
      BY <1>1, ReapFacts, OverAside DEF Timely
    <2>2. Over(t)
      BY <1>2, <2>1 DEF SweepInv, ExpiryInv
    <2> QED
      BY <1>2, <2>1, <2>2 DEF Swept, HasBlob, NoBlob
  <1>3. \A t \in Timely' : blob'[t].status = blob[t].status \/ Swept(t)'
    <2> TAKE t \in Timely'
    <2>1. t \in Tasks
      BY DEF Timely
    <2> QED
      BY <1>1, <1>2, <2>1, ReapFacts
  <1>4. \A t \in Tasks : /\ pointer'[t] \in {pointer[t], "none"}
                        /\ blob'[t].status \in {blob[t].status, "none"}
                        /\ audit'[t] \subseteq audit[t]
    BY <1>1, ReapFacts DEF NoBlob
  <1> QED
    BY <1>1, <1>3, <1>4, ReapFacts DEF Loses

LEMMA CoreKept ==
    ASSUME Core, SweepInv, ExpiryInv, [RetentionNext]_retentionVars
    PROVE  Core'
  BY RetentionCases, CoreStep, ReapsLose, LosesCore DEF SweepInv

(***************************************************************************)
(* The invariants of the sweep                                             *)
(***************************************************************************)
LEMMA SweepInit == RetentionInit => ExpiryInv /\ SweepInv /\ AnchorInv /\ DoomInv
  BY DEF RetentionInit, Init, QueueInit, StoreInit, NoBlob, Asleep, SweepState,
         ExpiryInv, SweepInv, AnchorInv, Anchored, DoomInv

\* Whose blob nobody can write again is over, if it has one.
LEMMA AtWorkOver ==
    ASSUME Core, NEW t \in Tasks, HasBlob(t), ~AtWork(t)
    PROVE  Over(t)
  <1>1. Landed(t) /\ \A c \in Cancels : cancel[c].pc \in CancelPC
    BY DEF Core, BlobCore, Typed, GoodCancel, CancelState
  <1> QED
    BY <1>1 DEF AtWork, Over, CancelPC

LEMMA ExpiryStep ==
    ASSUME Core, SweepInv, ExpiryInv, [RetentionNext]_retentionVars
    PROVE  ExpiryInv'
  <1>0. Typed /\ sweep \in SweepState
    BY DEF Core, SweepInv
  <1> SUFFICES ASSUME NEW t \in Tasks, blob'[t].expired
               PROVE  HasBlob(t)' /\ (Over(t)' \/ t \in sweep'.early)
    BY DEF ExpiryInv
  <1>1. CASE Beside
    <2>1. blob'[t] = blob[t]
      BY <1>0, <1>1, BlobsFresh, BesideNext
    <2>2. HasBlob(t) /\ (Over(t) \/ t \in sweep.early)
      BY <2>1 DEF ExpiryInv
    <2>3. Over(t) => Over(t)'
      BY <1>0, <1>1, OverStays, BesideNext DEF Rests
    <2> QED
      BY <1>0, <1>1, <2>1, <2>2, <2>3, BesideSweep DEF HasBlob
  <1>2. CASE Reaps
    <2>1. (Over(t)' <=> Over(t)) /\ sweep.early \subseteq sweep'.early
      BY <1>0, <1>2, ReapFacts, OverAside
    <2>2. CASE blob'[t] = blob[t]
      BY <2>1, <2>2 DEF ExpiryInv, HasBlob
    <2>3. CASE /\ blob'[t].status = blob[t].status /\ HasBlob(t)
               /\ ~AtWork(t) \/ t \in sweep'.early
      BY <2>1, <2>3, AtWorkOver DEF HasBlob
    <2>4. blob'[t] # NoBlob
      BY DEF NoBlob
    <2> QED
      BY <1>0, <1>2, <2>2, <2>3, <2>4, ReapFacts
  <1> QED
    BY <1>1, <1>2, RetentionCases

LEMMA SweptStays ==
    ASSUME Core, SweepInv, ExpiryInv, [RetentionNext]_retentionVars, NEW t \in Tasks,
           Swept(t)
    PROVE  Swept(t)'
  <1>0. Typed
    BY DEF Core
  <1>1. CASE Beside
    BY <1>0, <1>1, OverStays, BesideNext DEF Swept, Rests, HasBlob
  <1>2. CASE Reaps
    BY <1>0, <1>2, ReapFacts, OverAside DEF Swept, HasBlob, NoBlob
  <1> QED
    BY <1>1, <1>2, RetentionCases

\* What a sweep under way works on is over, unless it expired early; and then it
\* does not move under the sweep.
LEMMA SweepBeside ==
    ASSUME Core, SweepInv, ExpiryInv, Beside
    PROVE  /\ SweepInv'
           /\ \A t \in sweep.gone \union sweep.left :
                t \in (sweep.gone \union sweep.left)' \/ ~Without({"crash"})
  <1>0. Typed /\ [Next]_vars /\ sweep \in SweepState
    BY BesideNext DEF Core, SweepInv
  <1>1. ASSUME NEW t \in sweep.expired
        PROVE  blob'[t].expired \/ t \in sweep.early
    <2>1. t \in Tasks
      BY <1>0 DEF SweepState
    <2>2. CASE blob[t].expired /\ t \notin sweep.early
      <3>1. Rests(t)
        BY <1>0, <2>1, <2>2, OverStays DEF ExpiryInv
      <3> QED
        BY <2>2, <3>1 DEF Rests
    <2> QED
      BY <2>2 DEF SweepInv
  <1>2. ASSUME NEW t \in Tasks, Swept(t)  PROVE Swept(t)'
    BY <1>0, <1>2, OverStays DEF Swept, Rests, HasBlob
  <1>3. CASE /\ sweep' = [sweep EXCEPT !.todo = sweep'.todo]
             /\ sweep'.todo = {t \in sweep.todo : blob'[t] = blob[t]}
    <2>1. sweep'.todo \subseteq sweep.todo /\ \A t \in sweep'.todo : blob'[t] = blob[t]
      BY <1>3
    <2>2. /\ sweep'.pc = sweep.pc /\ sweep'.expired = sweep.expired
          /\ sweep'.gone = sweep.gone /\ sweep'.early = sweep.early
          /\ sweep'.left = sweep.left
      BY <1>0, <1>3 DEF SweepState
    <2>3. sweep' \in SweepState
      BY <1>0, <1>3, <2>1 DEF SweepState
    <2>4. \A t \in sweep.gone : Swept(t)' \/ t \in sweep.early
      BY <1>0, <1>2 DEF SweepInv, SweepState
    <2>5. \A t \in sweep'.todo : blob'[t].expired
      BY <2>1 DEF SweepInv
    <2> QED
      BY <1>1, <2>1, <2>2, <2>3, <2>4, <2>5 DEF SweepInv
  <1>4. CASE RetentionRestart
    <2>1. ~Without({"crash"})
      BY <1>4 DEF RetentionRestart, Restart, Without
    <2>2. SweepInv'
      BY <1>4 DEF RetentionRestart, SweepTo, Asleep, SweepInv, SweepState
    <2> QED
      BY <2>1, <2>2
  <1> QED
    BY <1>0, <1>3, <1>4, BesideSweep

LEMMA SweepReaps ==
    ASSUME Core, SweepInv, ExpiryInv, Reaps
    PROVE  SweepInv'
  <1>0. Typed /\ sweep \in SweepState /\ sweep.early \subseteq sweep'.early
    BY ReapFacts DEF Core, SweepInv
  <1>1. \A t \in Tasks : Over(t)' <=> Over(t)
    BY <1>0, ReapFacts, OverAside
  <1>2. ASSUME NEW t \in Tasks, Swept(t)  PROVE Swept(t)'
    BY <1>0, <1>1, <1>2, ReapFacts DEF Swept, HasBlob, NoBlob
  <1>3. ASSUME NEW u \in Tasks, ExpireBlob(u)  PROVE SweepInv'
    <2>1. \A t \in Tasks : blob[t].expired => blob'[t].expired
      BY <1>0, <1>3 DEF ExpireBlob, Typed, StoreTypeOK, Blob
    <2>2. /\ sweep' = [sweep EXCEPT !.early = sweep'.early]
          /\ sweep'.early \subseteq Tasks /\ EnableReaper
      BY <1>0, <1>3 DEF ExpireBlob, SweepState
    <2>3. /\ sweep'.pc = sweep.pc /\ sweep'.expired = sweep.expired
          /\ sweep'.gone = sweep.gone /\ sweep'.todo = sweep.todo
          /\ sweep' \in SweepState
      BY <1>0, <2>2 DEF SweepState
    <2> QED
      BY <1>0, <1>2, <2>1, <2>2, <2>3 DEF SweepInv, SweepState
  <1>4. ASSUME NEW u \in Tasks, SweepDelete(u)  PROVE SweepInv'
    <2>1. /\ sweep.pc = "delete" /\ u \in sweep.expired
          /\ sweep' = [sweep EXCEPT !.expired = @ \ {u}, !.gone = @ \union {u}]
          /\ \A t \in Tasks \ {u} : blob'[t] = blob[t]
          /\ blob'[u] = NoBlob
      BY <1>0, <1>4 DEF SweepDelete, Delete, Typed, StoreTypeOK
    <2>2. Swept(u)' \/ u \in sweep.early
      BY <1>1, <2>1 DEF SweepInv, ExpiryInv, Swept, HasBlob, NoBlob
    <2>3. /\ sweep' \in SweepState /\ sweep'.pc = sweep.pc /\ sweep'.todo = sweep.todo
          /\ sweep'.expired = sweep.expired \ {u} /\ sweep'.early = sweep.early
          /\ sweep'.gone = sweep.gone \union {u}
      BY <1>0, <2>1 DEF SweepState
    <2>4. sweep'.todo = {}
      BY <2>1, <2>3 DEF SweepInv
    <2>5. \A t \in sweep'.expired : blob'[t].expired \/ t \in sweep.early
      BY <1>0, <2>1, <2>3 DEF SweepInv, SweepState
    <2>6. \A t \in sweep'.gone : Swept(t)' \/ t \in sweep.early
      BY <1>0, <1>2, <2>2, <2>3 DEF SweepInv, SweepState
    <2> QED
      BY <2>1, <2>3, <2>4, <2>5, <2>6 DEF SweepInv
  <1>5. ASSUME Sweep, \A u \in Tasks : ~SweepDelete(u)  PROVE SweepInv'
    <2>1. blob' = blob
      BY <1>5
      DEF Sweep, SweepWake, SweepListed, SweepListFails, SweepDeleted, SweepUnlinked,
          SweepAudit, SweepGet, SweepDeleteFails, SweepUnlink, SweepUnlinkFails
    <2> USE <1>2, <2>1 DEF SweepInv, SweepState, SweepTo, Asleep
    <2>2. CASE SweepWake
      BY <2>2 DEF SweepWake
    <2>3. CASE SweepListed \/ SweepListFails \/ SweepDeleted \/ SweepUnlinked \/ SweepAudit
      BY <2>3 DEF SweepListed, SweepListFails, SweepDeleted, SweepUnlinked, SweepAudit
    <2>4. ASSUME NEW u \in Tasks, SweepGet(u)  PROVE SweepInv'
      <3>1. /\ sweep.pc = "list" /\ u \in sweep.todo
            /\ sweep' = [sweep EXCEPT !.todo = @ \ {u}, !.expired = @ \union {u}]
        BY <2>4 DEF SweepGet
      <3> QED
        BY <3>1
    <2>5. ASSUME NEW u \in Tasks, SweepDeleteFails(u)  PROVE SweepInv'
      <3>1. /\ sweep.pc = "delete"
            /\ sweep' = [sweep EXCEPT !.expired = @ \ {u}]
        BY <2>5 DEF SweepDeleteFails
      <3> QED
        BY <3>1
    <2>6. ASSUME NEW u \in Tasks, SweepUnlink(u) \/ SweepUnlinkFails(u)  PROVE SweepInv'
      <3>1. PICK left \in SUBSET Tasks :
              /\ sweep.pc = "unlink"
              /\ sweep' = [sweep EXCEPT !.gone = @ \ {u}, !.left = left]
        BY <2>6 DEF SweepUnlink, SweepUnlinkFails
      <3> QED
        BY <3>1
    <2> HIDE <1>2, <2>1 DEF SweepInv, SweepState, SweepTo, Asleep
    <2>7. ASSUME NEW u \in Tasks,
                 \/ SweepGet(u) \/ SweepDeleteFails(u)
                 \/ SweepUnlink(u) \/ SweepUnlinkFails(u)
          PROVE  SweepInv'
      BY <2>4, <2>5, <2>6, <2>7
    <2> QED
      BY <1>5, <2>2, <2>3, <2>7 DEF Sweep
  <1> QED
    BY <1>3, <1>4, <1>5 DEF Reaps

LEMMA SweepStep ==
    ASSUME Core, SweepInv, ExpiryInv, [RetentionNext]_retentionVars
    PROVE  SweepInv'
  BY RetentionCases, SweepBeside, SweepReaps

\* The sweep drops the pointer of what it deletes, or remembers that it failed.
LEMMA SweepOwes ==
    ASSUME Typed, SweepInv, Reaps, NEW t \in Tasks
    PROVE  /\ t \in sweep.gone \union sweep.left =>
                t \in (sweep.gone \union sweep.left)' \/ pointer'[t] = "none"
           /\ blob'[t].status = blob[t].status \/ t \in sweep'.gone
  <1>1. ASSUME NEW u \in Tasks, ExpireBlob(u)
        PROVE  /\ sweep'.left = sweep.left /\ sweep'.gone = sweep.gone
               /\ blob'[t].status = blob[t].status
    BY <1>1 DEF ExpireBlob, Typed, StoreTypeOK, Blob, SweepInv, SweepState
  <1>2. ASSUME NEW u \in Tasks, SweepDelete(u)
        PROVE  /\ sweep'.left = sweep.left /\ sweep'.gone = sweep.gone \union {u}
               /\ t # u => blob'[t] = blob[t]
    BY <1>2 DEF SweepDelete, Delete, SweepInv, SweepState
  <1>3. ASSUME NEW u \in Tasks, SweepUnlink(u)
        PROVE  /\ sweep'.left = sweep.left /\ sweep'.gone = sweep.gone \ {u}
               /\ pointer'[u] = "none" /\ blob' = blob
    BY <1>3 DEF SweepUnlink, SweepInv, SweepState, Typed, QueueTypeOK
  <1>4. ASSUME Sweep, \A u \in Tasks : ~SweepDelete(u) /\ ~SweepUnlink(u)
        PROVE  /\ sweep.gone \union sweep.left \subseteq sweep'.gone \union sweep'.left
               /\ blob' = blob
    <2> USE DEF SweepTo, Asleep, SweepInv, SweepState
    <2>1. CASE SweepWake \/ SweepListed \/ SweepListFails
      BY <2>1 DEF SweepWake, SweepListed, SweepListFails
    <2>2. CASE SweepDeleted \/ SweepUnlinked \/ SweepAudit
      BY <2>2 DEF SweepDeleted, SweepUnlinked, SweepAudit
    <2>3. ASSUME NEW u \in Tasks,
                 SweepGet(u) \/ SweepDeleteFails(u) \/ SweepUnlinkFails(u)
          PROVE  /\ sweep.gone \union sweep.left \subseteq sweep'.gone \union sweep'.left
                 /\ blob' = blob
      BY <2>3 DEF SweepGet, SweepDeleteFails, SweepUnlinkFails
    <2> HIDE DEF SweepTo, Asleep, SweepInv, SweepState
    <2> QED
      BY <1>4, <2>1, <2>2, <2>3 DEF Sweep
  <1> QED
    BY <1>1, <1>2, <1>3, <1>4 DEF Reaps

\* Without the reaper nothing expires.
LEMMA NoReaper == ASSUME SweepInv, Reaps  PROVE EnableReaper
  BY DEF Reaps, ExpireBlob, Sweep, SweepWake, SweepListed, SweepListFails, SweepDeleted,
         SweepUnlinked, SweepAudit, SweepGet, SweepDelete, SweepDeleteFails, SweepUnlink,
         SweepUnlinkFails, SweepInv

LEMMA AnchorBeside ==
    ASSUME Core, SweepInv, ExpiryInv, Beside, NEW t \in Tasks, Anchored(t)
    PROVE  Anchored(t)'
  <1>0. /\ Typed /\ Upholds(Timely) /\ [Next]_vars /\ sweep \in SweepState
        /\ Timely' = Timely
    BY CoreStep, BesideNext DEF Core, SweepInv
  <1> SUFFICES ASSUME NEW status, status = pointer'[t], status # "none",
                      t \in Timely', Without({"put"})
               PROVE  /\ Backed(t, status)' \/ (Swept(t)' /\ EnableReaper)
                      /\ Without({"crash"}) =>
                           HasBlob(t)' \/ t \in (sweep.gone \union sweep.left)'
    BY DEF Anchored, Backed, Without
  <1>1. CASE pointer'[t] = pointer[t]
    <2>1. /\ Backed(t, status) \/ (Swept(t) /\ EnableReaper)
          /\ Without({"crash"}) => HasBlob(t) \/ t \in sweep.gone \union sweep.left
          /\ status \in Acked /\ Matters(t) /\ Keeps(t)
      BY <1>0, <1>1 DEF Anchored, Matters, Acked, Upholds, Typed, QueueTypeOK, PointerStatus
    <2>2. Backed(t, status) => Backed(t, status)'
      BY <2>1 DEF Keeps
    <2>3. Swept(t) => Swept(t)'
      BY <1>0, OverStays DEF Swept, Rests, HasBlob
    <2>4. HasBlob(t) => HasBlob(t)'
      BY <2>1 DEF Keeps
    <2> QED
      BY <2>1, <2>2, <2>3, <2>4, SweepBeside
  <1>2. CASE pointer'[t] # pointer[t]
    <2>1. status \in Acked /\ Backed(t, status)'
      BY <1>0, <1>2 DEF Upholds, Without, Backed
    <2>2. HasBlob(t)'
      BY <2>1 DEF Backed, HasBlob, Acked
    <2> QED
      BY <2>1, <2>2
  <1> QED
    BY <1>1, <1>2

LEMMA AnchorReaps ==
    ASSUME Core, SweepInv, ExpiryInv, Reaps, NEW t \in Tasks, Anchored(t)
    PROVE  Anchored(t)'
  <1>0. Typed /\ Loses
    BY ReapsLose DEF Core
  <1> SUFFICES ASSUME NEW status, status = pointer'[t], status # "none",
                      t \in Timely', Without({"put"})
               PROVE  /\ Backed(t, status)' \/ (Swept(t)' /\ EnableReaper)
                      /\ Without({"crash"}) =>
                           HasBlob(t)' \/ t \in (sweep.gone \union sweep.left)'
    BY DEF Anchored, Backed, Without
  <1>1. /\ Backed(t, status) \/ (Swept(t) /\ EnableReaper)
        /\ Without({"crash"}) => HasBlob(t) \/ t \in sweep.gone \union sweep.left
        /\ asked' = asked
    BY <1>0 DEF Anchored, Loses, Timely, histVars
  <1>2. Backed(t, status)' \/ (Swept(t)' /\ EnableReaper)
    <2>1. CASE blob'[t].status = blob[t].status
      <3>1. Backed(t, status) => Backed(t, status)'
        BY <1>1, <2>1 DEF Backed, Without
      <3>2. Swept(t) => Swept(t)'
        BY <1>0, <2>1, ReapFacts, OverAside DEF Swept, HasBlob
      <3> QED
        BY <1>1, <3>1, <3>2
    <2>2. EnableReaper
      BY NoReaper
    <2> QED
      BY <1>0, <2>1, <2>2 DEF Loses
  <1>3. Without({"crash"}) => HasBlob(t)' \/ t \in (sweep.gone \union sweep.left)'
    BY <1>0, <1>1, SweepOwes DEF HasBlob
  <1> QED
    BY <1>2, <1>3

LEMMA AnchorStep ==
    ASSUME Core, SweepInv, ExpiryInv, AnchorInv, [RetentionNext]_retentionVars
    PROVE  AnchorInv'
  BY RetentionCases, AnchorBeside, AnchorReaps DEF AnchorInv

(***************************************************************************)
(* What is written once                                                    *)
(***************************************************************************)
\* t has been claimed at most once, and nobody asked to cancel it.
Once(t) == claims[t] <= 1 /\ t \notin asked

Taken == sweep.todo \union sweep.expired \union sweep.gone

\* A task that is claimed once has one worker, which writes one blob; what a
\* sweep has taken of such a task is not written again.
OneWorker(t) == claims[t] <= 1 =>
    \A v, w \in Workers : TaskOf(v) = t /\ TaskOf(w) = t => v = w

OneWrite(t) == Once(t) =>
    /\ HasBlob(t) \/ t \in Taken =>
         claims[t] = 1 /\ \A w \in Workers : TaskOf(w) = t => Written(w)
    /\ t \in sweep.expired => blob[t].expired
    /\ t \in sweep.gone => ~HasBlob(t)

OnceInv == \A t \in Tasks : OneWorker(t) /\ OneWrite(t)

LEMMA OnceInit == RetentionInit => OnceInv
  <1> SUFFICES ASSUME RetentionInit, NEW t \in Tasks
               PROVE  OneWorker(t) /\ OneWrite(t)
    BY DEF OnceInv
  <1>1. \A w \in Workers : TaskOf(w) # t
    BY NoTaskAssumption DEF RetentionInit, Init, IdleWorker, TaskOf
  <1>2. ~HasBlob(t)
    BY DEF RetentionInit, Init, StoreInit, NoBlob, HasBlob
  <1>3. t \notin Taken /\ t \notin sweep.expired /\ t \notin sweep.gone
    BY DEF RetentionInit, Asleep, Taken
  <1> QED
    BY <1>1, <1>2, <1>3 DEF OneWorker, OneWrite

\* How the workers of t come and go, as long as it is claimed at most once.
SameWorkers(t) ==
    /\ claims'[t] = claims[t]
    /\ \A w \in Workers : TaskOf(w)' = t =>
         TaskOf(w) = t /\ (Written(w) => Written(w)')

FirstWorker(t) ==
    /\ claims[t] = 0 /\ claims'[t] = 1 /\ blob' = blob
    /\ \E w \in Workers : \A v \in Workers : TaskOf(v)' = t => v = w

LEMMA WorkersCome ==
    ASSUME Core, [Next]_vars, NEW t \in Tasks, claims'[t] <= 1
    PROVE  SameWorkers(t) \/ FirstWorker(t)
  <1>0. Typed /\ BudgetInv /\ QueueTypeOK
    BY DEF Core, Typed
  <1>1. CASE UNCHANGED <<worker, claims>>
    BY <1>1 DEF SameWorkers, TaskOf, Written
  <1>2. CASE Restart
    <2>1. claims' = claims /\ \A w \in Workers : TaskOf(w)' # t
      BY <1>2, NoTaskAssumption DEF Restart, IdleWorker, TaskOf, histVars
    <2> QED
      BY <2>1 DEF SameWorkers
  <1>3. ASSUME NEW w \in Workers, NEW u \in Tasks, ClaimJob(w, u)
        PROVE  SameWorkers(t) \/ FirstWorker(t)
    <2>1. /\ OnlyWorker(w) /\ worker'[w].task = u /\ blob' = blob
          /\ claims' = [claims EXCEPT ![u] = @ + 1]
      BY <1>0, <1>3 DEF ClaimJob, Typed, OnlyWorker
    <2>2. CASE u # t
      BY <1>0, <2>1, <2>2 DEF SameWorkers, OnlyWorker, TaskOf, Written, Typed
    <2>3. CASE u = t
      <3>1. claims[t] = 0 /\ claims'[t] = 1
        BY <1>0, <2>1, <2>3 DEF Typed
      <3>2. ASSUME NEW v \in Workers, TaskOf(v) = t  PROVE FALSE
        <4>1. worker[v].pc \in Busy /\ worker[v].attempts \in Nat
          BY <1>0, <3>2, WorkerFields DEF Typed, GoodWorker, TaskOf
        <4> QED
          BY <1>0, <3>1, <3>2, <4>1 DEF BudgetInv, WorkerBudget
      <3> QED
        BY <2>1, <3>1, <3>2 DEF FirstWorker, OnlyWorker, TaskOf
    <2> QED
      BY <2>2, <2>3
  <1>4. ASSUME NEW w \in Workers, RunToolWorker(w) \/ Panic(w),
               \A u \in Tasks : ~ClaimJob(w, u)
        PROVE  SameWorkers(t)
    <2>1. OnlyWorker(w) /\ (TaskOf(w)' = TaskOf(w) \/ TaskOf(w)' = NoTask)
      BY <1>0, <1>4, GotoFacts, ResolveFacts, LeaveFacts
      DEF RunToolWorker, MarkInFlight, DecodeFails, RecordStarted, CallTool,
          DecideOutcome, PutResult, RecordOutcome, AckJob, DeadLetterJob, NackJob,
          SettleFails, Panic, Finish, TaskOf
    <2>2. claims' = claims
      BY <1>4
      DEF RunToolWorker, MarkInFlight, DecodeFails, RecordStarted, CallTool,
          DecideOutcome, PutResult, RecordOutcome, AckJob, DeadLetterJob, NackJob,
          SettleFails, Panic, Finish, histVars
    <2>3. ASSUME Written(w), TaskOf(w)' = t  PROVE Written(w)'
      <3>1. CASE RecordOutcome(w)
        BY <1>0, <3>1, GotoFacts DEF RecordOutcome, Written
      <3>2. CASE AckJob(w) \/ DeadLetterJob(w) \/ NackJob(w) \/ SettleFails(w)
        BY <1>0, <2>3, <3>2, LeaveFacts, NoTaskAssumption
        DEF AckJob, DeadLetterJob, NackJob, SettleFails, Finish, IdleWorker, TaskOf
      <3> QED
        BY <1>4, <2>3, <3>1, <3>2
        DEF RunToolWorker, MarkInFlight, DecodeFails, RecordStarted, CallTool,
            DecideOutcome, PutResult, Panic, At, Written
    <2>4. t # NoTask
      BY NoTaskAssumption
    <2> QED
      BY <2>1, <2>2, <2>3, <2>4 DEF SameWorkers, OnlyWorker, TaskOf, Written
  <1>5. ASSUME NEW u \in Tasks, EnqueueTask(u)  PROVE UNCHANGED <<worker, claims>>
    BY <1>5
    DEF EnqueueTask, EnqueueMark, EnqueueJob, EnqueueFails, EnqueueUnmark, EnqueueRecord,
        histVars
  <1>6. ASSUME NEW c \in Cancels, CancelTask(c)  PROVE UNCHANGED <<worker, claims>>
    BY <1>6
    DEF CancelTask, CancelStep, CancelPeek, CancelForget, CancelPut, CancelRecord,
        CancelRemove, CancelSignal, CancelLog, CancelCheck, CancelFails, histVars
  <1>7. ASSUME NEW u \in Tasks,
               QueueExpireLease(u) \/ QueueEndBackoff(u) \/ QueueDropRecord(u)
        PROVE  UNCHANGED <<worker, claims>>
    BY <1>7 DEF QueueExpireLease, QueueEndBackoff, QueueDropRecord, histVars
  <1>8. CASE UNCHANGED vars
    BY <1>1, <1>8 DEF vars, histVars
  <1> QED
    BY <1>1, <1>2, <1>3, <1>4, <1>5, <1>6, <1>7, <1>8 DEF Next, Running, Environment

\* No step takes back that a cancellation was asked for.
LEMMA AskedGrows == ASSUME [Next]_vars  PROVE asked \subseteq asked'
  <1>1. ASSUME NEW w \in Workers, RunToolWorker(w) \/ Panic(w)
        PROVE  UNCHANGED asked
    BY <1>1
    DEF RunToolWorker, ClaimJob, MarkInFlight, DecodeFails, RecordStarted, CallTool,
        DecideOutcome, PutResult, RecordOutcome, AckJob, DeadLetterJob, NackJob,
        SettleFails, Panic, Finish, histVars
  <1>2. ASSUME NEW c \in Cancels, CancelTask(c)  PROVE asked \subseteq asked'
    BY <1>2
    DEF CancelTask, CancelStep, CancelPeek, CancelForget, CancelPut, CancelRecord,
        CancelRemove, CancelSignal, CancelLog, CancelCheck, CancelFails, histVars
  <1>3. ASSUME NEW u \in Tasks,
               EnqueueTask(u) \/ QueueExpireLease(u) \/ QueueEndBackoff(u) \/ QueueDropRecord(u)
        PROVE  UNCHANGED asked
    BY <1>3
    DEF EnqueueTask, EnqueueMark, EnqueueJob, EnqueueFails, EnqueueUnmark, EnqueueRecord,
        QueueExpireLease, QueueEndBackoff, QueueDropRecord, histVars
  <1>4. CASE Restart
    BY <1>4 DEF Restart, histVars
  <1>5. CASE UNCHANGED vars
    BY <1>5 DEF vars, histVars
  <1> QED
    BY <1>1, <1>2, <1>3, <1>4, <1>5 DEF Next, Running, Environment

LEMMA OnceBeside ==
    ASSUME Core, SweepInv, OnceInv, Beside
    PROVE  OnceInv'
  <1>0. /\ Typed /\ Typed' /\ BudgetInv /\ CancelsAsked /\ [Next]_vars
        /\ sweep \in SweepState
    BY BesideNext, CoreStep DEF Core, SweepInv, AskedInv
  <1>1. /\ sweep'.todo \subseteq sweep.todo /\ sweep'.expired \subseteq sweep.expired
        /\ sweep'.gone \subseteq sweep.gone
    <2>1. CASE /\ sweep' = [sweep EXCEPT !.todo = sweep'.todo]
               /\ sweep'.todo = {t \in sweep.todo : blob'[t] = blob[t]}
      <3>1. sweep'.expired = sweep.expired /\ sweep'.gone = sweep.gone
        BY <1>0, <2>1 DEF SweepState
      <3> QED
        BY <2>1, <3>1
    <2>2. CASE RetentionRestart
      BY <2>2 DEF RetentionRestart, SweepTo, Asleep
    <2> QED
      BY <1>0, <2>1, <2>2, BesideSweep
  <1> SUFFICES ASSUME NEW t \in Tasks, claims'[t] <= 1
               PROVE  OneWorker(t)' /\ OneWrite(t)'
    BY DEF OnceInv, OneWorker, OneWrite, Once
  <1>2. SameWorkers(t) \/ FirstWorker(t)
    BY <1>0, WorkersCome
  <1>3. claims[t] <= 1 /\ OneWorker(t) /\ OneWrite(t) /\ asked \subseteq asked'
    <2>1. asked \subseteq asked'
      BY <1>0, AskedGrows
    <2> QED
      BY <1>2, <2>1 DEF SameWorkers, FirstWorker, OnceInv
  <1>4. OneWorker(t)'
    BY <1>2, <1>3 DEF SameWorkers, FirstWorker, OneWorker
  <1>5. ASSUME Once(t)'
        PROVE  \/ blob'[t] = blob[t]
               \/ \E w \in Workers : PutResult(w) /\ TaskOf(w) = t
    <2>1. ASSUME NEW c \in Cancels, CancelPut(c), CancelOf(c) = t  PROVE FALSE
      BY <1>0, <1>3, <1>5, <2>1 DEF CancelPut, CancelAt, CancelsAsked, Once
    <2> QED
      BY <1>0, <2>1, BlobWriters
  <1>6. ASSUME Once(t)'  PROVE OneWrite(t)'
    <2>1. Once(t) /\ OneWrite(t)
      BY <1>3, <1>6 DEF Once
    <2>2. CASE HasBlob(t) \/ t \in Taken
      <3>1. claims[t] = 1 /\ \A w \in Workers : TaskOf(w) = t => Written(w)
        BY <2>1, <2>2 DEF OneWrite
      <3>2. SameWorkers(t)
        BY <1>2, <3>1 DEF FirstWorker
      <3>3. blob'[t] = blob[t]
        BY <1>5, <1>6, <3>1 DEF PutResult, At, Written
      <3>4. claims'[t] = 1 /\ \A w \in Workers : TaskOf(w)' = t => Written(w)'
        BY <3>1, <3>2 DEF SameWorkers
      <3> QED
        BY <1>1, <2>1, <3>3, <3>4 DEF OneWrite, HasBlob, Taken
    <2>3. CASE ~HasBlob(t) /\ t \notin Taken
      <3>1. t \notin Taken' /\ t \notin sweep'.expired /\ t \notin sweep'.gone
        BY <1>1, <2>3 DEF Taken
      <3>2. CASE blob'[t] = blob[t]
        BY <2>3, <3>1, <3>2 DEF OneWrite, HasBlob
      <3>3. ASSUME NEW w \in Workers, PutResult(w), TaskOf(w) = t
            PROVE  OneWrite(t)'
        <4>1. worker[w].pc \in Busy /\ Written(w)' /\ TaskOf(w)' = t
          BY <1>0, <3>3, GotoFacts DEF PutResult, At, Busy, WorkerPC, Written, TaskOf
        <4>2. worker[w].attempts + 1 <= claims[t] /\ worker[w].attempts \in Nat
              /\ claims[t] \in Nat
          BY <1>0, <3>3, <4>1, WorkerFields DEF BudgetInv, WorkerBudget, Typed
        <4>3. claims[t] = 1 /\ SameWorkers(t)
          BY <1>2, <1>3, <4>2 DEF FirstWorker
        <4>4. \A v \in Workers : TaskOf(v)' = t => Written(v)'
          BY <1>4, <1>6, <4>1 DEF OneWorker, Once
        <4> QED
          BY <3>1, <4>3, <4>4 DEF SameWorkers, OneWrite
      <3> QED
        BY <1>5, <1>6, <3>2, <3>3
    <2> QED
      BY <2>2, <2>3
  <1> QED
    BY <1>4, <1>6 DEF OneWrite

\* What a step of the sweep does to its three sets.
LEMMA SweepTakes ==
    ASSUME Typed, SweepInv, ExpiryInv, Reaps, NEW t \in Tasks
    PROVE  /\ t \in Taken' => t \in Taken \/ HasBlob(t)
           /\ t \in sweep'.expired =>
                blob'[t].expired \/ (t \in sweep.expired /\ blob'[t] = blob[t])
           /\ t \in sweep'.gone => t \in sweep.gone \/ ~HasBlob(t)'
  <1> USE DEF SweepInv, SweepState, Taken
  <1>1. ASSUME NEW u \in Tasks, ExpireBlob(u)
        PROVE  /\ sweep'.todo = sweep.todo /\ sweep'.expired = sweep.expired
               /\ sweep'.gone = sweep.gone
               /\ blob'[t] = blob[t] \/ blob'[t].expired
    BY <1>1 DEF ExpireBlob, Typed, StoreTypeOK, Blob
  <1>2. ASSUME NEW u \in Tasks, SweepDelete(u)
        PROVE  /\ sweep'.todo = sweep.todo /\ sweep'.expired = sweep.expired \ {u}
               /\ sweep'.gone = sweep.gone \union {u} /\ u \in sweep.expired
               /\ t # u => blob'[t] = blob[t]
               /\ t = u => ~HasBlob(t)'
    BY <1>2 DEF SweepDelete, Delete, NoBlob, HasBlob, Typed, StoreTypeOK
  <1>3. ASSUME NEW u \in Tasks, SweepGet(u)
        PROVE  /\ sweep'.todo = sweep.todo \ {u} /\ u \in sweep.todo
               /\ sweep'.expired = sweep.expired \union {u} /\ sweep'.gone = sweep.gone
               /\ blob' = blob
    BY <1>3 DEF SweepGet
  <1>4. ASSUME SweepWake
        PROVE  /\ sweep'.todo = {u \in Tasks : blob[u].expired} /\ sweep'.expired = {}
               /\ sweep'.gone = {} /\ blob' = blob
    BY <1>4 DEF SweepWake, SweepTo, Asleep
  <1>5. ASSUME \/ SweepListed \/ SweepListFails \/ SweepDeleted \/ SweepUnlinked
               \/ SweepAudit
               \/ \E u \in Tasks :
                    SweepDeleteFails(u) \/ SweepUnlink(u) \/ SweepUnlinkFails(u)
        PROVE  /\ sweep'.todo \subseteq sweep.todo
               /\ sweep'.expired \subseteq sweep.expired
               /\ sweep'.gone \subseteq sweep.gone /\ blob' = blob
    <2>1. CASE SweepListed \/ SweepListFails \/ SweepDeleted \/ SweepUnlinked \/ SweepAudit
      BY <2>1
      DEF SweepListed, SweepListFails, SweepDeleted, SweepUnlinked, SweepAudit, SweepTo,
          Asleep
    <2>2. ASSUME NEW u \in Tasks,
                 SweepDeleteFails(u) \/ SweepUnlink(u) \/ SweepUnlinkFails(u)
          PROVE  /\ sweep'.todo \subseteq sweep.todo
                 /\ sweep'.expired \subseteq sweep.expired
                 /\ sweep'.gone \subseteq sweep.gone /\ blob' = blob
      BY <2>2 DEF SweepDeleteFails, SweepUnlink, SweepUnlinkFails
    <2> QED
      BY <1>5, <2>1, <2>2
  <1>6. \/ SweepWake \/ \E u \in Tasks : ExpireBlob(u) \/ SweepDelete(u) \/ SweepGet(u)
        \/ SweepListed \/ SweepListFails \/ SweepDeleted \/ SweepUnlinked \/ SweepAudit
        \/ \E u \in Tasks : SweepDeleteFails(u) \/ SweepUnlink(u) \/ SweepUnlinkFails(u)
    BY DEF Reaps, Sweep
  <1>7. blob[t].expired => HasBlob(t)
    BY DEF ExpiryInv
  <1>8. CASE \E u \in Tasks : ExpireBlob(u)
    BY <1>1, <1>8 DEF HasBlob
  <1>9. CASE \E u \in Tasks : SweepDelete(u)
    BY <1>2, <1>9 DEF HasBlob
  <1>10. CASE \E u \in Tasks : SweepGet(u)
    BY <1>3, <1>10 DEF HasBlob
  <1>11. CASE SweepWake
    BY <1>4, <1>7, <1>11
  <1> QED
    BY <1>5, <1>6, <1>8, <1>9, <1>10, <1>11

LEMMA OnceStep ==
    ASSUME Core, SweepInv, ExpiryInv, OnceInv, [RetentionNext]_retentionVars
    PROVE  OnceInv'
  <1>1. CASE Reaps
    <2> SUFFICES ASSUME NEW t \in Tasks  PROVE OneWorker(t)' /\ OneWrite(t)'
      BY DEF OnceInv
    <2>0. Typed
      BY DEF Core
    <2>1. /\ UNCHANGED <<worker, claims, asked>>
          /\ blob'[t] = blob[t] \/ blob'[t].status = blob[t].status \/ ~HasBlob(t)'
      BY <1>1, <2>0, ReapFacts DEF histVars, NoBlob, HasBlob
    <2>2. HasBlob(t)' => HasBlob(t)
      BY <2>1 DEF HasBlob
    <2> QED
      BY <1>1, <2>0, <2>1, <2>2, SweepTakes
      DEF OnceInv, OneWorker, OneWrite, Once, TaskOf, Written
  <1> QED
    BY <1>1, OnceBeside, RetentionCases

(***************************************************************************)
(* A failure is final: preservation                                        *)
(***************************************************************************)
DoomedWorker(w, t) ==
    TaskOf(w) = t => \/ Decided(w) /\ worker[w].outcome = "failed"
                     \/ At(w, "decode") /\ t \in undecodable

DoomedJob(t) ==
    \/ t \in undecodable
    \/ ~Waiting(t) /\ (job[t].status = "claimed" => job[t].attempts + 1 >= MaxAttempts)

LEMMA DoomedSame ==
    ASSUME NEW t \in Tasks, Doomed(t), Landed(t)', UNCHANGED worker,
           pointer'[t] = pointer[t], undecodable \subseteq undecodable',
           job'[t] = job[t] \/ ~Live(t)',
           blob'[t] = blob[t] \/ blob'[t].status = "cancelled"
    PROVE  Doomed(t)'
  BY DEF Doomed, Decided, At, TaskOf, Live, Waiting

LEMMA DoomedStep ==
    ASSUME Typed, NEW t \in Tasks, NEW w \in Workers, Landed(t)', OnlyWorker(w),
           Doomed(t), undecodable' = undecodable, pointer'[t] = pointer[t],
           blob'[t].status # "completed", DoomedWorker(w, t)', DoomedJob(t)'
    PROVE  Doomed(t)'
  <1>1. \A v \in Workers \ {w} : DoomedWorker(v, t)'
    BY DEF Doomed, DoomedWorker, OnlyWorker, Decided, At, TaskOf
  <1>2. \A v \in Workers : DoomedWorker(v, t)'
    BY <1>1
  <1> QED
    BY <1>2 DEF Doomed, DoomedWorker, DoomedJob

LEMMA DoomedWork ==
    ASSUME Typed, NEW t \in Tasks, NEW w \in Workers, Landed(t)', Doomed(t),
           RunToolWorker(w) \/ Panic(w)
    PROVE  Doomed(t)'
  <1>0. QueueTypeOK /\ StoreTypeOK
    BY DEF Typed
  <1>1. undecodable' = undecodable
    BY DEF RunToolWorker, ClaimJob, MarkInFlight, DecodeFails, RecordStarted, CallTool,
           DecideOutcome, PutResult, RecordOutcome, AckJob, DeadLetterJob, NackJob,
           SettleFails, Panic, Finish
  <1>2. ASSUME NEW u \in Tasks, ClaimJob(w, u)  PROVE Doomed(t)'
    <2>1. /\ job[u].status = "pending" /\ OnlyJob(u) /\ UNCHANGED <<pointer, blob>>
          /\ OnlyWorker(w) /\ worker'[w].task = u /\ worker'[w].pc = "decode"
      BY <1>0, <1>2, ClaimFacts DEF ClaimJob, Typed, OnlyWorker
    <2>2. CASE u = t
      <3>1. t \in undecodable
        BY <2>1, <2>2 DEF Doomed, Waiting
      <3>2. DoomedWorker(w, t)' /\ DoomedJob(t)'
        BY <1>1, <2>1, <3>1 DEF DoomedWorker, DoomedJob, At
      <3> QED
        BY <1>1, <2>1, <3>2, DoomedStep DEF Doomed
    <2>3. CASE u # t
      <3>1. DoomedWorker(w, t)' /\ DoomedJob(t)'
        BY <1>1, <2>1, <2>3 DEF DoomedWorker, DoomedJob, Doomed, TaskOf, OnlyJob, Waiting
      <3> QED
        BY <1>1, <2>1, <3>1, DoomedStep DEF Doomed
    <2> QED
      BY <2>2, <2>3
  <1>3. CASE (\A u \in Tasks : ~ClaimJob(w, u)) /\ TaskOf(w) # t
    <2>1. /\ job'[t] = job[t] /\ pointer'[t] = pointer[t] /\ blob'[t] = blob[t]
          /\ OnlyWorker(w) /\ TaskOf(w)' # t
      BY <1>3, WorkerElsewhere
    <2>2. DoomedWorker(w, t)' /\ DoomedJob(t)'
      BY <1>1, <2>1 DEF DoomedWorker, DoomedJob, Doomed, Waiting
    <2> QED
      BY <1>1, <2>1, <2>2, DoomedStep DEF Doomed
  <1>4. CASE (\A u \in Tasks : ~ClaimJob(w, u)) /\ TaskOf(w) = t
    <2>0. \/ Decided(w) /\ worker[w].outcome = "failed"
          \/ At(w, "decode") /\ t \in undecodable
      BY <1>4 DEF Doomed
    <2>1. \/ DecodeFails(w) \/ PutResult(w) \/ RecordOutcome(w) \/ DeadLetterJob(w)
          \/ SettleFails(w)
      BY <1>4, <2>0
      DEF RunToolWorker, MarkInFlight, RecordStarted, CallTool, DecideOutcome, AckJob,
          NackJob, Panic, At, Decided
    <2>2. CASE DecodeFails(w) \/ RecordOutcome(w)
      <3>1. OnlyWorker(w) /\ UNCHANGED <<job, pointer, blob>>
        BY <2>2, GotoFacts, ResolveFacts DEF DecodeFails, RecordOutcome, queueVars
      <3>2. worker'[w].outcome = "failed" /\ worker'[w].pc \in {"put", "settle"}
        BY <2>0, <2>2, GotoFacts, ResolveFacts DEF DecodeFails, RecordOutcome, Decided, At
      <3>3. DoomedWorker(w, t)' /\ DoomedJob(t)'
        BY <1>1, <3>1, <3>2 DEF DoomedWorker, DoomedJob, Doomed, Decided, Waiting
      <3> QED
        BY <1>1, <3>1, <3>3, DoomedStep DEF Doomed
    <2>3. CASE PutResult(w)
      <3>1. /\ OnlyWorker(w) /\ UNCHANGED <<job, pointer>> /\ TryPut(t, "failed")
            /\ worker'[w].outcome = "failed" /\ worker'[w].pc = "record"
        BY <1>4, <2>0, <2>3, GotoFacts DEF PutResult, Decided, At, queueVars
      <3>2. blob'[t].status # "completed"
        BY <1>0, <3>1 DEF TryPut, Put, StoreTypeOK, Doomed
      <3>3. DoomedWorker(w, t)' /\ DoomedJob(t)'
        BY <1>1, <3>1 DEF DoomedWorker, DoomedJob, Doomed, Decided, Waiting
      <3> QED
        BY <1>1, <3>1, <3>2, <3>3, DoomedStep DEF Doomed
    <2>4. CASE DeadLetterJob(w) \/ SettleFails(w)
      <3>1. OnlyWorker(w) /\ UNCHANGED <<pointer, blob>> /\ worker'[w].task = NoTask
        BY <2>4, LeaveFacts
        DEF DeadLetterJob, DeadLetter, SettleFails, Abandon, Finish, IdleWorker, Typed
      <3>2. DeadLetter(w, t) \/ Abandon(w, t)
        BY <1>4, <2>4 DEF DeadLetterJob, SettleFails
      <3>3. \/ job'[t].status = "dead"
            \/ job'[t].status = job[t].status /\ job'[t].attempts = job[t].attempts
        BY <1>0, <3>2 DEF DeadLetter, Abandon, QueueTypeOK, Job
      <3>4. DoomedJob(t)'
        BY <1>1, <3>3 DEF DoomedJob, Doomed, Waiting
      <3>5. DoomedWorker(w, t)'
        BY <3>1, NoTaskAssumption DEF DoomedWorker, TaskOf
      <3> QED
        BY <1>1, <3>1, <3>4, <3>5, DoomedStep DEF Doomed
    <2> QED
      BY <2>1, <2>2, <2>3, <2>4
  <1> QED
    BY <1>2, <1>3, <1>4

LEMMA DoomedStays ==
    ASSUME Typed, [Next]_vars, NEW t \in Tasks, Doomed(t), Without({"rollback"})
    PROVE  Doomed(t)'
  <1>0. QueueTypeOK /\ Landed(t)'
    BY LandedStays DEF Typed, Doomed
  <1>1. ASSUME NEW u \in Tasks, EnqueueTask(u)  PROVE Doomed(t)'
    <2>1. UNCHANGED <<worker, pointer, blob, undecodable>>
      BY <1>1
      DEF EnqueueTask, EnqueueMark, EnqueueJob, EnqueueFails, EnqueueUnmark,
          EnqueueRecord, Enqueue, queueVars
    <2>2. job'[t] = job[t]
      BY <1>0, <1>1
      DEF EnqueueTask, EnqueueMark, EnqueueJob, EnqueueFails, EnqueueUnmark,
          EnqueueRecord, Enqueue, SubmitGoto, Doomed, Landed, QueueTypeOK, queueVars
    <2> QED
      BY <1>0, <2>1, <2>2, DoomedSame
  <1>2. ASSUME NEW c \in Cancels, CancelTask(c)  PROVE Doomed(t)'
    <2>1. UNCHANGED <<worker, pointer, undecodable>>
      BY <1>2
      DEF CancelTask, CancelStep, CancelPeek, CancelForget, CancelPut, CancelRecord,
          CancelRemove, CancelSignal, CancelLog, CancelCheck, CancelFails, Cancel,
          queueVars
    <2>2. job'[t] = job[t] \/ ~Live(t)'
      BY <1>0, <1>2
      DEF CancelTask, CancelStep, CancelPeek, CancelForget, CancelPut, CancelRecord,
          CancelRemove, CancelSignal, CancelLog, CancelCheck, CancelFails, Cancel, NoJob,
          Live, Waiting, QueueTypeOK, queueVars
    <2>3. blob'[t] = blob[t] \/ blob'[t].status = "cancelled"
      BY <1>2
      DEF CancelTask, CancelStep, CancelPeek, CancelForget, CancelPut, TryPut, Put,
          CancelRecord, CancelRemove, CancelSignal, CancelLog, CancelCheck, CancelFails,
          Typed, StoreTypeOK
    <2> QED
      BY <1>0, <2>1, <2>2, <2>3, DoomedSame
  <1>3. ASSUME NEW u \in Tasks,
               QueueExpireLease(u) \/ QueueEndBackoff(u) \/ QueueDropRecord(u)
        PROVE  Doomed(t)'
    <2>1. ExpireLease(u) \/ EndBackoff(u) \/ DropRecord(u)
      BY <1>3 DEF QueueExpireLease, QueueEndBackoff, QueueDropRecord
    <2>2. OnlyJob(u) /\ UNCHANGED <<pointer, blob, worker, undecodable>>
      BY <1>0, <1>3, <2>1, TimerFacts
      DEF QueueExpireLease, QueueEndBackoff, QueueDropRecord
    <2>3. DoomedJob(t)'
      <3>1. CASE u # t \/ t \in undecodable
        BY <2>2, <3>1 DEF OnlyJob, Doomed, DoomedJob, Waiting
      <3>2. CASE u = t /\ t \notin undecodable
        <4>1. \/ ExpireLease(t) /\ job[t].attempts + 1 >= MaxAttempts
              \/ DropRecord(t)
          BY <2>1, <3>2 DEF ExpireLease, EndBackoff, Doomed, Waiting
        <4>2. job'[t].status \in {"dead", "none"}
          BY <1>0, <4>1 DEF ExpireLease, UseAttempt, DropRecord, NoJob, QueueTypeOK
        <4> QED
          BY <4>2 DEF DoomedJob, Waiting
      <3> QED
        BY <3>1, <3>2
    <2> QED
      BY <1>0, <2>2, <2>3 DEF Doomed, DoomedJob, Decided, At, TaskOf
  <1>4. CASE Restart
    <2>1. /\ UNCHANGED <<pointer, blob>> /\ undecodable \subseteq undecodable'
          /\ job'[t].status = job[t].status /\ job'[t].attempts = job[t].attempts
      <3>1. undecodable \subseteq undecodable'
        BY <1>4 DEF Restart, Without
      <3> QED
        BY <1>0, <1>4, <3>1 DEF Restart, QueueTypeOK, Job
    <2>2. \A w \in Workers : TaskOf(w)' # t
      BY <1>4, NoTaskAssumption DEF Restart, IdleWorker, TaskOf
    <2> QED
      BY <1>0, <2>1, <2>2 DEF Doomed, Waiting
  <1>5. CASE UNCHANGED vars
    BY <1>0, <1>5, DoomedSame DEF vars, queueVars
  <1>6. ASSUME NEW w \in Workers, RunToolWorker(w) \/ Panic(w)  PROVE Doomed(t)'
    BY <1>0, <1>6, DoomedWork
  <1> QED
    BY <1>1, <1>2, <1>3, <1>4, <1>5, <1>6 DEF Next, Running, Environment

\* Without slow workers, the write of a failure dooms its task.
LEMMA FailureDooms ==
    ASSUME Core, NEW t \in Tasks, NEW w \in Workers, PutResult(w), TaskOf(w) = t,
           worker[w].outcome = "failed", blob'[t].status = "failed", Without({"lease"})
    PROVE  Doomed(t)'
  <1>0. Typed /\ HolderInv /\ ClaimInv
    BY DEF Core
  <1>1. worker[w].pc = "put" /\ worker[w].pc \in Busy /\ Decided(w)
    BY DEF PutResult, At, Busy, WorkerPC, Decided
  <1>2. /\ Landed(t) /\ Holds(w, t) /\ worker[w].attempts = job[t].attempts
        /\ worker[w].attempts + 1 >= MaxAttempts \/ t \in undecodable
    BY <1>0, <1>1 DEF ClaimInv, WorkerClaim, ClaimSound, VerdictSound
  <1>3. pointer[t] = "none"
    BY <1>0, <1>2 DEF ClaimInv, PointerFinal, Holds, Live
  <1>4. ASSUME NEW v \in Workers, TaskOf(v) = t  PROVE v = w
    <2>1. worker[v].pc \in Busy
      BY <1>0, <1>4 DEF Typed, GoodWorker, TaskOf
    <2>2. Holds(v, t)
      BY <1>0, <1>4, <2>1, BusyHolds
    <2> QED
      BY <1>2, <2>2 DEF Holds
  <1>5. /\ UNCHANGED <<job, pointer, submit, undecodable>> /\ OnlyWorker(w)
        /\ worker'[w].pc = "record" /\ worker'[w].outcome = "failed"
    BY <1>0, GotoFacts DEF PutResult, queueVars
  <1>6. \A v \in Workers : DoomedWorker(v, t)'
    BY <1>4, <1>5 DEF DoomedWorker, Decided, OnlyWorker, TaskOf
  <1>7. DoomedJob(t)'
    BY <1>2, <1>5 DEF DoomedJob, Holds, Waiting
  <1> QED
    BY <1>2, <1>3, <1>5, <1>6, <1>7 DEF Doomed, DoomedWorker, DoomedJob, Landed

LEMMA DoomedAlways ==
    ASSUME Core, SweepInv, ExpiryInv, [RetentionNext]_retentionVars, NEW t \in Tasks,
           Doomed(t), Without({"rollback"})
    PROVE  Doomed(t)'
  <1>0. Typed
    BY DEF Core
  <1>1. CASE Beside
    BY <1>0, <1>1, DoomedStays, BesideNext
  <1>2. CASE Reaps
    <2>1. /\ UNCHANGED <<job, submit, worker, undecodable>> /\ pointer'[t] = "none"
          /\ blob'[t].status \in {blob[t].status, "none"}
      BY <1>0, <1>2, ReapFacts DEF Doomed, NoBlob
    <2> QED
      BY <2>1 DEF Doomed, Landed, Decided, At, TaskOf, Waiting
  <1> QED
    BY <1>1, <1>2, RetentionCases

LEMMA DoomStep ==
    ASSUME Core, SweepInv, ExpiryInv, DoomInv, [RetentionNext]_retentionVars
    PROVE  DoomInv'
  <1>0. Typed
    BY DEF Core
  <1> SUFFICES ASSUME Without({"lease", "rollback"}), NEW t \in Tasks,
                      blob'[t].status = "failed"
               PROVE  Doomed(t)'
    BY DEF DoomInv, Without
  <1>4. Without({"lease"}) /\ Without({"rollback"})
    BY DEF Without
  <1>1. CASE blob[t].status = "failed"
    BY <1>1, <1>4, DoomedAlways DEF DoomInv
  <1>2. CASE blob[t].status # "failed" /\ Beside
    <2>1. PICK w \in Workers : /\ PutResult(w) /\ TaskOf(w) = t
                               /\ Writes(t, worker[w].outcome)
      BY <1>0, <1>2, BlobWriters, BesideNext DEF Writes
    <2> QED
      BY <1>4, <2>1, FailureDooms DEF Writes
  <1>3. CASE blob[t].status # "failed" /\ Reaps
    BY <1>0, <1>3, ReapFacts DEF NoBlob
  <1> QED
    BY <1>1, <1>2, <1>3, RetentionCases

(***************************************************************************)
(* What the sweep leaves standing                                          *)
(***************************************************************************)
RetentionInv ==
    Core /\ SweepInv /\ ExpiryInv /\ AnchorInv /\ OnceInv /\ DoomInv

LEMMA AlwaysRetention == RetentionSpec => []RetentionInv
  <1>1. RetentionInit => RetentionInv
    BY CoreInit, SweepInit, OnceInit DEF RetentionInv
  <1>2. RetentionInv /\ [RetentionNext]_retentionVars => RetentionInv'
    BY CoreKept, SweepStep, ExpiryStep, AnchorStep, OnceStep, DoomStep DEF RetentionInv
  <1> QED
    BY <1>1, <1>2, PTL DEF RetentionSpec

\* Type correctness, with the reaper at work.
THEOREM RetentionTypeCorrect == RetentionSpec => []RetentionTypeOK
  <1>1. RetentionInv => RetentionTypeOK
    BY TypedIsTypeOK DEF RetentionInv, Core, SweepInv, RetentionTypeOK
  <1> QED
    BY <1>1, AlwaysRetention, PTL

\* The sweep takes no result that has not expired and no pointer that still has
\* its result, and nobody else takes anything; unless an earlier result of the
\* task expired under the work on it, and the task was claimed again or cancelled.
THEOREM RetentionKeeps == RetentionSpec => KeptForRetention
  <1>1. ASSUME RetentionInv, [RetentionNext]_retentionVars, NEW t \in Tasks
        PROVE  /\ HasBlob(t) /\ ~HasBlob(t)' => blob[t].expired \/ Overtaken(t)
               /\ pointer[t] # "none" /\ pointer'[t] = "none"
                    => ~HasBlob(t) \/ Overtaken(t)
    <2>0. Typed /\ Core /\ SweepInv /\ ExpiryInv /\ OneWrite(t) /\ claims[t] \in Nat
      BY <1>1 DEF RetentionInv, Core, OnceInv, Typed
    <2>1. CASE Beside
      <3>1. Upholds(Timely)
        BY <2>0, <2>1, CoreStep DEF SweepInv
      <3> QED
        BY <3>1 DEF Upholds, Keeps, Acked
    <2>2. CASE Reaps
      <3>1. t \in sweep.early /\ ~Once(t) => Overtaken(t)
        BY <2>0 DEF Overtaken, Once
      <3>2. ASSUME HasBlob(t), ~HasBlob(t)'  PROVE blob[t].expired \/ Overtaken(t)
        <4>1. t \in sweep.expired
          BY <2>0, <2>2, <3>2, ReapFacts DEF HasBlob
        <4> QED
          BY <2>0, <3>1, <4>1 DEF SweepInv, OneWrite
      <3>3. ASSUME pointer[t] # "none", pointer'[t] = "none"
            PROVE  ~HasBlob(t) \/ Overtaken(t)
        <4>1. t \in sweep.gone
          BY <2>0, <2>2, <3>3, ReapFacts
        <4> QED
          BY <2>0, <3>1, <4>1 DEF SweepInv, Swept, OneWrite
      <3> QED
        BY <3>2, <3>3
    <2> QED
      BY <1>1, <2>1, <2>2, RetentionCases
  <1>2. RetentionInv /\ [RetentionNext]_retentionVars =>
          [\A t \in Tasks :
             /\ HasBlob(t) /\ ~HasBlob(t)' => blob[t].expired \/ Overtaken(t)
             /\ pointer[t] # "none" /\ pointer'[t] = "none"
                  => ~HasBlob(t) \/ Overtaken(t)]_retentionVars
    BY <1>1
  <1> QED
    BY <1>2, AlwaysRetention, PTL DEF RetentionSpec, KeptForRetention

\* A pointer outlives its blob only where its own delete failed, or where the
\* result expired before its job was settled.
THEOREM PointersFollowBlobs == RetentionSpec => []NoDangling
  <1>1. RetentionInv => NoDangling
    <2> SUFFICES ASSUME SweepInv, AnchorInv, Without({"put", "crash"}),
                        NEW t \in Tasks, sweep.pc = "asleep", pointer[t] # "none"
                 PROVE  HasBlob(t) \/ t \in sweep.left \union sweep.early
      BY DEF NoDangling, RetentionInv
    <2>1. Without({"put"}) /\ Without({"crash"})
      BY DEF Without
    <2>2. sweep.gone = {}
      BY DEF SweepInv
    <2> QED
      BY <2>1, <2>2 DEF AnchorInv, Anchored, Timely
  <1> QED
    BY <1>1, AlwaysRetention, PTL

\* Next to the sweep, too: the in-flight map is honest, nothing is on record as
\* cancelled unasked, and failures come only when the attempts are used up.
THEOREM GuaranteesOutlastSweeps ==
    RetentionSpec => [](NoPhantom /\ CancelledOnlyIfAsked /\ RetryBudget)
  <1>1. RetentionInv => NoPhantom /\ CancelledOnlyIfAsked /\ RetryBudget
    BY PhantomImplies, BudgetImplies DEF RetentionInv, Core, AskedInv
  <1> QED
    BY <1>1, AlwaysRetention, PTL

\* No job is dead-lettered without its result, unless it expired too early.
THEOREM DeadLettersHaveResults == RetentionSpec => DeadHasResult
  <1>1. ASSUME RetentionInv, [RetentionNext]_retentionVars, NEW t \in Tasks,
               job[t].status # "dead", job'[t].status = "dead",
               Without({"put", "lease", "crash", "panic"}), t \notin sweep.early
        PROVE  HasBlob(t)
    <2>0. Typed /\ ClaimInv /\ BlobCore(Timely) /\ SweepInv /\ ExpiryInv
      BY <1>1 DEF RetentionInv, Core
    <2>1. CASE Beside
      <3>1. PICK T \in SUBSET Tasks : T = Timely /\ t \in T
        BY <1>1 DEF Timely
      <3>2. BlobCore(T) /\ [Next]_vars
        BY <2>0, <2>1, <3>1, BesideNext
      <3> QED
        BY <1>1, <2>0, <3>1, <3>2, DeadStep
    <2>2. CASE Reaps
      BY <1>1, <2>0, <2>2, ReapFacts
    <2> QED
      BY <1>1, <2>1, <2>2, RetentionCases
  <1>2. RetentionInv /\ [RetentionNext]_retentionVars =>
          [\A t \in Tasks :
             job[t].status # "dead" /\ job'[t].status = "dead"
               /\ Without({"put", "lease", "crash", "panic"})
             => HasBlob(t) \/ t \in sweep.early]_retentionVars
    BY <1>1
  <1> QED
    BY <1>2, AlwaysRetention, PTL DEF RetentionSpec, DeadHasResult

\* Without the in-process reaper the backend is what TaskBackend says, so that
\* every theorem about Spec holds of it.
THEOREM NoReaperNoChange == ASSUME ~EnableReaper  PROVE RetentionSpec => Spec
  <1>1. RetentionInit => Init
    BY DEF RetentionInit
  <1>2. RetentionInv /\ [RetentionNext]_retentionVars => [Next]_vars
    BY RetentionCases, NoReaper, BesideNext DEF RetentionInv
  <1> QED
    BY <1>1, <1>2, AlwaysRetention, PTL DEF RetentionSpec, Spec
==============================================================================
