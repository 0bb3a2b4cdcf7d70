----------------------- MODULE TaskBackendOutcomeProofs -----------------------
(***************************************************************************)
(* What stands behind an outcome: proofs that a committed outcome has its  *)
(* result blob and its audit entries, that an outcome once answered stays  *)
(* one, and that a job nobody can read fails at once.  They rest on        *)
(* ClaimInv, which says how far a worker without its claim is behind, so   *)
(* that what it still writes cannot undo a committed outcome.              *)
(***************************************************************************)
EXTENDS TaskBackendSafetyProofs

LEMMA AlwaysAsked == Spec => []AskedInv
  BY AskedInit, AskedStep, AlwaysTyped, AlwaysHolder, PTL DEF Spec

(***************************************************************************)
(* Result blobs                                                            *)
(***************************************************************************)
\* What PointerBacked allows for the blob of a task whose outcome is status.
Backed(t, status) ==
    \/ blob[t].status = status
    \/ blob[t].status = "cancelled" /\ t \in asked
    \/ ~Without({"lease"}) /\ status = "cancelled" /\ blob[t].status = "completed"

Acked == {"completed", "cancelled"}

\* Worker w has written its blob and is about to settle.
Written(w) == worker[w].pc \in {"record", "settle"}

WorkerBlob(w) ==
    Without({"put"}) /\ Written(w) =>
        /\ worker[w].outcome # "retry" => HasBlob(TaskOf(w))
        /\ worker[w].outcome \in Acked /\ Holds(w, TaskOf(w)) =>
             Backed(TaskOf(w), worker[w].outcome)

\* A claimed job nobody works on: the queue may dead-letter it when its lease
\* runs out, and then it has a blob.
GivenUp(t) ==
    /\ Without({"put", "lease", "crash", "panic"})
    /\ job[t].status = "claimed" /\ job[t].holder = NoWorker
    => HasBlob(t) \/ job[t].attempts + 1 < MaxAttempts

\* For the tasks in T: a blob may be gone that expired too early.
BlobCore(T) ==
    /\ \A t \in Tasks : HasBlob(t) => Landed(t)
    /\ \A w \in Workers : TaskOf(w) \in T => WorkerBlob(w)
    /\ \A t \in T : GivenUp(t)

BlobInv == BlobCore(Tasks) /\ PointerBacked

LEMMA BlobInit == Init => BlobInv
  BY DEF Init, QueueInit, NoJob, StoreInit, NoBlob, IdleWorker, BlobInv, BlobCore,
      HasBlob, WorkerBlob, Written, PointerBacked, GivenUp

\* Somebody has relied, or is about to rely, on the blob of t.
Matters(t) ==
    \/ pointer[t] # "none"
    \/ \E w \in Workers : Written(w) /\ worker[w].outcome \in Acked /\ Holds(w, t)

\* A step after which the blob of t backs whatever it backed before.
Keeps(t) ==
    /\ HasBlob(t) => HasBlob(t)'
    /\ HasBlob(t)' => HasBlob(t) \/ Landed(t)
    /\ Without({"put"}) /\ Matters(t) =>
         \A status \in Acked : Backed(t, status) => Backed(t, status)'

LEMMA KeepsSame ==
    ASSUME NEW t \in Tasks, blob'[t] = blob[t], asked \subseteq asked'
    PROVE  Keeps(t)
  BY DEF Keeps, HasBlob, Backed, Without

\* Worker w goes on with its job, and gains no claim.
GoesOn(w) ==
    /\ Written(w)
    /\ worker'[w].task = worker[w].task
    /\ worker'[w].outcome = worker[w].outcome
    /\ \A t \in Tasks : Holds(w, t)' => Holds(w, t)

\* What every step does to the blobs and to those who rely on them.
Upholds(T) ==
    /\ \A t \in Tasks : Keeps(t) /\ (Landed(t) => Landed(t)')
    /\ \A w \in Workers : WorkerBlob(w)' \/ GoesOn(w)
    /\ \A t \in Tasks :
         \/ pointer'[t] = pointer[t]
         \/ \E status \in Acked :
              /\ pointer'[t] = status
              /\ t \in T /\ Without({"put"}) => Backed(t, status)'
    /\ \A t \in T : job'[t] = job[t] \/ GivenUp(t)'

LEMMA CoreUpheld ==
    ASSUME Typed, NEW T \in SUBSET Tasks, BlobCore(T), Upholds(T)
    PROVE  BlobCore(T)'
  <1>1. \A t \in Tasks : HasBlob(t)' => Landed(t)'
    BY DEF Upholds, BlobCore, Keeps, HasBlob, Landed
  <1>2. ASSUME NEW w \in Workers, GoesOn(w), TaskOf(w)' \in T  PROVE WorkerBlob(w)'
    <2>0. PICK status : status = worker[w].outcome
      OBVIOUS
    <2>1. PICK t \in Tasks : t = TaskOf(w)
      BY <1>2, WorkerFields DEF GoesOn, Written, TaskOf, Busy, WorkerPC
    <2>2. TaskOf(w)' = t /\ worker'[w].outcome = status /\ t \in T
      BY <1>2, <2>0, <2>1 DEF GoesOn, TaskOf
    <2> SUFFICES ASSUME Without({"put"})
                 PROVE  /\ status # "retry" => HasBlob(t)'
                        /\ status \in Acked /\ Holds(w, t)' => Backed(t, status)'
      BY <2>2 DEF WorkerBlob, Without, HasBlob, Holds, Backed
    <2>3. status # "retry" => HasBlob(t)
      BY <1>2, <2>0, <2>1, <2>2 DEF BlobCore, WorkerBlob, GoesOn
    <2>4. status \in Acked /\ Holds(w, t)' => Holds(w, t)
      BY <1>2 DEF GoesOn, Holds
    <2>5. status \in Acked /\ Holds(w, t) => Backed(t, status) /\ Matters(t)
      BY <1>2, <2>0, <2>1, <2>2 DEF BlobCore, WorkerBlob, GoesOn, Matters
    <2> QED
      BY <2>3, <2>4, <2>5 DEF Upholds, Keeps, HasBlob, Holds, Backed, Without
  <1>3. \A t \in T : GivenUp(t)'
    BY DEF Upholds, BlobCore, GivenUp, Keeps, HasBlob, Without
  <1> QED
    BY <1>1, <1>2, <1>3 DEF Upholds, BlobCore

LEMMA PointersUpheld ==
    ASSUME Typed, PointerBacked, Upholds(Tasks)  PROVE PointerBacked'
  <1> SUFFICES ASSUME NEW t \in Tasks, NEW status, status = pointer'[t],
                      status # "none", Without({"put"})
               PROVE  Backed(t, status)'
    BY DEF PointerBacked, Backed, Without
  <1>1. CASE pointer'[t] = pointer[t]
    <2>1. status \in Acked /\ Matters(t) /\ Backed(t, status)
      BY <1>1 DEF PointerBacked, Backed, Matters, Acked, Typed, QueueTypeOK,
                  PointerStatus
    <2> QED
      BY <1>1, <2>1 DEF Upholds, Keeps, Backed, Without
  <1> QED
    BY <1>1 DEF Upholds, Backed, Without

LEMMA TryPutFacts ==
    ASSUME Typed, NEW t \in Tasks, NEW status \in FinishedStatus, TryPut(t, status)
    PROVE  /\ \A u \in Tasks : u # t => blob'[u] = blob[u]
           /\ HasBlob(t) => HasBlob(t)'
           /\ Without({"put"}) => blob'[t].status = status
  <1>1. CASE Put(t, status)
    BY <1>1 DEF Put, Typed, StoreTypeOK, HasBlob, FinishedStatus
  <1>2. CASE "put" \in Faults /\ UNCHANGED blob
    <2>1. ~Without({"put"})
      BY <1>2 DEF Without
    <2> QED
      BY <1>2, <2>1 DEF HasBlob
  <1> QED
    BY <1>1, <1>2 DEF TryPut

\* A worker that writes over what matters has lost its lease, and is too far
\* behind to write a failure.
LEMMA LateWrite ==
    ASSUME Typed, HolderInv, BudgetInv, ClaimInv, NEW v \in Workers, NEW t \in Tasks,
           t = TaskOf(v), At(v, "put"), Matters(t)
    PROVE  /\ ~Without({"lease"})
           /\ worker[v].outcome \in Acked
  <1>1. worker[v].pc \in Busy /\ ClaimSound(v) /\ VerdictSound(v) /\ Decided(v)
        /\ worker[v].outcome \in FinishedStatus
    BY DEF At, Busy, WorkerPC, ClaimInv, WorkerClaim, Decided, Typed, GoodWorker
  <1>2. CASE pointer[t] # "none"
    <2>1. ~Live(t) /\ t \notin undecodable
      BY <1>2 DEF ClaimInv, PointerFinal
    <2>2. ~Holds(v, t)
      BY <2>1 DEF Holds, Live
    <2>3. worker[v].attempts + 1 < MaxAttempts /\ worker[v].attempts \in Nat
      BY <1>1, <1>2, WorkerFields DEF ClaimSound
    <2> QED
      BY <1>1, <2>1, <2>2, <2>3, MaxAttemptsAssumption
      DEF ClaimSound, VerdictSound, Acked, FinishedStatus
  <1>3. ASSUME NEW w \in Workers, Written(w), worker[w].outcome \in Acked, Holds(w, t)
        PROVE  /\ ~Without({"lease"})
               /\ worker[v].outcome \in Acked
    <2>1. ~Holds(v, t) /\ Live(t)
      BY <1>3 DEF Holds, Live, Written, At
    <2>2. worker[v].attempts + 1 < MaxAttempts /\ worker[v].attempts \in Nat
      BY <1>1, <2>1, OutOfDate, WorkerFields
    <2>3. t \notin undecodable
      <3>1. worker[w].pc \in Busy /\ Decoded(w)
        BY <1>3 DEF Written, Busy, WorkerPC, Decoded, Decided, Acked
      <3>2. VerdictSound(w) /\ ClaimSound(w)
        BY <3>1 DEF ClaimInv, WorkerClaim
      <3> QED
        BY <1>3, <3>1, <3>2 DEF HolderInv, VerdictSound
    <2> QED
      BY <1>1, <2>1, <2>2, <2>3, MaxAttemptsAssumption
      DEF ClaimSound, VerdictSound, Acked, FinishedStatus
  <1> QED
    BY <1>2, <1>3 DEF Matters

LEMMA BlobPut ==
    ASSUME Typed, HolderInv, BudgetInv, AskedInv, ClaimInv, NEW T \in SUBSET Tasks,
           NEW v \in Workers, PutResult(v)
    PROVE  Upholds(T)
  <1>1. /\ worker[v].pc = "put" /\ worker[v].pc \in Busy
        /\ worker[v].outcome \in FinishedStatus
        /\ UNCHANGED <<job, pointer, submit, asked>>
    BY DEF PutResult, At, Busy, WorkerPC, Typed, GoodWorker, queueVars, histVars
  <1>2. PICK t \in Tasks, end \in FinishedStatus : t = TaskOf(v) /\ end = worker[v].outcome
    BY <1>1, WorkerFields DEF TaskOf
  <1>3. TryPut(t, end)
    BY <1>2 DEF PutResult
  <1>4. /\ worker'[v].task = t /\ worker'[v].outcome = end
        /\ worker'[v].pc = "record" /\ OnlyWorker(v)
    BY <1>2, GotoFacts DEF PutResult, TaskOf
  <1>5. Landed(t)
    BY <1>1, <1>2 DEF ClaimInv, WorkerClaim, ClaimSound
  <1>6. end = "cancelled" => t \in asked
    BY <1>1, <1>2 DEF AskedInv, VerdictsAsked
  <1>7. Without({"put"}) /\ Matters(t) => \A status \in Acked : Backed(t, status)'
    <2> SUFFICES ASSUME Without({"put"}), Matters(t), NEW status \in Acked
                 PROVE  Backed(t, status)'
      BY DEF Backed, Without
    <2>1. ~Without({"lease"}) /\ end \in Acked
      BY <1>1, <1>2, LateWrite DEF At
    <2>2. blob'[t].status = end
      BY <1>3, TryPutFacts
    <2> QED
      BY <1>1, <1>6, <2>1, <2>2 DEF Backed, Acked, Without
  <1>8. Keeps(t)
    <2>1. HasBlob(t) => HasBlob(t)'
      BY <1>3, TryPutFacts
    <2> QED
      BY <1>5, <1>7, <2>1 DEF Keeps, Backed
  <1>9. ASSUME NEW u \in Tasks  PROVE Keeps(u)
    <2>1. CASE u # t
      BY <1>1, <1>3, <2>1, TryPutFacts, KeepsSame
    <2> QED
      BY <1>8, <2>1
  <1>10. WorkerBlob(v)'
    <2> SUFFICES ASSUME Without({"put"})  PROVE HasBlob(t)' /\ Backed(t, end)'
      BY <1>4 DEF WorkerBlob, Without, HasBlob, Backed, Holds, TaskOf
    <2>1. blob'[t].status = end
      BY <1>3, TryPutFacts
    <2> QED
      BY <2>1 DEF HasBlob, Backed, FinishedStatus
  <1>11. ASSUME NEW w \in Workers \ {v}  PROVE WorkerBlob(w)' \/ GoesOn(w)
    <2>1. worker'[w] = worker[w]
      BY <1>4 DEF OnlyWorker
    <2>2. CASE Written(w)
      BY <1>1, <2>1, <2>2 DEF GoesOn, Holds
    <2>3. CASE ~Written(w)
      BY <2>1, <2>3 DEF WorkerBlob, Written
    <2> QED
      BY <2>2, <2>3
  <1> QED
    BY <1>1, <1>9, <1>10, <1>11 DEF Upholds, Landed, WorkerBlob

\* The other steps of a worker within its job.
LEMMA BlobMoves ==
    ASSUME Typed, NEW T \in SUBSET Tasks, NEW v \in Workers,
           \/ MarkInFlight(v) \/ DecodeFails(v) \/ RecordStarted(v) \/ CallTool(v)
           \/ DecideOutcome(v) \/ RecordOutcome(v)
    PROVE  Upholds(T)
  <1>1. UNCHANGED <<job, pointer, blob, submit, asked>>
    BY DEF MarkInFlight, DecodeFails, RecordStarted, CallTool, DecideOutcome,
           RecordOutcome, queueVars, histVars
  <1>2. OnlyWorker(v)
    BY GotoFacts, ResolveFacts
    DEF MarkInFlight, DecodeFails, RecordStarted, CallTool, DecideOutcome, RecordOutcome
  <1>3. ASSUME NEW w \in Workers \ {v}  PROVE WorkerBlob(w)' \/ GoesOn(w)
    <2>1. worker'[w] = worker[w]
      BY <1>2 DEF OnlyWorker
    <2>2. CASE Written(w)
      BY <1>1, <2>1, <2>2 DEF GoesOn, Holds
    <2>3. CASE ~Written(w)
      BY <2>1, <2>3 DEF WorkerBlob, Written
    <2> QED
      BY <2>2, <2>3
  <1>4. WorkerBlob(v)' \/ GoesOn(v)
    <2>1. CASE RecordOutcome(v)
      <3>1. Written(v) /\ worker'[v].task = worker[v].task
            /\ worker'[v].outcome = worker[v].outcome
        BY <2>1, GotoFacts DEF RecordOutcome, At, Written
      <3> QED
        BY <1>1, <3>1 DEF GoesOn, Holds
    <2>2. CASE DecideOutcome(v)
      <3>1. worker'[v].pc = "put" \/ worker'[v].outcome = "retry"
        BY <2>2, ResolveFacts DEF DecideOutcome
      <3> QED
        BY <3>1 DEF WorkerBlob, Written, Acked
    <2>3. CASE ~RecordOutcome(v) /\ ~DecideOutcome(v)
      <3>1. worker'[v].pc \in {"start", "put", "call", "decide"}
        BY <2>3, GotoFacts, ResolveFacts
        DEF MarkInFlight, DecodeFails, RecordStarted, CallTool
      <3> QED
        BY <3>1 DEF WorkerBlob, Written
    <2> QED
      BY <2>1, <2>2, <2>3
  <1>5. \A t \in Tasks : Keeps(t)
    BY <1>1, KeepsSame
  <1> QED
    BY <1>1, <1>3, <1>4, <1>5 DEF Upholds, Landed, WorkerBlob

LEMMA BlobClaims ==
    ASSUME Typed, NEW T \in SUBSET Tasks, NEW v \in Workers, NEW t \in Tasks,
           ClaimJob(v, t)
    PROVE  Upholds(T)
  <1>0. QueueTypeOK
    BY DEF Typed
  <1>1. /\ job'[t].holder = v /\ job[t].status = "pending"
        /\ OnlyJob(t) /\ pointer' = pointer
    BY <1>0, ClaimFacts DEF ClaimJob
  <1>2. UNCHANGED <<blob, submit, asked>> /\ worker'[v].pc = "decode" /\ OnlyWorker(v)
    BY DEF ClaimJob, Typed, OnlyWorker
  <1>3. ASSUME NEW w \in Workers \ {v}  PROVE WorkerBlob(w)' \/ GoesOn(w)
    <2>1. worker'[w] = worker[w]
      BY <1>2 DEF OnlyWorker
    <2>2. CASE Written(w)
      <3>1. \A u \in Tasks : Holds(w, u)' => Holds(w, u)
        BY <1>1 DEF Holds, OnlyJob
      <3> QED
        BY <2>1, <2>2, <3>1 DEF GoesOn, Holds
    <2>3. CASE ~Written(w)
      BY <2>1, <2>3 DEF WorkerBlob, Written
    <2> QED
      BY <2>2, <2>3
  <1>4. WorkerBlob(v)'
    BY <1>2 DEF WorkerBlob, Written
  <1>5. \A u \in Tasks : Keeps(u)
    BY <1>2, KeepsSame
  <1>6. \A u \in Tasks : job'[u] = job[u] \/ GivenUp(u)'
    BY <1>1, NoWorkerAssumption DEF OnlyJob, GivenUp
  <1> QED
    BY <1>1, <1>2, <1>3, <1>4, <1>5, <1>6 DEF Upholds, Landed, WorkerBlob, GivenUp

\* A settlement, a failed one, or a panic.
LEMMA BlobSettles ==
    ASSUME Typed, ClaimInv, NEW T \in SUBSET Tasks, BlobCore(T), NEW v \in Workers,
           AckJob(v) \/ DeadLetterJob(v) \/ NackJob(v) \/ SettleFails(v) \/ Panic(v)
    PROVE  Upholds(T)
  <1>0. QueueTypeOK
    BY DEF Typed
  <1>1. worker[v].pc \in {"settle", "call"} /\ worker[v].pc \in Busy
    BY DEF AckJob, DeadLetterJob, NackJob, SettleFails, Panic, At, Busy, WorkerPC
  <1>2. PICK t \in Tasks : t = TaskOf(v)
    BY <1>1, WorkerFields DEF TaskOf
  <1>3. \/ DeadLetter(v, t) \/ Nack(v, t) \/ Abandon(v, t)
        \/ \E status \in {"completed", "cancelled"} : AckWith(v, t, status)
    BY <1>2 DEF AckJob, DeadLetterJob, NackJob, SettleFails, Panic
  <1>4. UNCHANGED <<blob, submit, asked>>
    BY DEF AckJob, DeadLetterJob, NackJob, SettleFails, Panic, Finish, histVars
  <1>5. worker'[v].pc \in {"idle", "dead"} /\ OnlyWorker(v)
    BY LeaveFacts DEF AckJob, DeadLetterJob, NackJob, SettleFails, Panic, Finish
  <1>6. /\ job[t] \in Job /\ OnlyJob(t)
        /\ \A w \in Workers : Holds(w, t)' => Holds(w, t)
    BY <1>0, <1>3, SettleFacts DEF QueueTypeOK
  <1>7. ASSUME NEW w \in Workers \ {v}  PROVE WorkerBlob(w)' \/ GoesOn(w)
    <2>1. worker'[w] = worker[w]
      BY <1>5 DEF OnlyWorker
    <2>2. CASE Written(w)
      <3>1. \A u \in Tasks : Holds(w, u)' => Holds(w, u)
        BY <1>6 DEF Holds, OnlyJob
      <3> QED
        BY <2>1, <2>2, <3>1 DEF GoesOn, Holds
    <2>3. CASE ~Written(w)
      BY <2>1, <2>3 DEF WorkerBlob, Written
    <2> QED
      BY <2>2, <2>3
  <1>8. WorkerBlob(v)'
    BY <1>5 DEF WorkerBlob, Written
  <1>9. \A u \in Tasks : Keeps(u)
    BY <1>4, KeepsSame
  <1>10. ASSUME NEW u \in Tasks
         PROVE  \/ pointer'[u] = pointer[u]
                \/ \E status \in Acked :
                     /\ pointer'[u] = status
                     /\ u \in T /\ Without({"put"}) => Backed(u, status)'
    <2>1. CASE ~AckJob(v)
      BY <2>1
      DEF DeadLetterJob, DeadLetter, NackJob, Nack, SettleFails, Panic, Abandon
    <2>2. CASE AckJob(v) /\ u # t
      BY <1>0, <1>2, <2>2 DEF AckJob, AckWith, QueueTypeOK
    <2>3. CASE AckJob(v) /\ u = t
      <3>1. PICK status \in Acked : status = worker[v].outcome
        BY <2>3 DEF AckJob, Acked
      <3>2. pointer'[t] = status /\ Holds(v, t) /\ Written(v)
        BY <1>0, <1>2, <2>3, <3>1 DEF AckJob, AckWith, At, Written, QueueTypeOK
      <3>3. t \in T /\ Without({"put"}) => Backed(t, status)
        BY <1>2, <2>3, <3>1, <3>2 DEF BlobCore, WorkerBlob
      <3> QED
        BY <1>4, <2>3, <3>1, <3>2, <3>3 DEF Backed, Without
    <2> QED
      BY <2>1, <2>2, <2>3
  <1>11. t \in T => GivenUp(t)' \/ job'[t] = job[t]
    <2> HAVE t \in T
    <2>1. CASE Panic(v)
      BY <2>1 DEF Panic, GivenUp, Without
    <2>2. CASE SettleFails(v) /\ Holds(v, t) /\ Without({"put"})
      <3>1. job'[t].attempts = job[t].attempts
        BY <1>0, <1>2, <1>6, <2>2 DEF SettleFails, Abandon, QueueTypeOK, Job
      <3>2. CASE worker[v].outcome = "retry"
        <4>1. ClaimSound(v) /\ VerdictSound(v) /\ Decided(v)
          BY <1>1, <2>2 DEF ClaimInv, WorkerClaim, SettleFails, At, Decided
        <4> QED
          BY <1>2, <2>2, <3>1, <3>2, <4>1 DEF ClaimSound, VerdictSound, GivenUp
      <3>3. CASE worker[v].outcome # "retry"
        <4>1. HasBlob(t)
          BY <1>2, <2>2, <3>3 DEF BlobCore, WorkerBlob, SettleFails, At, Written
        <4> QED
          BY <1>4, <4>1 DEF GivenUp, HasBlob
      <3> QED
        BY <3>2, <3>3
    <2>3. CASE SettleFails(v) /\ ~Holds(v, t)
      BY <1>2, <2>3 DEF SettleFails, Abandon
    <2>4. CASE ~Without({"put"})
      BY <2>4 DEF GivenUp, Without
    <2>5. CASE AckJob(v) \/ DeadLetterJob(v) \/ NackJob(v)
      <3>1. job'[t].status # "claimed"
        <4>1. CASE AckJob(v)
          BY <1>0, <1>2, <4>1 DEF AckJob, AckWith, QueueTypeOK, Job
        <4>2. CASE DeadLetterJob(v)
          BY <1>0, <1>2, <4>2 DEF DeadLetterJob, DeadLetter, QueueTypeOK, Job
        <4>3. CASE NackJob(v)
          BY <1>0, <1>2, <4>3, UseAttemptFacts DEF NackJob, Nack
        <4> QED
          BY <2>5, <4>1, <4>2, <4>3
      <3> QED
        BY <3>1 DEF GivenUp
    <2> QED
      BY <2>1, <2>2, <2>3, <2>4, <2>5
  <1>12. \A u \in T : job'[u] = job[u] \/ GivenUp(u)'
    BY <1>6, <1>11 DEF OnlyJob, GivenUp
  <1> QED
    BY <1>4, <1>7, <1>8, <1>9, <1>10, <1>12
    DEF Upholds, Landed, WorkerBlob, Backed, GivenUp

\* Steps that leave the workers alone.
LEMMA BlobOutside ==
    ASSUME Typed, NEW T \in SUBSET Tasks, UNCHANGED <<worker, pointer>>,
           \A t \in Tasks : Keeps(t),
           \A t \in Tasks : Landed(t) => Landed(t)',
           \A w \in Workers, t \in Tasks : Holds(w, t)' => Holds(w, t),
           \A t \in Tasks : job'[t] = job[t] \/ job'[t].status # "claimed"
    PROVE  Upholds(T)
  <1>1. ASSUME NEW w \in Workers  PROVE WorkerBlob(w)' \/ GoesOn(w)
    <2>1. CASE Written(w)
      BY <2>1 DEF GoesOn, Holds
    <2>2. CASE ~Written(w)
      BY <2>2 DEF WorkerBlob, Written
    <2> QED
      BY <2>1, <2>2
  <1>2. \A t \in Tasks : job'[t] = job[t] \/ GivenUp(t)'
    BY DEF GivenUp
  <1> QED
    BY <1>1, <1>2 DEF Upholds, Landed, WorkerBlob, GivenUp

LEMMA BlobEnqueue ==
    ASSUME Typed, Typed', NEW T \in SUBSET Tasks, NEW t \in Tasks, EnqueueTask(t)
    PROVE  Upholds(T)
  <1>0. QueueTypeOK
    BY DEF Typed
  <1>1. UNCHANGED <<pointer, worker, blob, asked>>
    BY DEF EnqueueTask, EnqueueMark, EnqueueJob, EnqueueFails, EnqueueUnmark,
           EnqueueRecord, Enqueue, queueVars, histVars
  <1>2. \A u \in Tasks : Landed(u) => Landed(u)'
    BY DEF EnqueueTask, EnqueueMark, EnqueueJob, EnqueueFails, EnqueueUnmark,
           EnqueueRecord, SubmitGoto, Landed, Typed
  <1>3. \A u \in Tasks : job'[u] = job[u] \/ job'[u].status = "pending"
    BY <1>0
    DEF EnqueueTask, EnqueueMark, EnqueueJob, EnqueueFails, EnqueueUnmark, EnqueueRecord,
        Enqueue, NoJob, QueueTypeOK, queueVars
  <1>4. \A w \in Workers, u \in Tasks : Holds(w, u)' => Holds(w, u)
    BY <1>3 DEF Holds
  <1>5. \A u \in Tasks : Keeps(u)
    BY <1>1, KeepsSame
  <1>6. \A u \in Tasks : job'[u] = job[u] \/ job'[u].status # "claimed"
    BY <1>3
  <1> QED
    BY <1>1, <1>2, <1>4, <1>5, <1>6, BlobOutside DEF Landed, Holds

LEMMA BlobCancel ==
    ASSUME Typed, AskedInv, ClaimInv, NEW T \in SUBSET Tasks, NEW c \in Cancels,
           CancelTask(c)
    PROVE  Upholds(T)
  <1>0. QueueTypeOK
    BY DEF Typed
  <1>1. UNCHANGED <<pointer, submit, worker>> /\ asked \subseteq asked'
    BY DEF CancelTask, CancelStep, CancelPeek, CancelForget, CancelPut, CancelRecord,
           CancelRemove, CancelSignal, CancelLog, CancelCheck, CancelFails, Cancel,
           queueVars, histVars
  <1>2. \A t \in Tasks : job'[t] = job[t] \/ job'[t].status = "none"
    BY <1>0
    DEF CancelTask, CancelStep, CancelPeek, CancelForget, CancelPut, CancelRecord,
        CancelRemove, CancelSignal, CancelLog, CancelCheck, CancelFails, Cancel, NoJob,
        QueueTypeOK, queueVars
  <1>3. \A w \in Workers, u \in Tasks : Holds(w, u)' => Holds(w, u)
    BY <1>2 DEF Holds
  <1>4. ASSUME NEW u \in Tasks  PROVE Keeps(u)
    <2>1. CASE CancelPut(c)
      <3>1. PICK t \in Tasks : t = CancelOf(c)
        BY <2>1 DEF CancelPut, CancelAt, CancelOf, Typed, GoodCancel
      <3>2. t \in asked /\ Landed(t)
        BY <2>1, <3>1
        DEF CancelPut, CancelAt, AskedInv, CancelsAsked, ClaimInv, CancelClaim
      <3>3. TryPut(t, "cancelled") /\ "cancelled" \in FinishedStatus
        BY <2>1, <3>1 DEF CancelPut, FinishedStatus
      <3>4. CASE u # t
        BY <1>1, <3>3, <3>4, TryPutFacts, KeepsSame
      <3>5. CASE u = t
        <4>1. HasBlob(t) => HasBlob(t)'
          BY <3>3, TryPutFacts
        <4>2. Without({"put"}) => blob'[t].status = "cancelled"
          BY <3>3, TryPutFacts
        <4> QED
          BY <1>1, <3>2, <3>5, <4>1, <4>2 DEF Keeps, Backed, Without
      <3> QED
        BY <3>4, <3>5
    <2>2. CASE ~CancelPut(c)
      <3>1. blob' = blob
        BY <2>2
        DEF CancelTask, CancelStep, CancelPeek, CancelForget, CancelRecord, CancelRemove,
            CancelSignal, CancelLog, CancelCheck, CancelFails
      <3> QED
        BY <1>1, <3>1, KeepsSame
    <2> QED
      BY <2>1, <2>2
  <1>5. \A t \in Tasks : job'[t] = job[t] \/ job'[t].status # "claimed"
    BY <1>2
  <1> QED
    BY <1>1, <1>3, <1>4, <1>5, BlobOutside DEF Landed, Holds

LEMMA BlobTimers ==
    ASSUME Typed, NEW T \in SUBSET Tasks, NEW t \in Tasks,
           QueueExpireLease(t) \/ QueueEndBackoff(t) \/ QueueDropRecord(t)
    PROVE  Upholds(T)
  <1>0. QueueTypeOK
    BY DEF Typed
  <1>1. /\ UNCHANGED <<submit, worker, blob, asked>>
        /\ ExpireLease(t) \/ EndBackoff(t) \/ DropRecord(t)
    BY DEF QueueExpireLease, QueueEndBackoff, QueueDropRecord, histVars
  <1>2. pointer' = pointer /\ OnlyJob(t)
    BY <1>0, <1>1, TimerFacts
  <1>3. job'[t].status # "claimed"
    <2>1. CASE ExpireLease(t)
      BY <1>0, <2>1, UseAttemptFacts DEF ExpireLease
    <2>2. CASE EndBackoff(t) \/ DropRecord(t)
      BY <1>0, <2>2 DEF EndBackoff, DropRecord, NoJob, QueueTypeOK, Job
    <2> QED
      BY <1>1, <2>1, <2>2
  <1>4. \A w \in Workers, u \in Tasks : Holds(w, u)' => Holds(w, u)
    BY <1>2, <1>3 DEF Holds, OnlyJob
  <1>5. \A u \in Tasks : Keeps(u)
    BY <1>1, KeepsSame
  <1>6. \A u \in Tasks : job'[u] = job[u] \/ job'[u].status # "claimed"
    BY <1>2, <1>3 DEF OnlyJob
  <1> QED
    BY <1>1, <1>2, <1>4, <1>5, <1>6, BlobOutside DEF Landed, Holds

LEMMA BlobRestart ==
    ASSUME Typed, NEW T \in SUBSET Tasks, Restart  PROVE Upholds(T)
  <1>1. UNCHANGED <<pointer, blob, asked>>
    BY DEF Restart, histVars
  <1>2. \A t \in Tasks : Keeps(t)
    BY <1>1, KeepsSame
  <1>3. \A t \in Tasks : Landed(t) => Landed(t)'
    BY DEF Restart, Landed
  <1>4. \A w \in Workers : WorkerBlob(w)'
    BY DEF Restart, IdleWorker, WorkerBlob, Written
  <1>5. \A t \in Tasks : GivenUp(t)'
    BY DEF Restart, GivenUp, Without
  <1> QED
    BY <1>1, <1>2, <1>3, <1>4, <1>5 DEF Upholds, Landed, WorkerBlob, GivenUp

LEMMA BlobUpheld ==
    ASSUME Typed, Typed', HolderInv, BudgetInv, AskedInv, ClaimInv,
           NEW T \in SUBSET Tasks, BlobCore(T), [Next]_vars
    PROVE  Upholds(T)
  <1>1. CASE UNCHANGED vars
    <2>1. \A t \in Tasks : Keeps(t)
      BY <1>1, KeepsSame DEF vars, histVars
    <2>2. \A w \in Workers : WorkerBlob(w)' \/ GoesOn(w)
      BY <1>1
      DEF vars, queueVars, GoesOn, WorkerBlob, Written, Holds
    <2> QED
      BY <1>1, <2>1, <2>2 DEF vars, queueVars, Upholds, Landed
  <1>2. ASSUME NEW w \in Workers, RunToolWorker(w) \/ Panic(w)  PROVE Upholds(T)
    BY <1>2, BlobMoves, BlobPut, BlobClaims, BlobSettles DEF RunToolWorker
  <1> QED
    BY <1>1, <1>2, BlobEnqueue, BlobCancel, BlobTimers, BlobRestart
    DEF Next, Running, Environment

LEMMA AlwaysBlob == Spec => []BlobInv
  <1>1. Typed /\ Typed' /\ HolderInv /\ BudgetInv /\ AskedInv /\ ClaimInv /\ BlobInv
          /\ [Next]_vars => BlobInv'
    BY BlobUpheld, CoreUpheld, PointersUpheld DEF BlobInv
  <1> QED
    BY <1>1, BlobInit, AlwaysTyped, AlwaysHolder, AlwaysBudget, AlwaysAsked, AlwaysClaim,
       PTL DEF Spec

\* Whoever is told a committed outcome can fetch its result, and the two agree
\* but for a cancellation that was asked for.
THEOREM OutcomesHaveResults == Spec => []PointerBacked
  <1>1. BlobInv => PointerBacked
    BY DEF BlobInv
  <1> QED
    BY <1>1, AlwaysBlob, PTL

\* Whoever dead-letters a job, a worker or the queue, finds its blob written.
LEMMA DeadStep ==
    ASSUME Typed, ClaimInv, NEW T \in SUBSET Tasks, BlobCore(T), [Next]_vars, NEW t \in T,
           job[t].status # "dead", job'[t].status = "dead",
           Without({"put", "lease", "crash", "panic"})
    PROVE  HasBlob(t)
  <1>0. QueueTypeOK /\ job[t].attempts \in Nat /\ Without({"put"})
    BY DEF Typed, QueueTypeOK, Job, Without
  <1>1. ASSUME NEW u \in Tasks, EnqueueTask(u)  PROVE FALSE
    BY <1>0, <1>1
    DEF EnqueueTask, EnqueueMark, EnqueueJob, EnqueueFails, EnqueueUnmark, EnqueueRecord,
        Enqueue, NoJob, QueueTypeOK, queueVars
  <1>2. ASSUME NEW c \in Cancels, CancelTask(c)  PROVE FALSE
    BY <1>0, <1>2
    DEF CancelTask, CancelStep, CancelPeek, CancelForget, CancelPut, CancelRecord,
        CancelRemove, CancelSignal, CancelLog, CancelCheck, CancelFails, Cancel, NoJob,
        QueueTypeOK, queueVars
  <1>3. ASSUME NEW u \in Tasks,
               QueueExpireLease(u) \/ QueueEndBackoff(u) \/ QueueDropRecord(u)
        PROVE  HasBlob(t)
    <2>1. CASE QueueExpireLease(u)
      <3>1. u = t
        BY <1>0, <2>1, UseAttemptFacts DEF QueueExpireLease, ExpireLease, OnlyJob
      <3>2. /\ job[t].status = "claimed" /\ job[t].holder = NoWorker
            /\ job[t].attempts + 1 >= MaxAttempts
        BY <1>0, <2>1, <3>1, UseAttemptFacts DEF QueueExpireLease, ExpireLease, Without
      <3> QED
        BY <1>0, <3>2, MaxAttemptsAssumption DEF BlobCore, GivenUp
    <2>2. CASE QueueEndBackoff(u)
      BY <1>0, <2>2 DEF QueueEndBackoff, EndBackoff, QueueTypeOK
    <2>3. CASE QueueDropRecord(u)
      BY <1>0, <2>3 DEF QueueDropRecord, DropRecord, NoJob, QueueTypeOK
    <2> QED
      BY <1>3, <2>1, <2>2, <2>3
  <1>4. ASSUME NEW w \in Workers, RunToolWorker(w)  PROVE HasBlob(t)
    <2>1. CASE DeadLetterJob(w)
      <3>1. /\ Written(w) /\ worker[w].outcome = "failed"
            /\ TaskOf(w) \in Tasks /\ DeadLetter(w, TaskOf(w))
        BY <2>1, WorkerFields DEF DeadLetterJob, At, Written, TaskOf, Busy, WorkerPC
      <3>2. TaskOf(w) = t
        BY <1>0, <3>1, SettleFacts DEF OnlyJob
      <3> QED
        BY <1>0, <3>1, <3>2 DEF BlobCore, WorkerBlob
    <2>2. CASE NackJob(w)
      <3>1. /\ worker[w].pc \in Busy /\ Decided(w) /\ worker[w].outcome = "retry"
            /\ TaskOf(w) \in Tasks /\ Nack(w, TaskOf(w))
        BY <2>2, WorkerFields DEF NackJob, At, Decided, TaskOf, Busy, WorkerPC
      <3>2. TaskOf(w) = t
        BY <1>0, <3>1, SettleFacts DEF OnlyJob
      <3>3. job[t].attempts + 1 < MaxAttempts
        BY <3>1, <3>2 DEF ClaimInv, WorkerClaim, ClaimSound, VerdictSound, Nack
      <3> QED
        BY <1>0, <3>1, <3>2, <3>3, UseAttemptFacts, MaxAttemptsAssumption DEF Nack
    <2>3. CASE AckJob(w) \/ SettleFails(w)
      <3>1. /\ TaskOf(w) \in Tasks
            /\ \/ Abandon(w, TaskOf(w))
               \/ \E status \in {"completed", "cancelled"} : AckWith(w, TaskOf(w), status)
        BY <2>3, WorkerFields DEF AckJob, SettleFails, At, TaskOf, Busy, WorkerPC
      <3>2. OnlyJob(TaskOf(w)) /\ job[TaskOf(w)] \in Job
        BY <1>0, <3>1, SettleFacts DEF QueueTypeOK
      <3>3. TaskOf(w) = t
        BY <3>2 DEF OnlyJob
      <3>4. CASE Abandon(w, t)
        BY <1>0, <3>4 DEF Abandon, Holds, QueueTypeOK
      <3>5. ASSUME NEW status, AckWith(w, t, status)  PROVE job'[t].status = "done"
        BY <1>0, <3>2, <3>3, <3>5 DEF AckWith, QueueTypeOK, Job
      <3> QED
        BY <3>1, <3>3, <3>4, <3>5
    <2>4. ASSUME NEW u \in Tasks, ClaimJob(w, u)  PROVE FALSE
      <3>1. job'[u].status = "claimed" /\ OnlyJob(u)
        BY <1>0, <2>4, ClaimFacts DEF ClaimJob
      <3> QED
        BY <3>1 DEF OnlyJob
    <2>5. CASE job' = job
      BY <2>5
    <2> QED
      BY <1>4, <2>1, <2>2, <2>3, <2>4, <2>5
      DEF RunToolWorker, MarkInFlight, DecodeFails, RecordStarted, CallTool, DecideOutcome,
          PutResult, RecordOutcome, queueVars
  <1>5. ASSUME NEW w \in Workers, Panic(w)  PROVE FALSE
    BY <1>5 DEF Panic, Without
  <1>6. CASE Restart
    BY <1>6 DEF Restart, Without
  <1>7. CASE UNCHANGED vars
    BY <1>7 DEF vars, queueVars
  <1> QED
    BY <1>1, <1>2, <1>3, <1>4, <1>5, <1>6, <1>7 DEF Next, Running, Environment

\* Nothing here takes a blob away: only the retention sweep does.
LEMMA BlobStays ==
    ASSUME Typed, [Next]_vars, NEW t \in Tasks, HasBlob(t)
    PROVE  HasBlob(t)'
  <1>1. CASE UNCHANGED blob
    BY <1>1 DEF HasBlob
  <1>2. ASSUME NEW u \in Tasks, NEW status \in FinishedStatus, TryPut(u, status)
        PROVE  HasBlob(t)'
    BY <1>2, TryPutFacts DEF HasBlob
  <1>3. ASSUME NEW w \in Workers, PutResult(w)  PROVE HasBlob(t)'
    <2>1. TaskOf(w) \in Tasks /\ worker[w].outcome \in FinishedStatus
      BY <1>3 DEF PutResult, At, TaskOf, Typed, GoodWorker, Busy, WorkerPC
    <2> QED
      BY <1>2, <1>3, <2>1 DEF PutResult
  <1>4. ASSUME NEW c \in Cancels, CancelPut(c)  PROVE HasBlob(t)'
    <2>1. CancelOf(c) \in Tasks /\ "cancelled" \in FinishedStatus
      BY <1>4 DEF CancelPut, CancelAt, CancelOf, Typed, GoodCancel, FinishedStatus
    <2> QED
      BY <1>2, <1>4, <2>1 DEF CancelPut
  <1>5. ASSUME NEW u \in Tasks, EnqueueTask(u)  PROVE UNCHANGED blob
    BY <1>5
    DEF EnqueueTask, EnqueueMark, EnqueueJob, EnqueueFails, EnqueueUnmark, EnqueueRecord
  <1>6. ASSUME NEW w \in Workers, RunToolWorker(w) \/ Panic(w), ~PutResult(w)
        PROVE  UNCHANGED blob
    BY <1>6
    DEF RunToolWorker, ClaimJob, MarkInFlight, DecodeFails, RecordStarted, CallTool,
        DecideOutcome, RecordOutcome, AckJob, DeadLetterJob, NackJob, SettleFails, Panic,
        Finish
  <1>7. ASSUME NEW c \in Cancels, CancelTask(c), ~CancelPut(c)  PROVE UNCHANGED blob
    BY <1>7
    DEF CancelTask, CancelStep, CancelPeek, CancelForget, CancelRecord, CancelRemove,
        CancelSignal, CancelLog, CancelCheck, CancelFails
  <1>8. ASSUME NEW u \in Tasks,
               QueueExpireLease(u) \/ QueueEndBackoff(u) \/ QueueDropRecord(u)
        PROVE  UNCHANGED blob
    BY <1>8 DEF QueueExpireLease, QueueEndBackoff, QueueDropRecord
  <1>9. CASE Restart \/ UNCHANGED vars
    BY <1>1, <1>9 DEF Restart, vars
  <1> QED
    BY <1>1, <1>3, <1>4, <1>5, <1>6, <1>7, <1>8, <1>9 DEF Next, Running, Environment

(***************************************************************************)
(* An outcome once answered                                                *)
(***************************************************************************)
\* Without slow workers, a worker that is busy keeps its job in the queue.
LEMMA BusyHolds ==
    ASSUME ClaimInv, NEW w \in Workers, worker[w].pc \in Busy, Without({"lease"})
    PROVE  Holds(w, TaskOf(w)) /\ Live(TaskOf(w))
  BY DEF ClaimInv, WorkerClaim, ClaimSound, Holds, Live

\* A settled job stays out of the queue and out of the in-flight map.
LEMMA SettledStays ==
    ASSUME Typed, Typed', ClaimInv, [Next]_vars, NEW t \in Tasks, Landed(t), ~Live(t),
           Without({"lease"})
    PROVE  /\ ~Live(t)'
           /\ t \in inFlight' => t \in inFlight
           /\ pointer'[t] = pointer[t]
  <1>0. QueueTypeOK
    BY DEF Typed
  <1> DEFINE Settled == /\ ~Live(t)'
                        /\ t \in inFlight' => t \in inFlight
                        /\ pointer'[t] = pointer[t]
  <1>1. ASSUME NEW u \in Tasks, EnqueueTask(u)  PROVE Settled
    <2>1. CASE u = t
      BY <1>1, <2>1
      DEF EnqueueTask, EnqueueMark, EnqueueJob, EnqueueFails, EnqueueUnmark,
          EnqueueRecord, SubmitGoto, Landed, Live, Waiting, queueVars
    <2>2. CASE u # t
      BY <1>0, <1>1, <2>2
      DEF EnqueueTask, EnqueueMark, EnqueueJob, EnqueueFails, EnqueueUnmark,
          EnqueueRecord, Enqueue, Live, Waiting, queueVars, QueueTypeOK
    <2> QED
      BY <2>1, <2>2
  <1>2. ASSUME NEW c \in Cancels, CancelTask(c)  PROVE Settled
    BY <1>0, <1>2
    DEF CancelTask, CancelStep, CancelPeek, CancelForget, CancelPut, CancelRecord,
        CancelRemove, CancelSignal, CancelLog, CancelCheck, CancelFails, Cancel, NoJob,
        Live, Waiting, QueueTypeOK, queueVars
  <1>3. ASSUME NEW u \in Tasks,
               QueueExpireLease(u) \/ QueueEndBackoff(u) \/ QueueDropRecord(u)
        PROVE  Settled
    <2>1. ExpireLease(u) \/ EndBackoff(u) \/ DropRecord(u)
      BY <1>3 DEF QueueExpireLease, QueueEndBackoff, QueueDropRecord
    <2>2. OnlyJob(u) /\ pointer' = pointer /\ inFlight' = inFlight
      BY <1>0, <1>3, <2>1, TimerFacts
      DEF QueueExpireLease, QueueEndBackoff, QueueDropRecord
    <2>3. CASE u # t
      BY <2>2, <2>3 DEF OnlyJob, Live, Waiting
    <2>4. CASE u = t
      <3>1. DropRecord(t)
        BY <2>1, <2>4 DEF ExpireLease, EndBackoff, Live, Waiting
      <3> QED
        BY <1>0, <2>2, <3>1 DEF DropRecord, NoJob, Live, Waiting, QueueTypeOK
    <2> QED
      BY <2>3, <2>4
  <1>4. ASSUME NEW w \in Workers, NEW u \in Tasks, ClaimJob(w, u)  PROVE Settled
    <2>1. u # t /\ OnlyJob(u) /\ pointer' = pointer /\ inFlight' = inFlight
      BY <1>0, <1>4, ClaimFacts DEF ClaimJob, Live, Waiting
    <2> QED
      BY <2>1 DEF OnlyJob, Live, Waiting
  <1>5. ASSUME NEW w \in Workers, worker[w].pc \in Busy, RunToolWorker(w) \/ Panic(w),
               \A u \in Tasks : ~ClaimJob(w, u)
        PROVE  Settled
    <2>1. TaskOf(w) \in Tasks \ {t}
      BY <1>5, BusyHolds, WorkerFields DEF TaskOf
    <2>2. inFlight' \subseteq inFlight \union {TaskOf(w)}
      BY <1>5
      DEF RunToolWorker, MarkInFlight, DecodeFails, RecordStarted, CallTool,
          DecideOutcome, PutResult, RecordOutcome, AckJob, DeadLetterJob, NackJob,
          SettleFails, Panic, Finish
    <2>3. job'[t] = job[t] /\ pointer'[t] = pointer[t]
      BY <1>0, <1>5, <2>1
      DEF RunToolWorker, MarkInFlight, DecodeFails, RecordStarted, CallTool,
          DecideOutcome, PutResult, RecordOutcome, AckJob, AckWith, DeadLetterJob,
          DeadLetter, NackJob, Nack, UseAttempt, SettleFails, Panic, Abandon,
          QueueTypeOK, queueVars
    <2> QED
      BY <2>1, <2>2, <2>3 DEF Live, Waiting
  <1>6. ASSUME NEW w \in Workers, RunToolWorker(w) \/ Panic(w),
               \A u \in Tasks : ~ClaimJob(w, u)
        PROVE  worker[w].pc \in Busy
    BY <1>6
    DEF RunToolWorker, MarkInFlight, DecodeFails, RecordStarted, CallTool, DecideOutcome,
        PutResult, RecordOutcome, AckJob, DeadLetterJob, NackJob, SettleFails, Panic, At,
        Busy, WorkerPC
  <1>7. CASE Restart
    BY <1>0, <1>7 DEF Restart, Live, Waiting, QueueTypeOK, Job
  <1>8. CASE UNCHANGED vars
    BY <1>8 DEF vars, queueVars, Live, Waiting
  <1>9. ASSUME NEW w \in Workers, RunToolWorker(w) \/ Panic(w)  PROVE Settled
    BY <1>4, <1>5, <1>6, <1>9
  <1> QED
    BY <1>1, <1>2, <1>3, <1>7, <1>8, <1>9 DEF Next, Running, Environment

\* Without slow workers an answer that is an outcome stays an outcome, through
\* retries, cancellations and restarts.
THEOREM OutcomesStick == Spec => OutcomeSticks
  <1>1. ASSUME Typed, Typed', ClaimInv, BlobInv, BlobInv', [Next]_vars, NEW t \in Tasks,
               Terminal(Snapshot(t)), Without({"lease"})
        PROVE  Terminal(Snapshot(t)')
    <2>1. Landed(t) /\ ~Live(t)
      <3>1. CASE pointer[t] # "none"
        BY <1>1, <3>1 DEF ClaimInv, PointerFinal
      <3>2. CASE pointer[t] = "none"
        BY <1>1, <3>2 DEF BlobInv, BlobCore, Terminal, Snapshot, FinishedStatus
      <3> QED
        BY <3>1, <3>2
    <2>2. /\ ~Live(t)'
          /\ t \in inFlight' => t \in inFlight
          /\ pointer'[t] = pointer[t]
      BY <1>1, <2>1, SettledStays
    <2>3. HasBlob(t) => HasBlob(t)'
      BY <1>1, BlobStays
    <2>4. HasBlob(t)' => blob'[t].status \in FinishedStatus
      BY <1>1 DEF HasBlob, Typed, StoreTypeOK, Blob
    <2> QED
      BY <1>1, <2>1, <2>2, <2>3, <2>4
      DEF Terminal, Snapshot, Live, Waiting, HasBlob, Typed, QueueTypeOK, PointerStatus,
          FinishedStatus
  <1>2. Typed /\ Typed' /\ ClaimInv /\ BlobInv /\ BlobInv' /\ [Next]_vars =>
          [\A t \in Tasks :
             Terminal(Snapshot(t)) /\ Without({"lease"}) => Terminal(Snapshot(t)')]_vars
    BY <1>1
  <1> QED
    BY <1>2, AlwaysTyped, AlwaysClaim, AlwaysBlob, PTL DEF Spec, OutcomeSticks

(***************************************************************************)
(* Payloads that cannot be read                                            *)
(***************************************************************************)
\* Who writes a blob, and what: a worker its outcome, a request "cancelled".
Writes(t, status) == blob'[t] = [status |-> status, expired |-> FALSE]

LEMMA BlobWriters ==
    ASSUME Typed, [Next]_vars, NEW t \in Tasks
    PROVE  \/ blob'[t] = blob[t]
           \/ \E w \in Workers : /\ PutResult(w) /\ TaskOf(w) = t
                                 /\ Writes(t, worker[w].outcome)
           \/ \E c \in Cancels : CancelPut(c) /\ CancelOf(c) = t /\ Writes(t, "cancelled")
  <1>1. ASSUME NEW u \in Tasks, NEW status, TryPut(u, status)
        PROVE  blob'[t] = blob[t] \/ (u = t /\ Writes(t, status))
    BY <1>1 DEF TryPut, Put, Typed, StoreTypeOK, Writes
  <1>2. ASSUME NEW w \in Workers, PutResult(w)
        PROVE  blob'[t] = blob[t] \/ (TaskOf(w) = t /\ Writes(t, worker[w].outcome))
    <2>1. TaskOf(w) \in Tasks
      BY <1>2, WorkerFields DEF PutResult, At, TaskOf, Busy, WorkerPC
    <2> QED
      BY <1>1, <1>2, <2>1 DEF PutResult
  <1>3. ASSUME NEW c \in Cancels, CancelPut(c)
        PROVE  blob'[t] = blob[t] \/ (CancelOf(c) = t /\ Writes(t, "cancelled"))
    <2>1. CancelOf(c) \in Tasks
      BY <1>3 DEF CancelPut, CancelAt, CancelOf, Typed, GoodCancel
    <2> QED
      BY <1>1, <1>3, <2>1 DEF CancelPut
  <1>4. ASSUME NEW u \in Tasks, EnqueueTask(u)  PROVE UNCHANGED blob
    BY <1>4
    DEF EnqueueTask, EnqueueMark, EnqueueJob, EnqueueFails, EnqueueUnmark, EnqueueRecord
  <1>5. ASSUME NEW w \in Workers, RunToolWorker(w) \/ Panic(w), ~PutResult(w)
        PROVE  UNCHANGED blob
    BY <1>5
    DEF RunToolWorker, ClaimJob, MarkInFlight, DecodeFails, RecordStarted, CallTool,
        DecideOutcome, RecordOutcome, AckJob, DeadLetterJob, NackJob, SettleFails, Panic,
        Finish
  <1>6. ASSUME NEW c \in Cancels, CancelTask(c), ~CancelPut(c)  PROVE UNCHANGED blob
    BY <1>6
    DEF CancelTask, CancelStep, CancelPeek, CancelForget, CancelRecord, CancelRemove,
        CancelSignal, CancelLog, CancelCheck, CancelFails
  <1>7. ASSUME NEW u \in Tasks,
               QueueExpireLease(u) \/ QueueEndBackoff(u) \/ QueueDropRecord(u)
        PROVE  UNCHANGED blob
    BY <1>7 DEF QueueExpireLease, QueueEndBackoff, QueueDropRecord
  <1>8. CASE Restart \/ UNCHANGED vars
    BY <1>8 DEF Restart, vars
  <1> QED
    BY <1>2, <1>3, <1>4, <1>5, <1>6, <1>7, <1>8 DEF Next, Running, Environment

\* A worker that holds a job whose payload it cannot read settles it only after
\* its failure is written, or a cancellation over it.
Gives(t) == blob[t].status \in {"failed", "cancelled"}

UnreadInv == Without({"put", "lease"}) =>
    \A w \in Workers : Written(w) /\ TaskOf(w) \in undecodable => Gives(TaskOf(w))

LEMMA UnreadInit == Init => UnreadInv
  BY DEF Init, IdleWorker, UnreadInv, Written

\* A worker comes to write its outcome by its own steps only.
LEMMA WrittenStep ==
    ASSUME Typed, [Next]_vars, NEW w \in Workers, Written(w)'
    PROVE  /\ undecodable' = undecodable
           /\ TaskOf(w)' = TaskOf(w)
           /\ Written(w) \/ PutResult(w) \/ DecideOutcome(w)
  <1> DEFINE Comes == /\ undecodable' = undecodable
                      /\ TaskOf(w)' = TaskOf(w)
                      /\ Written(w) \/ PutResult(w) \/ DecideOutcome(w)
  <1>0. DOMAIN worker = Workers
    BY DEF Typed
  <1>1. CASE UNCHANGED <<worker, undecodable>>
    BY <1>1 DEF Written, TaskOf
  <1>2. ASSUME NEW u \in Tasks, EnqueueTask(u)  PROVE UNCHANGED <<worker, undecodable>>
    BY <1>2
    DEF EnqueueTask, EnqueueMark, EnqueueJob, EnqueueFails, EnqueueUnmark, EnqueueRecord
  <1>3. ASSUME NEW c \in Cancels, CancelTask(c)  PROVE UNCHANGED <<worker, undecodable>>
    BY <1>3
    DEF CancelTask, CancelStep, CancelPeek, CancelForget, CancelPut, CancelRecord,
        CancelRemove, CancelSignal, CancelLog, CancelCheck, CancelFails
  <1>4. ASSUME NEW u \in Tasks,
               QueueExpireLease(u) \/ QueueEndBackoff(u) \/ QueueDropRecord(u)
        PROVE  UNCHANGED <<worker, undecodable>>
    BY <1>4 DEF QueueExpireLease, QueueEndBackoff, QueueDropRecord
  <1>5. CASE Restart
    BY <1>5 DEF Restart, IdleWorker, Written
  <1>6. CASE UNCHANGED vars
    BY <1>1, <1>6 DEF vars
  <1>7. ASSUME NEW v \in Workers, RunToolWorker(v) \/ Panic(v), v # w
        PROVE  worker'[w] = worker[w] /\ undecodable' = undecodable
    BY <1>0, <1>7
    DEF RunToolWorker, ClaimJob, MarkInFlight, DecodeFails, RecordStarted, CallTool,
        DecideOutcome, PutResult, RecordOutcome, AckJob, DeadLetterJob, NackJob,
        SettleFails, Panic, Finish, Goto, Resolve
  <1>8. CASE RunToolWorker(w) \/ Panic(w)
    <2>1. CASE PutResult(w) \/ RecordOutcome(w)
      BY <2>1, GotoFacts DEF PutResult, RecordOutcome, Written, At, TaskOf
    <2>2. CASE DecideOutcome(w)
      BY <2>2, ResolveFacts DEF DecideOutcome, TaskOf
    <2>3. CASE MarkInFlight(w) \/ RecordStarted(w)
      BY <2>3, GotoFacts DEF MarkInFlight, RecordStarted, Written
    <2>4. CASE DecodeFails(w) \/ CallTool(w)
      BY <2>4, ResolveFacts DEF DecodeFails, CallTool, Written
    <2>5. CASE \E t \in Tasks : ClaimJob(w, t)
      BY <2>5 DEF ClaimJob, Written, Typed
    <2>6. CASE AckJob(w) \/ DeadLetterJob(w) \/ NackJob(w) \/ SettleFails(w) \/ Panic(w)
      BY <2>6, LeaveFacts
      DEF AckJob, DeadLetterJob, NackJob, SettleFails, Panic, Finish, Written,
          IdleWorker, DeadWorker
    <2> QED
      BY <1>8, <2>1, <2>2, <2>3, <2>4, <2>5, <2>6 DEF RunToolWorker
  <1>9. ASSUME NEW v \in Workers, RunToolWorker(v) \/ Panic(v)  PROVE Comes
    BY <1>7, <1>8, <1>9 DEF Written, TaskOf
  <1> QED
    BY <1>1, <1>2, <1>3, <1>4, <1>5, <1>6, <1>9 DEF Next, Running, Environment

LEMMA UnreadStep ==
    Typed /\ HolderInv /\ ClaimInv /\ UnreadInv /\ [Next]_vars => UnreadInv'
  <1> SUFFICES ASSUME Typed, HolderInv, ClaimInv, UnreadInv, [Next]_vars,
                      Without({"put", "lease"}), NEW w \in Workers, Written(w)',
                      NEW t, t = TaskOf(w)', t \in undecodable'
               PROVE  Gives(t)'
    BY DEF UnreadInv, Gives, Written, Without
  <1>1. /\ t = TaskOf(w) /\ t \in undecodable /\ t \in Tasks
        /\ Written(w) \/ PutResult(w) \/ DecideOutcome(w)
    BY WrittenStep DEF Typed
  <1>2. worker[w].pc \in Busy
    BY <1>1 DEF Written, PutResult, DecideOutcome, At, Busy, WorkerPC
  <1>3. ~Decoded(w)
    BY <1>1, <1>2 DEF ClaimInv, WorkerClaim, VerdictSound
  <1>4. CASE PutResult(w)
    BY <1>1, <1>3, <1>4
    DEF PutResult, TryPut, Put, Without, Gives, Typed, StoreTypeOK, Decoded, Decided, At
  <1>5. CASE Written(w)
    <2>1. Gives(t)
      BY <1>1, <1>5 DEF UnreadInv
    <2>2. ASSUME NEW v \in Workers, PutResult(v), TaskOf(v) = t  PROVE FALSE
      <3>1. worker[v].pc \in Busy /\ v # w
        BY <1>5, <2>2 DEF PutResult, At, Busy, WorkerPC, Written
      <3>2. Holds(v, t) /\ Holds(w, t)
        BY <1>1, <1>2, <2>2, <3>1, BusyHolds DEF Without
      <3> QED
        BY <3>1, <3>2 DEF Holds
    <2>3. ASSUME Writes(t, "cancelled")  PROVE Gives(t)'
      BY <2>3 DEF Writes, Gives
    <2> QED
      BY <1>1, <2>1, <2>2, <2>3, BlobWriters DEF Gives
  <1>6. ~DecideOutcome(w)
    BY <1>3 DEF DecideOutcome, At, Decoded
  <1> QED
    BY <1>1, <1>4, <1>5, <1>6

\* A job whose payload its worker cannot read is dead-lettered with its failure,
\* and never retried or acked.
THEOREM UnreadableAtOnce == Spec => UnreadableFails
  <1> DEFINE Ends(t) == job'[t].status = "dead" /\ Gives(t)
  <1>1. ASSUME Typed, HolderInv, ClaimInv, UnreadInv, [Next]_vars, NEW t \in undecodable,
               Without({"put", "lease"}), job[t].status = "claimed",
               job[t].holder # NoWorker, job'[t].status # "claimed"
        PROVE  Ends(t)
    <2>0. QueueTypeOK /\ t \in Tasks
      BY <1>1 DEF Typed
    <2>1. PICK w \in Workers : job[t].holder = w /\ Holds(w, t)
      BY <1>1, <2>0 DEF QueueTypeOK, Job, Holds
    <2>2. TaskOf(w) = t /\ worker[w].pc \in Busy
      <3>1. TaskOf(w) = t
        BY <1>1, <2>0, <2>1 DEF HolderInv
      <3> QED
        BY <1>1, <2>0, <3>1 DEF Typed, GoodWorker, TaskOf
    <2>3. Landed(t) /\ ~Decoded(w)
      BY <1>1, <2>2 DEF ClaimInv, WorkerClaim, ClaimSound, VerdictSound
    <2>4. ASSUME NEW u \in Tasks, EnqueueTask(u)  PROVE job'[t] = job[t]
      BY <2>0, <2>3, <2>4
      DEF EnqueueTask, EnqueueMark, EnqueueJob, EnqueueFails, EnqueueUnmark,
          EnqueueRecord, Enqueue, SubmitGoto, Landed, QueueTypeOK, queueVars
    <2>5. ASSUME NEW c \in Cancels, CancelTask(c)  PROVE job'[t] = job[t]
      BY <1>1, <2>0, <2>5
      DEF CancelTask, CancelStep, CancelPeek, CancelForget, CancelPut, CancelRecord,
          CancelRemove, CancelSignal, CancelLog, CancelCheck, CancelFails, Cancel,
          Waiting, QueueTypeOK, queueVars
    <2>6. ASSUME NEW u \in Tasks,
                 QueueExpireLease(u) \/ QueueEndBackoff(u) \/ QueueDropRecord(u)
          PROVE  job'[t] = job[t]
      BY <1>1, <2>0, <2>6
      DEF QueueExpireLease, ExpireLease, UseAttempt, QueueEndBackoff, EndBackoff,
          QueueDropRecord, DropRecord, QueueTypeOK, Without
    <2>7. ASSUME NEW v \in Workers, NEW u \in Tasks, ClaimJob(v, u)
          PROVE  job'[t].status = "claimed"
      BY <1>1, <2>0, <2>7 DEF ClaimJob, Claim, QueueTypeOK
    <2>8. ASSUME NEW v \in Workers,
                 AckJob(v) \/ NackJob(v) \/ DeadLetterJob(v) \/ SettleFails(v) \/ Panic(v)
          PROVE  job'[t].status = "claimed" \/ Ends(t)
      <3>1. CASE TaskOf(v) # t
        BY <1>1, <2>0, <2>8, <3>1
        DEF AckJob, AckWith, NackJob, Nack, UseAttempt, DeadLetterJob, DeadLetter,
            SettleFails, Panic, Abandon, QueueTypeOK
      <3>2. CASE SettleFails(v) \/ Panic(v)
        BY <1>1, <2>0, <3>2 DEF SettleFails, Panic, Abandon, QueueTypeOK, Job
      <3>3. CASE TaskOf(v) = t /\ (AckJob(v) \/ NackJob(v) \/ DeadLetterJob(v))
        <4>1. v = w
          BY <2>1, <3>3
          DEF AckJob, AckWith, NackJob, Nack, DeadLetterJob, DeadLetter, Holds
        <4>2. At(w, "settle") /\ DeadLetterJob(w)
          BY <2>3, <3>3, <4>1
          DEF AckJob, NackJob, DeadLetterJob, Decoded, Decided, At
        <4>3. Gives(t)
          BY <1>1, <2>2, <4>2 DEF UnreadInv, Written, At
        <4>4. job'[t].status = "dead"
          BY <2>0, <2>2, <4>2 DEF DeadLetterJob, DeadLetter, QueueTypeOK, Job
        <4> QED
          BY <4>3, <4>4
      <3> QED
        BY <2>8, <3>1, <3>2, <3>3
    <2>9. ASSUME NEW v \in Workers,
                 \/ MarkInFlight(v) \/ DecodeFails(v) \/ RecordStarted(v) \/ CallTool(v)
                 \/ DecideOutcome(v) \/ PutResult(v) \/ RecordOutcome(v)
          PROVE  job'[t] = job[t]
      BY <2>9
      DEF MarkInFlight, DecodeFails, RecordStarted, CallTool, DecideOutcome, PutResult,
          RecordOutcome, queueVars
    <2>10. CASE Restart
      BY <1>1, <2>0, <2>10 DEF Restart, QueueTypeOK, Job
    <2>11. CASE UNCHANGED vars
      BY <1>1, <2>11 DEF vars, queueVars
    <2> QED
      BY <1>1, <2>4, <2>5, <2>6, <2>7, <2>8, <2>9, <2>10, <2>11
      DEF Next, Running, Environment, RunToolWorker
  <1>2. Typed /\ HolderInv /\ ClaimInv /\ UnreadInv /\ [Next]_vars =>
          [\A t \in undecodable :
             Without({"put", "lease"}) /\ job[t].status = "claimed"
                 /\ job[t].holder # NoWorker /\ job'[t].status # "claimed"
             => job'[t].status = "dead" /\ blob[t].status \in {"failed", "cancelled"}]_vars
    BY <1>1 DEF Gives
  <1> QED
    BY <1>2, UnreadInit, UnreadStep, AlwaysTyped, AlwaysHolder, AlwaysClaim, PTL
    DEF Spec, UnreadableFails

(***************************************************************************)
(* The audit trail                                                         *)
(***************************************************************************)
WorkerAudit(w) ==
    Without({"audit"}) =>
        /\ worker[w].pc \in {"call", "decide"} \/ (Decided(w) /\ worker[w].outcome # "failed")
             => "started" \in audit[TaskOf(w)]
        /\ At(w, "settle") /\ worker[w].outcome # "retry" =>
             worker[w].outcome \in audit[TaskOf(w)]

AuditInv == AuditedOutcome /\ \A w \in Workers : WorkerAudit(w)

LEMMA TrailInit == Init => AuditInv
  BY DEF Init, QueueInit, IdleWorker, AuditInv, AuditedOutcome, WorkerAudit, Decided, At

LEMMA TryRecordFacts ==
    ASSUME Typed, NEW t \in Tasks, NEW event, TryRecord(t, event)
    PROVE  /\ \A u \in Tasks : audit[u] \subseteq audit'[u]
           /\ Without({"audit"}) => event \in audit'[t]
  BY DEF TryRecord, Record, Typed, AuditTypeOK, Without

\* The log only grows.
LEMMA AuditGrows ==
    ASSUME Typed, [Next]_vars, NEW t \in Tasks  PROVE audit[t] \subseteq audit'[t]
  <1>1. ASSUME NEW u \in Tasks, NEW event, TryRecord(u, event)
        PROVE  audit[t] \subseteq audit'[t]
    BY <1>1, TryRecordFacts
  <1>2. ASSUME NEW u \in Tasks, EnqueueTask(u)  PROVE audit[t] \subseteq audit'[t]
    BY <1>1, <1>2
    DEF EnqueueTask, EnqueueMark, EnqueueJob, EnqueueFails, EnqueueUnmark, EnqueueRecord
  <1>3. ASSUME NEW w \in Workers, RunToolWorker(w) \/ Panic(w)
        PROVE  audit[t] \subseteq audit'[t]
    <2>1. CASE RecordStarted(w) \/ RecordOutcome(w)
      <3>1. TaskOf(w) \in Tasks
        BY <2>1, WorkerFields DEF RecordStarted, RecordOutcome, At, TaskOf, Busy, WorkerPC
      <3> QED
        BY <1>1, <2>1, <3>1 DEF RecordStarted, RecordOutcome
    <2>2. CASE ~(RecordStarted(w) \/ RecordOutcome(w))
      BY <1>3, <2>2
      DEF RunToolWorker, ClaimJob, MarkInFlight, DecodeFails, CallTool, DecideOutcome,
          PutResult, AckJob, DeadLetterJob, NackJob, SettleFails, Panic, Finish
    <2> QED
      BY <2>1, <2>2
  <1>4. ASSUME NEW c \in Cancels, CancelTask(c)  PROVE audit[t] \subseteq audit'[t]
    <2>1. CASE CancelRecord(c) \/ CancelLog(c)
      <3>1. CancelOf(c) \in Tasks
        BY <2>1 DEF CancelRecord, CancelLog, CancelAt, CancelOf, Typed, GoodCancel
      <3> QED
        BY <1>1, <2>1, <3>1 DEF CancelRecord, CancelLog
    <2>2. CASE ~(CancelRecord(c) \/ CancelLog(c))
      BY <1>4, <2>2
      DEF CancelTask, CancelStep, CancelPeek, CancelForget, CancelPut, CancelRemove,
          CancelSignal, CancelCheck, CancelFails
    <2> QED
      BY <2>1, <2>2
  <1>5. ASSUME NEW u \in Tasks,
               QueueExpireLease(u) \/ QueueEndBackoff(u) \/ QueueDropRecord(u)
        PROVE  UNCHANGED audit
    BY <1>5 DEF QueueExpireLease, QueueEndBackoff, QueueDropRecord
  <1>6. CASE Restart \/ UNCHANGED vars
    BY <1>6 DEF Restart, vars
  <1> QED
    BY <1>2, <1>3, <1>4, <1>5, <1>6 DEF Next, Running, Environment

LEMMA AuditKept ==
    ASSUME Typed, AuditInv, \A t \in Tasks : audit[t] \subseteq audit'[t],
           \A w \in Workers : WorkerAudit(w)' \/ worker'[w] = worker[w],
           \A t \in Tasks : \/ pointer'[t] = pointer[t]
                            \/ Without({"audit"}) => {"started", pointer'[t]} \subseteq audit[t]
    PROVE  AuditInv'
  <1>1. ASSUME NEW w \in Workers, worker'[w] = worker[w]  PROVE WorkerAudit(w)'
    <2>1. WorkerAudit(w)
      BY DEF AuditInv
    <2>2. TaskOf(w) \in Tasks \/ worker[w].pc \in {"idle", "dead"}
      BY WorkerFields DEF TaskOf, Busy, Typed, GoodWorker, WorkerState
    <2> QED
      BY <1>1, <2>1, <2>2 DEF WorkerAudit, Decided, At, TaskOf, Without
  <1>2. AuditedOutcome'
    BY DEF AuditInv, AuditedOutcome, Without
  <1> QED
    BY <1>1, <1>2 DEF AuditInv, WorkerAudit

LEMMA AuditWorker ==
    ASSUME Typed, AuditInv, NEW w \in Workers, RunToolWorker(w) \/ Panic(w),
           \A t \in Tasks : audit[t] \subseteq audit'[t]
    PROVE  AuditInv'
  <1>0. QueueTypeOK
    BY DEF Typed
  <1>1. WorkerAudit(w)
    BY DEF AuditInv
  <1>2. ASSUME NEW t \in Tasks, ClaimJob(w, t)  PROVE AuditInv'
    <2>1. pointer' = pointer /\ worker'[w].pc = "decode" /\ OnlyWorker(w)
      BY <1>0, <1>2, ClaimFacts DEF ClaimJob, Typed, OnlyWorker
    <2>2. WorkerAudit(w)'
      BY <2>1 DEF WorkerAudit, Decided, At
    <2> QED
      BY <2>1, <2>2, AuditKept DEF OnlyWorker, WorkerAudit
  <1>3. ASSUME MarkInFlight(w) \/ DecodeFails(w) \/ RecordStarted(w) \/ CallTool(w)
                 \/ DecideOutcome(w) \/ PutResult(w) \/ RecordOutcome(w)
        PROVE  AuditInv'
    <2>1. PICK t \in Tasks : t = TaskOf(w)
      BY <1>3, WorkerFields
      DEF MarkInFlight, DecodeFails, RecordStarted, CallTool, DecideOutcome, PutResult,
          RecordOutcome, At, TaskOf, Busy, WorkerPC
    <2>2. pointer' = pointer /\ OnlyWorker(w) /\ TaskOf(w)' = t
      BY <1>3, <2>1, GotoFacts, ResolveFacts
      DEF MarkInFlight, DecodeFails, RecordStarted, CallTool, DecideOutcome, PutResult,
          RecordOutcome, TaskOf, queueVars
    <2> DEFINE Started == Without({"audit"}) => "started" \in audit'[t]
    <2>3. CASE MarkInFlight(w)
      <3>1. worker'[w].pc = "start"
        BY <2>3, GotoFacts DEF MarkInFlight
      <3>2. WorkerAudit(w)'
        BY <3>1 DEF WorkerAudit, Decided, At
      <3> QED
        BY <2>2, <3>2, AuditKept DEF OnlyWorker, WorkerAudit
    <2>4. CASE DecodeFails(w)
      <3>1. worker'[w].pc = "put" /\ worker'[w].outcome = "failed"
        BY <2>4, ResolveFacts DEF DecodeFails
      <3>2. WorkerAudit(w)'
        BY <3>1 DEF WorkerAudit, Decided, At
      <3> QED
        BY <2>2, <3>2, AuditKept DEF OnlyWorker, WorkerAudit
    <2>5. CASE RecordStarted(w)
      <3>1. worker'[w].pc = "call"
        BY <2>5, GotoFacts DEF RecordStarted
      <3>2. Started
        BY <2>1, <2>5, TryRecordFacts DEF RecordStarted
      <3>3. WorkerAudit(w)'
        BY <2>2, <3>1, <3>2 DEF WorkerAudit, Decided, At, Without
      <3> QED
        BY <2>2, <3>3, AuditKept DEF OnlyWorker, WorkerAudit
    <2>6. CASE CallTool(w) \/ DecideOutcome(w) \/ PutResult(w)
      <3>1. worker'[w].pc \in {"decide", "put", "record"}
        BY <2>6, GotoFacts, ResolveFacts DEF CallTool, DecideOutcome, PutResult
      <3>2. worker'[w].outcome # "failed" \/ worker'[w].pc = "decide" => Started
        <4>1. CASE CallTool(w) \/ DecideOutcome(w)
          BY <1>1, <2>1, <4>1 DEF WorkerAudit, CallTool, DecideOutcome, At
        <4>2. CASE PutResult(w)
          <5>1. /\ worker'[w].outcome = worker[w].outcome /\ worker'[w].pc = "record"
                /\ Decided(w)
            BY <4>2, GotoFacts DEF PutResult, At, Decided
          <5> QED
            BY <1>1, <2>1, <5>1 DEF WorkerAudit
        <4> QED
          BY <2>6, <4>1, <4>2
      <3>3. WorkerAudit(w)'
        BY <2>2, <3>1, <3>2 DEF WorkerAudit, Decided, At, Without
      <3> QED
        BY <2>2, <3>3, AuditKept DEF OnlyWorker, WorkerAudit
    <2>7. CASE RecordOutcome(w)
      <3>1. /\ worker'[w].pc = "settle" /\ worker'[w].outcome = worker[w].outcome
            /\ Decided(w)
        BY <2>7, GotoFacts DEF RecordOutcome, At, Decided
      <3>2. worker[w].outcome # "failed" => Started
        BY <1>1, <2>1, <3>1 DEF WorkerAudit
      <3>3. Without({"audit"}) /\ worker[w].outcome # "retry" =>
              worker[w].outcome \in audit'[t]
        BY <2>1, <2>7, TryRecordFacts DEF RecordOutcome
      <3>4. WorkerAudit(w)'
        BY <2>2, <3>1, <3>2, <3>3 DEF WorkerAudit, Decided, At, Without
      <3> QED
        BY <2>2, <3>4, AuditKept DEF OnlyWorker, WorkerAudit
    <2> QED
      BY <1>3, <2>3, <2>4, <2>5, <2>6, <2>7
  <1>4. ASSUME AckJob(w) \/ DeadLetterJob(w) \/ NackJob(w) \/ SettleFails(w) \/ Panic(w)
        PROVE  AuditInv'
    <2>1. worker'[w].pc \in {"idle", "dead"} /\ OnlyWorker(w)
      BY <1>4, LeaveFacts DEF AckJob, DeadLetterJob, NackJob, SettleFails, Panic, Finish
    <2>2. WorkerAudit(w)'
      BY <2>1 DEF WorkerAudit, Decided, At
    <2>3. CASE ~AckJob(w)
      <3>1. pointer' = pointer
        BY <1>4, <2>3
        DEF DeadLetterJob, DeadLetter, NackJob, Nack, SettleFails, Panic, Abandon
      <3> QED
        BY <2>1, <2>2, <3>1, AuditKept DEF OnlyWorker, WorkerAudit
    <2>4. CASE AckJob(w)
      <3>1. PICK t \in Tasks : t = TaskOf(w)
        BY <2>4, WorkerFields DEF AckJob, At, TaskOf, Busy, WorkerPC
      <3>2. /\ pointer'[t] = worker[w].outcome
            /\ \A u \in Tasks \ {t} : pointer'[u] = pointer[u]
        BY <1>0, <2>4, <3>1 DEF AckJob, AckWith, QueueTypeOK
      <3>3. Without({"audit"}) => {"started", worker[w].outcome} \subseteq audit[t]
        BY <1>1, <2>4, <3>1 DEF WorkerAudit, AckJob, At, Decided
      <3>4. \A u \in Tasks : \/ pointer'[u] = pointer[u]
                             \/ Without({"audit"}) => {"started", pointer'[u]} \subseteq audit[u]
        BY <3>2, <3>3
      <3> QED
        BY <2>1, <2>2, <3>4, AuditKept DEF OnlyWorker, WorkerAudit
    <2> QED
      BY <2>3, <2>4
  <1> QED
    BY <1>2, <1>3, <1>4 DEF RunToolWorker

LEMMA AuditStep ==
    ASSUME Typed, AuditInv, [Next]_vars  PROVE AuditInv'
  <1>0. \A t \in Tasks : audit[t] \subseteq audit'[t]
    BY AuditGrows
  <1>1. ASSUME UNCHANGED <<worker, pointer>>  PROVE AuditInv'
    BY <1>0, <1>1, AuditKept DEF WorkerAudit
  <1>2. ASSUME NEW w \in Workers, RunToolWorker(w) \/ Panic(w)  PROVE AuditInv'
    BY <1>0, <1>2, AuditWorker
  <1>3. ASSUME NEW t \in Tasks, EnqueueTask(t)  PROVE UNCHANGED <<worker, pointer>>
    BY <1>3
    DEF EnqueueTask, EnqueueMark, EnqueueJob, EnqueueFails, EnqueueUnmark, EnqueueRecord,
        Enqueue, queueVars
  <1>4. ASSUME NEW c \in Cancels, CancelTask(c)  PROVE UNCHANGED <<worker, pointer>>
    BY <1>4
    DEF CancelTask, CancelStep, CancelPeek, CancelForget, CancelPut, CancelRecord,
        CancelRemove, CancelSignal, CancelLog, CancelCheck, CancelFails, Cancel, queueVars
  <1>5. ASSUME NEW t \in Tasks,
               QueueExpireLease(t) \/ QueueEndBackoff(t) \/ QueueDropRecord(t)
        PROVE  UNCHANGED <<worker, pointer>>
    BY <1>5
    DEF QueueExpireLease, QueueEndBackoff, QueueDropRecord, ExpireLease, EndBackoff,
        DropRecord
  <1>6. CASE Restart
    <2>1. \A w \in Workers : WorkerAudit(w)'
      BY <1>6 DEF Restart, IdleWorker, WorkerAudit, Decided, At
    <2>2. pointer' = pointer
      BY <1>6 DEF Restart
    <2> QED
      BY <1>0, <2>1, <2>2, AuditKept DEF WorkerAudit
  <1>7. CASE UNCHANGED vars
    BY <1>1, <1>7 DEF vars, queueVars
  <1> QED
    BY <1>1, <1>2, <1>3, <1>4, <1>5, <1>6, <1>7 DEF Next, Running, Environment

\* A committed outcome is on record, after the start of its attempt.
THEOREM OutcomesAreAudited == Spec => []AuditedOutcome
  <1>1. Typed /\ AuditInv /\ [Next]_vars => AuditInv'
    BY AuditStep
  <1>2. AuditInv => AuditedOutcome
    BY DEF AuditInv
  <1> QED
    BY <1>1, <1>2, TrailInit, AlwaysTyped, PTL DEF Spec
==============================================================================
