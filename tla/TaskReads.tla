------------------------------ MODULE TaskReads -------------------------------
(***************************************************************************)
(* The read side of the task backend: get_task_info (snapshot_task),       *)
(* get_task_result and list_tasks of backend.rs.  Each await on a store is *)
(* a step of its own, between which the rest of the backend moves on.      *)
(***************************************************************************)
EXTENDS Retention

CONSTANTS
    Readers,   \* concurrent get_task_info and get_task_result requests
    Listers    \* concurrent list_tasks requests

VARIABLES
    reader,   \* reader[r]: where request r stands
    lister,   \* lister[l]: where list_tasks call l stands
    told      \* history: told[t], the outcomes clients were told, and by whom

readVars == <<retentionVars, reader, lister, told>>

InfoPC == {"pointer", "inflight", "job", "blob"}
ResultPC == {"wait", "fetch", "running", "lookup", "deadline"}
Answer == FinishedStatus \union {"working", "unknown", "notyet"}
Method == {"info", "result"}

\* late: get_result_max_wait is over.  after, seen: history, what clients had
\* been told before this request, and the statuses the task has had since a
\* get_task_info began.
ReaderState == [pc: InfoPC \union ResultPC \union {"idle", "done"},
                task: Tasks \union {NoTask}, method: Method, late: BOOLEAN,
                after: SUBSET (Method \X FinishedStatus), seen: SUBSET Answer,
                answer: Answer \union {"none"}]
IdleReader == [pc |-> "idle", task |-> NoTask, method |-> "info", late |-> FALSE,
               after |-> {}, seen |-> {}, answer |-> "none"]

\* running: tasks found in the in-flight map; todo: blobs the store has listed
\* and the call has yet to get; found: what it got.  known: history, the tasks
\* that had an outcome when the call began.
ListerState == [pc: {"idle", "map", "list", "get", "done"}, running: SUBSET Tasks,
                todo: SUBSET Tasks, found: SUBSET Tasks, known: SUBSET Tasks]
IdleLister == [pc |-> "idle", running |-> {}, todo |-> {}, found |-> {}, known |-> {}]

ReadsTypeOK ==
    /\ RetentionTypeOK
    /\ reader \in [Readers -> ReaderState]
    /\ lister \in [Listers -> ListerState]
    /\ told \in [Tasks -> SUBSET (Method \X FinishedStatus)]

ReadsInit ==
    /\ RetentionInit
    /\ reader = [r \in Readers |-> IdleReader]
    /\ lister = [l \in Listers |-> IdleLister]
    /\ told = [t \in Tasks |-> {}]

SnapshotNow == [t \in Tasks |-> Snapshot(t)]

ReadAt(r, pc) == reader[r].pc = pc
ReadTask(r) == reader[r].task
OnlyReader == UNCHANGED <<retentionVars, lister, told>>
ReadGoto(r, pc) == reader' = [reader EXCEPT ![r] = [@ EXCEPT !.pc = pc]] /\ OnlyReader
ReadAnswer(r, answer) ==
    reader' = [reader EXCEPT ![r] = [@ EXCEPT !.pc = "done", !.answer = answer]] /\ OnlyReader

\* A request for t arrives; a client knows t from enqueue_task or list_tasks.
StartRead(r, t, method) ==
    /\ ReadAt(r, "idle")
    /\ submit[t] # "new"
    /\ reader' = [reader EXCEPT ![r] =
                    [IdleReader EXCEPT
                       !.pc = IF method = "info" THEN "pointer" ELSE "wait",
                       !.task = t,
                       !.method = method,
                       !.after = told[t],
                       !.seen = IF method = "info" THEN {Snapshot(t)} ELSE {}]]
    /\ OnlyReader

(***************************************************************************)
(* get_task_info: the four reads of snapshot_task                          *)
(***************************************************************************)
InfoPointer(r) ==
    /\ ReadAt(r, "pointer")
    /\ IF pointer[ReadTask(r)] # "none" THEN ReadAnswer(r, pointer[ReadTask(r)])
       ELSE ReadGoto(r, "inflight")

InfoInFlight(r) ==
    /\ ReadAt(r, "inflight")
    /\ IF ReadTask(r) \in inFlight THEN ReadAnswer(r, "working") ELSE ReadGoto(r, "job")

\* The live job is not consulted: blob straight after the in-flight map.
Mutant_InfoSkipsJob(r) == ReadAt(r, "job") /\ ReadGoto(r, "blob")

InfoJob(r) ==
    /\ ReadAt(r, "job")
    /\ IF Live(ReadTask(r)) THEN ReadAnswer(r, "working") ELSE ReadGoto(r, "blob")

InfoBlob(r) ==
    /\ ReadAt(r, "blob")
    /\ ReadAnswer(r, IF HasBlob(ReadTask(r)) THEN blob[ReadTask(r)].status ELSE "unknown")

(***************************************************************************)
(* get_task_result                                                         *)
(***************************************************************************)
\* Its budget, get_result_max_wait, runs out.
DeadlinePasses(r) ==
    /\ reader[r].pc \in ResultPC /\ ~reader[r].late
    /\ reader' = [reader EXCEPT ![r] = [@ EXCEPT !.late = TRUE]]
    /\ OnlyReader

\* wait_for_completion: the job has settled or is unknown, or the time is up.
ResultWait(r) ==
    /\ ReadAt(r, "wait")
    /\ ~Live(ReadTask(r)) \/ reader[r].late
    /\ ReadGoto(r, "fetch")

ResultFetch(r) ==
    /\ ReadAt(r, "fetch")
    /\ IF HasBlob(ReadTask(r)) THEN ReadAnswer(r, blob[ReadTask(r)].status)
       ELSE ReadGoto(r, "running")

ResultRunning(r) ==
    /\ ReadAt(r, "running")
    /\ ReadGoto(r, IF ReadTask(r) \in inFlight THEN "deadline" ELSE "lookup")

ResultLookup(r) ==
    /\ ReadAt(r, "lookup")
    /\ IF job[ReadTask(r)].status = "none" THEN ReadAnswer(r, "unknown")
       ELSE ReadGoto(r, "deadline")

\* It goes on polling for as long as the job is known.
Mutant_ResultNoDeadline(r) == ReadAt(r, "deadline") /\ ReadGoto(r, "fetch")

\* After the deadline an error to the client, before it another poll.
ResultDeadline(r) ==
    /\ ReadAt(r, "deadline")
    /\ IF reader[r].late THEN ReadAnswer(r, "notyet") ELSE ReadGoto(r, "fetch")

\* A call of either method errs, and so does the request.
ReadFails(r) ==
    /\ "read" \in Faults
    /\ reader[r].pc \in (InfoPC \union ResultPC) \ {"deadline"}
    /\ reader' = [reader EXCEPT ![r] = IdleReader]
    /\ OnlyReader

\* The client gets its answer.
Deliver(r) ==
    /\ ReadAt(r, "done")
    /\ told' = IF reader[r].answer \in FinishedStatus
               THEN [told EXCEPT ![ReadTask(r)] =
                       @ \union {<<reader[r].method, reader[r].answer>>}]
               ELSE told
    /\ reader' = [reader EXCEPT ![r] = IdleReader]
    /\ UNCHANGED <<retentionVars, lister>>

ReadStep(r) ==
    \/ InfoPointer(r) \/ InfoInFlight(r) \/ InfoJob(r) \/ InfoBlob(r)
    \/ ResultWait(r) \/ ResultFetch(r) \/ ResultRunning(r) \/ ResultLookup(r)
    \/ ResultDeadline(r) \/ ReadFails(r) \/ Deliver(r)

Read(r) ==
    \/ \E t \in Tasks, method \in Method : StartRead(r, t, method)
    \/ DeadlinePasses(r)
    \/ ReadStep(r)

(***************************************************************************)
(* list_tasks                                                              *)
(***************************************************************************)
ListAt(l, pc) == lister[l].pc = pc
OnlyLister == UNCHANGED <<retentionVars, reader, told>>

StartList(l) ==
    /\ ListAt(l, "idle")
    /\ lister' = [lister EXCEPT ![l] = [IdleLister EXCEPT
                    !.pc = "map",
                    !.known = {t \in Tasks : Snapshot(t) \in FinishedStatus}]]
    /\ OnlyLister

ListMap(l) ==
    /\ ListAt(l, "map")
    /\ lister' = [lister EXCEPT ![l] = [@ EXCEPT !.pc = "list", !.running = inFlight]]
    /\ OnlyLister

ListStore(l) ==
    /\ ListAt(l, "list")
    /\ lister' = [lister EXCEPT ![l] = [@ EXCEPT !.pc = "get",
                                                 !.todo = {t \in Tasks : HasBlob(t)}]]
    /\ OnlyLister

ListGet(l, t) ==
    /\ ListAt(l, "get") /\ t \in lister[l].todo /\ HasBlob(t)
    /\ lister' = [lister EXCEPT ![l].todo = @ \ {t}, ![l].found = @ \union {t}]
    /\ OnlyLister

\* A missing blob ends the listing (break for ?), and the call succeeds.
Mutant_ListBreaks(l) ==
    /\ ListAt(l, "get")
    /\ \E t \in lister[l].todo : ~HasBlob(t)
    /\ lister' = [lister EXCEPT ![l] = [@ EXCEPT !.pc = "done", !.todo = {}]]
    /\ OnlyLister

\* A listed blob is gone by the time it is read, or a call errs: the whole
\* call fails.
ListFails(l) ==
    /\ \/ ListAt(l, "get") /\ \E t \in lister[l].todo : ~HasBlob(t)
       \/ lister[l].pc \in {"list", "get"} /\ "read" \in Faults
    /\ lister' = [lister EXCEPT ![l] = IdleLister]
    /\ OnlyLister

ListDone(l) ==
    /\ ListAt(l, "get") /\ lister[l].todo = {}
    /\ lister' = [lister EXCEPT ![l] = [@ EXCEPT !.pc = "done"]]
    /\ OnlyLister

ListReturn(l) ==
    /\ ListAt(l, "done")
    /\ lister' = [lister EXCEPT ![l] = IdleLister]
    /\ OnlyLister

ListTasks(l) ==
    \/ StartList(l) \/ ListMap(l) \/ ListStore(l) \/ ListFails(l) \/ ListDone(l)
    \/ ListReturn(l)
    \/ \E t \in Tasks : ListGet(l, t)

(***************************************************************************)
(* The readers beside the rest of the backend                              *)
(***************************************************************************)
\* A get_task_info under way has seen whatever its task goes through.
Watch ==
    reader' = [r \in Readers |->
                 IF reader[r].pc \in InfoPC
                 THEN [reader[r] EXCEPT !.seen = @ \union {SnapshotNow'[ReadTask(r)]}]
                 ELSE reader[r]]

ReadsNext ==
    \/ RetentionRunning /\ Watch /\ UNCHANGED <<lister, told>>
    \/ /\ RetentionRestart
       /\ reader' = [r \in Readers |-> IdleReader]
       /\ lister' = [l \in Listers |-> IdleLister]
       /\ UNCHANGED told
    \/ \E r \in Readers : Read(r)
    \/ \E l \in Listers : ListTasks(l)

ReadsSpec == ReadsInit /\ [][ReadsNext]_readVars

\* A request that has begun goes on, and its deadline comes.
FairReadsSpec ==
    /\ ReadsSpec
    /\ \A r \in Readers : WF_readVars(ReadStep(r)) /\ WF_readVars(DeadlinePasses(r))
==============================================================================
