------------------------- MODULE TaskReadsProperties --------------------------
(***************************************************************************)
(* What clients may rely on when they read a task while it moves.          *)
(***************************************************************************)
EXTENDS TaskReads, RetentionProperties, FiniteSets

Answered(r, method) == ReadAt(r, "done") /\ reader[r].method = method

\* get_task_info never answers with a status the task did not have at some
\* moment of the request, though its four reads are apart: a blob read last is
\* one of a job that had left the queue.  Only a cancellation, whose blob is
\* written over the worker's, can show through.  (A panicked tool's entry may
\* come after snapshot_task has looked for it, and where the write of a blob
\* has failed its last read finds nothing, though a pointer has come by then.)
AnswerJustified ==
    Without({"lease", "panic", "put"}) /\ ~EnableReaper =>
        \A r \in Readers : Answered(r, "info") =>
            \/ reader[r].answer \in reader[r].seen
            \/ reader[r].answer = "cancelled" /\ ReadTask(r) \in asked

\* Once get_task_info has told a client an outcome, no later request says that
\* the task is working, unknown or not ready, get_task_result included: what
\* is told is settled, and its blob was written first.  (An entry that a tool
\* left behind when it panicked may mask the outcome again.)
AnswersStick ==
    Without({"lease", "panic", "put"}) /\ ~EnableReaper =>
        \A r \in Readers :
            ReadAt(r, "done") /\ (\E o \in FinishedStatus : <<"info", o>> \in reader[r].after)
                => reader[r].answer \in FinishedStatus

\* A failure told is final, though get_task_result may tell it before the job is
\* settled: whatever settlement fails and however often the process restarts,
\* no later request says that the task completed, since only an attempt that
\* is the last one, or an unreadable payload, writes a failure.  (A payload that
\* an older build could not read may be read again after a rollback.)
FailureStands ==
    Without({"lease", "rollback"}) =>
        \A r \in Readers :
            ReadAt(r, "done") /\ (\E m \in Method : <<m, "failed">> \in reader[r].after)
                => reader[r].answer # "completed"

\* Every task that had an outcome when list_tasks was called is in its answer,
\* but for those whose result a sweep has deleted meanwhile: one that deletes a
\* blob under the listing makes the call fail, never drop the rest.  (A result
\* that expired under the work on its task may be deleted and written again.)
ListComplete ==
    Without({"put"}) =>
        \A l \in Listers : ListAt(l, "done") =>
            \A t \in lister[l].known :
                t \in lister[l].found \/ ~HasBlob(t) \/ t \in sweep.early

\* get_task_result always comes back: the queue's wait and the polling that
\* follows are bounded by get_result_max_wait, whether or not a result exists.
ResultReturns ==
    \A r \in Readers : reader[r].pc \in ResultPC ~> reader[r].pc \notin ResultPC

(***************************************************************************)
(* What a comment says, and the code does not do                           *)
(***************************************************************************)
\* backend.rs, get_task_result: the result store "is taquba-mcp's authoritative
\* record of task outcomes": what it answers from there is the outcome.
ResultIsFinal ==
    \A t \in Tasks : Cardinality({m \in told[t] : m[1] = "result"}) <= 1
==============================================================================
