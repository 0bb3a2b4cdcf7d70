------------------------------ MODULE Retention -------------------------------
(***************************************************************************)
(* The retention sweep (run_reaper of worker.rs, reap of result_store.rs)  *)
(* beside the rest of the backend.  One reaper task sleeps, lists the      *)
(* result blobs, deletes those that had expired when it read the clock,    *)
(* drops the pointers of the deleted ones and sweeps the audit log.        *)
(***************************************************************************)
EXTENDS TaskBackend

CONSTANTS
    EnableReaper,   \* enable_reaper of the configuration
    AuditRetain     \* audit_retention: "long" or "short"

ASSUME EnableReaperAssumption == EnableReaper \in BOOLEAN

\* long: no audit entry gets old here.  short: any may, at any moment.
ASSUME AuditRetainAssumption == AuditRetain \in {"long", "short"}

VARIABLES sweep   \* where the reaper stands, and the sets it works through

retentionVars == <<vars, sweep>>

\* todo: blobs that had expired when the sweep read its clock and that it has
\* yet to read; expired: read, to delete; gone: deleted, to unlink.  History:
\* left, the tasks whose pointer a sweep could not delete; early, those whose
\* result expired while it could still be written again.
SweepState == [pc: {"asleep", "list", "delete", "unlink", "audit"},
               todo: SUBSET Tasks, expired: SUBSET Tasks, gone: SUBSET Tasks,
               left: SUBSET Tasks, early: SUBSET Tasks]
Asleep == [pc |-> "asleep", todo |-> {}, expired |-> {}, gone |-> {}, left |-> {},
           early |-> {}]
SweepTo(pc) == [Asleep EXCEPT !.pc = pc, !.left = sweep.left, !.early = sweep.early]

RetentionTypeOK == TypeOK /\ sweep \in SweepState

RetentionInit == Init /\ sweep = Asleep

\* The result blob of t may be written again: its job is in the queue, or a
\* worker or a cancel_task that found it waiting is at it.
AtWork(t) ==
    \/ Live(t)
    \/ \E w \in Workers : TaskOf(w) = t
    \/ \E c \in Cancels :
         CancelOf(c) = t /\ cancel[c].pc \in {"forget", "put", "record", "remove"}

\* expires_at_ms passes, at any moment: the clock knows nothing of the job.
ExpireBlob(t) ==
    /\ EnableReaper
    /\ HasBlob(t) /\ ~blob[t].expired
    /\ blob' = [blob EXCEPT ![t] = [@ EXCEPT !.expired = TRUE]]
    /\ sweep' = [sweep EXCEPT !.early = @ \union {u \in {t} : AtWork(u)}]
    /\ UNCHANGED <<queueVars, audit, inFlight, submit, worker, cancel, undecodable,
                   histVars>>

OthersKeep == UNCHANGED <<job, fired, inFlight, submit, worker, cancel, undecodable,
                          histVars>>

\* Whatever the listing finds is deleted, however young.
Mutant_SweepTakesAll ==
    /\ EnableReaper
    /\ sweep.pc = "asleep"
    /\ sweep' = [SweepTo("list") EXCEPT !.todo = {t \in Tasks : HasBlob(t)}]
    /\ OthersKeep /\ UNCHANGED <<pointer, blob, audit>>

\* The interval ends: reap reads the clock and starts its listing.
SweepWake ==
    /\ EnableReaper
    /\ sweep.pc = "asleep"
    /\ sweep' = [SweepTo("list") EXCEPT !.todo = {t \in Tasks : blob[t].expired}]
    /\ OthersKeep /\ UNCHANGED <<pointer, blob, audit>>

\* list reads the next blob.
SweepGet(t) ==
    /\ sweep.pc = "list" /\ t \in sweep.todo
    /\ sweep' = [sweep EXCEPT !.todo = @ \ {t}, !.expired = @ \union {t}]
    /\ OthersKeep /\ UNCHANGED <<pointer, blob, audit>>

SweepListed ==
    /\ sweep.pc = "list" /\ sweep.todo = {}
    /\ sweep' = [sweep EXCEPT !.pc = "delete"]
    /\ OthersKeep /\ UNCHANGED <<pointer, blob, audit>>

\* The listing or a get fails: nothing is deleted in this sweep.
SweepListFails ==
    /\ "list" \in Faults
    /\ sweep.pc = "list"
    /\ sweep' = SweepTo("audit")
    /\ OthersKeep /\ UNCHANGED <<pointer, blob, audit>>

\* The blob of t is deleted, whatever it holds by now.
SweepDelete(t) ==
    /\ sweep.pc = "delete" /\ t \in sweep.expired
    /\ Delete(t)
    /\ sweep' = [sweep EXCEPT !.expired = @ \ {t}, !.gone = @ \union {t}]
    /\ OthersKeep /\ UNCHANGED <<pointer, audit>>

\* An error of a delete ends the sweep of the results (? for if let Err).
Mutant_DeleteErrorAborts(t) ==
    /\ "delete" \in Faults
    /\ sweep.pc = "delete" /\ t \in sweep.expired
    /\ sweep' = SweepTo("audit")
    /\ OthersKeep /\ UNCHANGED <<pointer, blob, audit>>

\* The delete errs: logged, and t keeps its blob and its pointer.
SweepDeleteFails(t) ==
    /\ "delete" \in Faults
    /\ sweep.pc = "delete" /\ t \in sweep.expired
    /\ sweep' = [sweep EXCEPT !.expired = @ \ {t}]
    /\ OthersKeep /\ UNCHANGED <<pointer, blob, audit>>

SweepDeleted ==
    /\ sweep.pc = "delete" /\ sweep.expired = {}
    /\ sweep' = [sweep EXCEPT !.pc = "unlink"]
    /\ OthersKeep /\ UNCHANGED <<pointer, blob, audit>>

\* The pointers stay, as if the sweep only knew the blobs.
Mutant_SweepKeepsPointer(t) ==
    /\ sweep.pc = "unlink" /\ t \in sweep.gone
    /\ sweep' = [sweep EXCEPT !.gone = @ \ {t}]
    /\ OthersKeep /\ UNCHANGED <<pointer, blob, audit>>

\* kv_delete of the terminal pointer; no pointer is a no-op.
SweepUnlink(t) ==
    /\ sweep.pc = "unlink" /\ t \in sweep.gone
    /\ pointer' = [pointer EXCEPT ![t] = "none"]
    /\ sweep' = [sweep EXCEPT !.gone = @ \ {t}]
    /\ OthersKeep /\ UNCHANGED <<blob, audit>>

\* The kv_delete errs: logged, and the sweep goes on.
SweepUnlinkFails(t) ==
    /\ "unlink" \in Faults
    /\ sweep.pc = "unlink" /\ t \in sweep.gone
    /\ sweep' = [sweep EXCEPT !.gone = @ \ {t}, !.left = @ \union {t}]
    /\ OthersKeep /\ UNCHANGED <<pointer, blob, audit>>

SweepUnlinked ==
    /\ sweep.pc = "unlink" /\ sweep.gone = {}
    /\ sweep' = [sweep EXCEPT !.pc = "audit"]
    /\ OthersKeep /\ UNCHANGED <<pointer, blob, audit>>

\* The audit log loses what is older than audit_retention (RetentionClock has
\* the sweep of the log itself); then the reaper sleeps again.
SweepAudit ==
    /\ sweep.pc = "audit"
    /\ \E old \in IF AuditRetain = "short" THEN SUBSET Tasks ELSE {{}} :
         audit' = [t \in Tasks |-> IF t \in old THEN {} ELSE audit[t]]
    /\ sweep' = SweepTo("asleep")
    /\ OthersKeep /\ UNCHANGED <<pointer, blob>>

Sweep ==
    \/ SweepWake \/ SweepListed \/ SweepListFails \/ SweepDeleted \/ SweepUnlinked
    \/ SweepAudit
    \/ \E t \in Tasks :
         \/ SweepGet(t) \/ SweepDelete(t) \/ SweepDeleteFails(t)
         \/ SweepUnlink(t) \/ SweepUnlinkFails(t)

\* A blob written anew since the sweep read its clock has not expired for it.
Unread == sweep' = [sweep EXCEPT !.todo = {t \in @ : blob'[t] = blob[t]}]

RetentionRunning ==
    \/ Running /\ Unread
    \/ \E t \in Tasks : ExpireBlob(t)
    \/ Sweep

RetentionRestart == Restart /\ sweep' = SweepTo("asleep")

RetentionNext == RetentionRunning \/ RetentionRestart

RetentionSpec == RetentionInit /\ [][RetentionNext]_retentionVars

\* The reaper is a tokio task like the others: it wakes, and its calls return.
\* Errors of a store are transient: of the listings some succeed, and of the
\* deletes.
FairRetentionSpec ==
    /\ RetentionSpec /\ Fairness
    /\ WF_retentionVars(Sweep)
    /\ SF_retentionVars(SweepListed)
    /\ \A t \in Tasks : SF_retentionVars(SweepGet(t)) /\ SF_retentionVars(SweepDelete(t))
==============================================================================
