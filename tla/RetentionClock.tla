---------------------------- MODULE RetentionClock ----------------------------
(***************************************************************************)
(* Retention in time: how long result blobs and audit entries live, by the *)
(* clocks that date them and the clock that reaps them (run_reaper of      *)
(* worker.rs, reap of result_store.rs and of audit.rs).  Result blobs are  *)
(* dated and reaped by the injected clock.  Audit entries are dated twice: *)
(* at_ms by the injected clock, the ULID of the file name by the system    *)
(* clock, and reaped by the ULID against the injected clock.  Each blob is *)
(* written once; one written anew under the sweep is Retention's matter.   *)
(***************************************************************************)
EXTENDS RetentionMath

CONSTANTS
    Blobs,        \* result blobs
    Entries,      \* audit entries
    Retentions,   \* durations, in ms, the builder may be given
    Starts,       \* values of the clock when the process starts
    MaxTime       \* bound on the clocks

ASSUME RetentionsAssumption == Retentions \subseteq Nat
ASSUME StartsAssumption == Starts \subseteq 0 .. MaxTime
\* The last millisecond of u64 is when a saturated expiry comes.
ASSUME MaxTimeAssumption == MaxTime \in Nat /\ MaxTime < U64Range - 1

VARIABLES
    retention, auditRetention,   \* the configuration,
    oneClock,                    \* and whether the injected clock is the system's
    clock, system,               \* the injected clock and the system clock
    results,                     \* results[b]: the stored expiry of result blob b
    log,                         \* log[e]: the dates of audit entry e
    reaper                       \* where run_reaper stands

config == <<retention, auditRetention, oneClock>>
clockVars == <<config, clock, system, results, log, reaper>>

State == {"absent", "present", "deleted"}
NoResult == [state |-> "absent", at |-> 0, expires |-> 0]
NoEntry == [state |-> "absent", at |-> 0, ulid |-> 0]
\* limit: now_ms of the results sweep, then cutoff_ms of the audit sweep.
Sleeping == [pc |-> "asleep", limit |-> 0, blobs |-> {}, entries |-> {}]

ClockTypeOK ==
    /\ retention \in Retentions /\ auditRetention \in Retentions
    /\ oneClock \in BOOLEAN
    /\ clock \in 0 .. MaxTime /\ system \in 0 .. MaxTime
    /\ results \in [Blobs -> [state: State, at: U64, expires: U64]]
    /\ log \in [Entries -> [state: State, at: U64, ulid: U64]]
    /\ reaper \in [pc: {"asleep", "results", "between", "audit"}, limit: U64,
                   blobs: SUBSET Blobs, entries: SUBSET Entries]

ClockInit ==
    /\ retention \in Retentions /\ auditRetention \in Retentions
    /\ oneClock \in BOOLEAN
    /\ clock \in Starts
    /\ system \in IF oneClock THEN {clock} ELSE Starts
    /\ results = [b \in Blobs |-> NoResult]
    /\ log = [e \in Entries |-> NoEntry]
    /\ reaper = Sleeping

\* Clocks do not go back.
Tick ==
    /\ \/ clock < MaxTime /\ clock' = clock + 1
          /\ system' = IF oneClock THEN clock' ELSE system
       \/ ~oneClock /\ system < MaxTime /\ system' = system + 1 /\ UNCHANGED clock
    /\ UNCHANGED <<config, results, log, reaper>>

\* A worker, or cancel_task, reads now_ms and puts the record of a task.
PutRecord(b) ==
    /\ results[b].state = "absent"
    /\ results' = [results EXCEPT ![b] = [state |-> "present", at |-> clock,
                                          expires |-> ExpiresAt(clock, retention)]]
    /\ UNCHANGED <<config, clock, system, log, reaper>>

\* AuditLog::record: at_ms is the caller's now_ms, Ulid::new reads the system.
RecordEntry(e) ==
    /\ log[e].state = "absent"
    /\ log' = [log EXCEPT ![e] = [state |-> "present", at |-> clock, ulid |-> system]]
    /\ UNCHANGED <<config, clock, system, results, reaper>>

\* The interval ends: ResultStore::reap reads the clock and lists.
WakeReaper ==
    /\ reaper.pc = "asleep"
    /\ reaper' = [Sleeping EXCEPT
                    !.pc = "results",
                    !.limit = clock,
                    !.blobs = {b \in Blobs : results[b].state = "present"
                                             /\ results[b].expires <= clock}]
    /\ UNCHANGED <<config, clock, system, results, log>>

ReapBlob(b) ==
    /\ reaper.pc = "results" /\ b \in reaper.blobs
    /\ results' = [results EXCEPT ![b].state = "deleted"]
    /\ reaper' = [reaper EXCEPT !.blobs = @ \ {b}]
    /\ UNCHANGED <<config, clock, system, log>>

\* An error of a delete is logged, and the sweep goes on.
ReapBlobFails(b) ==
    /\ reaper.pc = "results" /\ b \in reaper.blobs
    /\ reaper' = [reaper EXCEPT !.blobs = @ \ {b}]
    /\ UNCHANGED <<config, clock, system, results, log>>

\* The results are swept, or the listing erred: the audit log is next.
ReapedResults ==
    /\ reaper.pc = "results"
    /\ reaper' = [Sleeping EXCEPT !.pc = "between"]
    /\ UNCHANGED <<config, clock, system, results, log>>

\* AuditLog::reap computes its cutoff and lists.
ReapAudit ==
    /\ reaper.pc = "between"
    /\ reaper' = [Sleeping EXCEPT
                    !.pc = "audit",
                    !.limit = Cutoff(clock, auditRetention),
                    !.entries = {e \in Entries : log[e].state = "present"}]
    /\ UNCHANGED <<config, clock, system, results, log>>

\* One listed entry: the name alone decides.
ReapEntry(e) ==
    /\ reaper.pc = "audit" /\ e \in reaper.entries
    /\ log' = IF log[e].ulid < reaper.limit
              THEN [log EXCEPT ![e].state = "deleted"] ELSE log
    /\ reaper' = [reaper EXCEPT !.entries = @ \ {e}]
    /\ UNCHANGED <<config, clock, system, results>>

ReapEntryFails(e) ==
    /\ reaper.pc = "audit" /\ e \in reaper.entries
    /\ reaper' = [reaper EXCEPT !.entries = @ \ {e}]
    /\ UNCHANGED <<config, clock, system, results, log>>

\* The end of the listing, or its error: the reaper sleeps again.
ReapedAudit ==
    /\ reaper.pc = "audit"
    /\ reaper' = Sleeping
    /\ UNCHANGED <<config, clock, system, results, log>>

Reap ==
    \/ WakeReaper \/ ReapedResults \/ ReapAudit \/ ReapedAudit
    \/ \E b \in Blobs : ReapBlob(b) \/ ReapBlobFails(b)
    \/ \E e \in Entries : ReapEntry(e) \/ ReapEntryFails(e)

ClockNext ==
    \/ Tick
    \/ \E b \in Blobs : PutRecord(b)
    \/ \E e \in Entries : RecordEntry(e)
    \/ Reap

ClockSpec == ClockInit /\ [][ClockNext]_clockVars

\* Time passes, and the reaper is a tokio task like the others.  Errors of the
\* stores are transient: a delete that is tried again and again succeeds.
FairClockSpec ==
    /\ ClockSpec
    /\ WF_clockVars(Tick) /\ WF_clockVars(Reap)
    /\ \A b \in Blobs : SF_clockVars(ReapBlob(b))
    /\ \A e \in Entries : SF_clockVars(ReapEntry(e))

(***************************************************************************)
(* Properties                                                              *)
(***************************************************************************)
\* The inductive form: a stored expiry is that of its write, dates agree where
\* the clocks do, and what a sweep works through was old when it began.
ClockInv ==
    /\ ClockTypeOK
    /\ oneClock => clock = system
    /\ \A b \in Blobs : results[b].state # "absent" =>
         results[b].expires = ExpiresAt(results[b].at, retention)
    /\ \A e \in Entries : oneClock => log[e].at = log[e].ulid
    /\ reaper.pc = "results" =>
         \A b \in reaper.blobs :
            results[b].state # "absent" /\ results[b].expires <= clock
    /\ reaper.pc = "audit" => reaper.limit <= Cutoff(clock, auditRetention)

Vanishes(now, next) == now.state = "present" /\ next.state = "deleted"

\* No result goes before the ttl its clients were told is over, however long
\* the retention: where ExpiresAt cuts or saturates it, no ttl was promised or
\* the blob stays.  (The ttl comes from task_ttl_ms, the deletion from
\* expires_at_ms and reap, two conversions of one setting.)
TtlHonored ==
    [][\A b \in Blobs : Vanishes(results[b], results'[b]) =>
         \A ttl \in TtlMs(retention) : clock >= results[b].at + ttl]_clockVars

\* No audit entry goes before audit_retention is over by the date in its name,
\* nor by its own at_ms if there is one clock, at the start of time included:
\* the cutoff never wraps around.
AuditKept ==
    [][\A e \in Entries :
         auditRetention < U64Range /\ Vanishes(log[e], log'[e]) =>
           /\ clock > log[e].ulid + auditRetention
           /\ oneClock => clock > log[e].at + auditRetention]_clockVars

\* What is past its retention is deleted in the end, blobs and audit entries:
\* every sweep reads the clock anew and works through what it has listed.
OldGoes ==
    /\ \A b \in Blobs :
         results[b].state = "present" /\ retention < U64Range
             /\ clock >= results[b].at + retention ~> results[b].state = "deleted"
    /\ \A e \in Entries :
         log[e].state = "present" /\ auditRetention < U64Range /\ oneClock
             /\ clock > log[e].at + auditRetention ~> log[e].state = "deleted"
==============================================================================
