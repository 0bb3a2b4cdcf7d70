------------------------ MODULE RetentionClockProofs -------------------------
(***************************************************************************)
(* What the retention arithmetic guarantees at every width of the integers *)
(* and for every retention, and with it that no result goes before its ttl *)
(* and no audit entry before its retention.                                *)
(***************************************************************************)
EXTENDS RetentionClock, TLAPS

(***************************************************************************)
(* The arithmetic                                                          *)
(***************************************************************************)
LEMMA CutInU64 == \A n \in Nat : AsU64(n) \in U64
  BY U64RangeAssumption DEF AsU64, U64

LEMMA CutFits == \A n \in Nat : n < U64Range => AsU64(n) = n
  BY U64RangeAssumption DEF AsU64

LEMMA ExpiryInU64 == \A now \in U64, retention_ \in Nat : ExpiresAt(now, retention_) \in U64
  <1> TAKE now \in U64, retention_ \in Nat
  <1>1. AsU64(retention_) \in U64
    BY CutInU64
  <1> QED
    BY <1>1, U64RangeAssumption DEF ExpiresAt, SaturatingAdd, U64

LEMMA CutoffInU64 == \A now \in U64, retention_ \in Nat : Cutoff(now, retention_) \in U64
  <1> TAKE now \in U64, retention_ \in Nat
  <1>1. AsU64(retention_) \in U64
    BY CutInU64
  <1> QED
    BY <1>1, U64RangeAssumption DEF Cutoff, SaturatingSub, U64

LEMMA CutoffGrows ==
    ASSUME NEW now \in U64, NEW later \in U64, now <= later, NEW span \in Nat
    PROVE  Cutoff(now, span) <= Cutoff(later, span)
  <1>1. AsU64(span) \in U64
    BY CutInU64
  <1> QED
    BY <1>1, U64RangeAssumption DEF Cutoff, SaturatingSub, U64

\* Except in the last millisecond of u64, where a saturated expiry comes, a
\* record is expired only when the retention that clients were told is over.
THEOREM ExpiryNotEarly ==
    ASSUME NEW now \in U64, NEW span \in Nat, NEW ttl \in TtlMs(span),
           NEW t \in Nat, t < U64Range - 1, ExpiresAt(now, span) <= t
    PROVE  t >= now + ttl
  <1>1. ttl = span /\ AsU64(span) = span
    BY CutFits DEF TtlMs
  <1> QED
    BY <1>1, U64RangeAssumption DEF ExpiresAt, SaturatingAdd, U64

\* An entry older than the cutoff is older than the retention.
THEOREM CutoffSparesYoung ==
    ASSUME NEW now \in U64, NEW span \in Nat, span < U64Range,
           NEW at \in U64, at < Cutoff(now, span)
    PROVE  now > at + span
  <1>1. AsU64(span) = span
    BY CutFits
  <1> QED
    BY <1>1, U64RangeAssumption DEF Cutoff, SaturatingSub, U64

(***************************************************************************)
(* The inductive invariant                                                 *)
(***************************************************************************)
LEMMA ClockInU64 == 0 .. MaxTime \subseteq U64
  BY MaxTimeAssumption, U64RangeAssumption DEF U64

LEMMA ClockInvInit == ClockInit => ClockInv
  <1> SUFFICES ASSUME ClockInit  PROVE ClockInv
    OBVIOUS
  <1>1. 0 \in U64
    BY U64RangeAssumption DEF U64
  <1>2. Sleeping \in [pc: {"asleep", "results", "between", "audit"}, limit: U64,
                      blobs: SUBSET Blobs, entries: SUBSET Entries]
    BY <1>1 DEF Sleeping
  <1>3. clock \in 0 .. MaxTime /\ system \in 0 .. MaxTime /\ (oneClock => clock = system)
    BY StartsAssumption DEF ClockInit
  <1>4. \A b \in Blobs : results[b] = NoResult
    BY DEF ClockInit
  <1>5. \A e \in Entries : log[e] = NoEntry
    BY DEF ClockInit
  <1>6. ClockTypeOK
    BY <1>1, <1>2, <1>3 DEF ClockInit, ClockTypeOK, NoResult, NoEntry, State
  <1> QED
    BY <1>3, <1>4, <1>5, <1>6 DEF ClockInv, ClockInit, Sleeping, NoResult, NoEntry

LEMMA TickKeepsClockInv ==
    ASSUME ClockInv, Tick
    PROVE  ClockInv'
  <1>1. /\ clock' \in 0 .. MaxTime /\ system' \in 0 .. MaxTime
        /\ clock \in Nat /\ clock <= clock' /\ (oneClock => clock' = system')
    BY MaxTimeAssumption DEF ClockInv, ClockTypeOK, Tick
  <1>2. ClockTypeOK'
    BY <1>1 DEF ClockInv, ClockTypeOK, Tick, config
  <1>3. reaper.pc = "audit" => reaper.limit <= Cutoff(clock', auditRetention)
    <2>1. clock \in U64 /\ clock' \in U64 /\ auditRetention \in Nat /\ reaper.limit \in U64
      BY <1>1, ClockInU64, RetentionsAssumption DEF ClockInv, ClockTypeOK
    <2>2. Cutoff(clock, auditRetention) <= Cutoff(clock', auditRetention)
      BY <1>1, <2>1, CutoffGrows
    <2>3. Cutoff(clock, auditRetention) \in U64 /\ Cutoff(clock', auditRetention) \in U64
      BY <2>1, CutoffInU64
    <2> QED
      BY <2>1, <2>2, <2>3 DEF ClockInv, U64
  <1>4. reaper.pc = "results" =>
          \A b \in reaper.blobs :
             results[b].state # "absent" /\ results[b].expires <= clock'
    <2> SUFFICES ASSUME reaper.pc = "results", NEW b \in reaper.blobs
                 PROVE  results[b].state # "absent" /\ results[b].expires <= clock'
      OBVIOUS
    <2>1. b \in Blobs /\ results[b].expires \in U64
      BY DEF ClockInv, ClockTypeOK
    <2> QED
      BY <1>1, <2>1 DEF ClockInv, U64
  <1> QED
    BY <1>1, <1>2, <1>3, <1>4 DEF ClockInv, Tick, config

LEMMA PutKeepsClockInv ==
    ASSUME ClockInv, NEW b \in Blobs, PutRecord(b)
    PROVE  ClockInv'
  <1>1. clock \in U64 /\ ExpiresAt(clock, retention) \in U64
    BY ClockInU64, ExpiryInU64, RetentionsAssumption DEF ClockInv, ClockTypeOK
  <1>2. ClockTypeOK'
    BY <1>1 DEF ClockInv, ClockTypeOK, PutRecord, State, config
  <1>3. \A c \in Blobs : results'[c] =
          IF c = b THEN [state |-> "present", at |-> clock,
                         expires |-> ExpiresAt(clock, retention)]
          ELSE results[c]
    BY DEF ClockInv, ClockTypeOK, PutRecord
  <1>4. reaper.pc = "results" => b \notin reaper.blobs
    BY DEF ClockInv, PutRecord
  <1>5. reaper.blobs \subseteq Blobs
    BY DEF ClockInv, ClockTypeOK
  <1> QED
    BY <1>2, <1>3, <1>4, <1>5 DEF ClockInv, PutRecord, config

LEMMA RecordKeepsClockInv ==
    ASSUME ClockInv, NEW e \in Entries, RecordEntry(e)
    PROVE  ClockInv'
  <1>1. clock \in U64 /\ system \in U64
    BY ClockInU64 DEF ClockInv, ClockTypeOK
  <1>2. ClockTypeOK'
    BY <1>1 DEF ClockInv, ClockTypeOK, RecordEntry, State, config
  <1>3. \A d \in Entries : log'[d] =
          IF d = e THEN [state |-> "present", at |-> clock, ulid |-> system] ELSE log[d]
    BY DEF ClockInv, ClockTypeOK, RecordEntry
  <1> QED
    BY <1>2, <1>3 DEF ClockInv, RecordEntry, config

LEMMA ReapKeepsClockInv ==
    ASSUME ClockInv, Reap
    PROVE  ClockInv'
  <1>1. clock \in U64 /\ 0 \in U64 /\ auditRetention \in Nat
    BY ClockInU64, U64RangeAssumption, RetentionsAssumption DEF ClockInv, ClockTypeOK, U64
  <1>2. CASE WakeReaper
    BY <1>1, <1>2 DEF WakeReaper, Sleeping, ClockInv, ClockTypeOK, config
  <1>3. CASE ReapedResults \/ ReapedAudit
    BY <1>1, <1>3 DEF ReapedResults, ReapedAudit, Sleeping, ClockInv, ClockTypeOK, config
  <1>4. CASE ReapAudit
    <2>1. Cutoff(clock, auditRetention) \in U64
      BY <1>1, CutoffInU64
    <2>2. Cutoff(clock, auditRetention) <= Cutoff(clock, auditRetention)
      BY <2>1, U64RangeAssumption DEF U64
    <2>3. reaper' = [pc |-> "audit", limit |-> Cutoff(clock, auditRetention), blobs |-> {},
                     entries |-> {e \in Entries : log[e].state = "present"}]
      BY <1>4 DEF ReapAudit, Sleeping
    <2>4. ClockTypeOK'
      <3>1. reaper' \in [pc: {"asleep", "results", "between", "audit"}, limit: U64,
                         blobs: SUBSET Blobs, entries: SUBSET Entries]
        BY <2>1, <2>3
      <3> QED
        BY <1>4, <3>1 DEF ReapAudit, ClockInv, ClockTypeOK, config
    <2> QED
      BY <1>4, <2>2, <2>3, <2>4 DEF ReapAudit, ClockInv, config
  <1>5. ASSUME NEW b \in Blobs, ReapBlob(b)  PROVE ClockInv'
    <2>1. results[b].state # "absent"
      BY <1>5 DEF ReapBlob, ClockInv
    <2>2. \A c \in Blobs :
            /\ results'[c].at = results[c].at /\ results'[c].expires = results[c].expires
            /\ results'[c].state # "absent" <=> results[c].state # "absent"
      BY <1>5, <2>1 DEF ReapBlob, ClockInv, ClockTypeOK
    <2>3. ClockTypeOK'
      BY <1>5 DEF ReapBlob, ClockInv, ClockTypeOK, State, config
    <2>4. reaper'.pc = "results" /\ reaper'.blobs \subseteq reaper.blobs
      BY <1>5 DEF ReapBlob, ClockInv, ClockTypeOK
    <2>5. reaper.blobs \subseteq Blobs
      BY DEF ClockInv, ClockTypeOK
    <2> QED
      BY <1>5, <2>2, <2>3, <2>4, <2>5 DEF ReapBlob, ClockInv, config
  <1>6. ASSUME NEW b \in Blobs, ReapBlobFails(b)  PROVE ClockInv'
    BY <1>6 DEF ReapBlobFails, ClockInv, ClockTypeOK, config
  <1>7. ASSUME NEW e \in Entries, ReapEntry(e)  PROVE ClockInv'
    <2>1. \A d \in Entries : log'[d].at = log[d].at /\ log'[d].ulid = log[d].ulid
      BY <1>7 DEF ReapEntry, ClockInv, ClockTypeOK
    <2>2. ClockTypeOK'
      BY <1>7 DEF ReapEntry, ClockInv, ClockTypeOK, State, config
    <2>3. reaper'.pc = "audit" /\ reaper'.limit = reaper.limit
      BY <1>7 DEF ReapEntry, ClockInv, ClockTypeOK
    <2> QED
      BY <1>7, <2>1, <2>2, <2>3 DEF ReapEntry, ClockInv, config
  <1>8. ASSUME NEW e \in Entries, ReapEntryFails(e)  PROVE ClockInv'
    BY <1>8 DEF ReapEntryFails, ClockInv, ClockTypeOK, config
  <1> QED
    BY <1>2, <1>3, <1>4, <1>5, <1>6, <1>7, <1>8 DEF Reap

LEMMA ClockInvStep == ClockInv /\ [ClockNext]_clockVars => ClockInv'
  <1> SUFFICES ASSUME ClockInv, [ClockNext]_clockVars  PROVE ClockInv'
    OBVIOUS
  <1>1. CASE ClockNext
    BY <1>1, TickKeepsClockInv, PutKeepsClockInv, RecordKeepsClockInv, ReapKeepsClockInv
    DEF ClockNext
  <1>2. CASE UNCHANGED clockVars
    BY <1>2 DEF clockVars, config, ClockInv, ClockTypeOK
  <1> QED
    BY <1>1, <1>2

\* Stored expiries, dates and the sets a sweep works through stay consistent.
THEOREM ClockInvariant == ClockSpec => []ClockInv
  BY ClockInvInit, ClockInvStep, PTL DEF ClockSpec

(***************************************************************************)
(* The steps                                                               *)
(***************************************************************************)
HonorsTtl ==
    \A b \in Blobs : Vanishes(results[b], results'[b]) =>
        \A ttl \in TtlMs(retention) : clock >= results[b].at + ttl

KeepsAudit ==
    \A e \in Entries :
        auditRetention < U64Range /\ Vanishes(log[e], log'[e]) =>
            /\ clock > log[e].ulid + auditRetention
            /\ oneClock => clock > log[e].at + auditRetention

LEMMA TtlStep == ClockInv /\ [ClockNext]_clockVars => HonorsTtl
  <1> SUFFICES ASSUME ClockInv, [ClockNext]_clockVars, NEW b \in Blobs,
                      Vanishes(results[b], results'[b]), NEW ttl \in TtlMs(retention)
               PROVE  clock >= results[b].at + ttl
    BY DEF HonorsTtl
  <1>1. ReapBlob(b)
    <2>1. results'[b] # results[b]
      BY DEF Vanishes
    <2>2. ASSUME NEW c \in Blobs, PutRecord(c)  PROVE FALSE
      BY <2>1, <2>2 DEF PutRecord, Vanishes, ClockInv, ClockTypeOK
    <2>3. ASSUME NEW c \in Blobs, ReapBlob(c)  PROVE c = b
      BY <2>1, <2>3 DEF ReapBlob, ClockInv, ClockTypeOK
    <2>4. results' # results
      BY <2>1
    <2> QED
      BY <2>2, <2>3, <2>4
      DEF ClockNext, Tick, RecordEntry, Reap, WakeReaper, ReapedResults, ReapAudit,
          ReapedAudit, ReapBlobFails, ReapEntry, ReapEntryFails, clockVars
  <1>2. /\ results[b].expires = ExpiresAt(results[b].at, retention)
        /\ results[b].expires <= clock
    BY <1>1 DEF ReapBlob, ClockInv
  <1>3. results[b].at \in U64 /\ retention \in Nat /\ clock \in Nat /\ clock < U64Range - 1
    BY RetentionsAssumption, MaxTimeAssumption, U64RangeAssumption DEF ClockInv, ClockTypeOK
  <1> QED
    BY <1>2, <1>3, ExpiryNotEarly

LEMMA AuditStep == ClockInv /\ [ClockNext]_clockVars => KeepsAudit
  <1> SUFFICES ASSUME ClockInv, [ClockNext]_clockVars, NEW e \in Entries,
                      auditRetention < U64Range, Vanishes(log[e], log'[e])
               PROVE  /\ clock > log[e].ulid + auditRetention
                      /\ oneClock => clock > log[e].at + auditRetention
    BY DEF KeepsAudit
  <1>1. ReapEntry(e) /\ log[e].ulid < reaper.limit
    <2>1. log'[e] # log[e]
      BY DEF Vanishes
    <2>2. ASSUME NEW d \in Entries, RecordEntry(d)  PROVE FALSE
      BY <2>1, <2>2 DEF RecordEntry, Vanishes, ClockInv, ClockTypeOK
    <2>3. ASSUME NEW d \in Entries, ReapEntry(d)  PROVE d = e /\ log[d].ulid < reaper.limit
      BY <2>1, <2>3 DEF ReapEntry, ClockInv, ClockTypeOK
    <2>4. log' # log
      BY <2>1
    <2> QED
      BY <2>2, <2>3, <2>4
      DEF ClockNext, Tick, PutRecord, Reap, WakeReaper, ReapedResults, ReapAudit,
          ReapedAudit, ReapBlob, ReapBlobFails, ReapEntryFails, clockVars
  <1>2. (oneClock => log[e].at = log[e].ulid) /\ reaper.limit <= Cutoff(clock, auditRetention)
    BY <1>1 DEF ReapEntry, ClockInv
  <1>3. /\ log[e].ulid \in U64 /\ reaper.limit \in U64
        /\ clock \in U64 /\ auditRetention \in Nat
    BY RetentionsAssumption, ClockInU64 DEF ClockInv, ClockTypeOK
  <1>4. log[e].ulid < Cutoff(clock, auditRetention)
    <2>1. Cutoff(clock, auditRetention) \in U64
      BY <1>3, CutoffInU64
    <2> QED
      BY <1>1, <1>2, <1>3, <2>1, U64RangeAssumption DEF U64
  <1>5. clock > log[e].ulid + auditRetention
    BY <1>3, <1>4, CutoffSparesYoung
  <1> QED
    BY <1>2, <1>5

\* No result is deleted before the ttl its clients were told is over.
THEOREM TtlIsHonored == ClockSpec => TtlHonored
  <1>1. ClockInv /\ [ClockNext]_clockVars => [HonorsTtl]_clockVars
    BY TtlStep
  <1>2. TtlHonored <=> [][HonorsTtl]_clockVars
    BY DEF TtlHonored, HonorsTtl
  <1> QED
    BY <1>1, <1>2, ClockInvariant, PTL DEF ClockSpec

\* No audit entry is deleted before its retention is over by the date in its
\* name, nor by its own at_ms when there is one clock.
THEOREM AuditIsKept == ClockSpec => AuditKept
  <1>1. ClockInv /\ [ClockNext]_clockVars => [KeepsAudit]_clockVars
    BY AuditStep
  <1>2. AuditKept <=> [][KeepsAudit]_clockVars
    BY DEF AuditKept, KeepsAudit
  <1> QED
    BY <1>1, <1>2, ClockInvariant, PTL DEF ClockSpec
==============================================================================
