--------------------------- MODULE WorkerPoolProofs ---------------------------
(***************************************************************************)
(* A serve function that returns Ok has drained its pool, for any number   *)
(* of workers, any transport and any of the faults.                        *)
(***************************************************************************)
EXTENDS WorkerPool, TLAPS

LEMMA PoolInvInit == PoolInit => PoolInv
  BY DEF PoolInit, PoolInv, PoolTypeOK, Gone, PoolOver

\* A worker task that is running belongs to a pool that waits for it.
LEMMA RunningWorker ==
    ASSUME PoolInv, NEW w \in Pool,
           worker[w] \in {"check", "claim", "backoff", "process"}
    PROVE  pool \in {"join", "aborted"}
  BY DEF PoolInv, PoolTypeOK, PoolOver

LEMMA WorkerKeepsPoolInv ==
    ASSUME PoolInv, NEW w \in Pool, RunToolWorker(w)
    PROVE  PoolInv'
  <1>1. PICK from \in {"check", "claim", "backoff", "process"},
             to \in {"check", "claim", "backoff", "process", "stopped", "panicked"} :
               Step(w, from, to) /\ (to = "stopped" => shutdown)
    BY DEF RunToolWorker, CheckShutdown, ClaimStops, ClaimJob, ClaimNothing, ClaimErrs,
           BackoffEnds, ProcessPanics, ProcessEnds
  <1>2. pool \in {"join", "aborted"}
    BY <1>1, RunningWorker DEF Step
  <1>3. \A v \in Pool : worker'[v] = IF v = w THEN to ELSE worker[v]
    BY <1>1 DEF Step, PoolInv, PoolTypeOK
  <1>4. PoolTypeOK'
    BY <1>1 DEF Step, PoolInv, PoolTypeOK, Gone
  <1> QED
    BY <1>1, <1>2, <1>3, <1>4 DEF Step, PoolInv

LEMMA ServeKeepsPoolInv ==
    ASSUME PoolInv, Serve \/ ServiceQuits \/ ServiceBreaks
    PROVE  PoolInv'
  <1>1. CASE StartStdio \/ StartHttp
    BY <1>1 DEF StartStdio, StartHttp, PoolInv, PoolTypeOK
  <1>2. CASE Bind \/ StartFails \/ ServiceQuits \/ ServiceBreaks \/ WaitEnds \/ WaitErrs
    BY <1>2
    DEF Bind, StartFails, ServiceQuits, ServiceBreaks, WaitEnds, WaitErrs, PoolInv,
        PoolTypeOK
  <1>3. CASE Drain
    BY <1>3 DEF Drain, PoolInv, PoolTypeOK, PoolOver
  <1>4. CASE Exit
    <2>1. serve \in {"ok", "err"} /\ serve' = "exited"
      BY <1>4 DEF Exit
    <2>2. PoolTypeOK'
      BY <1>4 DEF Exit, PoolInv, PoolTypeOK, Gone, PoolOver
    <2>3. CASE pool \in PoolOver \union {"unborn"}
      <3>1. pool' = pool /\ pool # "aborted"
        BY <1>4, <2>1, <2>3 DEF Exit, PoolInv
      <3>2. \A w \in Pool : worker[w] \in Gone \union {"unborn"}
        BY <2>3, <3>1 DEF PoolInv, PoolTypeOK, PoolOver, Gone
      <3>3. reaper \in {"none", "stopped"}
        BY <2>3, <3>1 DEF PoolInv, PoolTypeOK, PoolOver
      <3>4. /\ reaper' = reaper /\ shutdown' = shutdown /\ setup' = setup
            /\ \A w \in Pool : worker'[w] = worker[w]
        BY <1>4, <3>2, <3>3 DEF Exit
      <3> QED
        BY <2>1, <2>2, <2>3, <3>1, <3>3, <3>4 DEF PoolInv, PoolOver
    <2>4. CASE pool \notin PoolOver \union {"unborn"}
      BY <1>4, <2>1, <2>2, <2>4 DEF Exit, PoolInv, PoolOver, Gone
    <2> QED
      BY <2>3, <2>4
  <1> QED
    BY <1>1, <1>2, <1>3, <1>4 DEF Serve

LEMMA RunWorkersKeepsPoolInv ==
    ASSUME PoolInv, RunWorkers \/ RunReaper
    PROVE  PoolInv'
  <1>0. pool \in {"discover", "idle", "join"} => serve # "exited" /\ serve # "ok"
    BY DEF PoolInv, PoolOver
  <1>1. CASE SpawnWorkers
    BY <1>0, <1>1 DEF SpawnWorkers, OnlyPool, PoolInv, PoolTypeOK
  <1>2. CASE FindNoTools
    BY <1>0, <1>2 DEF FindNoTools, OnlyPool, PoolInv, PoolTypeOK
  <1>3. CASE DiscoverFails
    BY <1>0, <1>3 DEF DiscoverFails, OnlyPool, PoolInv, PoolTypeOK, PoolOver
  <1>4. CASE IdleEnds
    BY <1>0, <1>4 DEF IdleEnds, OnlyPool, PoolInv, PoolTypeOK, PoolOver
  <1>5. CASE JoinWorkers
    BY <1>0, <1>5 DEF JoinWorkers, OnlyPool, PoolInv, PoolTypeOK, PoolOver, Gone
  <1>6. CASE RunReaper
    BY <1>6 DEF RunReaper, PoolInv, PoolTypeOK
  <1> QED
    BY <1>1, <1>2, <1>3, <1>4, <1>5, <1>6 DEF RunWorkers

LEMMA PoolInvStep == PoolInv /\ [PoolNext]_poolVars => PoolInv'
  <1> SUFFICES ASSUME PoolInv, [PoolNext]_poolVars  PROVE PoolInv'
    OBVIOUS
  <1>1. CASE PoolNext
    BY <1>1, WorkerKeepsPoolInv, ServeKeepsPoolInv, RunWorkersKeepsPoolInv DEF PoolNext
  <1>2. CASE UNCHANGED poolVars
    BY <1>2 DEF poolVars, PoolInv, PoolTypeOK
  <1> QED
    BY <1>1, <1>2

\* The inductive invariant of the pool: run_workers returns only when every
\* task it started has ended, and serve returns Ok only when the pool is over.
THEOREM PoolInvariant == PoolSpec => []PoolInv
  BY PoolInvInit, PoolInvStep, PTL DEF PoolSpec

\* When serve_stdio or serve_streamable_http returns Ok, no worker is left on a
\* job and no sweep half way.
THEOREM ServeDrains == PoolSpec => []DrainedWhenOk
  <1>1. PoolInv => DrainedWhenOk
    BY DEF PoolInv, DrainedWhenOk
  <1> QED
    BY <1>1, PoolInvariant, PTL
==============================================================================
