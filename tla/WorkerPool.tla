------------------------------ MODULE WorkerPool ------------------------------
(***************************************************************************)
(* Start and stop of a server: serve_stdio and serve_streamable_http of    *)
(* transport.rs, run_workers, the loops of its worker tasks and of the     *)
(* reaper, and the shutdown token that ties them together.  What a worker  *)
(* does with its job is TaskBackend's matter; here a job is a phase of it. *)
(***************************************************************************)
CONSTANTS
    Pool,           \* worker tasks: workers_per_tool for each tool
    Transports,     \* who may start the pool: "stdio", "http" or "direct"
    PoolFaults      \* what may go wrong in this instance, see PoolFaultKind

\* serve: the handshake or the bind fails.  join: the service task is lost.
\* axum: the HTTP server ends.  discover: list_tools fails.  claim: a claim
\* errs.  panic: a tool, or list_tools, panics.
PoolFaultKind == {"serve", "join", "axum", "discover", "claim", "panic"}

ASSUME TransportsAssumption == Transports \subseteq {"stdio", "http", "direct"}
ASSUME PoolFaultsAssumption == PoolFaults \subseteq PoolFaultKind

VARIABLES
    setup,      \* who starts the pool, and enable_reaper of the configuration
    serve,      \* where the serve function (or the caller of run_workers) stands
    service,    \* the rmcp service, or the HTTP server, that serve waits for
    shutdown,   \* the shutdown token has fired
    pool,       \* where run_workers stands
    worker,     \* worker[w]: where run_tool_worker of w stands
    reaper,     \* where run_reaper stands
    cut         \* history: workers stopped in the middle of a job

poolVars == <<setup, serve, service, shutdown, pool, worker, reaper, cut>>

Gone == {"stopped", "panicked", "aborted"}
PoolOver == {"returned", "failed", "panicked", "aborted"}

PoolTypeOK ==
    /\ setup \in [transport: Transports, reaper: BOOLEAN]
    /\ serve \in {"start", "bind", "waiting", "draining", "ok", "err", "exited"}
    /\ service \in {"none", "up", "quit", "broken"}
    /\ shutdown \in BOOLEAN
    /\ pool \in {"unborn", "discover", "idle", "join"} \union PoolOver
    /\ worker \in [Pool -> {"unborn", "check", "claim", "backoff", "process"} \union Gone]
    /\ reaper \in {"none", "sleep", "sweep", "stopped", "aborted"}
    /\ cut \subseteq Pool

PoolInit ==
    /\ setup \in [transport: Transports, reaper: BOOLEAN]
    /\ serve = "start"
    /\ service = "none"
    /\ shutdown = FALSE
    /\ pool = "unborn"
    /\ worker = [w \in Pool |-> "unborn"]
    /\ reaper = "none"
    /\ cut = {}

(***************************************************************************)
(* serve_stdio, serve_streamable_http                                      *)
(***************************************************************************)
\* The service is up, and the pool is spawned beside it.
StartStdio ==
    /\ serve = "start" /\ setup.transport # "http"
    /\ serve' = "waiting" /\ service' = "up" /\ pool' = "discover"
    /\ UNCHANGED <<setup, shutdown, worker, reaper, cut>>

\* Over HTTP the pool is spawned first, on a background service's peer.
StartHttp ==
    /\ serve = "start" /\ setup.transport = "http"
    /\ serve' = "bind" /\ pool' = "discover"
    /\ UNCHANGED <<setup, service, shutdown, worker, reaper, cut>>

Bind ==
    /\ serve = "bind"
    /\ serve' = "waiting" /\ service' = "up"
    /\ UNCHANGED <<setup, shutdown, pool, worker, reaper, cut>>

\* The error is returned at once, whatever has been started.
StartFails ==
    /\ "serve" \in PoolFaults
    /\ serve = "bind" \/ (serve = "start" /\ setup.transport = "stdio")
    /\ serve' = "err"
    /\ UNCHANGED <<setup, service, shutdown, pool, worker, reaper, cut>>

\* The client closes stdin, or a caller of its own decides to stop.  An HTTP
\* server ends with the token, which nobody else fires, or by itself.
ServiceQuits ==
    /\ service = "up"
    /\ setup.transport = "http" => ("axum" \in PoolFaults \/ shutdown)
    /\ service' = "quit"
    /\ UNCHANGED <<setup, serve, shutdown, pool, worker, reaper, cut>>

ServiceBreaks ==
    /\ "join" \in PoolFaults /\ setup.transport = "stdio"
    /\ service = "up"
    /\ service' = "broken"
    /\ UNCHANGED <<setup, serve, shutdown, pool, worker, reaper, cut>>

\* The token is not fired: the pool is left to end by itself.
Mutant_WaitEndsNoCancel ==
    /\ serve = "waiting" /\ service = "quit"
    /\ serve' = "draining"
    /\ UNCHANGED <<setup, service, shutdown, pool, worker, reaper, cut>>

\* The service has finished: shutdown.cancel().
WaitEnds ==
    /\ serve = "waiting" /\ service = "quit"
    /\ shutdown' = TRUE
    /\ serve' = "draining"
    /\ UNCHANGED <<setup, service, pool, worker, reaper, cut>>

\* Its join failed: ? returns before the token is fired.
WaitErrs ==
    /\ serve = "waiting" /\ service = "broken"
    /\ serve' = "err"
    /\ UNCHANGED <<setup, service, shutdown, pool, worker, reaper, cut>>

\* The pool is cancelled, and not waited for.
Mutant_DrainSkipsJoin ==
    /\ serve = "draining"
    /\ serve' = "ok"
    /\ UNCHANGED <<setup, service, shutdown, pool, worker, reaper, cut>>

\* workers.await: whatever it returns is logged.
Drain ==
    /\ serve = "draining" /\ pool \in PoolOver
    /\ serve' = "ok"
    /\ UNCHANGED <<setup, service, shutdown, pool, worker, reaper, cut>>

\* main returns after serve: the runtime drops every task at its next await.
Exit ==
    /\ serve \in {"ok", "err"}
    /\ serve' = "exited"
    /\ pool' = IF pool \in PoolOver \union {"unborn"} THEN pool ELSE "aborted"
    /\ worker' = [w \in Pool |-> IF worker[w] \in Gone \union {"unborn"} THEN worker[w]
                                 ELSE "aborted"]
    /\ reaper' = IF reaper \in {"sleep", "sweep"} THEN "aborted" ELSE reaper
    /\ cut' = {w \in Pool : worker[w] = "process"}
    /\ UNCHANGED <<setup, service, shutdown>>

Serve ==
    \/ StartStdio \/ StartHttp \/ Bind \/ StartFails \/ WaitEnds \/ WaitErrs \/ Drain
    \/ Exit

(***************************************************************************)
(* run_workers                                                             *)
(***************************************************************************)
OnlyPool == UNCHANGED <<setup, serve, service, shutdown, cut>>

\* discover_task_tools finds task tools: their workers and the reaper start.
SpawnWorkers ==
    /\ pool = "discover"
    /\ pool' = "join"
    /\ worker' = [w \in Pool |-> "check"]
    /\ reaper' = IF setup.reaper THEN "sleep" ELSE "none"
    /\ OnlyPool

\* It finds none: no worker, no reaper.
FindNoTools == pool = "discover" /\ pool' = "idle" /\ OnlyPool /\ UNCHANGED <<worker, reaper>>

\* list_tools errs, and run_workers returns the error at once; or it panics.
DiscoverFails ==
    /\ pool = "discover"
    /\ \/ "discover" \in PoolFaults /\ pool' = "failed"
       \/ "panic" \in PoolFaults /\ pool' = "panicked"
    /\ OnlyPool /\ UNCHANGED <<worker, reaper>>

IdleEnds ==
    /\ pool = "idle" /\ shutdown
    /\ pool' = "returned"
    /\ OnlyPool /\ UNCHANGED <<worker, reaper>>

\* The first task to end ends the pool (if let for while let).
Mutant_JoinsOne ==
    /\ pool = "join"
    /\ \E w \in Pool : worker[w] \in Gone
    /\ pool' = "returned"
    /\ OnlyPool /\ UNCHANGED <<worker, reaper>>

\* join_next has seen every task end, in whichever way.
JoinWorkers ==
    /\ pool = "join"
    /\ \A w \in Pool : worker[w] \in Gone
    /\ reaper \in {"none", "stopped"}
    /\ pool' = "returned"
    /\ OnlyPool /\ UNCHANGED <<worker, reaper>>

RunWorkers == SpawnWorkers \/ FindNoTools \/ DiscoverFails \/ IdleEnds \/ JoinWorkers

(***************************************************************************)
(* run_tool_worker and run_reaper                                          *)
(***************************************************************************)
Step(w, from, to) ==
    /\ worker[w] = from
    /\ worker' = [worker EXCEPT ![w] = to]
    /\ UNCHANGED <<setup, serve, service, shutdown, pool, reaper, cut>>

\* The top of the loop; the select asks the token before the claim, too.
CheckShutdown(w) == Step(w, "check", IF shutdown THEN "stopped" ELSE "claim")
ClaimStops(w) == shutdown /\ Step(w, "claim", "stopped")
ClaimJob(w) == ~shutdown /\ Step(w, "claim", "process")
ClaimNothing(w) == ~shutdown /\ Step(w, "claim", "check")
ClaimErrs(w) == "claim" \in PoolFaults /\ ~shutdown /\ Step(w, "claim", "backoff")
BackoffEnds(w) == Step(w, "backoff", "check")
ProcessPanics(w) == "panic" \in PoolFaults /\ Step(w, "process", "panicked")

\* A job is settled before the token is looked at.
ProcessEnds(w) == Step(w, "process", "check")

RunToolWorker(w) ==
    \/ CheckShutdown(w) \/ ClaimStops(w) \/ ClaimJob(w) \/ ClaimNothing(w) \/ ClaimErrs(w)
    \/ BackoffEnds(w) \/ ProcessPanics(w) \/ ProcessEnds(w)

RunReaper ==
    /\ \/ reaper = "sleep" /\ shutdown /\ reaper' = "stopped"
       \/ reaper = "sleep" /\ ~shutdown /\ reaper' = "sweep"
       \/ reaper = "sweep" /\ reaper' = "sleep"
    /\ UNCHANGED <<setup, serve, service, shutdown, pool, worker, cut>>

PoolNext ==
    \/ Serve \/ ServiceQuits \/ ServiceBreaks \/ RunWorkers \/ RunReaper
    \/ \E w \in Pool : RunToolWorker(w)

PoolSpec == PoolInit /\ [][PoolNext]_poolVars

\* tokio runs every task that is ready, a claim returns within its wait, and
\* tools return.  Nobody has to close the connection.
FairPoolSpec ==
    /\ PoolSpec
    /\ WF_poolVars(Serve) /\ WF_poolVars(RunWorkers) /\ WF_poolVars(RunReaper)
    /\ \A w \in Pool : WF_poolVars(RunToolWorker(w))

(***************************************************************************)
(* Properties                                                              *)
(***************************************************************************)
\* The inductive form: a pool that is over has left no task behind, and serve
\* returns Ok only then; what has stopped, and not panicked, has seen the token;
\* nothing is aborted while the process runs.  run_workers returns Ok without the
\* token only when every tool has panicked and no reaper runs, which its doc does
\* not say; an error of list_tools ends it, too ("failed").
PoolInv ==
    /\ PoolTypeOK
    /\ pool \notin {"join", "returned", "aborted"} =>
         reaper = "none" /\ \A w \in Pool : worker[w] = "unborn"
    /\ pool = "returned" =>
         /\ \A w \in Pool : worker[w] \in {"unborn", "stopped", "panicked"}
         /\ reaper \in {"none", "stopped"}
    /\ \A w \in Pool : worker[w] = "stopped" => shutdown
    /\ reaper = "stopped" => shutdown
    /\ pool = "join" /\ setup.reaper => reaper # "none"
    /\ pool = "returned" /\ ~shutdown =>
         ~setup.reaper /\ \A w \in Pool : worker[w] = "panicked"
    /\ serve = "start" => pool = "unborn"
    /\ serve = "exited" => pool \in PoolOver \union {"unborn"}
    /\ serve = "ok" => pool \in {"returned", "failed", "panicked"}
    /\ serve # "exited" =>
         /\ pool # "aborted" /\ reaper # "aborted"
         /\ \A w \in Pool : worker[w] # "aborted"

\* When a serve function returns Ok, every task it started has ended by itself:
\* no worker is left on a job and no sweep half way, whichever tools panicked
\* and however the pool ended.  (serve awaits the pool, run_workers its tasks.)
DrainedWhenOk ==
    serve = "ok" =>
        /\ \A w \in Pool : worker[w] \in {"unborn", "stopped", "panicked"}
        /\ reaper \in {"none", "stopped"}

\* Once the service has finished, serve drains the pool and the process ends,
\* though there be always one more job: the token comes before the next claim.
ServeReturns == service = "quit" ~> serve = "exited"
==============================================================================
