---------------------------- MODULE TaskLifecycle ----------------------------
(***************************************************************************)
(* What taquba-mcp promises a client about the status of a task: it is     *)
(* unknown, then working, then has an outcome, and is never working again. *)
(* A committed outcome is final.  An outcome that was not committed (a     *)
(* dead-lettered failure, a job the queue gave up on) may still be         *)
(* superseded by a cancellation that was under way, and a task may be lost *)
(* without any outcome; nothing else may happen to it.                     *)
(***************************************************************************)
CONSTANTS Tasks

VARIABLES
    status,      \* status[t]: what tasks/get answers about t
    committed    \* tasks whose outcome was committed with the job's settlement

vars == <<status, committed>>

Outcome == {"completed", "failed", "cancelled"}
Status == {"unknown", "working", "lost"} \union Outcome

Init ==
    /\ status = [t \in Tasks |-> "unknown"]
    /\ committed = {}

Become(t, to) == status' = [status EXCEPT ![t] = to]

Accept(t) ==
    /\ status[t] = "unknown"
    /\ Become(t, "working")
    /\ UNCHANGED committed

Commit(t) ==
    /\ status[t] = "working"
    /\ \E outcome \in {"completed", "cancelled"} : Become(t, outcome)
    /\ committed' = committed \union {t}

\* The job ends without a commit.
Conclude(t) ==
    /\ status[t] = "working"
    /\ \E end \in Outcome \union {"lost"} : Become(t, end)
    /\ UNCHANGED committed

Supersede(t) ==
    /\ t \notin committed
    /\ status[t] \in Outcome \union {"lost"}
    /\ Become(t, "cancelled")
    /\ UNCHANGED committed

\* A restart forgets every request whose job never reached the queue.
LoseSome ==
    /\ \E gone \in SUBSET {t \in Tasks : status[t] = "working"} :
         \E end \in [gone -> Outcome \union {"lost"}] :
           status' = [t \in Tasks |-> IF t \in gone THEN end[t] ELSE status[t]]
    /\ UNCHANGED committed

Next ==
    \/ \E t \in Tasks : Accept(t) \/ Commit(t) \/ Conclude(t) \/ Supersede(t)
    \/ LoseSome

Spec == Init /\ [][Next]_vars
==============================================================================
