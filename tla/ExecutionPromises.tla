------------------------- MODULE ExecutionPromises -------------------------
(***************************************************************************)
(* What native execution guarantees about the worker processes, and what   *)
(* its documentation says that interruptions of the cleanup break.         *)
(***************************************************************************)
EXTENDS Execution

\* The variables stay in their types.
TypeOK ==
    /\ pc \in [Call -> DOMAIN Thrown]
    /\ armed \subseteq Call /\ saw \subseteq Call /\ active \subseteq Call
    /\ worker \in [Call -> {"none", "launching", "failed", "waiting", "running", "dead"}]
    /\ kid \in [Kid -> {"unborn", "alive", "dead"}]
    /\ parent \in [Kid -> Call \cup {None}]
    /\ known \subseteq Kid /\ termed \subseteq Kid
    /\ phase \in {"open", "gathering", "choosing", "terminating", "killing", "closed", "interrupted"}
    /\ todo \subseteq Call
    /\ victim \in Call \cup {None}

\* The worker of c and every descendant that its cleanup has signalled are dead.
TreeDead(c) == ~Alive(c) /\ \A k \in termed : parent[k] = c => kid[k] # "alive"

\* A call that got its worker and is over leaves no process of the tree it
\* signalled behind, or its entry stays in _active for close() to find: no
\* combination of deadline, disconnection and shutdown forgets a worker.  A call
\* that was cancelled again before it saw its worker (200) is not in saw: that
\* worker is forgotten.
NothingForgotten == \A c \in saw : pc[c] = "over" /\ c \notin active => TreeDead(c)

\* When close() has returned, the trees of all calls that got their worker are
\* dead, those whose cleanup was interrupted included.  A call that is
\* cancelled a second time in its finally clause, where it waits for its shielded
\* launch (200), by close() or by its deadline after a disconnect, never gets that
\* worker: it is not in saw, and nothing terminates it.
ClosedIsEmpty == phase = "closed" => \A c \in saw : TreeDead(c)

\* A call that is over but was interrupted in its finally clause: the worker's
\* entry is still there, or the process was never seen.
Abandoned == {c \in Call : pc[c] = "over" /\ (c \in active \/ c \notin saw)}

\* The slots bound the workers themselves, whoever finishes, fails, times out or
\* disconnects: beyond them live only workers of interrupted cleanups.
WorkersBounded ==
    Cardinality({c \in Call : (Alive(c) \/ worker[c] = "launching") /\ c \notin Abandoned}) <= MaxConcurrent

-----------------------------------------------------------------------------
(* README 17: "HTTP disconnects/timeouts kill and reap native execution     *)
(* worker trees, including tracked descendants in separate process groups." *)
(* The deadline that fires while the finally clause sleeps between SIGTERM  *)
(* and SIGKILL ends it there.                                               *)

\* Until shutdown, a call that is over has left no process of its tree alive.
TreesReaped == phase = "open" => \A c \in saw : pc[c] = "over" => TreeDead(c)

-----------------------------------------------------------------------------
(* Liveness.  The event loop runs what is ready, time passes, the operating *)
(* system ends a launch; nothing is assumed of the workers or their code.   *)

Fairness ==
    /\ \A c \in Call : /\ WF_vars(Launched(c)) /\ WF_vars(Salvaged(c)) /\ WF_vars(LaunchFailed(c))
                       /\ WF_vars(Kill(c)) /\ WF_vars(Reaped(c)) /\ WF_vars(Deadline(c))
                       /\ WF_vars(LaunchEnds(c)) /\ WF_vars(CloseTerm(c))
    /\ WF_vars(Gathered) /\ WF_vars(CloseKill) /\ WF_vars(CloseReaped) /\ WF_vars(CloseEnds)

FairSpec == Spec /\ Fairness

\* Every admitted call ends, in the queue too, whatever its code does.
CallsEnd == \A c \in Call : pc[c] # "idle" ~> pc[c] = "over"

\* close() returns, unless it is cancelled itself.
CloseReturns == phase = "gathering" ~> phase \in {"closed", "interrupted"}
=============================================================================
