----------------------------- MODULE Execution -----------------------------
(***************************************************************************)
(* One-shot native execution (execution.py): a call waits for a slot under *)
(* its deadline, launches a worker process, runs its code in it and always *)
(* terminates the worker's process tree in a finally clause; close()       *)
(* cancels every call and terminates what is left in the table of active   *)
(* processes.                                                              *)
(*                                                                         *)
(* An action is a stretch between two awaits, or a step of a process.  The *)
(* finally clause is shielded from the cancellation scope of the client,   *)
(* but not from the deadline and from close(), which cancel the task.      *)
(***************************************************************************)
EXTENDS Integers, FiniteSets

CONSTANTS
    Call,            \* calls of execute_code
    Kid,             \* descendants of the workers in process groups of their own
    MaxConcurrent,   \* execution_max_concurrent
    None             \* no call

ExecutionAssumption ==
    /\ IsFiniteSet(Call)
    /\ MaxConcurrent \in Nat \ {0}
    /\ None \notin Call

ASSUME ExecutionAssumption

VARIABLES
    \* a call: idle, queued for a slot, launching its worker, salvaging (waiting
    \* in the finally clause for a launch it did not see end), running,
    \* terminating (SIGTERM sent), killing (SIGKILL sent), over
    pc,
    armed,     \* calls whose deadline has not passed
    saw,       \* calls that have got the process their launch returned
    active,    \* calls with an entry in _active
    \* the processes: the worker of a call (its process group included) is none,
    \* launching, failed, waiting (for its payload), running or dead
    worker,
    kid,       \* unborn, alive or dead
    parent,    \* the call whose worker a descendant belongs to
    known,     \* descendants in the `known` of their call
    termed,    \* descendants that were sent SIGTERM
    \* close(): open, gathering (the cancelled calls), choosing the next entry,
    \* terminating or killing it, closed; interrupted: close() was cancelled
    phase,
    todo,      \* the entries of _active it has still to terminate
    victim     \* the one it is terminating

calls     == <<pc, armed, saw, active>>
processes == <<worker, kid, parent, known, termed>>
closing   == <<phase, todo, victim>>
vars      == <<calls, processes, closing>>

Init ==
    /\ pc = [c \in Call |-> "idle"]
    /\ armed = {} /\ saw = {} /\ active = {}
    /\ worker = [c \in Call |-> "none"]
    /\ kid = [k \in Kid |-> "unborn"]
    /\ parent = [k \in Kid |-> None]
    /\ known = {} /\ termed = {}
    /\ phase = "open" /\ todo = {} /\ victim = None

Alive(c)    == worker[c] \in {"waiting", "running"}
Kids(S)     == {k \in Kid : kid[k] = "alive" /\ parent[k] \in S}

\* Mutant: the slot is given back before the tree is terminated.
MutHolding == {c \in Call : pc[c] \in {"launching", "salvaging", "running"}}

\* The calls inside `async with self._slots`.
Holding     == {c \in Call : pc[c] \in {"launching", "salvaging", "running", "terminating", "killing"}}
HasRoom     == Cardinality(Holding) < MaxConcurrent
Closed      == phase # "open"

-----------------------------------------------------------------------------
(* Termination. *)

\* _terminate up to its sleep: scan the trees once more and send SIGTERM.  It
\* ends a worker that still waits for its payload (no handler is installed yet);
\* any other process may ignore it, or end at any time by itself.
SigTerm(S) ==
    LET found == known \cup Kids({c \in S : Alive(c)})
    IN  /\ known' = found
        /\ termed' = termed \cup (found \cap Kids(S))
        /\ worker' = [c \in Call |-> IF c \in S /\ worker[c] = "waiting" THEN "dead" ELSE worker[c]]
        /\ UNCHANGED <<kid, parent>>

\* Mutant: SIGKILL goes to the worker's process group only.
MutSigKill(c) == /\ worker' = [worker EXCEPT ![c] = "dead"]
                 /\ UNCHANGED <<kid, parent, known, termed>>

\* _terminate after its sleep: SIGKILL.
SigKill(c) ==
    /\ worker' = [worker EXCEPT ![c] = "dead"]
    /\ kid' = [k \in Kid |-> IF k \in known \cap Kids({c}) THEN "dead" ELSE kid[k]]
    /\ UNCHANGED <<parent, known, termed>>

\* Mutant: a state of a call nobody handles.
MutThrown == [idle |-> "idle", over |-> "over", queued |-> "cancelled", launching |-> "salvaging",
              salvaging |-> "over", running |-> "terminating", terminating |-> "over", killing |-> "over"]

\* Where a task goes when it is cancelled at its await.
Thrown == [idle |-> "idle", over |-> "over", queued |-> "over", launching |-> "salvaging",
           salvaging |-> "over", running |-> "terminating", terminating |-> "over", killing |-> "over"]

\* Mutant: the entry is dropped although the cleanup is interrupted.
MutThrow(S) ==
    /\ pc' = [c \in Call |-> IF c \in S THEN Thrown[pc[c]] ELSE pc[c]]
    /\ SigTerm({c \in S : pc[c] = "running"})
    /\ active' = active \ {c \in S : pc[c] \in {"terminating", "killing"}}
    /\ UNCHANGED saw

\* The tasks of S are cancelled.  One that runs enters its finally clause; one
\* that is in it leaves it, and what it has not done yet is not done.
Throw(S) ==
    /\ pc' = [c \in Call |-> IF c \in S THEN Thrown[pc[c]] ELSE pc[c]]
    /\ SigTerm({c \in S : pc[c] = "running"})
    /\ UNCHANGED <<saw, active>>

-----------------------------------------------------------------------------
(* The calls. *)

Launch(c) ==
    /\ pc' = [pc EXCEPT ![c] = "launching"]
    /\ worker' = [worker EXCEPT ![c] = "launching"]

Waiting == {c \in Call : pc[c] = "queued"}

\* A valid request before shutdown arms its deadline; without a free slot it is queued.
Arrive(c) ==
    /\ pc[c] = "idle" /\ ~Closed
    /\ armed' = armed \cup {c}
    /\ IF HasRoom /\ Waiting = {}
       THEN Launch(c)
       ELSE pc' = [pc EXCEPT ![c] = "queued"] /\ UNCHANGED worker
    /\ UNCHANGED <<saw, active, kid, parent, known, termed, closing>>

Acquire(c) ==
    /\ pc[c] = "queued" /\ HasRoom
    /\ IF Closed
       THEN pc' = [pc EXCEPT ![c] = "over"] /\ UNCHANGED worker
       ELSE Launch(c)
    /\ UNCHANGED <<armed, saw, active, kid, parent, known, termed, closing>>

\* The launch returned to its call: the process is registered and gets its code,
\* unless the executor was closed meanwhile.
Launched(c) ==
    /\ pc[c] = "launching" /\ worker[c] \in {"waiting", "dead"}
    /\ saw' = saw \cup {c}
    /\ active' = active \cup {c}
    /\ IF Closed
       THEN pc' = [pc EXCEPT ![c] = "terminating"] /\ SigTerm({c})
       ELSE /\ pc' = [pc EXCEPT ![c] = "running"]
            /\ worker' = [worker EXCEPT ![c] = IF @ = "waiting" THEN "running" ELSE @]
            /\ UNCHANGED <<kid, parent, known, termed>>
    /\ UNCHANGED <<armed, closing>>

\* The finally clause gets the process of a launch that ended after its call was
\* cancelled; the process is terminated without ever being registered.
Salvaged(c) ==
    /\ pc[c] = "salvaging" /\ worker[c] \in {"waiting", "dead"}
    /\ saw' = saw \cup {c}
    /\ pc' = [pc EXCEPT ![c] = "terminating"]
    /\ SigTerm({c})
    /\ UNCHANGED <<armed, active, closing>>

LaunchFailed(c) ==
    /\ pc[c] \in {"launching", "salvaging"} /\ worker[c] = "failed"
    /\ pc' = [pc EXCEPT ![c] = "over"]
    /\ UNCHANGED <<armed, saw, active, processes, closing>>

\* The worker is done, or its output is over budget, or its pipe broke.
RunEnds(c) ==
    /\ pc[c] = "running"
    /\ Throw({c})
    /\ UNCHANGED <<armed, closing>>

Kill(c) ==
    /\ pc[c] = "terminating"
    /\ pc' = [pc EXCEPT ![c] = "killing"]
    /\ SigKill(c)
    /\ UNCHANGED <<armed, saw, active, closing>>

\* The worker has been waited for: the tracker and the entry go, the call ends.
Reaped(c) ==
    /\ pc[c] = "killing" /\ worker[c] = "dead"
    /\ pc' = [pc EXCEPT ![c] = "over"]
    /\ active' = active \ {c}
    /\ UNCHANGED <<armed, saw, processes, closing>>

\* Mutant: the time spent running does not count.
MutDeadline(c) ==
    /\ c \in armed /\ pc[c] \notin {"idle", "running", "over"}
    /\ armed' = armed \ {c}
    /\ Throw({c})
    /\ UNCHANGED closing

\* asyncio.timeout cancels the task once, wherever it is.
Deadline(c) ==
    /\ c \in armed /\ pc[c] \notin {"idle", "over"}
    /\ armed' = armed \ {c}
    /\ Throw({c})
    /\ UNCHANGED closing

\* The client is gone: its scope is cancelled, which the finally clause ignores.
Disconnect(c) ==
    /\ pc[c] \in {"queued", "launching", "running"}
    /\ Throw({c})
    /\ UNCHANGED <<armed, closing>>

-----------------------------------------------------------------------------
(* The processes. *)

LaunchEnds(c) ==
    /\ worker[c] = "launching"
    /\ \E w \in {"waiting", "failed"} : worker' = [worker EXCEPT ![c] = w]
    /\ UNCHANGED <<calls, kid, parent, known, termed, closing>>

\* A worker that ends in good order reaps its children first.
WorkerExits(c) ==
    /\ Alive(c)
    /\ worker' = [worker EXCEPT ![c] = "dead"]
    /\ \/ kid' = [k \in Kid |-> IF k \in Kids({c}) THEN "dead" ELSE kid[k]]
       \/ UNCHANGED kid
    /\ UNCHANGED <<calls, parent, known, termed, closing>>

KidBorn(k, c) ==
    /\ kid[k] = "unborn"
    /\ worker[c] = "running" \/ Kids({c}) # {}
    /\ kid' = [kid EXCEPT ![k] = "alive"]
    /\ parent' = [parent EXCEPT ![k] = c]
    /\ UNCHANGED <<calls, worker, known, termed, closing>>

KidExits(k) ==
    /\ kid[k] = "alive"
    /\ kid' = [kid EXCEPT ![k] = "dead"]
    /\ UNCHANGED <<calls, worker, parent, known, termed, closing>>

\* The tracker's thread records a descendant; one it saw before the worker
\* ended may be recorded after.
Track(k) ==
    /\ kid[k] = "alive" /\ parent[k] \in active /\ k \notin known
    /\ known' = known \cup {k}
    /\ UNCHANGED <<calls, worker, kid, parent, termed, closing>>

-----------------------------------------------------------------------------
(* close(). *)

CloseBegins ==
    /\ phase \in {"open", "interrupted"}
    /\ phase' = "gathering"
    /\ Throw(Call)
    /\ UNCHANGED <<armed, todo, victim>>

\* Mutant: close() trusts the finally clauses and does not walk the table.
MutGathered ==
    /\ phase = "gathering" /\ \A c \in Call : pc[c] \in {"idle", "over"}
    /\ phase' = "choosing"
    /\ todo' = {}
    /\ UNCHANGED <<calls, processes, victim>>

Gathered ==
    /\ phase = "gathering" /\ \A c \in Call : pc[c] \in {"idle", "over"}
    /\ phase' = "choosing"
    /\ todo' = active
    /\ UNCHANGED <<calls, processes, victim>>

CloseTerm(c) ==
    /\ phase = "choosing" /\ c \in todo
    /\ phase' = "terminating" /\ victim' = c
    /\ SigTerm({c})
    /\ UNCHANGED <<calls, todo>>

CloseKill ==
    /\ phase = "terminating"
    /\ phase' = "killing"
    /\ SigKill(victim)
    /\ UNCHANGED <<calls, todo, victim>>

\* Mutant: close() goes round the same entry again.
MutCloseReaped ==
    /\ phase = "killing" /\ worker[victim] = "dead"
    /\ phase' = "choosing"
    /\ UNCHANGED <<calls, processes, todo, victim>>

CloseReaped ==
    /\ phase = "killing" /\ worker[victim] = "dead"
    /\ phase' = "choosing" /\ todo' = todo \ {victim} /\ victim' = None
    /\ UNCHANGED <<calls, processes>>

CloseEnds ==
    /\ phase = "choosing" /\ todo = {}
    /\ phase' = "closed"
    /\ UNCHANGED <<calls, processes, todo, victim>>

\* A cancelled gather() cancels what it gathers, once more.
CloseCancelled ==
    /\ phase \in {"gathering", "terminating", "killing"}
    /\ phase' = "interrupted" /\ todo' = {} /\ victim' = None
    /\ IF phase = "gathering" THEN Throw(Call) /\ UNCHANGED armed
                              ELSE UNCHANGED <<calls, processes>>

-----------------------------------------------------------------------------

Next ==
    \/ \E c \in Call : \/ Arrive(c) \/ Acquire(c) \/ Launched(c) \/ Salvaged(c) \/ LaunchFailed(c)
                       \/ RunEnds(c) \/ Kill(c) \/ Reaped(c) \/ Deadline(c) \/ Disconnect(c)
                       \/ LaunchEnds(c) \/ WorkerExits(c) \/ CloseTerm(c)
    \/ \E k \in Kid : \/ KidExits(k) \/ Track(k)
                      \/ \E c \in Call : KidBorn(k, c)
    \/ CloseBegins \/ Gathered \/ CloseKill \/ CloseReaped \/ CloseEnds \/ CloseCancelled

Spec == Init /\ [][Next]_vars
=============================================================================
