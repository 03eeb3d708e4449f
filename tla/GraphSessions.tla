--------------------------- MODULE GraphSessions ---------------------------
(***************************************************************************)
(* Samchon Graph (upstreams.py): one resident MCP session for each project *)
(* root, at most MaxSessions of them once the idle ones are trimmed.  A    *)
(* session has an owner task, which alone enters and leaves the transports *)
(* and serves a queue of requests; callers reach it through a lock of the  *)
(* client (which session) and one of the session (is its owner running).   *)
(*                                                                         *)
(* An action is a stretch between two awaits of a caller, an owner task or *)
(* a cleanup task.  A step that takes a free lock is an action of its own: *)
(* the code does not suspend there, the model allows it to.                *)
(***************************************************************************)
EXTENDS Integers, FiniteSets, Sequences

CONSTANTS
    Caller,        \* coroutines that call, describe or probe
    Session,       \* session objects, each used once
    Root,          \* resolved project roots
    SchemaRoot,    \* samchon_graph_schema_cwd
    MaxSessions,   \* samchon_graph_max_sessions
    MaxBreaks,     \* bound on the transports that break
    Kinds,         \* operations of the instance: call, describe, healthy
    Closer,        \* a close of a session, in its queue and as holder of its lock
    None

GraphAssumption ==
    /\ IsFiniteSet(Caller) /\ IsFiniteSet(Session)
    /\ SchemaRoot \in Root
    /\ MaxSessions \in Nat \ {0} /\ MaxBreaks \in Nat
    /\ Kinds \subseteq {"call", "describe", "healthy"}
    /\ Closer \notin Caller /\ None \notin Caller \cup Session \cup {Closer}

ASSUME GraphAssumption

VARIABLES
    \* callers
    pc,        \* where it waits, see TypeOK and the README
    kind, want,
    sess,      \* the session it works with
    resp,      \* its response future: none, waiting, cancelled, value, failed
    awaits,    \* the evicted sessions whose close it awaits
    \* the client
    lock,      \* the caller that holds _lock across an await
    status,    \* new, unlisted (being created), resident (in _sessions), retired
    root,
    active,    \* active_calls
    trims,     \* lru-trim tasks that wait for the lock
    batches,   \* retire-sessions tasks: what each has still to close
    failed,    \* sessions of a retire task that raised at one of them
    late,      \* owner tasks tracked after their abort
    phase,     \* of close(): open, closing, returned, raised
    own,       \* the sessions close() has taken
    \* the sessions
    shut,      \* sessions with _closed set
    slock,     \* holder of _lifecycle_lock across an await
    \* the owner task: gone, starting, failing (leaving before it was ready),
    \* serving, exiting (leaving)
    task,
    queue,     \* waiting requests, by caller, and Closer
    inflight,  \* the request it works on
    pending,   \* _pending_operations
    breaks

callers  == <<pc, kind, want, sess, resp, awaits>>
client   == <<lock, status, root, active, trims, batches, failed, late, phase, own>>
owners   == <<shut, slock, task, queue, inflight, pending, breaks>>
vars     == <<callers, client, owners>>

Init ==
    /\ pc = [c \in Caller |-> "idle"] /\ kind = [c \in Caller |-> "call"]
    /\ want = [c \in Caller |-> SchemaRoot]
    /\ sess = [c \in Caller |-> None] /\ resp = [c \in Caller |-> "none"]
    /\ awaits = [c \in Caller |-> {}]
    /\ lock = None /\ status = [s \in Session |-> "new"] /\ root = [s \in Session |-> SchemaRoot]
    /\ active = [s \in Session |-> 0] /\ trims = 0
    /\ batches = {} /\ failed = {} /\ late = {} /\ phase = "open" /\ own = {}
    /\ shut = {} /\ slock = [s \in Session |-> None]
    /\ task = [s \in Session |-> "gone"]
    /\ queue = [s \in Session |-> <<>>] /\ inflight = [s \in Session |-> None]
    /\ pending = [s \in Session |-> 0] /\ breaks = 0

closed      == phase # "open"
Resident    == {s \in Session : status[s] = "resident"}
Stopped(s)  == task[s] = "gone"
InQueue(s)  == {queue[s][i] : i \in DOMAIN queue[s]}

\* Mutant: a session without queued requests is idle, whoever is about to use it.
MutBusy(a, s) == pending[s] > 0

\* has_active_work, for the values a of active_calls.
Busy(a, s)  == a[s] > 0 \/ pending[s] > 0

\* Mutant: creations do not exclude each other.
MutLockFree == TRUE

\* Nobody holds the client's lock.
LockFree    == lock = None

-----------------------------------------------------------------------------
(* Eviction. *)

\* What _trim_sessions_unlocked may evict from the sessions R: idle ones, until
\* MaxSessions are left.  Their order of use is left open.
Evictions(R, protected, a) ==
    LET idle == {s \in R \ protected : ~Busy(a, s)}
        over == Cardinality(R) - MaxSessions
    IN  IF over <= 0 THEN {{}}
        ELSE {E \in SUBSET idle : Cardinality(E) = IF Cardinality(idle) < over THEN Cardinality(idle) ELSE over}

\* Mutant: nobody closes what is evicted.
MutRetire(R, E) ==
    /\ status' = [s \in Session |-> IF s \in E THEN "retired" ELSE IF s \in R THEN "resident" ELSE status[s]]
    /\ UNCHANGED batches

\* The sessions become R without E, and E is closed by a task of its own.
Retire(R, E) ==
    /\ status' = [s \in Session |-> IF s \in E THEN "retired" ELSE IF s \in R THEN "resident" ELSE status[s]]
    /\ batches' = batches \cup ({E} \ {{}})

\* Mutant: the end of an operation does not schedule a trim.
MutHooks(S, n) == trims' = trims

\* n operations of s have ended: _on_activity_finished of a registered session
\* schedules a trim for each.
Hooks(s, n) ==
    trims' = IF status[s] \in {"resident", "retired"} /\ ~closed THEN trims + n ELSE trims

-----------------------------------------------------------------------------
(* Callers. *)

\* The caller goes to p; one that is over has no variables any more.
Goes(c, p) ==
    /\ pc' = [pc EXCEPT ![c] = p]
    /\ sess' = [sess EXCEPT ![c] = IF p = "over" THEN None ELSE @]
    /\ want' = [want EXCEPT ![c] = IF p = "over" THEN SchemaRoot ELSE @]

\* The caller evicts E and is over when E is closed.
Evicts(c, E) ==
    /\ Retire(Resident, E)
    /\ awaits' = [awaits EXCEPT ![c] = E]
    /\ Goes(c, IF E = {} THEN "over" ELSE "retiring")

Settled(c) == awaits[c] \cap UNION batches = {}

\* Gateway.start describes the tool before any request is served.
Serving == \A c \in Caller : kind[c] = "describe" => pc[c] = "over"

Arrive(c) ==
    /\ pc[c] = "idle"
    /\ \/ /\ "call" \in Kinds /\ Serving
          /\ \E r \in Root : want' = [want EXCEPT ![c] = r]
          /\ UNCHANGED kind
       \/ /\ "describe" \in Kinds /\ \A d \in Caller : pc[d] = "idle"
          /\ kind' = [kind EXCEPT ![c] = "describe"]
          /\ UNCHANGED want
    /\ pc' = [pc EXCEPT ![c] = "lock"]
    /\ UNCHANGED <<sess, resp, awaits, client, owners>>

\* healthy() takes no lock of the client; it asks only a resident, idle session.
Probe(c) ==
    /\ pc[c] = "idle" /\ "healthy" \in Kinds /\ Serving /\ ~closed
    /\ \E s \in Resident :
        /\ root[s] = SchemaRoot /\ ~Busy(active, s)
        /\ sess' = [sess EXCEPT ![c] = s]
    /\ kind' = [kind EXCEPT ![c] = "healthy"]
    /\ pc' = [pc EXCEPT ![c] = "enter"]
    /\ UNCHANGED <<want, resp, awaits, client, owners>>

\* The caller goes on with a session of the residents R: a call pins it and trims,
\* describe asks it once more under the lock.
Use(c, s, R) ==
    /\ sess' = [sess EXCEPT ![c] = s]
    /\ IF kind[c] = "call"
       THEN /\ active' = [active EXCEPT ![s] = @ + 1]
            /\ \E E \in Evictions(R, {s}, active') :
                /\ Retire(R, E)
                /\ awaits' = [awaits EXCEPT ![c] = E]
                /\ pc' = [pc EXCEPT ![c] = IF E = {} THEN "enter" ELSE "evicting"]
            /\ lock' = None
       ELSE /\ Retire(R, {}) /\ pc' = [pc EXCEPT ![c] = "enter"]
            /\ lock' = c
            /\ UNCHANGED <<active, awaits>>

Find(c) ==
    /\ pc[c] = "lock" /\ LockFree /\ ~closed
    /\ \E s \in Resident : root[s] = want[c] /\ Use(c, s, Resident)
    /\ UNCHANGED <<kind, want, resp, root, trims, failed, late, phase, own, owners>>

\* An owner task starts for s, with a new queue.
Start(s) ==
    /\ task' = [task EXCEPT ![s] = "starting"]
    /\ queue' = [queue EXCEPT ![s] = <<>>]

\* What a caller that waits for the start of s learns from its future.
Ready(s)    == task[s] \in {"serving", "exiting"}
NotReady(s) == Stopped(s)

\* A new session is started and asked for its tools under the client's lock.
Create(c) ==
    /\ pc[c] = "lock" /\ LockFree /\ ~closed
    /\ \A s \in Resident : root[s] # want[c]
    /\ \E s \in Session :
        /\ status[s] = "new"
        /\ status' = [status EXCEPT ![s] = "unlisted"]
        /\ root' = [root EXCEPT ![s] = want[c]]
        /\ sess' = [sess EXCEPT ![c] = s]
        /\ slock' = [slock EXCEPT ![s] = c]
        /\ Start(s)
    /\ lock' = c
    /\ pc' = [pc EXCEPT ![c] = "starting"]
    /\ UNCHANGED <<kind, want, resp, awaits, active, trims, batches, failed, late, phase, own,
                   shut, inflight, pending, breaks>>

Refused(c) ==
    /\ pc[c] = "lock" /\ LockFree /\ closed
    /\ Goes(c, "over")
    /\ UNCHANGED <<kind, resp, awaits, client, owners>>

\* _request puts its operation on the queue and leaves the lifecycle lock.
Put(c, s) ==
    /\ queue' = [queue EXCEPT ![s] = Append(@, c)]
    /\ pending' = [pending EXCEPT ![s] = @ + 1]
    /\ resp' = [resp EXCEPT ![c] = "waiting"]
    /\ slock' = [slock EXCEPT ![s] = None]

Started(c) ==
    /\ pc[c] = "starting" /\ Ready(sess[c])
    /\ Put(c, sess[c])
    /\ Goes(c, "checking")
    /\ UNCHANGED <<kind, awaits, client, shut, task, inflight, breaks>>

\* Mutant: the operation is counted off although none was in flight.
MutAbort(c) ==
    LET s == sess[c]
    IN  /\ shut' = shut \cup {s}
        /\ slock' = [slock EXCEPT ![s] = None]
        /\ Goes(c, "aborting") /\ UNCHANGED lock
        /\ task' = [task EXCEPT ![s] = "failing"]
        /\ inflight' = [inflight EXCEPT ![s] = None]
        /\ pending' = [pending EXCEPT ![s] = @ - 1]

\* A session that could not be created is aborted; its owner task is cancelled,
\* which ends the operation it works on.
Abort(c) ==
    LET s == sess[c]
    IN  /\ shut' = shut \cup {s}
        /\ slock' = [slock EXCEPT ![s] = None]
        /\ IF Stopped(s)
           THEN /\ Goes(c, "over") /\ lock' = None
                /\ UNCHANGED <<task, inflight, pending>>
           ELSE /\ Goes(c, "aborting") /\ UNCHANGED lock
                /\ task' = [task EXCEPT ![s] = IF @ \in {"starting", "failing"} THEN "failing" ELSE "exiting"]
                /\ inflight' = [inflight EXCEPT ![s] = None]
                /\ pending' = [pending EXCEPT ![s] = IF inflight[s] = None THEN @ ELSE @ - 1]

StartFailed(c) ==
    /\ pc[c] = "starting" /\ NotReady(sess[c])
    /\ Abort(c)
    /\ UNCHANGED <<kind, resp, awaits, status, root, active, trims, batches, failed, late,
                   phase, own, queue, breaks>>

\* The tools of a new session: exactly the graph tool, and it is registered.
Register(c) ==
    /\ pc[c] = "checking" /\ resp[c] = "value"
    /\ Use(c, sess[c], Resident \cup {sess[c]})
    /\ resp' = [resp EXCEPT ![c] = "none"]
    /\ UNCHANGED <<kind, want, root, trims, failed, late, phase, own, owners>>

\* The caller gives up its response, if it waits for one.
Drop(c) == resp' = [resp EXCEPT ![c] = IF @ \in {"waiting", "cancelled"} THEN "cancelled" ELSE "none"]

\* No answer, or other tools than the graph tool.
Reject(c) ==
    /\ pc[c] = "checking" /\ resp[c] \in {"value", "failed"}
    /\ Abort(c)
    /\ Drop(c)
    /\ UNCHANGED <<kind, awaits, status, root, active, trims, batches, failed, late,
                   phase, own, queue, breaks>>

\* abort() has seen the owner task end.
Aborted(c) ==
    /\ pc[c] = "aborting" /\ Stopped(sess[c])
    /\ Goes(c, "over") /\ lock' = None
    /\ UNCHANGED <<kind, resp, awaits, status, root, active, trims, batches, failed, late,
                   phase, own, owners>>

\* Mutant: the owner task that outlives the wait is not tracked.
MutGivesUp(c) ==
    /\ Goes(c, "over") /\ lock' = None
    /\ UNCHANGED <<late, slock, resp>>

\* abort() stops waiting: the owner task is tracked as a cleanup.
GivesUp(c) ==
    /\ Goes(c, "over") /\ lock' = None
    /\ late' = late \cup {s \in {sess[c]} : ~Stopped(s)}
    /\ UNCHANGED <<slock, resp>>

AbortTimesOut(c) ==
    /\ pc[c] = "aborting" /\ ~Stopped(sess[c])
    /\ GivesUp(c)
    /\ UNCHANGED <<kind, awaits, status, root, active, trims, batches, failed,
                   phase, own, shut, task, queue, inflight, pending, breaks>>

\* The evicted sessions are closed, or their task raised at one of them.
Evicted(c) ==
    /\ pc[c] = "evicting" /\ Settled(c)
    /\ Goes(c, IF awaits[c] \cap failed = {} THEN "enter" ELSE "leave")
    /\ awaits' = [awaits EXCEPT ![c] = {}]
    /\ UNCHANGED <<kind, resp, client, owners>>

\* What follows a request that ended without a value: the finally clause of call.
Ended(c) ==
    /\ Goes(c, IF kind[c] = "call" THEN "leave" ELSE "over")
    /\ lock' = IF lock = c THEN None ELSE lock

\* _request with the lifecycle lock: an owner that is gone is started again, unless
\* the session was closed.
Request(c) ==
    LET s == sess[c]
    IN  /\ pc[c] = "enter" /\ slock[s] = None
        /\ IF s \in shut
           THEN Ended(c) /\ UNCHANGED <<resp, slock, task, queue, pending>>
           ELSE /\ UNCHANGED lock
                /\ IF Stopped(s)
                   THEN /\ Start(s) /\ slock' = [slock EXCEPT ![s] = c]
                        /\ Goes(c, "restart")
                        /\ UNCHANGED <<resp, pending>>
                   ELSE /\ Put(c, s)
                        /\ Goes(c, "asked")
                        /\ UNCHANGED task
        /\ UNCHANGED <<kind, awaits, status, root, active, trims, batches, failed, late,
                       phase, own, shut, inflight, breaks>>

Restarted(c) ==
    LET s == sess[c]
    IN  /\ pc[c] = "restart"
        /\ \/ /\ Ready(s)
              /\ Put(c, s) /\ Goes(c, "asked") /\ UNCHANGED lock
           \/ /\ NotReady(s)
              /\ Ended(c) /\ slock' = [slock EXCEPT ![s] = None]
              /\ UNCHANGED <<resp, queue, pending>>
        /\ UNCHANGED <<kind, awaits, status, root, active, trims, batches, failed, late,
                       phase, own, shut, task, inflight, breaks>>

\* A response arrived; describe trims before it leaves the client's lock.
Answered(c) ==
    /\ pc[c] = "asked" /\ resp[c] \in {"value", "failed"}
    /\ IF kind[c] = "describe" /\ resp[c] = "value"
       THEN /\ \E E \in Evictions(Resident, {sess[c]}, active) : Evicts(c, E)
            /\ lock' = None
       ELSE Ended(c) /\ UNCHANGED <<awaits, status, batches>>
    /\ resp' = [resp EXCEPT ![c] = "none"]
    /\ UNCHANGED <<kind, root, active, trims, failed, late, phase, own, owners>>

\* The finally clause of call.
Leave(c) ==
    /\ pc[c] = "leave" /\ LockFree
    /\ active' = [active EXCEPT ![sess[c]] = @ - 1]
    /\ \E E \in Evictions(Resident, {}, active') : Evicts(c, E)
    /\ UNCHANGED <<kind, resp, lock, root, trims, failed, late, phase, own, owners>>

Retired(c) ==
    /\ pc[c] = "retiring" /\ Settled(c)
    /\ Goes(c, "over")
    /\ awaits' = [awaits EXCEPT ![c] = {}]
    /\ UNCHANGED <<kind, resp, client, owners>>

\* Cancelled while it creates a session.
CancelCreation(c) ==
    /\ \/ /\ pc[c] \in {"starting", "checking"}
          /\ Abort(c)
          /\ Drop(c)
          /\ UNCHANGED late
       \/ /\ pc[c] = "aborting" /\ GivesUp(c)
          /\ UNCHANGED <<shut, task, inflight, pending>>
    /\ UNCHANGED <<kind, awaits, status, root, active, trims, batches, failed,
                   phase, own, queue, breaks>>

\* Cancelled at any other await.  In its finally clause a call that must wait for
\* the client's lock leaves without giving up its pin.
Cancel(c) ==
    /\ \/ pc[c] \in {"evicting", "restart", "asked"} /\ Ended(c)
       \/ pc[c] = "enter" /\ slock[sess[c]] # None /\ Ended(c)
       \/ pc[c] = "leave" /\ ~LockFree /\ Goes(c, "over") /\ UNCHANGED lock
       \/ pc[c] \in {"lock", "retiring"} /\ Goes(c, "over") /\ UNCHANGED lock
    /\ slock' = [s \in Session |-> IF slock[s] = c THEN None ELSE slock[s]]
    /\ Drop(c)
    /\ awaits' = [awaits EXCEPT ![c] = {}]
    /\ UNCHANGED <<kind, status, root, active, trims, batches, failed, late,
                   phase, own, shut, task, queue, inflight, pending, breaks>>

-----------------------------------------------------------------------------
(* Owner tasks and their transports. *)

Initialized(s) ==
    /\ task[s] = "starting"
    /\ task' = [task EXCEPT ![s] = "serving"]
    /\ UNCHANGED <<callers, client, shut, slock, queue, inflight, pending, breaks>>

StartFails(s) ==
    /\ task[s] = "starting"
    /\ task' = [task EXCEPT ![s] = "failing"]
    /\ UNCHANGED <<callers, client, shut, slock, queue, inflight, pending, breaks>>

\* Mutant: an abandoned request is skipped without being counted off.
MutTake(s) ==
    LET c == Head(queue[s])
    IN  /\ task[s] = "serving" /\ inflight[s] = None /\ queue[s] # <<>>
        /\ queue' = [queue EXCEPT ![s] = Tail(@)]
        /\ IF c = Closer
           THEN task' = [task EXCEPT ![s] = "exiting"] /\ UNCHANGED inflight
           ELSE inflight' = [inflight EXCEPT ![s] = IF resp[c] = "cancelled" THEN None ELSE c] /\ UNCHANGED task
        /\ UNCHANGED <<callers, client, shut, slock, pending, breaks>>

\* Mutant: the owner goes on serving after a close.
MutServesOn(s) ==
    LET c == Head(queue[s])
    IN  /\ task[s] = "serving" /\ inflight[s] = None /\ queue[s] # <<>>
        /\ queue' = [queue EXCEPT ![s] = Tail(@)]
        /\ inflight' = [inflight EXCEPT ![s] = IF c = Closer \/ resp[c] = "cancelled" THEN None ELSE c]
        /\ pending' = [pending EXCEPT ![s] = IF c # Closer /\ resp[c] = "cancelled" THEN @ - 1 ELSE @]
        /\ UNCHANGED <<callers, client, shut, slock, task, breaks>>

\* The owner takes the next request: a close, an abandoned one, or work.
Take(s) ==
    LET c == Head(queue[s])
    IN  /\ task[s] = "serving" /\ inflight[s] = None /\ queue[s] # <<>>
        /\ queue' = [queue EXCEPT ![s] = Tail(@)]
        /\ IF c = Closer
           THEN task' = [task EXCEPT ![s] = "exiting"] /\ UNCHANGED <<inflight, pending, trims>>
           ELSE IF resp[c] = "cancelled"
           THEN pending' = [pending EXCEPT ![s] = @ - 1] /\ Hooks(s, 1) /\ UNCHANGED <<task, inflight>>
           ELSE inflight' = [inflight EXCEPT ![s] = c] /\ UNCHANGED <<task, pending, trims>>
        /\ UNCHANGED <<callers, lock, status, root, active, batches, failed, late, phase, own,
                       shut, slock, breaks>>

\* Mutant: an operation that fails leaves its caller without an answer.
MutOperationEnds(s) ==
    LET c == inflight[s]
    IN  /\ c # None
        /\ \E r \in {"value", "waiting"} :
              resp' = [resp EXCEPT ![c] = IF @ = "waiting" THEN r ELSE @]
        /\ inflight' = [inflight EXCEPT ![s] = None]
        /\ pending' = [pending EXCEPT ![s] = @ - 1] /\ Hooks(s, 1)
        /\ UNCHANGED <<pc, kind, want, sess, awaits, lock, status, root, active, batches, failed, late,
                       phase, own, shut, slock, task, queue, breaks>>

\* The upstream answers, fails or times out.
OperationEnds(s) ==
    LET c == inflight[s]
    IN  /\ c # None
        /\ \E r \in {"value", "failed"} :
              resp' = [resp EXCEPT ![c] = IF @ = "waiting" THEN r ELSE @]
        /\ inflight' = [inflight EXCEPT ![s] = None]
        /\ pending' = [pending EXCEPT ![s] = @ - 1] /\ Hooks(s, 1)
        /\ UNCHANGED <<pc, kind, want, sess, awaits, lock, status, root, active, batches, failed, late,
                       phase, own, shut, slock, task, queue, breaks>>

\* A transport breaks: its task group cancels the owner where it waits.  The
\* operation in flight is counted off; its response is not set.
Breaks(s) ==
    /\ task[s] = "serving" /\ breaks < MaxBreaks
    /\ breaks' = breaks + 1
    /\ task' = [task EXCEPT ![s] = "exiting"]
    /\ inflight' = [inflight EXCEPT ![s] = None]
    /\ IF inflight[s] = None THEN UNCHANGED <<pending, trims>>
       ELSE pending' = [pending EXCEPT ![s] = @ - 1] /\ Hooks(s, 1)
    /\ UNCHANGED <<callers, lock, status, root, active, batches, failed, late, phase, own,
                   shut, slock, queue>>

\* The retire task of s is over with it, having closed it or raised there.
Unbatched(s, raised) ==
    LET b == CHOOSE x \in batches : s \in x
    IN  /\ batches' = (batches \ {b}) \cup (IF raised THEN {} ELSE {b \ {s}} \ {{}})
        /\ failed' = IF raised THEN failed \cup b ELSE failed

\* The caller goes on with its session without waiting for anybody.
Prompt(c) ==
    \/ pc[c] \in {"starting", "restart"} /\ Ready(sess[c])
    \/ pc[c] = "checking" /\ resp[c] = "value"
    \/ pc[c] = "enter" /\ slock[sess[c]] = None

\* The owner has left its transports: whatever is queued fails, and so does the
\* start if it was not ready; a close that waited for it goes on.  A transport takes
\* longer to leave than a caller to resume.
OwnerEnds(s) ==
    LET left == InQueue(s) \ {Closer}
    IN  /\ task[s] \in {"failing", "exiting"}
        /\ \A c \in Caller : sess[c] = s => ~Prompt(c)
        /\ task' = [task EXCEPT ![s] = "gone"]
        /\ queue' = [queue EXCEPT ![s] = <<>>]
        /\ resp' = [c \in Caller |-> IF c \in left /\ resp[c] = "waiting" THEN "failed" ELSE resp[c]]
        /\ pending' = [pending EXCEPT ![s] = @ - Cardinality(left)]
        /\ Hooks(s, Cardinality(left))
        /\ late' = late \ {s}
        /\ IF slock[s] = Closer
           THEN Unbatched(s, Closer \in InQueue(s)) /\ slock' = [slock EXCEPT ![s] = None]
           ELSE UNCHANGED <<batches, failed, slock>>
        /\ UNCHANGED <<pc, kind, want, sess, awaits, lock, status, root, active, phase, own,
                       shut, inflight, breaks>>

-----------------------------------------------------------------------------
(* Cleanup tasks and close(). *)

\* A retire task closes its sessions one by one; close() of a session queues
\* behind its requests, under the lifecycle lock.
CloseSession(s) ==
    /\ \E b \in batches : s \in b /\ \A t \in b : slock[t] # Closer
    /\ slock[s] = None
    /\ shut' = shut \cup {s}
    /\ IF Stopped(s)
       THEN Unbatched(s, FALSE) /\ UNCHANGED <<slock, queue>>
       ELSE /\ slock' = [slock EXCEPT ![s] = Closer]
            /\ queue' = [queue EXCEPT ![s] = Append(@, Closer)]
            /\ UNCHANGED <<batches, failed>>
    /\ UNCHANGED <<callers, lock, status, root, active, trims, late, phase, own,
                   task, inflight, pending, breaks>>

Trim ==
    /\ trims > 0 /\ LockFree
    /\ trims' = trims - 1
    /\ IF closed THEN UNCHANGED <<status, batches>>
       ELSE \E E \in Evictions(Resident, {}, active) : Retire(Resident, E)
    /\ UNCHANGED <<callers, lock, root, active, failed, late, phase, own, owners>>

CloseBegins ==
    /\ phase = "open" /\ LockFree
    /\ phase' = "closing" /\ own' = Resident
    /\ Retire({}, Resident)
    /\ UNCHANGED <<callers, lock, root, active, trims, failed, late, owners>>

\* close() waits for its own retire task and then until no cleanup task is left.
CloseEnds ==
    /\ phase = "closing"
    /\ \/ own \cap failed # {} /\ phase' = "raised"
       \/ /\ own \cap failed = {} /\ batches = {} /\ trims = 0 /\ late = {}
          /\ phase' = "returned"
    /\ UNCHANGED <<callers, lock, status, root, active, trims, batches, failed, late, own, owners>>

CloseCancelled ==
    /\ phase = "closing" /\ phase' = "raised"
    /\ UNCHANGED <<callers, lock, status, root, active, trims, batches, failed, late, own, owners>>

-----------------------------------------------------------------------------

Next ==
    \/ \E c \in Caller :
        \/ Arrive(c) \/ Probe(c) \/ Find(c) \/ Create(c) \/ Refused(c) \/ Started(c) \/ StartFailed(c)
        \/ Register(c) \/ Reject(c) \/ Aborted(c) \/ AbortTimesOut(c) \/ Evicted(c) \/ Request(c)
        \/ Restarted(c) \/ Answered(c) \/ Leave(c) \/ Retired(c) \/ CancelCreation(c) \/ Cancel(c)
    \/ \E s \in Session :
        \/ Initialized(s) \/ StartFails(s) \/ Take(s) \/ OperationEnds(s) \/ Breaks(s) \/ OwnerEnds(s)
        \/ CloseSession(s)
    \/ Trim \/ CloseBegins \/ CloseEnds \/ CloseCancelled

Spec == Init /\ [][Next]_vars
=============================================================================
