------------------------------ MODULE Sessions ------------------------------
(***************************************************************************)
(* Session owners and the native work done for them: the capability store  *)
(* (sessions.py), the tracked worker threads (native_activity.py) and the  *)
(* gateway's use of both (server.py: dispatch of a tool_call, session_open *)
(* and session_close, owner cleanup, the session reaper, close).           *)
(*                                                                         *)
(* An action is a stretch of the event loop between two awaits.  A native  *)
(* call is a thread: it ends whenever it likes, also after the request     *)
(* that waits for it was cancelled.                                        *)
(***************************************************************************)
EXTENDS Integers, FiniteSets

CONSTANTS
    Session,      \* owners, each issued at most once (their ids are random)
    Request,      \* handlers that may be in flight at one time
    Thread,       \* native calls that may be in flight at one time
    MaxActive,    \* max_active, the capacity of the store
    None          \* no session, no thread

SessionsAssumption ==
    /\ IsFiniteSet(Session) /\ IsFiniteSet(Request) /\ IsFiniteSet(Thread)
    /\ MaxActive \in Nat \ {0}
    /\ None \notin Session \cup Thread

ASSUME SessionsAssumption

VARIABLES
    \* the store: SessionCapability records by owner
    status,     \* new, stored (in _by_owner) or gone
    active,     \* active_calls
    revoked,    \* the revoked ones
    claimed,    \* cleanup_started
    late,       \* past expires_at
    \* the cleanup task of an owner: the stage whose native call it awaits
    stage,
    \* the requests: where they are, what they ask, for whom, what they await
    pc, tool, sess,
    waits,      \* owners whose cleanup a gather() of this request awaits
    on,         \* the thread it awaits
    retried,    \* has a browser call run its second dispatch
    \* the threads: for whom, and does the thread hold a lease of its own
    owner, leased,
    \* the session reaper and close()
    reaping,    \* owners whose cleanup the reaper's sweep awaits
    phase       \* open, stopping, draining, closed; interrupted: close() was cancelled

store    == <<status, active, revoked, claimed, late, stage>>
requests == <<pc, tool, sess, waits, on, retried>>
threads  == <<owner, leased>>
vars     == <<store, requests, threads, reaping, phase>>

Tools  == {"open", "close", "stateful", "direct"}
Stages == {"none", "kill", "vm", "browser"}

Stored == {s \in Session : status[s] = "stored"}

Init ==
    /\ status = [s \in Session |-> "new"]
    /\ active = [s \in Session |-> 0]
    /\ revoked = {} /\ claimed = {} /\ late = {}
    /\ stage = [s \in Session |-> "none"]
    /\ pc = [r \in Request |-> "idle"]
    /\ tool = [r \in Request |-> "open"]
    /\ sess = [r \in Request |-> None]
    /\ waits = [r \in Request |-> {}]
    /\ on = [r \in Request |-> None]
    /\ retried = [r \in Request |-> FALSE]
    /\ owner = [t \in Thread |-> None]
    /\ leased = [t \in Thread |-> FALSE]
    /\ reaping = {}
    /\ phase = "open"

-----------------------------------------------------------------------------
(* The store. *)

\* What expire_due revokes, and what of a set being revoked is ready for cleanup:
\* nobody uses it and nobody has claimed it.
Due          == {s \in Stored : s \notin revoked /\ s \in late}

Claimable(S) == {s \in S : active[s] = 0 /\ s \notin claimed}

\* The claimed owners get a cleanup task each, before anything is awaited.
StartCleanups(C) ==
    /\ claimed' = claimed \cup C
    /\ stage' = [s \in Session |-> IF s \in C THEN "kill" ELSE stage[s]]

\* Drop one reference; the last one of a revoked owner starts its cleanup.
LastUse(s) == s \in revoked /\ active[s] = 1 /\ s \notin claimed

\* Mutant: the deferred cleanup is forgotten.
MutDrop(s) == /\ active' = [active EXCEPT ![s] = IF @ > 0 THEN @ - 1 ELSE @]
              /\ UNCHANGED <<claimed, stage>>
Drop(s)    == /\ active' = [active EXCEPT ![s] = IF @ > 0 THEN @ - 1 ELSE @]
              /\ StartCleanups(IF LastUse(s) THEN {s} ELSE {})

CleanupsOver(S) == \A s \in S : stage[s] = "none"

-----------------------------------------------------------------------------
(* The requests. *)

Goes(r, where)  == pc' = [pc EXCEPT ![r] = where]
Asks(r, k, s)   == tool' = [tool EXCEPT ![r] = k] /\ sess' = [sess EXCEPT ![r] = s]

\* The handler returns, or is cancelled where it holds nothing.
Leaves(r) ==
    /\ Goes(r, "idle") /\ Asks(r, "open", None)
    /\ waits' = [waits EXCEPT ![r] = {}]
    /\ on' = [on EXCEPT ![r] = None]
    /\ retried' = [retried EXCEPT ![r] = FALSE]

Retainable(s) == status[s] = "stored" /\ active[s] > 0 /\ s \notin claimed

\* session_open with the expired owners revoked: issue, or capacity reached.
Issue(r) ==
    /\ IF Cardinality(Stored) < MaxActive
       THEN \E s \in Session : /\ status[s] = "new"
                               /\ status' = [status EXCEPT ![s] = "stored"]
       ELSE UNCHANGED status
    /\ Leaves(r)
    /\ UNCHANGED <<active, threads>>

\* A tool_call whose token is valid takes a lease and goes on without an await
\* to its first one: session_close revokes and reaches the release; a tool runs
\* in a thread, which holds a lease of its own if the tool is a stateful one.
Lease(r, k, s) ==
    /\ Asks(r, k, s) /\ waits' = [waits EXCEPT ![r] = {}]
    /\ IF k = "close"
       THEN /\ active' = [active EXCEPT ![s] = @ + 1]
            /\ Goes(r, "release")
            /\ UNCHANGED <<on, threads>>
       ELSE \E t \in Thread :
            /\ owner[t] = None
            /\ owner' = [owner EXCEPT ![t] = s]
            /\ leased' = [leased EXCEPT ![t] = k = "stateful"]
            /\ active' = [active EXCEPT ![s] = @ + (IF k = "stateful" THEN 2 ELSE 1)]
            /\ on' = [on EXCEPT ![r] = t]
            /\ Goes(r, "native")
    /\ UNCHANGED <<status, retried>>

\* Mutant: a revoked token is still found.
MutValid(s) == status[s] = "stored" /\ s \notin late

Valid(s) == status[s] = "stored" /\ s \notin revoked /\ s \notin late

\* The stretch after the await of the expired owners' cleanups.
Proceeds(r, k, s, expired) ==
    /\ revoked' = revoked \cup expired \cup (IF k = "close" /\ Valid(s) THEN {s} ELSE {})
    /\ \/ k = "open" /\ Issue(r)
       \/ k # "open" /\ Valid(s) /\ Lease(r, k, s)
       \/ k # "open" /\ ~Valid(s) /\ Leaves(r) /\ UNCHANGED <<status, active, threads>>

\* A handler first revokes the expired owners and starts their cleanups; it
\* awaits them if there are any and acquires its lease only afterwards.
Arrive(r) ==
    /\ phase = "open" /\ pc[r] = "idle"
    /\ \E k \in Tools, s \in Session \cup {None} :
        /\ IF k = "open" THEN s = None ELSE s # None /\ status[s] # "new"
        /\ StartCleanups(Claimable(Due))
        /\ \/ Claimable(Due) = {} /\ Proceeds(r, k, s, Due)
           \/ /\ Claimable(Due) # {}
              /\ revoked' = revoked \cup Due
              /\ Goes(r, "wait") /\ Asks(r, k, s)
              /\ waits' = [waits EXCEPT ![r] = Claimable(Due)]
              /\ UNCHANGED <<status, active, on, retried, threads>>
    /\ UNCHANGED <<late, reaping, phase>>

Admit(r) ==
    /\ pc[r] = "wait" /\ CleanupsOver(waits[r])
    /\ Proceeds(r, tool[r], sess[r], {})
    /\ UNCHANGED <<claimed, late, stage, reaping, phase>>

\* A stale tab after a browser_navigate: the second native call, once.
Retry(r) ==
    /\ pc[r] = "ran" /\ tool[r] = "stateful" /\ ~retried[r]
    /\ retried' = [retried EXCEPT ![r] = TRUE]
    /\ IF Retainable(sess[r])
       THEN \E t \in Thread :
            /\ owner[t] = None
            /\ owner' = [owner EXCEPT ![t] = sess[r]]
            /\ leased' = [leased EXCEPT ![t] = TRUE]
            /\ active' = [active EXCEPT ![sess[r]] = @ + 1]
            /\ on' = [on EXCEPT ![r] = t]
            /\ Goes(r, "native")
       ELSE Goes(r, "release") /\ UNCHANGED <<active, on, threads>>
    /\ UNCHANGED <<status, revoked, claimed, late, stage, tool, sess, waits, reaping, phase>>

\* The tool call is over and the shielded release is scheduled.
Return(r) ==
    /\ pc[r] = "ran"
    /\ Goes(r, "release")
    /\ UNCHANGED <<store, tool, sess, waits, on, retried, threads, reaping, phase>>

\* The shielded release runs, whether its handler still waits for it or was
\* cancelled; it awaits the cleanup it starts.
Release(r) ==
    /\ pc[r] = "release"
    /\ Drop(sess[r])
    /\ IF LastUse(sess[r])
       THEN /\ Goes(r, "closing")
            /\ waits' = [waits EXCEPT ![r] = {sess[r]}]
            /\ UNCHANGED <<tool, sess, on, retried>>
       ELSE Leaves(r)
    /\ UNCHANGED <<status, revoked, late, threads, reaping, phase>>

Answer(r) ==
    /\ pc[r] = "closing" /\ CleanupsOver(waits[r])
    /\ Leaves(r)
    /\ UNCHANGED <<store, threads, reaping, phase>>

\* Mutant: the release is not in a finally clause.
MutCancel(r) ==
    /\ pc[r] \in {"wait", "native", "closing"} /\ Leaves(r)
    /\ UNCHANGED <<store, threads, reaping, phase>>

\* The client is gone: the handler leaves at its await.  What it awaited, a
\* thread or the cleanups, goes on.
Cancel(r) ==
    /\ \/ pc[r] \in {"wait", "closing"} /\ Leaves(r)
       \/ /\ pc[r] = "native"
          /\ Goes(r, "release") /\ on' = [on EXCEPT ![r] = None]
          /\ UNCHANGED <<tool, sess, waits, retried>>
    /\ UNCHANGED <<store, threads, reaping, phase>>

-----------------------------------------------------------------------------
(* The threads, the cleanup tasks, the reaper, the clock and close().       *)

\* Mutant: the waiting request does the bookkeeping, not a callback of the task.
MutTracked(t) == \E r \in Request : on[r] = t

Tracked(t) == owner[t] # None

\* The callbacks of an ended native call: it is no longer tracked, its lease is
\* released, and the waiter, if any, wakes.
ThreadEnds(t) ==
    /\ Tracked(t)
    /\ owner' = [owner EXCEPT ![t] = None]
    /\ leased' = [leased EXCEPT ![t] = FALSE]
    /\ IF leased[t] THEN Drop(owner[t]) ELSE UNCHANGED <<active, claimed, stage>>
    /\ pc' = [r \in Request |-> IF on[r] = t THEN "ran" ELSE pc[r]]
    /\ on' = [r \in Request |-> IF on[r] = t THEN None ELSE on[r]]
    /\ UNCHANGED <<status, revoked, late, tool, sess, waits, retried, reaping, phase>>

\* Mutant: the finished task stays in the set of cleanup tasks.
MutNextStage == [kill |-> "vm", vm |-> "browser", browser |-> "finished"]

NextStage == [kill |-> "vm", vm |-> "browser", browser |-> "none"]

\* Mutant: the capacity is freed when the cleanup starts.
MutForgotten(s) == s \in claimed /\ active[s] = 0

Forgotten(s) == stage[s] = "browser" /\ s \in claimed /\ active[s] = 0

\* A stage of the cleanup ended, well or not; after the last one the owner is
\* forgotten and its capacity freed.
CleanupStep(s) ==
    /\ stage[s] # "none"
    /\ stage' = [stage EXCEPT ![s] = NextStage[@]]
    /\ status' = IF Forgotten(s) THEN [status EXCEPT ![s] = "gone"] ELSE status
    /\ UNCHANGED <<active, revoked, claimed, late, requests, threads, reaping, phase>>

\* Mutant: the reaper does not come back from a sweep that cleaned something.
MutSweep ==
    /\ phase = "open" /\ reaping = {}
    /\ revoked' = revoked \cup Due
    /\ StartCleanups(Claimable(Due))
    /\ reaping' = Claimable(Due)
    /\ UNCHANGED <<status, active, late, requests, threads, phase>>

Sweep ==
    /\ phase = "open" /\ CleanupsOver(reaping)
    /\ revoked' = revoked \cup Due
    /\ StartCleanups(Claimable(Due))
    /\ reaping' = Claimable(Due)
    /\ UNCHANGED <<status, active, late, requests, threads, phase>>

Expire(s) ==
    /\ s \in Stored \ late
    /\ late' = late \cup {s}
    /\ UNCHANGED <<status, active, revoked, claimed, stage, requests, threads, reaping, phase>>

\* close() begins once the server has ended its handlers; again if it was
\* interrupted.  The reapers go first.
CloseBegins ==
    /\ phase \in {"open", "interrupted"}
    /\ \A r \in Request : pc[r] = "idle"
    /\ phase' = "stopping" /\ reaping' = {}
    /\ UNCHANGED <<store, requests, threads>>

RevokeAll ==
    /\ phase = "stopping"
    /\ phase' = "draining"
    /\ revoked' = revoked \cup Stored
    /\ StartCleanups(Claimable(Stored))
    /\ UNCHANGED <<status, active, late, requests, threads, reaping>>

\* The loop of close() ends when no native call and no cleanup is left.

\* Mutant: close() waits for the native calls only.
MutNoWork == \A t \in Thread : owner[t] = None

NoWork == (\A t \in Thread : owner[t] = None) /\ CleanupsOver(Session)

CloseEnds ==
    /\ phase = "draining" /\ NoWork
    /\ phase' = "closed"
    /\ UNCHANGED <<store, requests, threads, reaping>>

CloseCancelled ==
    /\ phase \in {"stopping", "draining"}
    /\ phase' = "interrupted"
    /\ UNCHANGED <<store, requests, threads, reaping>>

Next ==
    \/ \E r \in Request : Arrive(r) \/ Admit(r) \/ Retry(r) \/ Return(r) \/ Release(r)
                          \/ Answer(r) \/ Cancel(r)
    \/ \E t \in Thread : ThreadEnds(t)
    \/ \E s \in Session : CleanupStep(s) \/ Expire(s)
    \/ Sweep \/ CloseBegins \/ RevokeAll \/ CloseEnds \/ CloseCancelled

Spec == Init /\ [][Next]_vars
=============================================================================
