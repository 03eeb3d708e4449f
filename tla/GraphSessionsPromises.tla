----------------------- MODULE GraphSessionsPromises -----------------------
(***************************************************************************)
(* What the graph client guarantees of its resident sessions, and what its *)
(* documentation and comments say that cancellation and broken transports  *)
(* break.                                                                  *)
(***************************************************************************)
EXTENDS GraphSessions

\* The variables stay in their types; no counter is ever negative.
TypeOK ==
    /\ pc \in [Caller -> {"idle", "lock", "starting", "checking", "aborting", "evicting", "enter",
                          "restart", "asked", "leave", "retiring", "over"}]
    /\ kind \in [Caller -> {"call", "describe", "healthy"}] /\ want \in [Caller -> Root]
    /\ sess \in [Caller -> Session \cup {None}]
    /\ resp \in [Caller -> {"none", "waiting", "cancelled", "value", "failed"}]
    /\ awaits \in [Caller -> SUBSET Session]
    /\ lock \in Caller \cup {None}
    /\ status \in [Session -> {"new", "unlisted", "resident", "retired"}]
    /\ root \in [Session -> Root] /\ active \in [Session -> Nat] /\ trims \in Nat
    /\ batches \subseteq SUBSET Session /\ failed \subseteq Session /\ late \subseteq Session
    /\ phase \in {"open", "closing", "returned", "raised"} /\ own \subseteq Session
    /\ shut \subseteq Session /\ slock \in [Session -> Caller \cup {Closer, None}]
    /\ task \in [Session -> {"gone", "starting", "failing", "serving", "exiting"}]
    /\ \A s \in Session : InQueue(s) \subseteq Caller \cup {Closer}
    /\ inflight \in [Session -> Caller \cup {None}]
    /\ pending \in [Session -> Nat] /\ breaks \in 0..MaxBreaks

\* The operations of a session that are queued or in flight are counted exactly,
\* abandoned ones included, whichever way an owner task ends: a count too low
\* lets a session be evicted under an operation, one too high pins it forever.
PendingExact ==
    \A s \in Session :
        pending[s] = Cardinality({i \in DOMAIN queue[s] : queue[s][i] # Closer})
                     + (IF inflight[s] = None THEN 0 ELSE 1)

\* Calls that use their session.
Using == {c \in Caller : kind[c] = "call" /\ pc[c] \in {"evicting", "enter", "restart", "asked"}}

\* Until shutdown no session is evicted or closed under a call that uses it, be it
\* still waiting for other sessions to close or for the owner to be restarted.
UsedStaysOpen == ~closed => \A c \in Using : status[sess[c]] = "resident" /\ sess[c] \notin shut

\* A root never has two resident sessions, however many calls create one.
OneSessionPerRoot == \A s, t \in Resident : root[s] = root[t] => s = t

\* Once the trims that are due have run, more than MaxSessions are resident only
\* while each of them is pinned or at work.
ResidencyBounded ==
    lock = None /\ trims = 0 => \/ Cardinality(Resident) <= MaxSessions
                             \/ \A s \in Resident : Busy(active, s)

\* When close() has returned no owner task is left: evicted, aborted, restarted or
\* not.  Only a retire task that raised leaves the rest of its sessions open.
CloseComplete == phase = "returned" => \A s \in Session : Stopped(s) \/ s \in failed

-----------------------------------------------------------------------------
(* README 36: "reuses a bounded resident MCP session per project root".     *)
(* A call cancelled while it waits for the client's lock in its finally     *)
(* clause never gives up its pin.                                           *)

\* With no call under way the bound holds.
BoundedAtRest ==
    /\ \A c \in Caller : pc[c] \in {"idle", "over"}
    /\ trims = 0 /\ \A s \in Session : pending[s] = 0
    => Cardinality(Resident) <= MaxSessions

(* upstreams.py 236: "owner must wake all waiters".  When a transport        *)
(* breaks, the waiter of the operation in flight is not woken.               *)

\* Whoever waits for a response has its request queued or in flight.
WaitersAreServed ==
    \A c \in Caller : pc[c] \in {"checking", "asked"} /\ resp[c] = "waiting" =>
        c \in InQueue(sess[c]) \/ inflight[sess[c]] = c

-----------------------------------------------------------------------------
(* Liveness.  The event loop runs what is ready, asyncio.Lock is first-in   *)
(* first-out, the upstream starts or fails to, answers or fails to, and     *)
(* goes when it is told to.                                                 *)

\* A caller gets its lock; a caller that waits for nobody goes on; an owner works.
TakesLock(c) == Find(c) \/ Create(c) \/ Refused(c) \/ Request(c) \/ Leave(c)
GoesOn(c) == \/ Started(c) \/ StartFailed(c) \/ Register(c) \/ Reject(c) \/ Aborted(c) \/ AbortTimesOut(c)
             \/ Evicted(c) \/ Restarted(c) \/ Answered(c) \/ Retired(c)
Works(s) == Initialized(s) \/ Take(s) \/ OperationEnds(s) \/ OwnerEnds(s)

Fairness ==
    /\ \A c \in Caller : SF_vars(TakesLock(c)) /\ WF_vars(GoesOn(c))
    /\ \A s \in Session : WF_vars(Works(s)) /\ SF_vars(CloseSession(s))
    /\ SF_vars(Trim) /\ WF_vars(CloseEnds)

FairSpec == Spec /\ Fairness

\* The instance has run out: the lock is free, the root of c has no session, and
\* there is no identifier left to make one.
Starved(c) ==
    /\ pc[c] = "lock" /\ LockFree /\ ~closed
    /\ \A s \in Session : status[s] # "new" /\ (s \in Resident => root[s] # want[c])

\* Every call, probe and description ends wherever it waits: for either lock, for
\* an owner to start, answer or go, for the close of what it evicted.
RequestsEnd ==
    \A c \in Caller : pc[c] \notin {"idle", "over"} ~> pc[c] = "over" \/ Starved(c)

\* close() ends, whatever it finds under way.
CloseReturns == phase = "closing" ~> phase \in {"returned", "raised"}

\* An evicted session is closed in the end, unless its retire task raised.
EvictedIsClosed == \A s \in Session : status[s] = "retired" ~> (s \in shut /\ Stopped(s)) \/ s \in failed
=============================================================================
