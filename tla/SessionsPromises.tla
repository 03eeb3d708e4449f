-------------------------- MODULE SessionsPromises --------------------------
(***************************************************************************)
(* What the session store and its users guarantee: safety, the fairness    *)
(* their scheduling justifies with the liveness that follows, and the      *)
(* abstract owner they implement.                                          *)
(***************************************************************************)
EXTENDS Sessions

\* Who works for an owner under a lease: requests that acquired one and have not
\* released it, and threads that retained one.
Leaseholders(s) == {r \in Request : pc[r] \in {"native", "ran", "release"} /\ sess[r] = s}
LeasedWork(s)   == {t \in Thread : owner[t] = s /\ leased[t]}
Users(s)        == Cardinality(Leaseholders(s)) + Cardinality(LeasedWork(s))

\* The variables stay in their types.
TypeOK ==
    /\ status \in [Session -> {"new", "stored", "gone"}]
    /\ active \in [Session -> Nat]
    /\ revoked \subseteq Session /\ claimed \subseteq Session /\ late \subseteq Session
    /\ stage \in [Session -> Stages]
    /\ pc \in [Request -> {"idle", "wait", "native", "ran", "release", "closing"}]
    /\ tool \in [Request -> Tools]
    /\ sess \in [Request -> Session \cup {None}]
    /\ waits \in [Request -> SUBSET Session]
    /\ on \in [Request -> Thread \cup {None}]
    /\ retried \in [Request -> BOOLEAN]
    /\ owner \in [Thread -> Session \cup {None}]
    /\ leased \in [Thread -> BOOLEAN]
    /\ reaping \subseteq Session
    /\ phase \in {"open", "stopping", "draining", "closed", "interrupted"}

\* active_calls counts exactly the requests and threads at work: no cancellation
\* at any await, ended thread or retry leaks a reference or drops one twice.
LeaseExact == \A s \in Session : active[s] = Users(s)

\* An owner whose cleanup has been claimed is revoked and nobody works for it
\* under a lease any more, nor ever will while it is being cleaned.
CleanupExclusive == \A s \in claimed : s \in revoked /\ Users(s) = 0

\* An owner is cleaned once: the cleanup goes through its stages in order and is
\* never started again, whoever revokes, expires, releases or closes meanwhile.
CleanedOnce ==
    [][\A s \in claimed : stage'[s] # stage[s] => stage[s] # "none" /\ stage'[s] = NextStage[stage[s]]]_vars

\* The capacity bounds the owners that are valid, used or being cleaned, revoked
\* ones with late work included: it is freed only after the cleanup.
OwnersBounded ==
    Cardinality({s \in Session : Users(s) > 0 \/ stage[s] # "none" \/ status[s] = "stored"})
        <= MaxActive

\* When close() has returned, no native call and no cleanup is left, and every
\* owner ever issued has been cleaned and forgotten.
CloseComplete ==
    phase = "closed" => /\ \A t \in Thread : owner[t] = None
                        /\ \A s \in Session : stage[s] = "none" /\ status[s] # "stored"

-----------------------------------------------------------------------------
(* README 101-102: "Session-owned native work retains its owner lease until  *)
(* actual completion; revocation cleanup follows that completion."  The file *)
(* tools also run as the session's task (call_direct) but retain no lease.   *)

\* Cleanup of an owner starts only after all native work done for it has ended.
CleanupFollowsWork == \A s \in claimed, t \in Thread : owner[t] # s

-----------------------------------------------------------------------------
(* Liveness.  The event loop runs what is ready; native calls end: each back *)
(* end has a budget of its own, Hermes' promise and not the gateway's.       *)

Fairness ==
    /\ \A r \in Request : /\ WF_vars(Admit(r)) /\ WF_vars(Retry(r) \/ Return(r))
                          /\ WF_vars(Release(r)) /\ WF_vars(Answer(r))
    /\ \A t \in Thread : WF_vars(ThreadEnds(t))
    /\ \A s \in Session : WF_vars(CleanupStep(s))
    /\ WF_vars(Sweep) /\ WF_vars(RevokeAll) /\ WF_vars(CloseEnds)

FairSpec == Spec /\ Fairness

\* Every revoked owner is cleaned and its capacity freed, whoever was the last
\* to use it, a cancelled request or a thread that nobody waits for included.
RevokedIsCleaned == \A s \in Session : s \in revoked ~> status[s] = "gone"

\* A token past its expiry is revoked even if nobody calls any more, unless the
\* gateway is being closed.
ExpiryEnforced == \A s \in Session : s \in late ~> s \in revoked \/ phase # "open"

\* close() returns, unless it is cancelled itself.
CloseReturns == phase = "draining" ~> phase \in {"closed", "interrupted"}

-----------------------------------------------------------------------------
(* The refinement. *)

life == [s \in Session |-> CASE status[s] = "new"  -> "unissued"
                             [] status[s] = "gone" -> "gone"
                             [] OTHER -> IF s \in claimed THEN "cleaning"
                                         ELSE IF s \in revoked THEN "revoked" ELSE "live"]
users == [s \in Session |-> Users(s)]

Life == INSTANCE OwnerLifecycle WITH Owner <- Session

\* The store, its requests and its threads implement the life of an owner.
ImplementsOwner == Life!LSpec
=============================================================================
