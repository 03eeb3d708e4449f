--------------------------- MODULE SessionsProofs ---------------------------
(***************************************************************************)
(* Proofs about session owners, for any number of owners, requests and     *)
(* native calls and any capacity.                                          *)
(***************************************************************************)
EXTENDS SessionsPromises, FiniteSetTheorems, TLAPS

USE SessionsAssumption DEF SessionsAssumption, vars, store, requests, threads

(* The helpers of Sessions keep the types of what they change.             *)

\* Starting cleanups.
LEMMA StartType ==
  ASSUME TypeOK, NEW C \in SUBSET Session, StartCleanups(C)
  PROVE  claimed' \subseteq Session /\ stage' \in [Session -> Stages]
  BY DEF TypeOK, StartCleanups, Stages

\* Dropping a reference.
LEMMA DropType ==
  ASSUME TypeOK, NEW s \in Session, Drop(s)
  PROVE  /\ active' \in [Session -> Nat]
         /\ claimed' \subseteq Session /\ stage' \in [Session -> Stages]
<1>1. active' \in [Session -> Nat]
  BY DEF TypeOK, Drop
<1>2. StartCleanups(IF LastUse(s) THEN {s} ELSE {})
  BY DEF Drop
<1> QED BY <1>1, <1>2, StartType

\* A handler that returns.
LEMMA LeavesType ==
  ASSUME TypeOK, NEW r \in Request, Leaves(r)
  PROVE  /\ pc' \in [Request -> {"idle", "wait", "native", "ran", "release", "closing"}]
         /\ tool' \in [Request -> Tools]
         /\ sess' \in [Request -> Session \cup {None}]
         /\ waits' \in [Request -> SUBSET Session]
         /\ on' \in [Request -> Thread \cup {None}]
         /\ retried' \in [Request -> BOOLEAN]
  BY DEF TypeOK, Leaves, Goes, Asks, Tools

\* The stretch that ends in a handler's return or in its first native call.
LEMMA ProceedsType ==
  ASSUME TypeOK, NEW r \in Request, NEW k \in Tools, NEW s \in Session \cup {None},
         k # "open" => s \in Session, NEW E \in SUBSET Session, Proceeds(r, k, s, E)
  PROVE  /\ status' \in [Session -> {"new", "stored", "gone"}]
         /\ active' \in [Session -> Nat]
         /\ revoked' \subseteq Session
         /\ pc' \in [Request -> {"idle", "wait", "native", "ran", "release", "closing"}]
         /\ tool' \in [Request -> Tools]
         /\ sess' \in [Request -> Session \cup {None}]
         /\ waits' \in [Request -> SUBSET Session]
         /\ on' \in [Request -> Thread \cup {None}]
         /\ retried' \in [Request -> BOOLEAN]
         /\ owner' \in [Thread -> Session \cup {None}]
         /\ leased' \in [Thread -> BOOLEAN]
<1>1. revoked' \subseteq Session
  BY DEF Proceeds, TypeOK, Valid, Tools
<1>2. CASE k = "open" /\ Issue(r)
  BY <1>1, <1>2 DEF Issue, Leaves, Goes, Asks, TypeOK, Tools
<1>3. CASE k # "open" /\ Valid(s) /\ Lease(r, k, s)
  <2>1. CASE k = "close"
    BY <1>1, <1>3, <2>1 DEF Lease, Goes, Asks, TypeOK
  <2>2. CASE k # "close"
    <3>1. PICK t \in Thread :
            /\ owner' = [owner EXCEPT ![t] = s]
            /\ leased' = [leased EXCEPT ![t] = k = "stateful"]
            /\ active' = [active EXCEPT ![s] = @ + (IF k = "stateful" THEN 2 ELSE 1)]
            /\ on' = [on EXCEPT ![r] = t]
            /\ Goes(r, "native")
      BY <1>3, <2>2 DEF Lease
    <3>2. (k = "stateful") \in BOOLEAN
      OBVIOUS
    <3> QED BY <1>1, <1>3, <2>2, <3>1, <3>2 DEF Lease, Goes, Asks, TypeOK
  <2> QED BY <2>1, <2>2
<1>4. CASE k # "open" /\ ~Valid(s) /\ Leaves(r) /\ UNCHANGED <<status, active, threads>>
  BY <1>1, <1>4 DEF Leaves, Goes, Asks, TypeOK, Tools
<1> QED BY <1>2, <1>3, <1>4 DEF Proceeds

\* What Init and every step do to the types.  A request that waits for cleanups
\* remembers a tool and, unless it opens a session, the session it was given.
Wanted == \A r \in Request : pc[r] = "wait" /\ tool[r] # "open" => sess[r] \in Session
Busy   == \A r \in Request : /\ pc[r] \in {"native", "ran", "release"} => sess[r] \in Session
                             /\ on[r] # None => pc[r] = "native"

TypeInv == TypeOK /\ Wanted /\ Busy

LEMMA TypeStep == TypeInv /\ [Next]_vars => TypeInv'
<1> SUFFICES ASSUME TypeInv, [Next]_vars
             PROVE  TypeInv'
  OBVIOUS
<1> USE DEF TypeInv
<1>1. ASSUME NEW r \in Request, Arrive(r)
      PROVE  TypeInv'
  <2>1. PICK k \in Tools, s \in Session \cup {None} :
          /\ IF k = "open" THEN s = None ELSE s # None /\ status[s] # "new"
          /\ StartCleanups(Claimable(Due))
          /\ \/ Claimable(Due) = {} /\ Proceeds(r, k, s, Due)
             \/ /\ Claimable(Due) # {}
                /\ revoked' = revoked \cup Due
                /\ Goes(r, "wait") /\ Asks(r, k, s)
                /\ waits' = [waits EXCEPT ![r] = Claimable(Due)]
                /\ UNCHANGED <<status, active, on, retried, threads>>
    BY <1>1 DEF Arrive
  <2>2. Due \in SUBSET Session /\ Claimable(Due) \in SUBSET Session
    BY DEF Due, Stored, Claimable
  <2>3. claimed' \subseteq Session /\ stage' \in [Session -> Stages]
    BY <2>1, <2>2, StartType
  <2>4. k # "open" => s \in Session
    BY <2>1
  <2>5. CASE Proceeds(r, k, s, Due)
    <3>1. TypeOK'
      BY <1>1, <2>2, <2>3, <2>4, <2>5, ProceedsType DEF Arrive, TypeOK
    <3>2. \A q \in Request \ {r} : /\ pc'[q] = pc[q] /\ tool'[q] = tool[q]
                                  /\ sess'[q] = sess[q] /\ on'[q] = on[q]
      BY <2>5 DEF Proceeds, Issue, Lease, Leaves, Goes, Asks, TypeOK
    <3>3. /\ pc'[r] \in {"idle", "native", "release"} /\ (pc'[r] # "idle" => sess'[r] \in Session)
          /\ on'[r] # None => pc'[r] = "native"
      BY <1>1, <2>4, <2>5 DEF Arrive, Proceeds, Issue, Lease, Leaves, Goes, Asks, TypeOK, Busy
    <3> QED BY <3>1, <3>2, <3>3 DEF Wanted, Busy
  <2>6. CASE /\ revoked' = revoked \cup Due
             /\ Goes(r, "wait") /\ Asks(r, k, s)
             /\ waits' = [waits EXCEPT ![r] = Claimable(Due)]
             /\ UNCHANGED <<status, active, on, retried, threads>>
    <3>1. TypeOK'
      BY <1>1, <2>2, <2>3, <2>6 DEF Arrive, TypeOK, Goes, Asks
    <3> QED BY <1>1, <2>4, <2>6, <3>1 DEF Arrive, Wanted, Busy, Goes, Asks, TypeOK
  <2> QED BY <2>1, <2>5, <2>6
<1>2. ASSUME NEW r \in Request, Admit(r)
      PROVE  TypeInv'
  <2>1. /\ tool[r] \in Tools /\ sess[r] \in Session \cup {None}
        /\ tool[r] # "open" => sess[r] \in Session
    BY <1>2 DEF Admit, TypeOK, Wanted
  <2>2. Proceeds(r, tool[r], sess[r], {})
    BY <1>2 DEF Admit
  <2>3. TypeOK'
    BY <1>2, <2>1, <2>2, ProceedsType DEF Admit, TypeOK
  <2>4. \A q \in Request \ {r} : /\ pc'[q] = pc[q] /\ tool'[q] = tool[q]
                                /\ sess'[q] = sess[q] /\ on'[q] = on[q]
    BY <2>2 DEF Proceeds, Issue, Lease, Leaves, Goes, Asks, TypeOK
  <2>5. /\ pc'[r] \in {"idle", "native", "release"} /\ (pc'[r] # "idle" => sess'[r] \in Session)
        /\ on'[r] # None => pc'[r] = "native"
    BY <1>2, <2>1, <2>2 DEF Admit, Busy, Proceeds, Issue, Lease, Leaves, Goes, Asks, TypeOK
  <2> QED BY <2>3, <2>4, <2>5 DEF Wanted, Busy
<1>3. ASSUME NEW r \in Request, Retry(r)
      PROVE  TypeInv'
  <2>1. sess[r] \in Session
    BY <1>3 DEF Retry, Busy
  <2>2. TypeOK'
    <3>1. CASE Retainable(sess[r])
      <4>1. PICK t \in Thread :
              /\ owner' = [owner EXCEPT ![t] = sess[r]]
              /\ leased' = [leased EXCEPT ![t] = TRUE]
              /\ active' = [active EXCEPT ![sess[r]] = @ + 1]
              /\ on' = [on EXCEPT ![r] = t]
              /\ Goes(r, "native")
        BY <1>3, <3>1 DEF Retry
      <4>2. pc' = [pc EXCEPT ![r] = "native"]
        BY <4>1 DEF Goes
      <4> QED BY <1>3, <2>1, <4>1, <4>2 DEF Retry, TypeOK
    <3>2. CASE ~Retainable(sess[r])
      BY <1>3, <3>2 DEF Retry, Goes, TypeOK
    <3> QED BY <3>1, <3>2
  <2>3. Wanted' /\ Busy'
    BY <1>3, <2>1 DEF Retry, Goes, TypeOK, Wanted, Busy
  <2> QED BY <2>2, <2>3
<1>4. ASSUME NEW r \in Request, Return(r)
      PROVE  TypeInv'
  BY <1>4 DEF Return, Goes, TypeOK, Wanted, Busy
<1>5. ASSUME NEW r \in Request, Release(r)
      PROVE  TypeInv'
  <2>1. sess[r] \in Session /\ Drop(sess[r])
    BY <1>5 DEF Release, Busy
  <2>2. TypeOK'
    <3>1. /\ active' \in [Session -> Nat]
          /\ claimed' \subseteq Session /\ stage' \in [Session -> Stages]
      BY <2>1, DropType
    <3>2. CASE LastUse(sess[r])
      BY <1>5, <2>1, <3>1, <3>2 DEF Release, Goes, TypeOK
    <3>3. CASE ~LastUse(sess[r])
      BY <1>5, <3>1, <3>3, LeavesType DEF Release, TypeOK
    <3> QED BY <3>2, <3>3
  <2>3. Wanted' /\ Busy'
    BY <1>5 DEF Release, Leaves, Goes, Asks, TypeOK, Wanted, Busy
  <2> QED BY <2>2, <2>3
<1>6. ASSUME NEW r \in Request, Answer(r)
      PROVE  TypeInv'
  BY <1>6 DEF Answer, Leaves, Goes, Asks, TypeOK, Wanted, Busy, Tools
<1>7. ASSUME NEW r \in Request, Cancel(r)
      PROVE  TypeInv'
  <2>1. CASE pc[r] \in {"wait", "closing"} /\ Leaves(r)
    BY <1>7, <2>1 DEF Cancel, Leaves, Goes, Asks, TypeOK, Wanted, Busy, Tools
  <2>2. CASE pc[r] = "native"
    BY <1>7, <2>2 DEF Cancel, Leaves, Goes, TypeOK, Wanted, Busy
  <2> QED BY <1>7, <2>1, <2>2 DEF Cancel
<1>8. ASSUME NEW t \in Thread, ThreadEnds(t)
      PROVE  TypeInv'
  <2>1. owner[t] \in Session
    BY <1>8 DEF ThreadEnds, Tracked, TypeOK
  <2>2. /\ active' \in [Session -> Nat]
        /\ claimed' \subseteq Session /\ stage' \in [Session -> Stages]
    BY <1>8, <2>1, DropType DEF ThreadEnds, TypeOK
  <2>3. TypeOK'
    BY <1>8, <2>2 DEF ThreadEnds, TypeOK
  <2>4. Wanted' /\ Busy'
    BY <1>8 DEF ThreadEnds, TypeOK, Wanted, Busy
  <2> QED BY <2>3, <2>4
<1>9. ASSUME NEW s \in Session, CleanupStep(s)
      PROVE  TypeInv'
  BY <1>9 DEF CleanupStep, NextStage, Stages, TypeOK, Wanted, Busy
<1>10. ASSUME NEW s \in Session, Expire(s)
       PROVE  TypeInv'
  BY <1>10 DEF Expire, TypeOK, Wanted, Busy
<1>11. CASE Sweep
  <2>1. Due \in SUBSET Session /\ Claimable(Due) \in SUBSET Session
    BY DEF Due, Stored, Claimable
  <2> QED BY <1>11, <2>1, StartType DEF Sweep, TypeOK, Wanted, Busy
<1>12. CASE CloseBegins
  BY <1>12 DEF CloseBegins, TypeOK, Wanted, Busy
<1>13. CASE RevokeAll
  <2>1. Stored \in SUBSET Session /\ Claimable(Stored) \in SUBSET Session
    BY DEF Stored, Claimable
  <2> QED BY <1>13, <2>1, StartType DEF RevokeAll, TypeOK, Wanted, Busy
<1>14. CASE CloseEnds
  BY <1>14 DEF CloseEnds, TypeOK, Wanted, Busy
<1>15. CASE CloseCancelled
  BY <1>15 DEF CloseCancelled, TypeOK, Wanted, Busy
<1>16. CASE UNCHANGED vars
  BY <1>16 DEF TypeOK, Wanted, Busy
<1> QED BY <1>1, <1>2, <1>3, <1>4, <1>5, <1>6, <1>7, <1>8, <1>9, <1>10, <1>11, <1>12,
           <1>13, <1>14, <1>15, <1>16 DEF Next

\* The variables stay in their types.
THEOREM Typing == Spec => []TypeOK
<1>1. Init => TypeInv
  BY DEF Init, TypeInv, TypeOK, Tools, Stages, Wanted, Busy
<1>2. TypeInv => TypeOK
  BY DEF TypeInv
<1> QED BY <1>1, <1>2, TypeStep, PTL DEF Spec

-----------------------------------------------------------------------------
(* References.  A step changes active_calls by what it changes in the sets  *)
(* of requests and threads at work.                                        *)

\* The users of an owner are finitely many, and one of them makes a count.
LEMMA Countable ==
  ASSUME NEW s
  PROVE  /\ IsFiniteSet(Leaseholders(s)) /\ IsFiniteSet(LeasedWork(s))
         /\ IsFiniteSet(Leaseholders(s)') /\ IsFiniteSet(LeasedWork(s)')
         /\ Cardinality(Leaseholders(s)) \in Nat /\ Cardinality(LeasedWork(s)) \in Nat
         /\ Users(s) \in Nat
         /\ (Leaseholders(s) \cup LeasedWork(s)) # {} => Users(s) > 0
<1>1. Leaseholders(s) \in SUBSET Request /\ LeasedWork(s) \in SUBSET Thread
  BY DEF Leaseholders, LeasedWork
<1>2. Leaseholders(s)' \in SUBSET Request /\ LeasedWork(s)' \in SUBSET Thread
  BY DEF Leaseholders, LeasedWork
<1>3. /\ IsFiniteSet(Leaseholders(s)) /\ IsFiniteSet(LeasedWork(s))
      /\ IsFiniteSet(Leaseholders(s)') /\ IsFiniteSet(LeasedWork(s)')
  BY <1>1, <1>2, FS_Subset
<1>4. Cardinality(Leaseholders(s)) \in Nat /\ Cardinality(LeasedWork(s)) \in Nat
  BY <1>3, FS_CardinalityType
<1>5. /\ Cardinality(Leaseholders(s)) = 0 => Leaseholders(s) = {}
      /\ Cardinality(LeasedWork(s)) = 0 => LeasedWork(s) = {}
  BY <1>3, FS_EmptySet
<1> QED BY <1>3, <1>4, <1>5 DEF Users

\* How the users of an owner move.
SameRequests(s) == Leaseholders(s)' = Leaseholders(s)
SameThreads(s)  == LeasedWork(s)' = LeasedWork(s)
RequestIn(s)  == \E r \in Request : r \notin Leaseholders(s) /\ Leaseholders(s)' = Leaseholders(s) \cup {r}
RequestOut(s) == \E r \in Request : r \in Leaseholders(s) /\ Leaseholders(s)' = Leaseholders(s) \ {r}
ThreadIn(s)   == \E t \in Thread : t \notin LeasedWork(s) /\ LeasedWork(s)' = LeasedWork(s) \cup {t}
ThreadOut(s)  == \E t \in Thread : t \in LeasedWork(s) /\ LeasedWork(s)' = LeasedWork(s) \ {t}

\* What each move does to a count of the users.
LEMMA Moves ==
  ASSUME NEW s
  PROVE  /\ SameRequests(s) /\ SameThreads(s) => Users(s)' = Users(s)
         /\ RequestIn(s) /\ SameThreads(s) => Users(s)' = Users(s) + 1
         /\ RequestIn(s) /\ ThreadIn(s) => Users(s)' = Users(s) + 2
         /\ SameRequests(s) /\ ThreadIn(s) => Users(s)' = Users(s) + 1
         /\ RequestOut(s) /\ SameThreads(s) => Users(s)' = Users(s) - 1
         /\ SameRequests(s) /\ ThreadOut(s) => Users(s)' = Users(s) - 1
<1> DEFINE H == Leaseholders(s)
           W == LeasedWork(s)
           I == Leaseholders(s)'
           X == LeasedWork(s)'
<1>1. /\ IsFiniteSet(H) /\ IsFiniteSet(W)
      /\ Cardinality(H) \in Nat /\ Cardinality(W) \in Nat
  BY Countable
<1>2. Users(s) = Cardinality(H) + Cardinality(W) /\ Users(s)' = Cardinality(I) + Cardinality(X)
  BY DEF Users
<1>3. /\ SameRequests(s) <=> I = H
      /\ SameThreads(s) <=> X = W
      /\ RequestIn(s) <=> \E r \in Request : r \notin H /\ I = H \cup {r}
      /\ RequestOut(s) <=> \E r \in Request : r \in H /\ I = H \ {r}
      /\ ThreadIn(s) <=> \E t \in Thread : t \notin W /\ X = W \cup {t}
      /\ ThreadOut(s) <=> \E t \in Thread : t \in W /\ X = W \ {t}
  BY DEF SameRequests, SameThreads, RequestIn, RequestOut, ThreadIn, ThreadOut
<1> HIDE DEF H, W, I, X
<1>4. /\ SameRequests(s) => Cardinality(I) = Cardinality(H)
      /\ SameThreads(s) => Cardinality(X) = Cardinality(W)
  BY <1>3
<1>5. RequestIn(s) => Cardinality(I) = Cardinality(H) + 1
  BY <1>1, <1>3, FS_AddElement
<1>6. ThreadIn(s) => Cardinality(X) = Cardinality(W) + 1
  BY <1>1, <1>3, FS_AddElement
<1>7. RequestOut(s) => Cardinality(I) = Cardinality(H) - 1
  BY <1>1, <1>3, FS_RemoveElement
<1>8. ThreadOut(s) => Cardinality(X) = Cardinality(W) - 1
  BY <1>1, <1>3, FS_RemoveElement
<1> QED BY <1>1, <1>2, <1>4, <1>5, <1>6, <1>7, <1>8

\* Who neither acquires nor releases changes nobody's users.
LEMMA NobodyMoves ==
  ASSUME LeaseExact, active' = active,
         \A s \in Session : SameRequests(s) /\ SameThreads(s)
  PROVE  LeaseExact'
  BY Moves DEF LeaseExact

\* The users of one owner move, and its references with them.
LEMMA UsersMove ==
  ASSUME LeaseExact, NEW s \in Session,
         \A q \in Session \ {s} : active'[q] = active[q] /\ SameRequests(q) /\ SameThreads(q),
         \/ active'[s] = active[s] + 1 /\ RequestIn(s) /\ SameThreads(s)
         \/ active'[s] = active[s] + 2 /\ RequestIn(s) /\ ThreadIn(s)
         \/ active'[s] = active[s] + 1 /\ SameRequests(s) /\ ThreadIn(s)
         \/ active'[s] = active[s] - 1 /\ RequestOut(s) /\ SameThreads(s)
         \/ active'[s] = active[s] - 1 /\ SameRequests(s) /\ ThreadOut(s)
  PROVE  LeaseExact'
<1>1. active'[s] = Users(s)'
  BY Moves DEF LeaseExact
<1>2. \A q \in Session \ {s} : Users(q)' = Users(q)
  BY Moves
<1> QED BY <1>1, <1>2 DEF LeaseExact

\* A request that is let in is counted once, with the thread it starts.
LEMMA ProceedsLease ==
  ASSUME TypeInv, LeaseExact, NEW r \in Request, NEW k \in Tools, NEW s \in Session \cup {None},
         k # "open" => s \in Session, NEW E \in SUBSET Session, pc[r] \in {"idle", "wait"},
         Proceeds(r, k, s, E)
  PROVE  LeaseExact'
<1> USE DEF TypeInv
<1>1. CASE /\ active' = active /\ UNCHANGED threads /\ Leaves(r)
  <2>1. \A q \in Session : SameRequests(q) /\ SameThreads(q)
    BY <1>1 DEF Leaves, Goes, Asks, TypeOK, Leaseholders, LeasedWork, SameRequests, SameThreads
  <2> QED BY <1>1, <2>1, NobodyMoves
<1>2. CASE k # "open" /\ Valid(s) /\ Lease(r, k, s)
  <2> USE <1>2
  <2>1. /\ s \in Session /\ r \notin Leaseholders(s)
        /\ sess' = [sess EXCEPT ![r] = s]
    BY DEF Leaseholders, Lease, Asks
  <2>2. CASE k = "close"
    <3>1. /\ active' = [active EXCEPT ![s] = @ + 1]
          /\ pc' = [pc EXCEPT ![r] = "release"] /\ UNCHANGED threads
      BY <2>2 DEF Lease, Goes
    <3>2. Leaseholders(s)' = Leaseholders(s) \cup {r}
      BY <2>1, <3>1 DEF Leaseholders, TypeOK
    <3>3. \A q \in Session \ {s} : SameRequests(q)
      BY <2>1, <3>1 DEF Leaseholders, SameRequests, TypeOK
    <3>4. \A q \in Session : SameThreads(q)
      BY <3>1 DEF LeasedWork, SameThreads
    <3>5. RequestIn(s)
      BY <2>1, <3>2 DEF RequestIn
    <3>6. /\ active'[s] = active[s] + 1
          /\ \A q \in Session \ {s} : active'[q] = active[q]
      BY <2>1, <3>1 DEF TypeOK
    <3> QED BY <2>1, <3>3, <3>4, <3>5, <3>6, UsersMove
  <2>3. CASE k # "close"
    <3>1. PICK t \in Thread :
            /\ owner[t] = None
            /\ owner' = [owner EXCEPT ![t] = s]
            /\ leased' = [leased EXCEPT ![t] = k = "stateful"]
            /\ active' = [active EXCEPT ![s] = @ + (IF k = "stateful" THEN 2 ELSE 1)]
            /\ Goes(r, "native")
      BY <2>3 DEF Lease
    <3>2. pc' = [pc EXCEPT ![r] = "native"]
      BY <3>1 DEF Goes
    <3>3. Leaseholders(s)' = Leaseholders(s) \cup {r}
      BY <2>1, <3>2 DEF Leaseholders, TypeOK
    <3>4. RequestIn(s)
      BY <2>1, <3>3 DEF RequestIn
    <3>5. \A q \in Session \ {s} : SameRequests(q)
      BY <2>1, <3>2 DEF Leaseholders, SameRequests, TypeOK
    <3>6. \A q \in Session \ {s} : SameThreads(q)
      BY <2>1, <3>1 DEF LeasedWork, SameThreads, TypeOK
    <3>7. CASE k = "stateful"
      <4>1. t \notin LeasedWork(s)
        BY <2>1, <3>1 DEF LeasedWork
      <4>2. ThreadIn(s)
        <5>1. \A u \in Thread : u \in LeasedWork(s)' <=> u \in LeasedWork(s) \/ u = t
          BY <2>1, <3>1, <3>7 DEF LeasedWork, TypeOK
        <5>2. LeasedWork(s)' = LeasedWork(s) \cup {t}
          BY <5>1 DEF LeasedWork
        <5> QED BY <4>1, <5>2 DEF ThreadIn
      <4>3. /\ active'[s] = active[s] + 2
            /\ \A q \in Session \ {s} : active'[q] = active[q]
        BY <2>1, <3>1, <3>7 DEF TypeOK
      <4> QED BY <2>1, <3>4, <3>5, <3>6, <4>2, <4>3, UsersMove
    <3>8. CASE k # "stateful"
      <4>1. SameThreads(s)
        BY <2>1, <3>1, <3>8 DEF LeasedWork, SameThreads, TypeOK
      <4>2. /\ active'[s] = active[s] + 1
            /\ \A q \in Session \ {s} : active'[q] = active[q]
        BY <2>1, <3>1, <3>8 DEF TypeOK
      <4> QED BY <2>1, <3>4, <3>5, <3>6, <4>1, <4>2, UsersMove
    <3> QED BY <3>7, <3>8
  <2> QED BY <2>2, <2>3
<1>3. CASE k = "open" /\ Issue(r)
  BY <1>1, <1>3 DEF Issue
<1> QED BY <1>1, <1>2, <1>3 DEF Proceeds

\* Who works for an owner is counted by it.
LEMMA UsersCount ==
  ASSUME LeaseExact, NEW s \in Session
  PROVE  /\ active[s] \in Nat
         /\ (Leaseholders(s) \cup LeasedWork(s)) # {} => active[s] > 0
  BY Countable DEF LeaseExact

LEMMA LeaseStep == TypeInv /\ LeaseExact /\ [Next]_vars => LeaseExact'
<1> SUFFICES ASSUME TypeInv, LeaseExact, [Next]_vars
             PROVE  LeaseExact'
  OBVIOUS
<1> USE DEF TypeInv
<1> USE DEF SameRequests, SameThreads
<1> DEFINE Still == \A s \in Session : SameRequests(s) /\ SameThreads(s)
<1>1. ASSUME NEW r \in Request, Arrive(r)
      PROVE  LeaseExact'
  <2>1. PICK k \in Tools, s \in Session \cup {None} :
          /\ k # "open" => s \in Session
          /\ \/ Proceeds(r, k, s, Due)
             \/ Goes(r, "wait") /\ Asks(r, k, s) /\ active' = active /\ UNCHANGED threads
    BY <1>1 DEF Arrive
  <2>2. Due \in SUBSET Session
    BY DEF Due, Stored
  <2>3. CASE Proceeds(r, k, s, Due)
    BY <1>1, <2>1, <2>2, <2>3, ProceedsLease DEF Arrive
  <2>4. CASE Goes(r, "wait") /\ Asks(r, k, s) /\ active' = active /\ UNCHANGED threads
    <3>1. Still
      BY <1>1, <2>4 DEF Arrive, Goes, Asks, TypeOK, Leaseholders, LeasedWork
    <3> QED BY <2>4, <3>1, NobodyMoves
  <2> QED BY <2>1, <2>3, <2>4
<1>2. ASSUME NEW r \in Request, Admit(r)
      PROVE  LeaseExact'
  <2>1. /\ tool[r] \in Tools /\ sess[r] \in Session \cup {None}
        /\ tool[r] # "open" => sess[r] \in Session
    BY <1>2 DEF Admit, TypeOK, Wanted
  <2> QED BY <1>2, <2>1, ProceedsLease DEF Admit
<1>3. ASSUME NEW r \in Request, Retry(r)
      PROVE  LeaseExact'
  <2>1. PICK s \in Session : s = sess[r] /\ r \in Leaseholders(s)
    BY <1>3 DEF Retry, Busy, Leaseholders
  <2>2. CASE Retainable(s)
    <3>1. PICK t \in Thread :
            /\ owner[t] = None
            /\ owner' = [owner EXCEPT ![t] = s]
            /\ leased' = [leased EXCEPT ![t] = TRUE]
            /\ active' = [active EXCEPT ![s] = @ + 1]
            /\ pc' = [pc EXCEPT ![r] = "native"]
      BY <1>3, <2>1, <2>2 DEF Retry, Goes
    <3>2. sess' = sess
      BY <1>3 DEF Retry
    <3>3. \A q \in Session : SameRequests(q)
      BY <1>3, <3>1, <3>2 DEF Retry, Leaseholders, TypeOK
    <3>4. t \notin LeasedWork(s)
      BY <2>1, <3>1 DEF LeasedWork
    <3>5. ThreadIn(s)
      <4>1. \A u \in Thread : u \in LeasedWork(s)' <=> u \in LeasedWork(s) \/ u = t
        BY <2>1, <3>1, <3>2 DEF LeasedWork, TypeOK
      <4>2. LeasedWork(s)' = LeasedWork(s) \cup {t}
        BY <3>2, <4>1 DEF LeasedWork
      <4> QED BY <3>4, <4>2 DEF ThreadIn
    <3>6. \A q \in Session \ {s} : SameThreads(q)
      BY <2>1, <3>1 DEF LeasedWork, TypeOK
    <3>7. /\ active'[s] = active[s] + 1
          /\ \A q \in Session \ {s} : active'[q] = active[q]
      BY <2>1, <3>1 DEF TypeOK
    <3> QED BY <2>1, <3>3, <3>5, <3>6, <3>7, UsersMove
  <2>3. CASE ~Retainable(s)
    <3>1. Still
      BY <1>3, <2>1, <2>3 DEF Retry, Goes, TypeOK, Leaseholders, LeasedWork
    <3> QED BY <1>3, <2>1, <2>3, <3>1, NobodyMoves DEF Retry
  <2> QED BY <2>2, <2>3
<1>4. ASSUME NEW r \in Request, Return(r)
      PROVE  LeaseExact'
  <2>1. Still
    BY <1>4 DEF Return, Goes, TypeOK, Leaseholders, LeasedWork
  <2> QED BY <1>4, <2>1, NobodyMoves DEF Return
<1>5. ASSUME NEW r \in Request, Release(r)
      PROVE  LeaseExact'
  <2>1. PICK s \in Session : s = sess[r] /\ r \in Leaseholders(s)
    BY <1>5 DEF Release, Busy, Leaseholders
  <2>2. active[s] > 0
    BY <2>1, UsersCount
  <2>3. /\ active'[s] = active[s] - 1
        /\ \A q \in Session \ {s} : active'[q] = active[q]
    BY <1>5, <2>1, <2>2 DEF Release, Drop, TypeOK
  <2>4. UNCHANGED threads
    BY <1>5 DEF Release
  <2>5. /\ \A q \in Request \ {r} : pc'[q] = pc[q] /\ sess'[q] = sess[q]
        /\ pc'[r] \in {"idle", "closing"}
    BY <1>5 DEF Release, Goes, Leaves, Asks, TypeOK
  <2>6. Leaseholders(s)' = Leaseholders(s) \ {r}
    BY <2>1, <2>5 DEF Leaseholders
  <2>7. RequestOut(s)
    BY <2>1, <2>6 DEF RequestOut
  <2>8. \A q \in Session \ {s} : SameRequests(q)
    BY <2>1, <2>5 DEF Leaseholders
  <2>9. \A q \in Session : SameThreads(q)
    BY <2>4 DEF LeasedWork
  <2> QED BY <2>1, <2>3, <2>7, <2>8, <2>9, UsersMove
<1>6. ASSUME NEW r \in Request, Answer(r)
      PROVE  LeaseExact'
  <2>1. Still
    BY <1>6 DEF Answer, Leaves, Goes, Asks, TypeOK, Leaseholders, LeasedWork
  <2> QED BY <1>6, <2>1, NobodyMoves DEF Answer
<1>7. ASSUME NEW r \in Request, Cancel(r)
      PROVE  LeaseExact'
  <2>1. Still
    BY <1>7 DEF Cancel, Leaves, Goes, Asks, TypeOK, Leaseholders, LeasedWork
  <2> QED BY <1>7, <2>1, NobodyMoves DEF Cancel
<1>8. ASSUME NEW t \in Thread, ThreadEnds(t)
      PROVE  LeaseExact'
  <2>1. PICK s \in Session : s = owner[t]
    BY <1>8 DEF ThreadEnds, Tracked, TypeOK
  <2>2. \A q \in Session : SameRequests(q)
    BY <1>8 DEF ThreadEnds, Busy, TypeOK, Leaseholders
  <2>3. \A q \in Session \ {s} : SameThreads(q)
    BY <1>8, <2>1 DEF ThreadEnds, TypeOK, LeasedWork
  <2>4. CASE leased[t]
    <3>1. t \in LeasedWork(s)
      BY <2>1, <2>4 DEF LeasedWork
    <3>2. active[s] > 0
      BY <2>1, <3>1, UsersCount
    <3>3. /\ active'[s] = active[s] - 1
          /\ \A q \in Session \ {s} : active'[q] = active[q]
      BY <1>8, <2>1, <2>4, <3>2 DEF ThreadEnds, Drop, TypeOK
    <3>4. ThreadOut(s)
      <4>1. \A u \in Thread : u \in LeasedWork(s)' <=> u \in LeasedWork(s) /\ u # t
        BY <1>8, <2>1 DEF ThreadEnds, TypeOK, LeasedWork
      <4>2. LeasedWork(s)' = LeasedWork(s) \ {t}
        BY <4>1 DEF LeasedWork
      <4> QED BY <3>1, <4>2 DEF ThreadOut
    <3> QED BY <2>1, <2>2, <2>3, <3>3, <3>4, UsersMove
  <2>5. CASE ~leased[t]
    <3>1. \A q \in Session : SameThreads(q)
      BY <1>8, <2>5 DEF ThreadEnds, TypeOK, LeasedWork
    <3> QED BY <1>8, <2>2, <2>5, <3>1, NobodyMoves DEF ThreadEnds
  <2> QED BY <2>4, <2>5
<1>9. ASSUME UNCHANGED <<active, pc, sess, threads>>
      PROVE  LeaseExact'
  <2>1. Still
    BY <1>9 DEF Leaseholders, LeasedWork
  <2> QED BY <1>9, <2>1, NobodyMoves
<1>10. ASSUME NEW s \in Session, CleanupStep(s) \/ Expire(s)
       PROVE  LeaseExact'
  BY <1>9, <1>10 DEF CleanupStep, Expire
<1>11. CASE Sweep \/ CloseBegins \/ RevokeAll \/ CloseEnds \/ CloseCancelled \/ UNCHANGED vars
  BY <1>9, <1>11 DEF Sweep, CloseBegins, RevokeAll, CloseEnds, CloseCancelled
<1> QED BY <1>1, <1>2, <1>3, <1>4, <1>5, <1>6, <1>7, <1>8, <1>10, <1>11 DEF Next

-----------------------------------------------------------------------------
(* The store.  Whatever a step does, each owner sees one of seven effects.  *)

\* How the life of an owner is bound to its references and its cleanup.
StoreInv == \A s \in Session :
    /\ status[s] = "new" => s \notin revoked \cup claimed \cup late /\ active[s] = 0
    /\ s \in claimed => s \in revoked /\ active[s] = 0
    /\ s \in revoked /\ s \notin claimed => active[s] > 0
    /\ status[s] = "gone" <=> s \in claimed /\ stage[s] = "none"
    /\ stage[s] # "none" => s \in claimed

Mark(s, st, n, rv, cl, sg) ==
    /\ status'[s] = st /\ active'[s] = n /\ stage'[s] = sg
    /\ s \in revoked' <=> rv
    /\ s \in claimed' <=> cl

Resting(s) == Mark(s, status[s], active[s], s \in revoked, s \in claimed, stage[s])
Issued(s)  == status[s] = "new" /\ Mark(s, "stored", active[s], s \in revoked, s \in claimed, stage[s])
Revoking(s) == /\ status[s] = "stored" /\ s \notin revoked
               /\ \/ active[s] = 0 /\ Mark(s, "stored", 0, TRUE, TRUE, "kill")
                  \/ active[s] > 0 /\ Mark(s, "stored", active[s], TRUE, FALSE, stage[s])
Entered(s) == /\ Valid(s)
              /\ \E n \in {1, 2}, b \in BOOLEAN :
                    Mark(s, "stored", active[s] + n, b, s \in claimed, stage[s])
Brought(s) == Retainable(s) /\ Mark(s, "stored", active[s] + 1, s \in revoked, FALSE, stage[s])
Left(s)    == /\ active[s] > 0
              /\ \/ LastUse(s) /\ Mark(s, status[s], 0, TRUE, TRUE, "kill")
                 \/ ~LastUse(s) /\ Mark(s, status[s], active[s] - 1, s \in revoked, s \in claimed, stage[s])
Cleaned(s) == /\ stage[s] # "none"
              /\ Mark(s, IF stage[s] = "browser" THEN "gone" ELSE status[s], active[s],
                      s \in revoked, s \in claimed, NextStage[stage[s]])

Effect(s) == \/ Resting(s) \/ Issued(s) \/ Revoking(s) \/ Entered(s) \/ Brought(s)
             \/ Left(s) \/ Cleaned(s)

\* A user of an owner keeps it in the store and unclaimed.
LEMMA UsedIsStored ==
  ASSUME TypeOK, LeaseExact, StoreInv, NEW s \in Session,
         (Leaseholders(s) \cup LeasedWork(s)) # {}
  PROVE  status[s] = "stored" /\ s \notin claimed /\ active[s] > 0
  BY UsersCount DEF StoreInv, TypeOK

\* Revoking a set of stored owners and starting the cleanups that are ready.
LEMMA RevokeEffect ==
  ASSUME TypeOK, StoreInv, NEW S \in SUBSET Stored, S = Due \/ S = Stored,
         NEW s \in Session, revoked' = revoked \cup S, StartCleanups(Claimable(S)),
         status' = status, active' = active
  PROVE  Effect(s)
<1>1. /\ s \in claimed' <=> s \in claimed \/ (s \in S /\ active[s] = 0 /\ s \notin claimed)
      /\ stage'[s] = IF s \in S /\ active[s] = 0 /\ s \notin claimed THEN "kill" ELSE stage[s]
  BY DEF StartCleanups, Claimable
<1>2. CASE s \in S /\ s \notin revoked
  <2>1. status[s] = "stored" /\ s \notin claimed /\ active[s] \in Nat
    BY <1>2 DEF Stored, StoreInv, TypeOK
  <2>2. Revoking(s)
    BY <1>1, <1>2, <2>1 DEF Revoking, Mark
  <2> QED BY <2>2 DEF Effect
<1>3. CASE s \notin S \/ s \in revoked
  <2>1. s \in S => ~(active[s] = 0 /\ s \notin claimed)
    BY <1>3 DEF StoreInv
  <2>2. Resting(s)
    BY <1>1, <1>3, <2>1 DEF Resting, Mark
  <2> QED BY <2>2 DEF Effect
<1> QED BY <1>2, <1>3

\* Dropping a reference of an owner that has one.
LEMMA DropEffect ==
  ASSUME TypeOK, NEW s \in Session, active[s] > 0, NEW q \in Session, Drop(s),
         status' = status, revoked' = revoked
  PROVE  Effect(q)
<1>1. /\ q \in claimed' <=> q \in claimed \/ (q = s /\ LastUse(s))
      /\ stage'[q] = IF q = s /\ LastUse(s) THEN "kill" ELSE stage[q]
      /\ active'[q] = IF q = s THEN active[s] - 1 ELSE active[q]
  BY DEF Drop, StartCleanups, TypeOK
<1>2. CASE q # s
  BY <1>1, <1>2 DEF Effect, Resting, Mark
<1>3. CASE q = s
  <2>1. LastUse(s) => s \in revoked /\ active[s] = 1
    BY DEF LastUse
  <2>2. Left(s)
    BY <1>1, <1>3, <2>1 DEF Left, Mark
  <2> QED BY <1>3, <2>2 DEF Effect
<1> QED BY <1>2, <1>3

\* A handler that goes on issues an owner, enters one, or neither; the expired
\* owners it has just revoked are all in use.
LEMMA ProceedsEffect ==
  ASSUME TypeOK, StoreInv, NEW r \in Request, NEW k \in Tools, NEW s \in Session \cup {None},
         k # "open" => s \in Session, NEW E, E = Due \/ E = {}, Claimable(E) = {},
         claimed' = claimed, stage' = stage, Proceeds(r, k, s, E), NEW q \in Session
  PROVE  Effect(q)
<1>1. q \in E => status[q] = "stored" /\ q \notin revoked /\ q \in late /\ q \notin claimed /\ active[q] > 0
  BY DEF Due, Stored, Claimable, StoreInv, TypeOK
<1>2. CASE k # "open" /\ Valid(s) /\ Lease(r, k, s)
  <2>1. s \in Session /\ status' = status
    BY <1>2 DEF Lease
  <2>2. /\ active'[s] = active[s] + 1 \/ active'[s] = active[s] + 2
        /\ \A x \in Session \ {s} : active'[x] = active[x]
    BY <1>2, <2>1 DEF Lease, TypeOK
  <2>3. revoked' = revoked \cup E \cup (IF k = "close" THEN {s} ELSE {})
    BY <1>2 DEF Proceeds
  <2>4. CASE q = s
    <3>1. status[s] = "stored" /\ s \notin revoked /\ s \notin E /\ s \notin claimed
      BY <1>1, <1>2, <2>1, <2>4 DEF Valid, StoreInv
    <3>2. \E n \in {1, 2} : active'[s] = active[s] + n
      BY <2>2
    <3>3. Entered(s)
      BY <1>2, <2>1, <2>3, <3>1, <3>2 DEF Entered, Mark
    <3> QED BY <2>4, <3>3 DEF Effect
  <2>5. CASE q # s
    <3>1. q \in revoked' <=> q \in revoked \/ q \in E
      BY <2>3, <2>5
    <3> QED BY <1>1, <2>1, <2>2, <2>5, <3>1 DEF Effect, Resting, Revoking, Mark
  <2> QED BY <2>4, <2>5
<1>3. CASE k = "open" \/ ~Valid(s)
  <2>1. revoked' = revoked \cup E /\ active' = active
    BY <1>3 DEF Proceeds, Issue
  <2>2. status'[q] = status[q] \/ (status[q] = "new" /\ status'[q] = "stored")
    BY <1>3 DEF Proceeds, Issue, TypeOK
  <2> QED BY <1>1, <2>1, <2>2 DEF Effect, Resting, Revoking, Issued, Mark
<1> QED BY <1>2, <1>3 DEF Proceeds

LEMMA Effects ==
  ASSUME TypeInv, LeaseExact, StoreInv, [Next]_vars, NEW q \in Session
  PROVE  Effect(q)
<1> USE DEF TypeInv
<1>1. ASSUME NEW r \in Request, Arrive(r)
      PROVE  Effect(q)
  <2>1. PICK k \in Tools, s \in Session \cup {None} :
          /\ k # "open" => s \in Session
          /\ StartCleanups(Claimable(Due))
          /\ \/ Claimable(Due) = {} /\ Proceeds(r, k, s, Due)
             \/ revoked' = revoked \cup Due /\ UNCHANGED <<status, active>>
    BY <1>1 DEF Arrive
  <2>2. CASE Claimable(Due) = {} /\ Proceeds(r, k, s, Due)
    <3>1. claimed' = claimed /\ stage' = stage
      BY <2>1, <2>2 DEF StartCleanups, TypeOK
    <3> QED BY <2>1, <2>2, <3>1, ProceedsEffect
  <2>3. CASE revoked' = revoked \cup Due /\ UNCHANGED <<status, active>>
    <3>1. Due \in SUBSET Stored
      BY DEF Due
    <3> QED BY <2>1, <2>3, <3>1, RevokeEffect
  <2> QED BY <2>1, <2>2, <2>3
<1>2. ASSUME NEW r \in Request, Admit(r)
      PROVE  Effect(q)
  <2>1. /\ tool[r] \in Tools /\ sess[r] \in Session \cup {None}
        /\ tool[r] # "open" => sess[r] \in Session
    BY <1>2 DEF Admit, TypeOK, Wanted
  <2>2. PICK k \in Tools, s \in Session \cup {None} : k = tool[r] /\ s = sess[r]
    BY <2>1
  <2>3. Claimable({}) = {}
    BY DEF Claimable
  <2> QED BY <1>2, <2>1, <2>2, <2>3, ProceedsEffect DEF Admit
<1>3. ASSUME NEW r \in Request, Retry(r)
      PROVE  Effect(q)
  <2>1. PICK s \in Session : s = sess[r]
    BY <1>3 DEF Retry, Busy
  <2>2. CASE Retainable(s)
    <3>1. /\ active' = [active EXCEPT ![s] = @ + 1]
          /\ UNCHANGED <<status, revoked, claimed, stage>>
      BY <1>3, <2>1, <2>2 DEF Retry
    <3>2. CASE q = s
      BY <2>2, <3>1, <3>2 DEF Effect, Brought, Mark, Retainable, TypeOK
    <3>3. CASE q # s
      BY <3>1, <3>3 DEF Effect, Resting, Mark, TypeOK
    <3> QED BY <3>2, <3>3
  <2>3. CASE ~Retainable(s)
    BY <1>3, <2>1, <2>3 DEF Retry, Effect, Resting, Mark
  <2> QED BY <2>2, <2>3
<1>4. ASSUME NEW r \in Request, Release(r)
      PROVE  Effect(q)
  <2>1. PICK s \in Session : s = sess[r] /\ r \in Leaseholders(s)
    BY <1>4 DEF Release, Busy, Leaseholders
  <2>2. active[s] > 0
    BY <2>1, UsersCount
  <2> QED BY <1>4, <2>1, <2>2, DropEffect DEF Release
<1>5. ASSUME NEW t \in Thread, ThreadEnds(t)
      PROVE  Effect(q)
  <2>1. PICK s \in Session : s = owner[t]
    BY <1>5 DEF ThreadEnds, Tracked, TypeOK
  <2>2. CASE leased[t]
    <3>1. active[s] > 0
      BY <2>1, <2>2, UsersCount DEF LeasedWork
    <3> QED BY <1>5, <2>1, <2>2, <3>1, DropEffect DEF ThreadEnds
  <2>3. CASE ~leased[t]
    BY <1>5, <2>3 DEF ThreadEnds, Effect, Resting, Mark
  <2> QED BY <2>2, <2>3
<1>6. ASSUME NEW s \in Session, CleanupStep(s)
      PROVE  Effect(q)
  <2>1. CASE q = s
    <3>1. stage[s] # "none" /\ s \in claimed /\ active[s] = 0
      BY <1>6 DEF CleanupStep, StoreInv
    <3>2. /\ status'[s] = IF stage[s] = "browser" THEN "gone" ELSE status[s]
          /\ stage'[s] = NextStage[stage[s]]
          /\ UNCHANGED <<active, revoked, claimed>>
      BY <1>6, <3>1 DEF CleanupStep, Forgotten, TypeOK
    <3> QED BY <2>1, <3>1, <3>2 DEF Effect, Cleaned, Mark
  <2>2. CASE q # s
    BY <1>6, <2>2 DEF CleanupStep, Effect, Resting, Mark, TypeOK
  <2> QED BY <2>1, <2>2
<1>7. CASE Sweep
  <2>1. Due \in SUBSET Stored
    BY DEF Due
  <2> QED BY <1>7, <2>1, RevokeEffect DEF Sweep
<1>8. CASE RevokeAll
  <2>1. Stored \in SUBSET Stored
    OBVIOUS
  <2> QED BY <1>8, <2>1, RevokeEffect DEF RevokeAll
<1>9. ASSUME UNCHANGED <<status, active, revoked, claimed, stage>>
      PROVE  Effect(q)
  BY <1>9 DEF Effect, Resting, Mark
<1>10. ASSUME NEW r \in Request, Return(r) \/ Answer(r) \/ Cancel(r)
       PROVE  Effect(q)
  BY <1>9, <1>10 DEF Return, Answer, Cancel
<1>11. ASSUME NEW s \in Session, Expire(s)
       PROVE  Effect(q)
  BY <1>9, <1>11 DEF Expire
<1>12. CASE CloseBegins \/ CloseEnds \/ CloseCancelled \/ UNCHANGED vars
  BY <1>9, <1>12 DEF CloseBegins, CloseEnds, CloseCancelled
<1> QED BY <1>1, <1>2, <1>3, <1>4, <1>5, <1>6, <1>7, <1>8, <1>10, <1>11, <1>12 DEF Next

\* Only stored owners pass their expiry.
LEMMA LateStep ==
  ASSUME TypeInv, StoreInv, [Next]_vars
  PROVE  late' = late \/ \E s \in Stored : late' = late \cup {s}
  BY DEF Next, Arrive, Admit, Proceeds, Issue, Lease, Retry, Return, Release, Answer, Cancel,
         ThreadEnds, CleanupStep, Expire, Sweep, CloseBegins, RevokeAll, CloseEnds, CloseCancelled

LEMMA StoreStep == TypeInv /\ LeaseExact /\ StoreInv /\ [Next]_vars => StoreInv'
<1> SUFFICES ASSUME TypeInv, LeaseExact, StoreInv, [Next]_vars, NEW s \in Session
             PROVE  /\ status'[s] = "new" => s \notin revoked' \cup claimed' \cup late' /\ active'[s] = 0
                    /\ s \in claimed' => s \in revoked' /\ active'[s] = 0
                    /\ s \in revoked' /\ s \notin claimed' => active'[s] > 0
                    /\ status'[s] = "gone" <=> s \in claimed' /\ stage'[s] = "none"
                    /\ stage'[s] # "none" => s \in claimed'
  BY DEF StoreInv
<1>1. Effect(s)
  BY Effects
<1>2. status'[s] = "new" => status[s] = "new" /\ (s \in late' => s \in late)
  <2>1. s \in late' => s \in late \/ status[s] = "stored"
    BY LateStep DEF Stored
  <2>2. status'[s] = "new" => status[s] = "new"
    BY <1>1 DEF Effect, Resting, Issued, Revoking, Entered, Brought, Left, Cleaned, Mark
  <2> QED BY <2>1, <2>2
<1>3. /\ active[s] \in Nat /\ stage[s] \in Stages
      /\ status[s] = "new" => s \notin revoked \cup claimed \cup late /\ active[s] = 0
      /\ s \in claimed => s \in revoked /\ active[s] = 0
      /\ s \in revoked /\ s \notin claimed => active[s] > 0
      /\ status[s] = "gone" <=> s \in claimed /\ stage[s] = "none"
      /\ stage[s] # "none" => s \in claimed
  BY DEF TypeInv, TypeOK, StoreInv
<1>4. CASE Resting(s) \/ Issued(s)
  BY <1>2, <1>3, <1>4 DEF Resting, Issued, Mark
<1>5. CASE Revoking(s)
  BY <1>2, <1>3, <1>5 DEF Revoking, Mark
<1>6. CASE Entered(s)
  BY <1>2, <1>3, <1>6 DEF Entered, Mark, Valid
<1>7. CASE Brought(s)
  BY <1>2, <1>3, <1>7 DEF Brought, Mark, Retainable
<1>8. CASE Left(s)
  BY <1>2, <1>3, <1>8 DEF Left, Mark, LastUse
<1>9. CASE Cleaned(s)
  BY <1>2, <1>3, <1>9 DEF Cleaned, Mark, NextStage, Stages
<1> QED BY <1>1, <1>4, <1>5, <1>6, <1>7, <1>8, <1>9 DEF Effect

\* The capacity, and what close() leaves behind.
CapacityInv == Cardinality(Stored) <= MaxActive

ClosingInv ==
    /\ phase # "open" => \A r \in Request : pc[r] = "idle"
    /\ phase \in {"draining", "closed"} => Stored \subseteq revoked
    /\ phase = "closed" => /\ \A t \in Thread : owner[t] = None
                           /\ \A s \in Session : stage[s] = "none"

\* Nothing but session_open adds to the store, and only below its capacity.
LEMMA StoredStep ==
  ASSUME TypeInv, ClosingInv, [Next]_vars
  PROVE  \/ Stored' \subseteq Stored
         \/ /\ phase' = "open" /\ Cardinality(Stored) < MaxActive
            /\ \E s \in Session : Stored' = Stored \cup {s}
<1> USE DEF TypeInv
<1>1. ASSUME NEW r \in Request, NEW k \in Tools, NEW s \in Session \cup {None},
             NEW E \in SUBSET Session, Proceeds(r, k, s, E)
      PROVE  \/ Stored' \subseteq Stored
             \/ /\ Cardinality(Stored) < MaxActive
                /\ \E x \in Session : Stored' = Stored \cup {x}
  <2>1. CASE status' = status
    BY <2>1 DEF Stored
  <2>2. CASE status' # status
    <3>1. PICK x \in Session : /\ Cardinality(Stored) < MaxActive
                               /\ status' = [status EXCEPT ![x] = "stored"]
      BY <1>1, <2>2 DEF Proceeds, Issue, Lease
    <3>2. Stored' = Stored \cup {x}
      BY <3>1 DEF Stored, TypeOK
    <3> QED BY <3>1, <3>2
  <2> QED BY <2>1, <2>2
<1>2. Due \in SUBSET Session
  BY DEF Due, Stored
<1>3. ASSUME NEW r \in Request, Arrive(r)
      PROVE  \/ Stored' \subseteq Stored
             \/ /\ phase' = "open" /\ Cardinality(Stored) < MaxActive
                /\ \E s \in Session : Stored' = Stored \cup {s}
  <2>1. CASE status' = status
    BY <2>1 DEF Stored
  <2>2. CASE status' # status
    BY <1>1, <1>2, <1>3, <2>2 DEF Arrive
  <2> QED BY <2>1, <2>2
<1>4. CASE UNCHANGED status
  BY <1>4 DEF Stored
<1>5. ASSUME NEW s \in Session, CleanupStep(s)
      PROVE  Stored' \subseteq Stored
  BY <1>5 DEF CleanupStep, Stored, TypeOK
<1>6. ASSUME NEW r \in Request, Admit(r)
      PROVE  \/ Stored' \subseteq Stored
             \/ /\ phase' = "open" /\ Cardinality(Stored) < MaxActive
                /\ \E s \in Session : Stored' = Stored \cup {s}
  <2>1. phase' = "open"
    BY <1>6 DEF Admit, ClosingInv, TypeOK
  <2>2. tool[r] \in Tools /\ sess[r] \in Session \cup {None}
    BY DEF TypeOK
  <2> QED BY <1>1, <1>6, <2>1, <2>2 DEF Admit
<1>7. CASE \/ \E r \in Request : Retry(r) \/ Return(r) \/ Release(r) \/ Answer(r) \/ Cancel(r)
           \/ \E t \in Thread : ThreadEnds(t)
           \/ \E s \in Session : Expire(s)
           \/ Sweep \/ CloseBegins \/ RevokeAll \/ CloseEnds \/ CloseCancelled
           \/ UNCHANGED vars
  BY <1>4, <1>7 DEF Retry, Return, Release, Answer, Cancel, ThreadEnds, Expire, Sweep,
                    CloseBegins, RevokeAll, CloseEnds, CloseCancelled
<1> QED BY <1>3, <1>5, <1>6, <1>7 DEF Next

LEMMA CapacityStep == TypeInv /\ ClosingInv /\ CapacityInv /\ [Next]_vars => CapacityInv'
<1> SUFFICES ASSUME TypeInv, ClosingInv, CapacityInv, [Next]_vars
             PROVE  Cardinality(Stored') <= MaxActive
  BY DEF CapacityInv
<1>1. Stored \in SUBSET Session
  BY DEF Stored
<1>2. IsFiniteSet(Stored) /\ Cardinality(Stored) \in Nat
  BY <1>1, FS_Subset, FS_CardinalityType
<1>3. CASE Stored' \subseteq Stored
  <2>1. Cardinality(Stored') <= Cardinality(Stored) /\ Cardinality(Stored') \in Nat
    BY <1>2, <1>3, FS_Subset, FS_CardinalityType
  <2> QED BY <1>2, <2>1 DEF CapacityInv
<1>4. CASE Cardinality(Stored) < MaxActive /\ \E s \in Session : Stored' = Stored \cup {s}
  <2>1. Cardinality(Stored') = Cardinality(Stored) \/ Cardinality(Stored') = Cardinality(Stored) + 1
    BY <1>2, <1>4, FS_AddElement
  <2> QED BY <1>2, <1>4, <2>1
<1> QED BY <1>3, <1>4, StoredStep

LEMMA ClosingStep ==
  TypeInv /\ LeaseExact /\ StoreInv /\ ClosingInv /\ [Next]_vars => ClosingInv'
<1> SUFFICES ASSUME TypeInv, LeaseExact, StoreInv, ClosingInv, [Next]_vars
             PROVE  ClosingInv'
  OBVIOUS
<1> USE DEF TypeInv
<1>1. phase' # "open" => \A r \in Request : pc'[r] = "idle"
  BY DEF ClosingInv, Busy, TypeOK, Next, Arrive, Admit, Retry, Return, Release, Answer, Cancel,
         ThreadEnds, CleanupStep, Expire, Sweep, CloseBegins, RevokeAll, CloseEnds, CloseCancelled
<1>2. phase' \in {"draining", "closed"} => Stored' \subseteq revoked'
  <2>1. revoked \subseteq revoked'
    BY DEF Next, Arrive, Proceeds, Admit, Retry, Return, Release, Answer, Cancel, ThreadEnds,
           CleanupStep, Expire, Sweep, CloseBegins, RevokeAll, CloseEnds, CloseCancelled
  <2>2. phase' \in {"draining", "closed"} => Stored \subseteq revoked'
    <3>1. CASE phase \in {"draining", "closed"}
      BY <2>1, <3>1 DEF ClosingInv
    <3>2. CASE RevokeAll
      BY <3>2 DEF RevokeAll
    <3>3. phase' \in {"draining", "closed"} => phase \in {"draining", "closed"} \/ RevokeAll
      BY DEF Next, Arrive, Admit, Retry, Return, Release, Answer, Cancel, ThreadEnds,
             CleanupStep, Expire, Sweep, CloseBegins, CloseEnds, CloseCancelled
    <3> QED BY <3>1, <3>2, <3>3
  <2> QED BY <2>2, StoredStep
<1>3. phase' = "closed" => /\ \A t \in Thread : owner'[t] = None
                           /\ \A s \in Session : stage'[s] = "none"
  <2>1. CASE CloseEnds
    BY <2>1 DEF CloseEnds, NoWork, CleanupsOver
  <2>2. CASE phase = "closed" /\ UNCHANGED <<owner, stage>>
    BY <2>2 DEF ClosingInv
  <2>3. ASSUME phase' = "closed", ~CloseEnds
        PROVE  phase = "closed" /\ UNCHANGED <<owner, stage>>
    <3>1. phase = "closed"
      BY <2>3 DEF Next, Arrive, Admit, Retry, Return, Release, Answer, Cancel, ThreadEnds,
                  CleanupStep, Expire, Sweep, CloseBegins, RevokeAll, CloseCancelled
    <3>2. /\ \A r \in Request : pc[r] = "idle"
          /\ \A t \in Thread : owner[t] = None
          /\ \A s \in Session : stage[s] = "none"
      BY <3>1 DEF ClosingInv
    <3> QED BY <2>3, <3>1, <3>2
            DEF Next, Arrive, Admit, Retry, Return, Release, Answer, Cancel, ThreadEnds, Tracked,
                CleanupStep, Expire, Sweep, CloseBegins, RevokeAll, CloseCancelled
  <2> QED BY <2>1, <2>2, <2>3
<1> QED BY <1>1, <1>2, <1>3 DEF ClosingInv

SessionInv == TypeInv /\ LeaseExact /\ StoreInv /\ CapacityInv /\ ClosingInv

\* The inductive invariant of the session store.
THEOREM SessionInvariant == Spec => []SessionInv
<1>1. Init => SessionInv
  <2> SUFFICES ASSUME Init
               PROVE  SessionInv
    OBVIOUS
  <2>1. TypeInv
    BY DEF Init, TypeInv, TypeOK, Tools, Stages, Wanted, Busy
  <2>2. LeaseExact
    <3>1. ASSUME NEW s \in Session
          PROVE  active[s] = Users(s)
      <4>1. Leaseholders(s) = {} /\ LeasedWork(s) = {}
        BY DEF Init, Leaseholders, LeasedWork
      <4> QED BY <4>1, FS_EmptySet DEF Init, Users
    <3> QED BY <3>1 DEF LeaseExact
  <2>3. StoreInv
    BY DEF Init, StoreInv
  <2>4. CapacityInv
    <3>1. Stored = {}
      BY DEF Init, Stored
    <3> QED BY <3>1, FS_EmptySet DEF CapacityInv
  <2>5. ClosingInv
    BY DEF Init, ClosingInv
  <2> QED BY <2>1, <2>2, <2>3, <2>4, <2>5 DEF SessionInv
<1>2. SessionInv /\ [Next]_vars => SessionInv'
  BY TypeStep, LeaseStep, StoreStep, CapacityStep, ClosingStep DEF SessionInv
<1> QED BY <1>1, <1>2, PTL DEF Spec

\* active_calls counts exactly who works for the owner under a lease.
THEOREM LeasesExact == Spec => []LeaseExact
<1>1. SessionInv => LeaseExact
  BY DEF SessionInv
<1> QED BY <1>1, SessionInvariant, PTL

\* Nobody works under a lease for an owner that is being cleaned.
THEOREM CleanupsExclusive == Spec => []CleanupExclusive
<1>1. SessionInv => CleanupExclusive
  BY DEF SessionInv, StoreInv, LeaseExact, CleanupExclusive, TypeInv, TypeOK
<1> QED BY <1>1, SessionInvariant, PTL

\* An owner goes through its cleanup once.
THEOREM CleanedOnlyOnce == Spec => CleanedOnce
<1>1. ASSUME SessionInv, [Next]_vars, NEW s \in claimed
      PROVE  stage'[s] # stage[s] => stage[s] # "none" /\ stage'[s] = NextStage[stage[s]]
  <2>1. s \in Session /\ s \in revoked /\ active[s] = 0
    BY <1>1 DEF SessionInv, TypeInv, TypeOK, StoreInv
  <2>2. Effect(s)
    BY <1>1, <2>1, Effects DEF SessionInv
  <2> QED BY <1>1, <2>1, <2>2 DEF Effect, Resting, Issued, Revoking, Entered, Brought, Left,
                                  Cleaned, Mark
<1>2. SessionInv /\ [Next]_vars
        => [\A s \in claimed : stage'[s] # stage[s]
               => stage[s] # "none" /\ stage'[s] = NextStage[stage[s]]]_vars
  BY <1>1
<1> QED BY <1>2, SessionInvariant, PTL DEF Spec, CleanedOnce

\* The capacity bounds the owners that are valid, used or being cleaned.
THEOREM OwnersStayBounded == Spec => []OwnersBounded
<1>1. SessionInv => OwnersBounded
  <2> SUFFICES ASSUME SessionInv
               PROVE  OwnersBounded
    OBVIOUS
  <2>1. ASSUME NEW s \in Session, Users(s) > 0 \/ stage[s] # "none"
        PROVE  status[s] = "stored"
    BY <2>1 DEF SessionInv, TypeInv, TypeOK, StoreInv, LeaseExact
  <2>2. {s \in Session : Users(s) > 0 \/ stage[s] # "none" \/ status[s] = "stored"} = Stored
    BY <2>1 DEF Stored
  <2> QED BY <2>2 DEF OwnersBounded, SessionInv, CapacityInv
<1> QED BY <1>1, SessionInvariant, PTL

\* When close() has returned nothing runs and nobody is left in the store.
THEOREM ClosedIsClean == Spec => []CloseComplete
<1>1. SessionInv => CloseComplete
  <2> SUFFICES ASSUME SessionInv, phase = "closed"
               PROVE  /\ \A t \in Thread : owner[t] = None
                      /\ \A s \in Session : stage[s] = "none" /\ status[s] # "stored"
    BY DEF CloseComplete
  <2>1. /\ \A r \in Request : pc[r] = "idle"
        /\ \A t \in Thread : owner[t] = None
        /\ \A s \in Session : stage[s] = "none"
        /\ Stored \subseteq revoked
    BY DEF SessionInv, ClosingInv
  <2>2. ASSUME NEW s \in Session, status[s] = "stored"
        PROVE  FALSE
    <3>1. Leaseholders(s) = {} /\ LeasedWork(s) = {}
      BY <2>1, <2>2 DEF Leaseholders, LeasedWork
    <3>2. active[s] = 0
      BY <3>1, FS_EmptySet DEF SessionInv, LeaseExact, Users
    <3>3. s \in revoked /\ s \in claimed
      BY <2>1, <2>2, <3>2 DEF Stored, SessionInv, StoreInv
    <3> QED BY <2>1, <2>2, <3>3 DEF SessionInv, StoreInv
  <2> QED BY <2>1, <2>2
<1> QED BY <1>1, SessionInvariant, PTL

\* The refinement: with exact references, each effect is a step of the owner's
\* life or none.
LEMMA LifeStep ==
  ASSUME SessionInv, SessionInv', [Next]_vars
  PROVE  Life!LNext
<1>1. DOMAIN life' = Session /\ DOMAIN users' = Session
  BY DEF life, users
<1>2. ASSUME NEW s \in Session
      PROVE  \/ Life!Issues(s) \/ Life!Revokes(s) \/ Life!Vanishes(s) \/ Life!Enters(s)
             \/ Life!Brings(s) \/ Life!Leaves(s) \/ Life!Rests(s)
  <2>1. users[s] = active[s] /\ users'[s] = active'[s] /\ active[s] \in Nat
    BY DEF users, SessionInv, LeaseExact, TypeInv, TypeOK
  <2>2. /\ life[s] = CASE status[s] = "new"  -> "unissued"
                       [] status[s] = "gone" -> "gone"
                       [] OTHER -> IF s \in claimed THEN "cleaning"
                                   ELSE IF s \in revoked THEN "revoked" ELSE "live"
        /\ life'[s] = CASE status'[s] = "new"  -> "unissued"
                        [] status'[s] = "gone" -> "gone"
                        [] OTHER -> IF s \in claimed' THEN "cleaning"
                                    ELSE IF s \in revoked' THEN "revoked" ELSE "live"
    BY DEF life
  <2>3. Effect(s)
    BY Effects DEF SessionInv
  <2>4. /\ status[s] \in {"new", "stored", "gone"} /\ stage[s] \in Stages
        /\ status[s] = "new" => s \notin revoked \cup claimed /\ active[s] = 0
        /\ s \in claimed => s \in revoked /\ active[s] = 0
        /\ s \in revoked /\ s \notin claimed => active[s] > 0
        /\ status[s] = "gone" <=> s \in claimed /\ stage[s] = "none"
        /\ stage[s] # "none" => s \in claimed
    BY DEF SessionInv, TypeInv, TypeOK, StoreInv
  <2> HIDE DEF life, users
  <2>5. CASE Resting(s)
    BY <2>1, <2>2, <2>5 DEF Resting, Mark, Life!Rests, Life!Turn
  <2>6. CASE Issued(s)
    BY <2>1, <2>2, <2>4, <2>6 DEF Issued, Mark, Life!Issues, Life!Turn
  <2>7. CASE Revoking(s)
    BY <2>1, <2>2, <2>4, <2>7 DEF Revoking, Mark, Life!Revokes, Life!Turn
  <2>8. CASE Entered(s)
    <3>1. PICK n \in {1, 2}, b \in BOOLEAN :
            Mark(s, "stored", active[s] + n, b, s \in claimed, stage[s])
      BY <2>8 DEF Entered
    <3>2. status[s] = "stored" /\ s \notin revoked /\ s \notin claimed
      BY <2>4, <2>8 DEF Entered, Valid
    <3>3. life[s] = "live" /\ life'[s] \in {"live", "revoked"} /\ users'[s] = users[s] + n
      BY <2>1, <2>2, <3>1, <3>2 DEF Mark
    <3> QED BY <3>3 DEF Life!Enters, Life!Turn
  <2>9. CASE Brought(s)
    BY <2>1, <2>2, <2>9 DEF Brought, Retainable, Mark, Life!Brings, Life!Turn
  <2>10. CASE Left(s)
    BY <2>1, <2>2, <2>4, <2>10 DEF Left, LastUse, Mark, Life!Leaves, Life!Turn
  <2>11. CASE Cleaned(s)
    BY <2>1, <2>2, <2>4, <2>11
       DEF Cleaned, NextStage, Stages, Mark, Life!Vanishes, Life!Rests, Life!Turn
  <2> QED BY <2>3, <2>5, <2>6, <2>7, <2>8, <2>9, <2>10, <2>11 DEF Effect
<1> QED BY <1>1, <1>2 DEF Life!LNext

\* The store, its requests and its threads implement the life of an owner.
THEOREM StoreImplementsOwner == Spec => ImplementsOwner
<1>1. Init => Life!LInit
  <2> SUFFICES ASSUME Init
               PROVE  Life!LInit
    OBVIOUS
  <2>1. ASSUME NEW s \in Session
        PROVE  Users(s) = 0
    <3>1. Leaseholders(s) = {} /\ LeasedWork(s) = {}
      BY DEF Init, Leaseholders, LeasedWork
    <3> QED BY <3>1, FS_EmptySet DEF Users
  <2> QED BY <2>1 DEF Init, Life!LInit, life, users
<1>2. SessionInv /\ SessionInv' /\ [Next]_vars => [Life!LNext]_(Life!lvars)
  BY LifeStep
<1> QED BY <1>1, <1>2, SessionInvariant, PTL DEF Spec, ImplementsOwner, Life!LSpec
=============================================================================
