------------------------ MODULE GraphSessionsProofs ------------------------
(***************************************************************************)
(* Proofs about the resident graph sessions, for any number of callers,    *)
(* sessions and roots and any bound on the resident ones.                  *)
(***************************************************************************)
EXTENDS GraphSessionsPromises, FiniteSetTheorems, SequenceTheorems, FunctionTheorems, TLAPS

\* Where a caller has a session, where it creates one, where a call has pinned one
\* and where it has no response future.
Working  == {"starting", "checking", "aborting", "evicting", "enter", "restart", "asked", "leave"}
Pcs      == Working \cup {"idle", "lock", "retiring", "over"}
Creating == {"starting", "checking", "aborting"}
Pinning  == {"evicting", "enter", "restart", "asked", "leave"}
Silent   == {"idle", "lock", "starting", "evicting", "enter", "restart"}

\* A queue's entries, who and what waits in it, and where requests wait.
Entry       == Caller \cup {Closer}
Members(q)  == {q[i] : i \in DOMAIN q}
Requests(q) == {i \in DOMAIN q : q[i] # Closer}

\* The types, before it is known that the counters never fall below zero.
Types ==
    /\ pc \in [Caller -> Pcs]
    /\ kind \in [Caller -> {"call", "describe", "healthy"}] /\ want \in [Caller -> Root]
    /\ sess \in [Caller -> Session \cup {None}]
    /\ resp \in [Caller -> {"none", "waiting", "cancelled", "value", "failed"}]
    /\ awaits \in [Caller -> SUBSET Session]
    /\ lock \in Caller \cup {None}
    /\ status \in [Session -> {"new", "unlisted", "resident", "retired"}]
    /\ root \in [Session -> Root] /\ active \in [Session -> Int] /\ trims \in Nat
    /\ batches \subseteq SUBSET Session /\ failed \subseteq Session /\ late \subseteq Session
    /\ phase \in {"open", "closing", "returned", "raised"} /\ own \subseteq Session
    /\ shut \subseteq Session /\ slock \in [Session -> Caller \cup {Closer, None}]
    /\ task \in [Session -> {"gone", "starting", "failing", "serving", "exiting"}]
    /\ queue \in [Session -> Seq(Entry)]
    /\ inflight \in [Session -> Caller \cup {None}]
    /\ pending \in [Session -> Int] /\ breaks \in 0..MaxBreaks

\* What a caller has where it waits.
CallerAt(c) ==
    /\ pc[c] \in Working => sess[c] \in Session
    /\ pc[c] \in Silent => resp[c] = "none"
    /\ pc[c] \in {"evicting", "leave"} => kind[c] = "call"
    /\ pc[c] \in Creating \cup {"idle", "lock"} => kind[c] # "healthy"
    /\ pc[c] \in Pinning => status[sess[c]] \in {"resident", "retired"}

CallerInv == \A c \in Caller : CallerAt(c)

\* A session is created under the client's lock, for a root without a resident one;
\* describe keeps the lock while it asks.
CreateAt(c) ==
    /\ pc[c] \in Creating => lock = c /\ status[sess[c]] = "unlisted" /\ ~closed
    /\ pc[c] \in {"starting", "checking"} => /\ sess[c] \notin shut
                                             /\ \A t \in Resident : root[t] # root[sess[c]]
    /\ kind[c] = "describe" /\ pc[c] \in {"enter", "restart", "asked"} => lock = c

CreateInv == \A c \in Caller : CreateAt(c)

\* A session is closed only after it was taken out of the residents.
ShutInv ==
    /\ \A s \in Session : /\ status[s] = "resident" => s \notin shut
                          /\ status[s] = "new" => Stopped(s) /\ s \notin shut
    /\ \A b \in batches : \A s \in b : status[s] = "retired"
    /\ closed => Resident = {}

\* A close that waits for an owner belongs to one retire task, which closes its
\* sessions one at a time.
RetireInv ==
    /\ \A b, d \in batches : \A s \in b \cap d : b = d
    /\ \A s \in Session : slock[s] = Closer => s \in shut /\ s \in UNION batches
    /\ \A b \in batches : \A s, t \in b : slock[s] = Closer /\ slock[t] = Closer => s = t

Shape == Types /\ CallerInv /\ CreateInv /\ ShutInv /\ RetireInv

\* The request of c is queued at s or in flight there.
Holds(c, s) == c \in Members(queue[s]) \/ inflight[s] = c

\* An owner that is gone has no queue, only one that serves works; nothing is queued
\* twice, and pending_operations is exact.
QueueAt(s) ==
    /\ Stopped(s) => queue[s] = <<>>
    /\ inflight[s] # None => task[s] = "serving" /\ inflight[s] \notin Members(queue[s])
    /\ \A i, j \in DOMAIN queue[s] : queue[s][i] = queue[s][j] /\ queue[s][i] # Closer => i = j
    /\ pending[s] = Cardinality(Requests(queue[s])) + (IF inflight[s] = None THEN 0 ELSE 1)

\* A caller has one request at a time, and has not forgotten its response.
HoldInv ==
    \A c \in Caller, s \in Session :
        Holds(c, s) => /\ resp[c] \in {"waiting", "cancelled"}
                       /\ \A t \in Session : Holds(c, t) => s = t

QueueInv == HoldInv /\ \A s \in Session : QueueAt(s)

\* The calls that have pinned s; a call cancelled in its finally clause leaves its
\* pin behind, so that active_calls may be larger.
Pinned(s) == {c \in Caller : kind[c] = "call" /\ pc[c] \in Pinning /\ sess[c] = s}

PinInv == \A s \in Session : active[s] >= Cardinality(Pinned(s))

\* While the tool is described nothing else has begun.
DescribeAt(c) ==
    kind[c] = "describe" =>
        /\ pc[c] # "idle"
        /\ pc[c] # "over" => (\A d \in Caller \ {c} : pc[d] = "idle") /\ Resident \subseteq {sess[c]}
        /\ pc[c] = "lock" => Resident = {}

DescribeInv ==
    /\ (\A c \in Caller : pc[c] = "idle") => \A s \in Session : status[s] = "new"
    /\ \A c \in Caller : DescribeAt(c)

\* ResidencyBounded, whoever holds the client's lock.
Within     == Cardinality(Resident) <= MaxSessions \/ \A s \in Resident : Busy(active, s)
TrimmedInv == trims = 0 => Within

\* Every owner task but that of a failed session has somebody who ends it.
CloseInv ==
    /\ \A s \in Session : status[s] = "retired" => \/ s \in (UNION batches) \cup failed
                                                  \/ (s \in shut /\ Stopped(s))
    /\ \A s \in Session : status[s] = "unlisted" /\ ~Stopped(s) =>
          s \in late \/ (\E c \in Caller : pc[c] \in Creating /\ sess[c] = s)
    /\ phase = "returned" => batches = {} /\ late = {}

USE GraphAssumption DEF GraphAssumption, vars, callers, client, owners

-----------------------------------------------------------------------------
(* Queues: what Append and Tail do to the requests of a queue and to their *)
(* number, a close not counted.                                            *)

\* A queue has finitely many requests.
LEMMA RequestsFinite ==
  ASSUME NEW q \in Seq(Entry)
  PROVE  /\ IsFiniteSet(Requests(q)) /\ Cardinality(Requests(q)) \in Nat
         /\ Members(q) \in SUBSET Entry
         /\ IsFiniteSet(Members(q) \ {Closer}) /\ Cardinality(Members(q) \ {Closer}) \in Nat
<1>1. Len(q) \in Nat /\ DOMAIN q = 1..Len(q) /\ \A i \in DOMAIN q : q[i] \in Entry
  BY LenProperties
<1>2. IsFiniteSet(DOMAIN q)
  BY <1>1, FS_Interval
<1>3. Requests(q) \in SUBSET (DOMAIN q) /\ Members(q) \in SUBSET Entry /\ Members(q) \ {Closer} \in SUBSET Caller
  BY <1>1 DEF Requests, Members, Entry
<1>4. IsFiniteSet(Requests(q)) /\ IsFiniteSet(Members(q) \ {Closer})
  BY <1>2, <1>3, FS_Subset
<1> QED BY <1>3, <1>4, FS_CardinalityType

\* Append brings one member and, but for a close, one request.
LEMMA AppendRequests ==
  ASSUME NEW q \in Seq(Entry), NEW e \in Entry
  PROVE  /\ Append(q, e) \in Seq(Entry)
         /\ Members(Append(q, e)) = Members(q) \cup {e}
         /\ Cardinality(Requests(Append(q, e))) = Cardinality(Requests(q)) + (IF e = Closer THEN 0 ELSE 1)
<1>1. Len(q) \in Nat /\ DOMAIN q = 1..Len(q)
  BY LenProperties
<1>2. /\ Append(q, e) \in Seq(Entry) /\ Len(Append(q, e)) = Len(q) + 1
      /\ \A i \in 1..Len(q) : Append(q, e)[i] = q[i]
      /\ Append(q, e)[Len(q) + 1] = e
  BY AppendProperties
<1>3. DOMAIN Append(q, e) = 1..(Len(q) + 1)
  BY <1>2, LenProperties
<1>4. DOMAIN Append(q, e) = DOMAIN q \cup {Len(q) + 1} /\ Len(q) + 1 \notin DOMAIN q
  BY <1>1, <1>3
<1>5. Members(Append(q, e)) = Members(q) \cup {e}
  BY <1>1, <1>2, <1>4 DEF Members
<1>6. Requests(Append(q, e)) = IF e = Closer THEN Requests(q) ELSE Requests(q) \cup {Len(q) + 1}
  BY <1>1, <1>2, <1>4 DEF Requests
<1>7. Len(q) + 1 \notin Requests(q)
  BY <1>4 DEF Requests
<1>8. IsFiniteSet(Requests(q)) /\ Cardinality(Requests(q)) \in Nat
  BY RequestsFinite
<1>9. Cardinality(Requests(q) \cup {Len(q) + 1}) = Cardinality(Requests(q)) + 1
  BY <1>7, <1>8, FS_AddElement
<1>10. CASE e = Closer
  BY <1>2, <1>5, <1>6, <1>8, <1>10
<1>11. CASE e # Closer
  BY <1>2, <1>5, <1>6, <1>9, <1>11
<1> QED BY <1>10, <1>11

\* Tail takes the head, and one request unless that is a close.
LEMMA TailRequests ==
  ASSUME NEW q \in Seq(Entry), q # <<>>
  PROVE  /\ Head(q) \in Members(q) /\ Head(q) \in Entry /\ Tail(q) \in Seq(Entry)
         /\ Members(Tail(q)) \in SUBSET Members(q)
         /\ \A i, j \in DOMAIN Tail(q) : /\ i + 1 \in DOMAIN q /\ j + 1 \in DOMAIN q
                                         /\ Tail(q)[i] = q[i + 1] /\ Tail(q)[j] = q[j + 1]
         /\ 1 \in DOMAIN q /\ Head(q) = q[1] /\ \A i \in DOMAIN Tail(q) : i + 1 # 1
         /\ Cardinality(Requests(Tail(q))) = Cardinality(Requests(q)) - (IF Head(q) = Closer THEN 0 ELSE 1)
<1>1. Len(q) \in Nat \ {0} /\ DOMAIN q = 1..Len(q)
  BY LenProperties, EmptySeq
<1>2. /\ Head(q) \in Entry /\ Tail(q) \in Seq(Entry) /\ Len(Tail(q)) = Len(q) - 1
      /\ \A i \in 1..Len(Tail(q)) : Tail(q)[i] = q[i + 1]
  BY HeadTailProperties
<1>3. DOMAIN Tail(q) = 1..(Len(q) - 1)
  BY <1>2, LenProperties
<1>4. Head(q) = q[1]
  OBVIOUS
<1>5. \A i \in DOMAIN Tail(q) : i + 1 \in DOMAIN q /\ i + 1 # 1 /\ Tail(q)[i] = q[i + 1]
  BY <1>1, <1>2, <1>3
<1>6. \A i \in DOMAIN q : i = 1 \/ (i - 1 \in DOMAIN Tail(q) /\ Tail(q)[i - 1] = q[i])
  BY <1>1, <1>2, <1>3
<1>7. Cardinality(Requests(Tail(q))) = Cardinality(Requests(q) \ {1})
  <2> DEFINE f == [i \in Requests(Tail(q)) |-> i + 1]
  <2>1. Requests(Tail(q)) \subseteq Int /\ \A i \in Requests(Tail(q)) : i \in DOMAIN Tail(q) /\ Tail(q)[i] # Closer
    BY <1>3 DEF Requests
  <2>2. f \in [Requests(Tail(q)) -> Requests(q) \ {1}]
    BY <1>1, <1>5, <2>1 DEF Requests
  <2>3. \A i, j \in Requests(Tail(q)) : f[i] = f[j] => i = j
    BY <2>1
  <2>4. \A i \in Requests(q) \ {1} : \E j \in Requests(Tail(q)) : f[j] = i
    <3>1. ASSUME NEW i \in Requests(q) \ {1}
          PROVE  \E j \in Requests(Tail(q)) : f[j] = i
      <4>1. i \in DOMAIN q /\ i \in Int /\ q[i] # Closer
        BY <1>1, <3>1 DEF Requests
      <4>2. i - 1 \in Requests(Tail(q))
        BY <1>6, <3>1, <4>1 DEF Requests
      <4>3. f[i - 1] = i
        BY <4>1, <4>2
      <4> QED BY <4>2, <4>3
    <3> QED BY <3>1
  <2>5. f \in Bijection(Requests(Tail(q)), Requests(q) \ {1})
    BY <2>2, <2>3, <2>4, Fun_IsBij
  <2>6. ExistsBijection(Requests(Tail(q)), Requests(q) \ {1})
    BY <2>5 DEF ExistsBijection
  <2> QED BY <1>2, <2>6, RequestsFinite, FS_Bijection
<1>8. 1 \in Requests(q) <=> Head(q) # Closer
  BY <1>1, <1>4 DEF Requests
<1>9. IsFiniteSet(Requests(q)) /\ Cardinality(Requests(q)) \in Nat
  BY RequestsFinite
<1>10. Cardinality(Requests(Tail(q))) = Cardinality(Requests(q)) - (IF Head(q) = Closer THEN 0 ELSE 1)
  <2>1. CASE Head(q) = Closer
    <3>1. Requests(q) \ {1} = Requests(q)
      BY <1>8, <2>1
    <3> QED BY <1>7, <1>9, <2>1, <3>1
  <2>2. CASE Head(q) # Closer
    <3>1. Cardinality(Requests(q) \ {1}) = Cardinality(Requests(q)) - 1
      BY <1>8, <1>9, <2>2, FS_RemoveElement
    <3> QED BY <1>7, <2>2, <3>1
  <2> QED BY <2>1, <2>2
<1>11. Head(q) \in Members(q) /\ Members(Tail(q)) \in SUBSET Members(q)
  BY <1>1, <1>4, <1>5 DEF Members
<1> QED BY <1>1, <1>2, <1>4, <1>5, <1>10, <1>11

\* In a queue without repetitions the requests are as many as their callers.
LEMMA RequestsAreMembers ==
  ASSUME NEW q \in Seq(Entry),
         \A i, j \in DOMAIN q : q[i] = q[j] /\ q[i] # Closer => i = j
  PROVE  Cardinality(Members(q) \ {Closer}) = Cardinality(Requests(q))
<1> DEFINE f == [i \in Requests(q) |-> q[i]]
<1>1. f \in [Requests(q) -> Members(q) \ {Closer}]
  BY DEF Requests, Members
<1>2. \A i, j \in Requests(q) : f[i] = f[j] => i = j
  BY DEF Requests
<1>3. \A c \in Members(q) \ {Closer} : \E i \in Requests(q) : f[i] = c
  BY DEF Requests, Members
<1>4. ExistsBijection(Requests(q), Members(q) \ {Closer})
  BY <1>1, <1>2, <1>3, Fun_IsBij DEF ExistsBijection
<1> QED BY <1>4, RequestsFinite, FS_Bijection

-----------------------------------------------------------------------------
(* The helpers of GraphSessions keep the types of what they change.        *)

\* A caller that goes somewhere stays in its types,
LEMMA GoesType ==
  ASSUME Types, NEW c \in Caller, NEW p \in Pcs, Goes(c, p)
  PROVE  pc' \in [Caller -> Pcs] /\ sess' \in [Caller -> Session \cup {None}] /\ want' \in [Caller -> Root]
  BY DEF Types, Goes, Pcs

\* so does one whose request ended without a value.
LEMMA EndedType ==
  ASSUME Types, NEW c \in Caller, Ended(c)
  PROVE  /\ pc' \in [Caller -> Pcs] /\ sess' \in [Caller -> Session \cup {None}]
         /\ want' \in [Caller -> Root] /\ lock' \in Caller \cup {None}
<1>1. (IF kind[c] = "call" THEN "leave" ELSE "over") \in Pcs
  BY DEF Pcs, Working
<1>2. Goes(c, IF kind[c] = "call" THEN "leave" ELSE "over")
  BY DEF Ended
<1>3. lock' \in Caller \cup {None}
  BY DEF Ended, Types
<1> QED BY <1>1, <1>2, <1>3, GoesType

\* What is evicted is resident, not protected and idle.
LEMMA EvictionsAre ==
  ASSUME NEW R, NEW P, NEW a, NEW E \in Evictions(R, P, a)
  PROVE  E \in SUBSET R /\ \A s \in E : s \notin P /\ ~Busy(a, s)
  BY DEF Evictions

\* Retire keeps the types of the sessions' statuses and of the batches,
LEMMA RetireType ==
  ASSUME Types, NEW R \in SUBSET Session, NEW E \in SUBSET Session, Retire(R, E)
  PROVE  /\ status' \in [Session -> {"new", "unlisted", "resident", "retired"}]
         /\ batches' \in SUBSET (SUBSET Session)
  BY DEF Types, Retire

\* Evicts also those of the caller.
LEMMA EvictsType ==
  ASSUME Types, NEW c \in Caller, NEW E \in SUBSET Resident, Evicts(c, E)
  PROVE  /\ status' \in [Session -> {"new", "unlisted", "resident", "retired"}]
         /\ batches' \in SUBSET (SUBSET Session) /\ awaits' \in [Caller -> SUBSET Session]
         /\ pc' \in [Caller -> Pcs] /\ sess' \in [Caller -> Session \cup {None}] /\ want' \in [Caller -> Root]
<1>1. E \in SUBSET Session /\ Resident \in SUBSET Session
  BY DEF Resident
<1>2. Retire(Resident, E) /\ awaits' = [awaits EXCEPT ![c] = E] /\ Goes(c, IF E = {} THEN "over" ELSE "retiring")
  BY DEF Evicts
<1>3. (IF E = {} THEN "over" ELSE "retiring") \in Pcs
  BY DEF Pcs
<1>4. awaits' \in [Caller -> SUBSET Session]
  BY <1>1, <1>2 DEF Types
<1> QED BY <1>1, <1>2, <1>3, <1>4, RetireType, GoesType

\* What Use does to a call, which evicts E, and to describe.
LEMMA UseCases ==
  ASSUME NEW c \in Caller, NEW s \in Session, NEW R \in SUBSET Session, Use(c, s, R)
  PROVE  /\ sess' = [sess EXCEPT ![c] = s]
         /\ \/ /\ kind[c] = "call" /\ active' = [active EXCEPT ![s] = @ + 1] /\ lock' = None
               /\ \E E \in Evictions(R, {s}, active') :
                    /\ Retire(R, E) /\ awaits' = [awaits EXCEPT ![c] = E]
                    /\ \/ E = {} /\ pc' = [pc EXCEPT ![c] = "enter"]
                       \/ E # {} /\ pc' = [pc EXCEPT ![c] = "evicting"]
            \/ /\ kind[c] # "call" /\ Retire(R, {}) /\ pc' = [pc EXCEPT ![c] = "enter"]
               /\ lock' = c /\ UNCHANGED <<active, awaits>>
<1>1. CASE kind[c] = "call"
  <2>1. PICK E \in Evictions(R, {s}, active') :
          /\ Retire(R, E) /\ awaits' = [awaits EXCEPT ![c] = E]
          /\ pc' = [pc EXCEPT ![c] = IF E = {} THEN "enter" ELSE "evicting"]
    BY <1>1 DEF Use
  <2>2. CASE E = {}
    BY <1>1, <2>1, <2>2 DEF Use
  <2>3. CASE E # {}
    BY <1>1, <2>1, <2>3 DEF Use
  <2> QED BY <2>2, <2>3
<1>2. CASE kind[c] # "call"
  BY <1>2 DEF Use
<1> QED BY <1>1, <1>2

\* Whatever the caller wants a session for, Use evicts only idle sessions, and not that one.
LEMMA UseRetires ==
  ASSUME NEW c \in Caller, NEW s \in Session, NEW R \in SUBSET Session, Use(c, s, R)
  PROVE  \E E \in SUBSET R : Retire(R, E) /\ \A t \in E : t # s /\ ~Busy(active', t)
<1>1. CASE kind[c] = "call"
  <2>1. PICK E \in Evictions(R, {s}, active') : Retire(R, E)
    BY <1>1, UseCases
  <2>2. E \in SUBSET R /\ \A t \in E : t # s /\ ~Busy(active', t)
    BY <2>1, EvictionsAre
  <2> QED BY <2>1, <2>2
<1>2. CASE kind[c] # "call"
  <2>1. Retire(R, {})
    BY <1>2, UseCases
  <2> QED BY <2>1
<1> QED BY <1>1, <1>2

\* Use keeps the types of all it changes.
LEMMA UseType ==
  ASSUME Types, NEW c \in Caller, NEW s \in Session, NEW R \in SUBSET Session, Use(c, s, R)
  PROVE  /\ status' \in [Session -> {"new", "unlisted", "resident", "retired"}]
         /\ batches' \in SUBSET (SUBSET Session) /\ awaits' \in [Caller -> SUBSET Session]
         /\ pc' \in [Caller -> Pcs] /\ sess' \in [Caller -> Session \cup {None}]
         /\ active' \in [Session -> Int] /\ lock' \in Caller \cup {None}
<1>1. sess' \in [Caller -> Session \cup {None}]
  <2>1. sess' = [sess EXCEPT ![c] = s]
    BY UseCases
  <2> QED BY <2>1 DEF Types
<1>2. CASE kind[c] = "call"
  <2>1. PICK E \in Evictions(R, {s}, active') :
          /\ Retire(R, E) /\ awaits' = [awaits EXCEPT ![c] = E]
          /\ \/ pc' = [pc EXCEPT ![c] = "enter"]
             \/ pc' = [pc EXCEPT ![c] = "evicting"]
    BY <1>2, UseCases
  <2>2. E \in SUBSET Session
    BY <2>1, EvictionsAre
  <2>3. active' = [active EXCEPT ![s] = @ + 1] /\ lock' = None
    BY <1>2, UseCases
  <2>4. status' \in [Session -> {"new", "unlisted", "resident", "retired"}] /\ batches' \in SUBSET (SUBSET Session)
    BY <2>1, <2>2, RetireType
  <2>5. pc' \in [Caller -> Pcs]
    BY <2>1 DEF Types, Pcs, Working
  <2>6. awaits' \in [Caller -> SUBSET Session] /\ active' \in [Session -> Int]
    BY <2>1, <2>2, <2>3 DEF Types
  <2> QED BY <1>1, <2>3, <2>4, <2>5, <2>6
<1>3. CASE kind[c] # "call"
  <2>1. Retire(R, {}) /\ pc' = [pc EXCEPT ![c] = "enter"] /\ lock' = c /\ UNCHANGED <<active, awaits>>
    BY <1>3, UseCases
  <2>2. status' \in [Session -> {"new", "unlisted", "resident", "retired"}] /\ batches' \in SUBSET (SUBSET Session)
    BY <2>1, RetireType
  <2> QED BY <1>1, <2>1, <2>2 DEF Types, Pcs, Working
<1> QED BY <1>2, <1>3

\* Put keeps the types of the queues and responses.
LEMMA PutType ==
  ASSUME Types, NEW c \in Caller, NEW s \in Session, Put(c, s)
  PROVE  /\ queue' \in [Session -> Seq(Entry)] /\ pending' \in [Session -> Int]
         /\ resp' \in [Caller -> {"none", "waiting", "cancelled", "value", "failed"}]
         /\ slock' \in [Session -> Caller \cup {Closer, None}]
<1>1. queue[s] \in Seq(Entry)
  BY DEF Types
<1>2. Append(queue[s], c) \in Seq(Entry)
  BY <1>1, AppendProperties DEF Entry
<1> QED BY <1>2 DEF Types, Put

\* Start keeps the types of the owner tasks and their queues.
LEMMA StartType ==
  ASSUME Types, NEW s \in Session, Start(s)
  PROVE  /\ queue' \in [Session -> Seq(Entry)]
         /\ task' \in [Session -> {"gone", "starting", "failing", "serving", "exiting"}]
<1>1. <<>> \in Seq(Entry)
  BY EmptySeq
<1> QED BY <1>1 DEF Types, Start

\* Abort of a session whose owner task is gone, and of one whose task is cancelled.
LEMMA AbortCases ==
  ASSUME NEW c \in Caller, Abort(c)
  PROVE  /\ shut' = shut \cup {sess[c]} /\ slock' = [slock EXCEPT ![sess[c]] = None]
         /\ \/ /\ Stopped(sess[c]) /\ Goes(c, "over") /\ lock' = None
               /\ UNCHANGED <<task, inflight, pending>>
            \/ /\ ~Stopped(sess[c]) /\ Goes(c, "aborting") /\ lock' = lock
               /\ inflight' = [inflight EXCEPT ![sess[c]] = None]
               /\ pending' = [pending EXCEPT ![sess[c]] = IF inflight[sess[c]] = None THEN @ ELSE @ - 1]
               /\ \/ task' = [task EXCEPT ![sess[c]] = "failing"]
                  \/ task' = [task EXCEPT ![sess[c]] = "exiting"]
<1>1. CASE Stopped(sess[c])
  BY <1>1 DEF Abort
<1>2. CASE ~Stopped(sess[c]) /\ task[sess[c]] \in {"starting", "failing"}
  BY <1>2 DEF Abort
<1>3. CASE ~Stopped(sess[c]) /\ task[sess[c]] \notin {"starting", "failing"}
  BY <1>3 DEF Abort
<1> QED BY <1>1, <1>2, <1>3

\* Abort keeps the types of all it changes.
LEMMA AbortType ==
  ASSUME Types, NEW c \in Caller, sess[c] \in Session, Abort(c)
  PROVE  /\ shut' \in SUBSET Session /\ slock' \in [Session -> Caller \cup {Closer, None}]
         /\ pc' \in [Caller -> Pcs] /\ sess' \in [Caller -> Session \cup {None}] /\ want' \in [Caller -> Root]
         /\ lock' \in Caller \cup {None} /\ inflight' \in [Session -> Caller \cup {None}]
         /\ task' \in [Session -> {"gone", "starting", "failing", "serving", "exiting"}]
         /\ pending' \in [Session -> Int]
<1>1. shut' \in SUBSET Session /\ slock' \in [Session -> Caller \cup {Closer, None}]
  <2>1. shut' = shut \cup {sess[c]} /\ slock' = [slock EXCEPT ![sess[c]] = None]
    BY AbortCases
  <2> QED BY <2>1 DEF Types
<1>2. pc' \in [Caller -> Pcs] /\ sess' \in [Caller -> Session \cup {None}] /\ want' \in [Caller -> Root]
  <2>1. Goes(c, "over") \/ Goes(c, "aborting")
    BY AbortCases
  <2> QED BY <2>1, GoesType DEF Pcs, Working
<1>3. CASE /\ lock' = None /\ UNCHANGED <<task, inflight, pending>>
  BY <1>1, <1>2, <1>3 DEF Types
<1>4. CASE /\ lock' = lock /\ inflight' = [inflight EXCEPT ![sess[c]] = None]
           /\ pending' = [pending EXCEPT ![sess[c]] = IF inflight[sess[c]] = None THEN @ ELSE @ - 1]
           /\ \/ task' = [task EXCEPT ![sess[c]] = "failing"]
              \/ task' = [task EXCEPT ![sess[c]] = "exiting"]
  <2>1. pending' \in [Session -> Int]
    BY <1>4 DEF Types
  <2>2. lock' \in Caller \cup {None} /\ inflight' \in [Session -> Caller \cup {None}]
    BY <1>4 DEF Types
  <2>3. task' \in [Session -> {"gone", "starting", "failing", "serving", "exiting"}]
    BY <1>4 DEF Types
  <2> QED BY <1>1, <1>2, <2>1, <2>2, <2>3
<1> QED BY <1>3, <1>4, AbortCases

\* Drop keeps the type of the responses,
LEMMA DropType ==
  ASSUME Types, NEW c \in Caller, Drop(c)
  PROVE  resp' \in [Caller -> {"none", "waiting", "cancelled", "value", "failed"}]
  BY DEF Types, Drop

\* Hooks that of the trims,
LEMMA HooksType ==
  ASSUME Types, NEW s \in Session, NEW n \in Nat, Hooks(s, n)
  PROVE  trims' \in Nat
  BY DEF Types, Hooks

\* and Unbatched those of the batches.
LEMMA UnbatchedType ==
  ASSUME Types, NEW s \in UNION batches, NEW r \in BOOLEAN, Unbatched(s, r)
  PROVE  batches' \in SUBSET (SUBSET Session) /\ failed' \in SUBSET Session
<1>1. PICK b \in batches : /\ batches' = (batches \ {b}) \cup (IF r THEN {} ELSE {b \ {s}} \ {{}})
                           /\ failed' = IF r THEN failed \cup b ELSE failed
  BY DEF Unbatched
<1> QED BY <1>1 DEF Types

-----------------------------------------------------------------------------
(* Types. *)

\* Every step keeps the types.
LEMMA TypesStep == Shape /\ [Next]_vars => Types'
<1> SUFFICES ASSUME Shape, [Next]_vars
             PROVE  Types'
  OBVIOUS
<1> USE DEF Shape
<1>1. ASSUME NEW c \in Caller, Arrive(c)
      PROVE  Types'
  <2>1. pc' = [pc EXCEPT ![c] = "lock"]
    BY <1>1 DEF Arrive
  <2>2. pc' \in [Caller -> Pcs]
    BY <2>1 DEF Types, Pcs
  <2>3. CASE \E r \in Root : want' = [want EXCEPT ![c] = r] /\ UNCHANGED kind
    BY <1>1, <2>2, <2>3 DEF Arrive, Types
  <2>4. CASE kind' = [kind EXCEPT ![c] = "describe"] /\ UNCHANGED want
    BY <1>1, <2>2, <2>4 DEF Arrive, Types
  <2> QED BY <1>1, <2>3, <2>4 DEF Arrive
<1>2. ASSUME NEW c \in Caller, Probe(c)
      PROVE  Types'
  BY <1>2 DEF Probe, Resident, Types, CallerInv, CallerAt, Working, Pcs
<1>3. ASSUME NEW c \in Caller, Find(c)
      PROVE  Types'
  <2>1. PICK s \in Resident : Use(c, s, Resident)
    BY <1>3 DEF Find
  <2>2. s \in Session /\ Resident \in SUBSET Session
    BY DEF Resident
  <2> QED BY <1>3, <2>1, <2>2, UseType DEF Find, Types
<1>4. ASSUME NEW c \in Caller, Create(c)
      PROVE  Types'
  BY <1>4 DEF Create, Start, LockFree, closed, Resident, Types, CallerInv, CallerAt, Working, Pcs
<1>5. ASSUME NEW c \in Caller, Refused(c)
      PROVE  Types'
  BY <1>5 DEF Refused, Goes, Types, CallerInv, CallerAt, Working, Pcs
<1>6. ASSUME NEW c \in Caller, Started(c)
      PROVE  Types'
  <2>1. sess[c] \in Session
    BY <1>6 DEF Started, CallerInv, CallerAt, Working
  <2>2. Put(c, sess[c]) /\ Goes(c, "checking")
    BY <1>6 DEF Started
  <2>3. pc' \in [Caller -> Pcs] /\ sess' \in [Caller -> Session \cup {None}] /\ want' \in [Caller -> Root]
    BY <2>2, GoesType DEF Pcs, Working
  <2> QED BY <1>6, <2>1, <2>2, <2>3, PutType DEF Started, Types
<1>7. ASSUME NEW c \in Caller, StartFailed(c)
      PROVE  Types'
  <2>1. sess[c] \in Session /\ Abort(c)
    BY <1>7 DEF StartFailed, CallerInv, CallerAt, Working
  <2> QED BY <1>7, <2>1, AbortType DEF StartFailed, Types
<1>8. ASSUME NEW c \in Caller, Register(c)
      PROVE  Types'
  <2>1. sess[c] \in Session /\ Resident \cup {sess[c]} \in SUBSET Session
    BY <1>8 DEF Register, CallerInv, CallerAt, Working, Resident
  <2>2. Use(c, sess[c], Resident \cup {sess[c]}) /\ resp' = [resp EXCEPT ![c] = "none"]
    BY <1>8 DEF Register
  <2>3. resp' \in [Caller -> {"none", "waiting", "cancelled", "value", "failed"}]
    BY <2>2 DEF Types
  <2> QED BY <1>8, <2>1, <2>2, <2>3, UseType DEF Register, Types
<1>9. ASSUME NEW c \in Caller, Reject(c)
      PROVE  Types'
  <2>1. sess[c] \in Session /\ Abort(c) /\ Drop(c)
    BY <1>9 DEF Reject, CallerInv, CallerAt, Working
  <2> QED BY <1>9, <2>1, AbortType, DropType DEF Reject, Types
<1>10. ASSUME NEW c \in Caller, Aborted(c)
      PROVE  Types'
  BY <1>10 DEF Aborted, Goes, Stopped, Types, CallerInv, CallerAt, Working, Pcs
<1>11. ASSUME NEW c \in Caller, AbortTimesOut(c)
      PROVE  Types'
  BY <1>11 DEF AbortTimesOut, GivesUp, Goes, Stopped, Types, CallerInv, CallerAt, Working, Pcs
<1>12. ASSUME NEW c \in Caller, Evicted(c)
      PROVE  Types'
  BY <1>12 DEF Evicted, Goes, Types, CallerInv, CallerAt, Working, Pcs
<1>13. ASSUME NEW c \in Caller, Request(c)
      PROVE  Types'
  <2>1. sess[c] \in Session
    BY <1>13 DEF Request, CallerInv, CallerAt, Working
  <2>2. CASE sess[c] \in shut
    <3>1. Ended(c) /\ UNCHANGED <<resp, slock, task, queue, pending>>
      BY <1>13, <2>2 DEF Request
    <3> QED BY <1>13, <3>1, EndedType DEF Request, Types
  <2>3. CASE sess[c] \notin shut /\ Stopped(sess[c])
    <3>1. Start(sess[c]) /\ slock' = [slock EXCEPT ![sess[c]] = c] /\ Goes(c, "restart")
          /\ UNCHANGED <<lock, resp, pending>>
      BY <1>13, <2>3 DEF Request
    <3>2. slock' \in [Session -> Caller \cup {Closer, None}]
      BY <2>1, <3>1 DEF Types
    <3>3. pc' \in [Caller -> Pcs] /\ sess' \in [Caller -> Session \cup {None}] /\ want' \in [Caller -> Root]
      BY <3>1, GoesType DEF Pcs, Working
    <3> QED BY <1>13, <2>1, <3>1, <3>2, <3>3, StartType DEF Request, Types
  <2>4. CASE sess[c] \notin shut /\ ~Stopped(sess[c])
    <3>1. Put(c, sess[c]) /\ Goes(c, "asked") /\ UNCHANGED <<lock, task>>
      BY <1>13, <2>4 DEF Request
    <3>2. pc' \in [Caller -> Pcs] /\ sess' \in [Caller -> Session \cup {None}] /\ want' \in [Caller -> Root]
      BY <3>1, GoesType DEF Pcs, Working
    <3> QED BY <1>13, <2>1, <3>1, <3>2, PutType DEF Request, Types
  <2> QED BY <2>2, <2>3, <2>4
<1>14. ASSUME NEW c \in Caller, Restarted(c)
      PROVE  Types'
  <2>1. sess[c] \in Session
    BY <1>14 DEF Restarted, CallerInv, CallerAt, Working
  <2>2. CASE Put(c, sess[c]) /\ Goes(c, "asked") /\ UNCHANGED lock
    <3>1. pc' \in [Caller -> Pcs] /\ sess' \in [Caller -> Session \cup {None}] /\ want' \in [Caller -> Root]
      BY <2>2, GoesType DEF Pcs, Working
    <3> QED BY <1>14, <2>1, <2>2, <3>1, PutType DEF Restarted, Types
  <2>3. CASE /\ Ended(c) /\ slock' = [slock EXCEPT ![sess[c]] = None]
             /\ UNCHANGED <<resp, queue, pending>>
    <3>1. slock' \in [Session -> Caller \cup {Closer, None}]
      BY <2>3 DEF Types
    <3> QED BY <1>14, <2>3, <3>1, EndedType DEF Restarted, Types
  <2> QED BY <1>14, <2>2, <2>3 DEF Restarted
<1>15. ASSUME NEW c \in Caller, Answered(c)
      PROVE  Types'
  <2>1. resp' \in [Caller -> {"none", "waiting", "cancelled", "value", "failed"}]
    BY <1>15 DEF Answered, Types
  <2>2. CASE kind[c] = "describe" /\ resp[c] = "value"
    <3>1. PICK E \in Evictions(Resident, {sess[c]}, active) : Evicts(c, E)
      BY <1>15, <2>2 DEF Answered
    <3>2. lock' = None
      BY <1>15, <2>2 DEF Answered
    <3> QED BY <1>15, <2>1, <3>1, <3>2, EvictionsAre, EvictsType DEF Answered, Types
  <2>3. CASE ~(kind[c] = "describe" /\ resp[c] = "value")
    <3>1. Ended(c) /\ UNCHANGED <<awaits, status, batches>>
      BY <1>15, <2>3 DEF Answered
    <3> QED BY <1>15, <2>1, <3>1, EndedType DEF Answered, Types
  <2> QED BY <2>2, <2>3
<1>16. ASSUME NEW c \in Caller, Leave(c)
      PROVE  Types'
  <2>1. sess[c] \in Session
    BY <1>16 DEF Leave, CallerInv, CallerAt, Working
  <2>2. active' \in [Session -> Int]
    BY <1>16, <2>1 DEF Leave, Types
  <2>3. PICK E \in Evictions(Resident, {}, active') : Evicts(c, E)
    BY <1>16 DEF Leave
  <2> QED BY <1>16, <2>2, <2>3, EvictionsAre, EvictsType DEF Leave, Types
<1>17. ASSUME NEW c \in Caller, Retired(c)
      PROVE  Types'
  BY <1>17 DEF Retired, Goes, Types, CallerInv, CallerAt, Working, Pcs
<1>18. ASSUME NEW c \in Caller, CancelCreation(c)
      PROVE  Types'
  <2>1. sess[c] \in Session
    BY <1>18 DEF CancelCreation, CallerInv, CallerAt, Working
  <2>2. CASE Abort(c) /\ Drop(c) /\ UNCHANGED late
    BY <1>18, <2>1, <2>2, AbortType, DropType DEF CancelCreation, Types
  <2>3. CASE GivesUp(c) /\ UNCHANGED <<shut, task, inflight, pending>>
    <3>1. pc' \in [Caller -> Pcs] /\ sess' \in [Caller -> Session \cup {None}] /\ want' \in [Caller -> Root]
      BY <2>3, GoesType DEF GivesUp, Pcs
    <3> QED BY <1>18, <2>1, <2>3, <3>1 DEF CancelCreation, GivesUp, Types
  <2> QED BY <1>18, <2>2, <2>3 DEF CancelCreation
<1>19. ASSUME NEW c \in Caller, Cancel(c)
      PROVE  Types'
  <2>1. Drop(c) /\ awaits' = [awaits EXCEPT ![c] = {}]
        /\ slock' = [s \in Session |-> IF slock[s] = c THEN None ELSE slock[s]]
    BY <1>19 DEF Cancel
  <2>2. awaits' \in [Caller -> SUBSET Session] /\ slock' \in [Session -> Caller \cup {Closer, None}]
    BY <2>1 DEF Types
  <2>3. Ended(c) \/ (Goes(c, "over") /\ UNCHANGED lock)
    BY <1>19 DEF Cancel
  <2>4. /\ pc' \in [Caller -> Pcs] /\ sess' \in [Caller -> Session \cup {None}]
        /\ want' \in [Caller -> Root] /\ lock' \in Caller \cup {None}
    BY <2>3, EndedType, GoesType DEF Pcs, Types
  <2> QED BY <1>19, <2>1, <2>2, <2>4, DropType DEF Cancel, Types
<1>20. ASSUME NEW s \in Session, Initialized(s)
      PROVE  Types'
  BY <1>20 DEF Initialized, Types, CallerInv, CallerAt, Working, Pcs
<1>21. ASSUME NEW s \in Session, StartFails(s)
      PROVE  Types'
  BY <1>21 DEF StartFails, Types, CallerInv, CallerAt, Working, Pcs
<1>22. ASSUME NEW s \in Session, Take(s)
      PROVE  Types'
  <2> DEFINE d == Head(queue[s])
  <2>1. /\ queue[s] # <<>> /\ queue' = [queue EXCEPT ![s] = Tail(@)]
        /\ UNCHANGED <<callers, lock, status, root, active, batches, failed, late, phase, own, shut, slock, breaks>>
    BY <1>22 DEF Take
  <2>2. queue[s] \in Seq(Entry)
    BY DEF Types
  <2>3. d \in Entry /\ Tail(queue[s]) \in Seq(Entry)
    BY <2>1, <2>2, HeadTailProperties
  <2>4. queue' \in [Session -> Seq(Entry)]
    BY <2>1, <2>3 DEF Types
  <2>5. \/ task' = [task EXCEPT ![s] = "exiting"] /\ UNCHANGED <<inflight, pending, trims>>
        \/ pending' = [pending EXCEPT ![s] = @ - 1] /\ Hooks(s, 1) /\ UNCHANGED <<task, inflight>>
        \/ d # Closer /\ inflight' = [inflight EXCEPT ![s] = d] /\ UNCHANGED <<task, pending, trims>>
    BY <1>22 DEF Take
  <2>6. CASE task' = [task EXCEPT ![s] = "exiting"] /\ UNCHANGED <<inflight, pending, trims>>
    BY <2>1, <2>4, <2>6 DEF Types
  <2>7. CASE pending' = [pending EXCEPT ![s] = @ - 1] /\ Hooks(s, 1) /\ UNCHANGED <<task, inflight>>
    <3>1. pending' \in [Session -> Int]
      BY <2>7 DEF Types
    <3>2. trims' \in Nat
      BY <2>7, HooksType
    <3> QED BY <2>1, <2>4, <2>7, <3>1, <3>2 DEF Types
  <2>8. CASE d # Closer /\ inflight' = [inflight EXCEPT ![s] = d] /\ UNCHANGED <<task, pending, trims>>
    <3>1. inflight' \in [Session -> Caller \cup {None}]
      BY <2>3, <2>8 DEF Types, Entry
    <3> QED BY <2>1, <2>4, <2>8, <3>1 DEF Types
  <2> QED BY <2>5, <2>6, <2>7, <2>8
<1>23. ASSUME NEW s \in Session, OperationEnds(s)
      PROVE  Types'
  <2>1. PICK r \in {"value", "failed"} :
          resp' = [resp EXCEPT ![inflight[s]] = IF @ = "waiting" THEN r ELSE @]
    BY <1>23 DEF OperationEnds
  <2>2. resp' \in [Caller -> {"none", "waiting", "cancelled", "value", "failed"}]
    BY <2>1 DEF Types
  <2>3. Hooks(s, 1) /\ pending' = [pending EXCEPT ![s] = @ - 1] /\ inflight' = [inflight EXCEPT ![s] = None]
    BY <1>23 DEF OperationEnds
  <2>4. pending' \in [Session -> Int] /\ inflight' \in [Session -> Caller \cup {None}] /\ trims' \in Nat
    BY <2>3, HooksType DEF Types
  <2> QED BY <1>23, <2>2, <2>4 DEF OperationEnds, Types
<1>24. ASSUME NEW s \in Session, Breaks(s)
      PROVE  Types'
  BY <1>24 DEF Breaks, Hooks, closed, Types, CallerInv, CallerAt, Working, Pcs
<1>25. ASSUME NEW s \in Session, OwnerEnds(s)
      PROVE  Types'
  <2> DEFINE left == InQueue(s) \ {Closer}
  <2>1. Cardinality(left) \in Nat
    <3>1. queue[s] \in Seq(Entry)
      BY DEF Types
    <3>2. left = Members(queue[s]) \ {Closer}
      BY DEF InQueue, Members
    <3> QED BY <3>1, <3>2, RequestsFinite
  <2>2. /\ resp' = [c \in Caller |-> IF c \in left /\ resp[c] = "waiting" THEN "failed" ELSE resp[c]]
        /\ pending' = [pending EXCEPT ![s] = @ - Cardinality(left)] /\ Hooks(s, Cardinality(left))
        /\ task' = [task EXCEPT ![s] = "gone"] /\ queue' = [queue EXCEPT ![s] = <<>>]
    BY <1>25 DEF OwnerEnds
  <2>3. resp' \in [Caller -> {"none", "waiting", "cancelled", "value", "failed"}]
    BY <2>2 DEF Types
  <2>4. pending' \in [Session -> Int] /\ trims' \in Nat
    <3> HIDE DEF left
    <3>1. pending' \in [Session -> Int]
      BY <2>1, <2>2 DEF Types
    <3> QED BY <2>1, <2>2, <3>1, HooksType
  <2>5. queue' \in [Session -> Seq(Entry)] /\ task' \in [Session -> {"gone", "starting", "failing", "serving", "exiting"}]
    <3>1. <<>> \in Seq(Entry)
      BY EmptySeq
    <3> QED BY <2>2, <3>1 DEF Types
  <2>6. CASE slock[s] = Closer
    <3>1. Unbatched(s, Closer \in InQueue(s)) /\ slock' = [slock EXCEPT ![s] = None] /\ s \in UNION batches
      BY <1>25, <2>6 DEF OwnerEnds, RetireInv
    <3>2. batches' \in SUBSET (SUBSET Session) /\ failed' \in SUBSET Session
      <4>1. (Closer \in InQueue(s)) \in BOOLEAN
        OBVIOUS
      <4> DEFINE r == Closer \in InQueue(s)
      <4>2. r \in BOOLEAN /\ Unbatched(s, r)
        BY <3>1, <4>1
      <4> HIDE DEF r
      <4> QED BY <3>1, <4>2, UnbatchedType
    <3>3. slock' \in [Session -> Caller \cup {Closer, None}]
      BY <3>1 DEF Types
    <3> QED BY <1>25, <2>3, <2>4, <2>5, <3>2, <3>3 DEF OwnerEnds, Types
  <2>7. CASE slock[s] # Closer
    BY <1>25, <2>3, <2>4, <2>5, <2>7 DEF OwnerEnds, Types
  <2> QED BY <2>6, <2>7
<1>26. ASSUME NEW s \in Session, CloseSession(s)
      PROVE  Types'
  <2>1. s \in UNION batches /\ shut' \in SUBSET Session
    BY <1>26 DEF CloseSession, Types
  <2>2. CASE Stopped(s)
    <3>1. Unbatched(s, FALSE) /\ UNCHANGED <<slock, queue>>
      BY <1>26, <2>2 DEF CloseSession
    <3> QED BY <1>26, <2>1, <3>1, UnbatchedType DEF CloseSession, Types
  <2>3. CASE ~Stopped(s)
    <3>1. slock' = [slock EXCEPT ![s] = Closer] /\ queue' = [queue EXCEPT ![s] = Append(@, Closer)]
          /\ UNCHANGED <<batches, failed>>
      BY <1>26, <2>3 DEF CloseSession
    <3>2. queue[s] \in Seq(Entry) /\ Append(queue[s], Closer) \in Seq(Entry)
      BY AppendProperties DEF Types, Entry
    <3>3. queue' \in [Session -> Seq(Entry)] /\ slock' \in [Session -> Caller \cup {Closer, None}]
      BY <3>1, <3>2 DEF Types
    <3> QED BY <1>26, <2>1, <3>1, <3>3 DEF CloseSession, Types
  <2> QED BY <2>2, <2>3
<1>27. ASSUME Trim
      PROVE  Types'
  <2>1. trims' \in Nat
    BY <1>27 DEF Trim, Types
  <2>2. CASE closed
    BY <1>27, <2>1, <2>2 DEF Trim, Types
  <2>3. CASE ~closed
    <3>1. PICK E \in Evictions(Resident, {}, active) : Retire(Resident, E)
      BY <1>27, <2>3 DEF Trim
    <3>2. E \in SUBSET Session /\ Resident \in SUBSET Session
      BY EvictionsAre DEF Resident
    <3> QED BY <1>27, <2>1, <3>1, <3>2, RetireType DEF Trim, Types
  <2> QED BY <2>2, <2>3
<1>28. ASSUME CloseBegins
      PROVE  Types'
  BY <1>28 DEF CloseBegins, Retire, Resident, closed, Types, CallerInv, CallerAt, Working, Pcs
<1>29. ASSUME CloseEnds
      PROVE  Types'
  BY <1>29 DEF CloseEnds, closed, Types, CallerInv, CallerAt, Working, Pcs
<1>30. ASSUME CloseCancelled
      PROVE  Types'
  BY <1>30 DEF CloseCancelled, closed, Types, CallerInv, CallerAt, Working, Pcs
<1>31. CASE UNCHANGED vars
  BY <1>31 DEF vars, callers, client, owners, Types, CallerInv, CallerAt, Working, Pcs
<1> QED BY <1>1, <1>2, <1>3, <1>4, <1>5, <1>6, <1>7, <1>8, <1>9, <1>10, <1>11, <1>12, <1>13, <1>14, <1>15,
           <1>16, <1>17, <1>18, <1>19, <1>20, <1>21, <1>22, <1>23, <1>24, <1>25, <1>26, <1>27, <1>28, <1>29,
           <1>30, <1>31 DEF Next

-----------------------------------------------------------------------------
(* Who changes what. *)

CallerActs(c) ==
    \/ Arrive(c) \/ Probe(c) \/ Find(c) \/ Create(c) \/ Refused(c) \/ Started(c) \/ StartFailed(c)
    \/ Register(c) \/ Reject(c) \/ Aborted(c) \/ AbortTimesOut(c) \/ Evicted(c) \/ Request(c)
    \/ Restarted(c) \/ Answered(c) \/ Leave(c) \/ Retired(c) \/ CancelCreation(c) \/ Cancel(c)

\* A caller leaves the variables of the others alone.
LEMMA OthersStay ==
  ASSUME Types, NEW c \in Caller, CallerActs(c), NEW d \in Caller, d # c
  PROVE  pc'[d] = pc[d] /\ kind'[d] = kind[d] /\ sess'[d] = sess[d] /\ resp'[d] = resp[d]
<1>1. CASE Arrive(c)
  BY <1>1 DEF Arrive, Types
<1>2. CASE Probe(c)
  BY <1>2 DEF Probe, Types
<1>3. CASE Find(c)
  <2>1. PICK s \in Resident : Use(c, s, Resident)
    BY <1>3 DEF Find
  <2>2. s \in Session /\ Resident \in SUBSET Session
    BY DEF Resident
  <2>3. /\ sess' = [sess EXCEPT ![c] = s]
        /\ pc' = [pc EXCEPT ![c] = "enter"] \/ pc' = [pc EXCEPT ![c] = "evicting"]
    BY <2>1, <2>2, UseCases
  <2> QED BY <1>3, <2>3 DEF Find, Types
<1>4. CASE Create(c)
  BY <1>4 DEF Create, Types
<1>5. CASE Refused(c)
  BY <1>5 DEF Refused, Goes, Types
<1>6. CASE Started(c)
  BY <1>6 DEF Started, Put, Goes, Types
<1>7. CASE StartFailed(c)
  BY <1>7 DEF StartFailed, Abort, Goes, Types
<1>8. CASE Register(c)
  BY <1>8 DEF Register, Use, Types
<1>9. CASE Reject(c)
  BY <1>9 DEF Reject, Abort, Goes, Drop, Types
<1>10. CASE Aborted(c)
  BY <1>10 DEF Aborted, Goes, Types
<1>11. CASE AbortTimesOut(c)
  BY <1>11 DEF AbortTimesOut, GivesUp, Goes, Types
<1>12. CASE Evicted(c)
  BY <1>12 DEF Evicted, Goes, Types
<1>13. CASE Request(c)
  BY <1>13 DEF Request, Ended, Goes, Put, Types
<1>14. CASE Restarted(c)
  BY <1>14 DEF Restarted, Put, Goes, Ended, Types
<1>15. CASE Answered(c)
  BY <1>15 DEF Answered, Ended, Goes, Evicts, Types
<1>16. CASE Leave(c)
  BY <1>16 DEF Leave, Goes, Evicts, Types
<1>17. CASE Retired(c)
  BY <1>17 DEF Retired, Goes, Types
<1>18. CASE CancelCreation(c)
  BY <1>18 DEF CancelCreation, Abort, Drop, GivesUp, Goes, Types
<1>19. CASE Cancel(c)
  BY <1>19 DEF Cancel, Ended, Goes, Drop, Types
<1> QED BY <1>1, <1>2, <1>3, <1>4, <1>5, <1>6, <1>7, <1>8, <1>9, <1>10, <1>11, <1>12, <1>13, <1>14, <1>15,
           <1>16, <1>17, <1>18, <1>19 DEF CallerActs

\* The owners and the cleanup tasks end responses that are waited for, nothing else
\* of a caller.
Others ==
    \/ \E s \in Session :
        \/ Initialized(s) \/ StartFails(s) \/ Take(s) \/ OperationEnds(s) \/ Breaks(s) \/ OwnerEnds(s)
        \/ CloseSession(s)
    \/ Trim \/ CloseBegins \/ CloseEnds \/ CloseCancelled

\* Owner tasks, cleanup tasks and close() change nothing of a caller but the response it
\* waits for.
LEMMA CallersStay ==
  ASSUME Types, Others
  PROVE  /\ UNCHANGED <<pc, kind, want, sess, awaits>>
         /\ \A c \in Caller : resp[c] # "waiting" => resp'[c] = resp[c]
<1>1. ASSUME NEW s \in Session, Initialized(s)
      PROVE  /\ UNCHANGED <<pc, kind, want, sess, awaits>>
             /\ \A c \in Caller : resp[c] # "waiting" => resp'[c] = resp[c]
  BY <1>1 DEF Initialized, Types
<1>2. ASSUME NEW s \in Session, StartFails(s)
      PROVE  /\ UNCHANGED <<pc, kind, want, sess, awaits>>
             /\ \A c \in Caller : resp[c] # "waiting" => resp'[c] = resp[c]
  BY <1>2 DEF StartFails, Types
<1>3. ASSUME NEW s \in Session, Take(s)
      PROVE  /\ UNCHANGED <<pc, kind, want, sess, awaits>>
             /\ \A c \in Caller : resp[c] # "waiting" => resp'[c] = resp[c]
  BY <1>3 DEF Take, Types
<1>4. ASSUME NEW s \in Session, OperationEnds(s)
      PROVE  /\ UNCHANGED <<pc, kind, want, sess, awaits>>
             /\ \A c \in Caller : resp[c] # "waiting" => resp'[c] = resp[c]
  BY <1>4 DEF OperationEnds, Types
<1>5. ASSUME NEW s \in Session, Breaks(s)
      PROVE  /\ UNCHANGED <<pc, kind, want, sess, awaits>>
             /\ \A c \in Caller : resp[c] # "waiting" => resp'[c] = resp[c]
  BY <1>5 DEF Breaks, Types
<1>6. ASSUME NEW s \in Session, OwnerEnds(s)
      PROVE  /\ UNCHANGED <<pc, kind, want, sess, awaits>>
             /\ \A c \in Caller : resp[c] # "waiting" => resp'[c] = resp[c]
  BY <1>6 DEF OwnerEnds, Types
<1>7. ASSUME NEW s \in Session, CloseSession(s)
      PROVE  /\ UNCHANGED <<pc, kind, want, sess, awaits>>
             /\ \A c \in Caller : resp[c] # "waiting" => resp'[c] = resp[c]
  BY <1>7 DEF CloseSession, Types
<1>8. CASE Trim
  BY <1>8 DEF Trim, Types
<1>9. CASE CloseBegins
  BY <1>9 DEF CloseBegins, Types
<1>10. CASE CloseEnds
  BY <1>10 DEF CloseEnds, Types
<1>11. CASE CloseCancelled
  BY <1>11 DEF CloseCancelled, Types
<1> QED BY <1>1, <1>2, <1>3, <1>4, <1>5, <1>6, <1>7, <1>8, <1>9, <1>10, <1>11 DEF Others

\* A step is a caller's, or somebody else's.
LEMMA NextCases == [Next]_vars => (\E c \in Caller : CallerActs(c)) \/ Others \/ UNCHANGED vars
  BY DEF Next, CallerActs, Others

\* A session that was registered is resident or retired for ever.
LEMMA ListedStays ==
  ASSUME Shape, [Next]_vars, NEW s \in Session, status[s] \in {"resident", "retired"}
  PROVE  status'[s] \in {"resident", "retired"}
<1>1. ASSUME NEW c \in Caller, Arrive(c)
      PROVE  status'[s] \in {"resident", "retired"}
  BY <1>1 DEF Arrive, Shape, Types
<1>2. ASSUME NEW c \in Caller, Probe(c)
      PROVE  status'[s] \in {"resident", "retired"}
  BY <1>2 DEF Probe, Shape, Types
<1>3. ASSUME NEW c \in Caller, Find(c)
      PROVE  status'[s] \in {"resident", "retired"}
  BY <1>3 DEF Find, Use, Retire, Shape, Types
<1>4. ASSUME NEW c \in Caller, Create(c)
      PROVE  status'[s] \in {"resident", "retired"}
  BY <1>4 DEF Create, Shape, Types
<1>5. ASSUME NEW c \in Caller, Refused(c)
      PROVE  status'[s] \in {"resident", "retired"}
  BY <1>5 DEF Refused, Shape, Types
<1>6. ASSUME NEW c \in Caller, Started(c)
      PROVE  status'[s] \in {"resident", "retired"}
  BY <1>6 DEF Started, Shape, Types
<1>7. ASSUME NEW c \in Caller, StartFailed(c)
      PROVE  status'[s] \in {"resident", "retired"}
  BY <1>7 DEF StartFailed, Shape, Types
<1>8. ASSUME NEW c \in Caller, Register(c)
      PROVE  status'[s] \in {"resident", "retired"}
  BY <1>8 DEF Register, Use, Retire, Shape, Types
<1>9. ASSUME NEW c \in Caller, Reject(c)
      PROVE  status'[s] \in {"resident", "retired"}
  BY <1>9 DEF Reject, Shape, Types
<1>10. ASSUME NEW c \in Caller, Aborted(c)
      PROVE  status'[s] \in {"resident", "retired"}
  BY <1>10 DEF Aborted, Shape, Types
<1>11. ASSUME NEW c \in Caller, AbortTimesOut(c)
      PROVE  status'[s] \in {"resident", "retired"}
  BY <1>11 DEF AbortTimesOut, Shape, Types
<1>12. ASSUME NEW c \in Caller, Evicted(c)
      PROVE  status'[s] \in {"resident", "retired"}
  BY <1>12 DEF Evicted, Shape, Types
<1>13. ASSUME NEW c \in Caller, Request(c)
      PROVE  status'[s] \in {"resident", "retired"}
  BY <1>13 DEF Request, Shape, Types
<1>14. ASSUME NEW c \in Caller, Restarted(c)
      PROVE  status'[s] \in {"resident", "retired"}
  BY <1>14 DEF Restarted, Shape, Types
<1>15. ASSUME NEW c \in Caller, Answered(c)
      PROVE  status'[s] \in {"resident", "retired"}
  BY <1>15 DEF Answered, Evicts, Retire, Shape, Types
<1>16. ASSUME NEW c \in Caller, Leave(c)
      PROVE  status'[s] \in {"resident", "retired"}
  BY <1>16 DEF Leave, Evicts, Retire, Shape, Types
<1>17. ASSUME NEW c \in Caller, Retired(c)
      PROVE  status'[s] \in {"resident", "retired"}
  BY <1>17 DEF Retired, Shape, Types
<1>18. ASSUME NEW c \in Caller, CancelCreation(c)
      PROVE  status'[s] \in {"resident", "retired"}
  BY <1>18 DEF CancelCreation, Shape, Types
<1>19. ASSUME NEW c \in Caller, Cancel(c)
      PROVE  status'[s] \in {"resident", "retired"}
  BY <1>19 DEF Cancel, Shape, Types
<1>20. ASSUME NEW t \in Session, Initialized(t)
      PROVE  status'[s] \in {"resident", "retired"}
  BY <1>20 DEF Initialized, Shape, Types
<1>21. ASSUME NEW t \in Session, StartFails(t)
      PROVE  status'[s] \in {"resident", "retired"}
  BY <1>21 DEF StartFails, Shape, Types
<1>22. ASSUME NEW t \in Session, Take(t)
      PROVE  status'[s] \in {"resident", "retired"}
  BY <1>22 DEF Take, Shape, Types
<1>23. ASSUME NEW t \in Session, OperationEnds(t)
      PROVE  status'[s] \in {"resident", "retired"}
  BY <1>23 DEF OperationEnds, Shape, Types
<1>24. ASSUME NEW t \in Session, Breaks(t)
      PROVE  status'[s] \in {"resident", "retired"}
  BY <1>24 DEF Breaks, Shape, Types
<1>25. ASSUME NEW t \in Session, OwnerEnds(t)
      PROVE  status'[s] \in {"resident", "retired"}
  BY <1>25 DEF OwnerEnds, Shape, Types
<1>26. ASSUME NEW t \in Session, CloseSession(t)
      PROVE  status'[s] \in {"resident", "retired"}
  BY <1>26 DEF CloseSession, Shape, Types
<1>27. ASSUME Trim
      PROVE  status'[s] \in {"resident", "retired"}
  BY <1>27 DEF Trim, Retire, Shape, Types
<1>28. ASSUME CloseBegins
      PROVE  status'[s] \in {"resident", "retired"}
  BY <1>28 DEF CloseBegins, Retire, Shape, Types
<1>29. ASSUME CloseEnds
      PROVE  status'[s] \in {"resident", "retired"}
  BY <1>29 DEF CloseEnds, Shape, Types
<1>30. ASSUME CloseCancelled
      PROVE  status'[s] \in {"resident", "retired"}
  BY <1>30 DEF CloseCancelled, Shape, Types
<1>31. CASE UNCHANGED vars
  BY <1>31
<1> QED BY <1>1, <1>2, <1>3, <1>4, <1>5, <1>6, <1>7, <1>8, <1>9, <1>10, <1>11, <1>12, <1>13, <1>14, <1>15,
           <1>16, <1>17, <1>18, <1>19, <1>20, <1>21, <1>22, <1>23, <1>24, <1>25, <1>26, <1>27, <1>28, <1>29,
           <1>30, <1>31 DEF Next

-----------------------------------------------------------------------------
(* What a caller has where it waits. *)

\* A caller's own step leaves it with what it needs where it then waits,
LEMMA CallerOwn ==
  ASSUME Shape, Next, NEW c \in Caller, CallerActs(c)
  PROVE  CallerAt(c)'
<1> USE DEF Shape
<1>1. CallerAt(c) /\ Types
  BY DEF CallerInv
<1>2. sess[c] \in Session /\ status[sess[c]] \in {"resident", "retired"} => status'[sess[c]] \in {"resident", "retired"}
  BY ListedStays
<1>3. CASE Arrive(c)
  BY <1>1, <1>2, <1>3 DEF Arrive, CallerAt, Types, Pcs, Working, Silent, Pinning, Creating
<1>4. CASE Probe(c)
  BY <1>1, <1>2, <1>4 DEF Probe, Resident, CallerAt, Types, Pcs, Working, Silent, Pinning, Creating
<1>5. CASE Find(c)
  <2>1. PICK s \in Resident : Use(c, s, Resident)
      BY <1>5 DEF Find
  <2>2. s \in Session /\ Resident \in SUBSET Session /\ status[s] = "resident"
      BY DEF Resident
  <2>3. /\ sess' = [sess EXCEPT ![c] = s]
          /\ \/ kind[c] = "call" /\ (pc' = [pc EXCEPT ![c] = "enter"] \/ pc' = [pc EXCEPT ![c] = "evicting"])
             \/ pc' = [pc EXCEPT ![c] = "enter"]
      BY <2>1, <2>2, UseCases
  <2>4. sess'[c] = s /\ status'[s] \in {"resident", "retired"}
      BY <2>2, <2>3, ListedStays DEF Types
  <2>5. kind'[c] = kind[c] /\ resp'[c] = resp[c] /\ pc[c] = "lock"
      BY <1>5 DEF Find
  <2>6. pc'[c] = "enter" \/ (pc'[c] = "evicting" /\ kind'[c] = "call")
      BY <2>3, <2>5 DEF Types
  <2>7. resp'[c] = "none"
      BY <1>1, <2>5 DEF CallerAt, Silent
  <2> QED BY <2>1, <2>2, <2>4, <2>6, <2>7 DEF CallerAt, Working, Silent, Pinning, Creating
<1>6. CASE Create(c)
  BY <1>1, <1>2, <1>6 DEF Create, CallerAt, Types, Pcs, Working, Silent, Pinning, Creating
<1>7. CASE Refused(c)
  BY <1>1, <1>2, <1>7 DEF Refused, Goes, CallerAt, Types, Pcs, Working, Silent, Pinning, Creating
<1>8. CASE Started(c)
  BY <1>1, <1>2, <1>8 DEF Started, Put, Goes, CallerAt, Types, Pcs, Working, Silent, Pinning, Creating
<1>9. CASE StartFailed(c)
  BY <1>1, <1>2, <1>9 DEF StartFailed, Abort, Goes, CallerAt, Types, Pcs, Working, Silent, Pinning, Creating
<1>10. CASE Register(c)
  <2>1. sess[c] \in Session /\ Resident \cup {sess[c]} \in SUBSET Session
      BY <1>1, <1>10 DEF Register, CallerAt, Working, Resident
  <2>2. Use(c, sess[c], Resident \cup {sess[c]})
      BY <1>10 DEF Register
  <2>3. /\ sess' = [sess EXCEPT ![c] = sess[c]]
          /\ \/ kind[c] = "call" /\ (pc' = [pc EXCEPT ![c] = "enter"] \/ pc' = [pc EXCEPT ![c] = "evicting"])
             \/ pc' = [pc EXCEPT ![c] = "enter"]
      BY <2>1, <2>2, UseCases
  <2>4. sess'[c] = sess[c] /\ status'[sess[c]] \in {"resident", "retired"}
      BY <2>1, <2>2, <2>3 DEF Use, Retire, Types
  <2>5. kind'[c] = kind[c] /\ resp'[c] = "none"
      BY <1>10 DEF Register, Types
  <2>6. pc'[c] = "enter" \/ (pc'[c] = "evicting" /\ kind'[c] = "call")
      BY <2>3, <2>5 DEF Types
  <2>7. resp'[c] = "none"
      BY <1>1, <2>5 DEF CallerAt, Silent
  <2> QED BY <2>1, <2>2, <2>4, <2>6, <2>7 DEF CallerAt, Working, Silent, Pinning, Creating
<1>11. CASE Reject(c)
  BY <1>1, <1>2, <1>11 DEF Reject, Abort, Goes, Drop, CallerAt, Types, Pcs, Working, Silent, Pinning, Creating
<1>12. CASE Aborted(c)
  BY <1>1, <1>2, <1>12 DEF Aborted, Goes, CallerAt, Types, Pcs, Working, Silent, Pinning, Creating
<1>13. CASE AbortTimesOut(c)
  BY <1>1, <1>2, <1>13 DEF AbortTimesOut, GivesUp, Goes, CallerAt, Types, Pcs, Working, Silent, Pinning,
     Creating
<1>14. CASE Evicted(c)
  BY <1>1, <1>2, <1>14 DEF Evicted, Goes, CallerAt, Types, Pcs, Working, Silent, Pinning, Creating
<1>15. CASE Request(c)
  BY <1>1, <1>2, <1>15 DEF Request, Ended, Goes, Put, CallerAt, Types, Pcs, Working, Silent, Pinning, Creating
<1>16. CASE Restarted(c)
  BY <1>1, <1>2, <1>16 DEF Restarted, Put, Goes, Ended, CallerAt, Types, Pcs, Working, Silent, Pinning,
     Creating
<1>17. CASE Answered(c)
  BY <1>1, <1>2, <1>17 DEF Answered, Ended, Goes, Evicts, Retire, CallerAt, Types, Pcs, Working, Silent,
     Pinning, Creating
<1>18. CASE Leave(c)
  BY <1>1, <1>2, <1>18 DEF Leave, Goes, Evicts, Retire, CallerAt, Types, Pcs, Working, Silent, Pinning,
     Creating
<1>19. CASE Retired(c)
  BY <1>1, <1>2, <1>19 DEF Retired, Goes, CallerAt, Types, Pcs, Working, Silent, Pinning, Creating
<1>20. CASE CancelCreation(c)
  BY <1>1, <1>2, <1>20 DEF CancelCreation, Abort, Drop, GivesUp, Goes, CallerAt, Types, Pcs, Working, Silent,
     Pinning, Creating
<1>21. CASE Cancel(c)
  BY <1>1, <1>2, <1>21 DEF Cancel, Ended, Goes, Drop, CallerAt, Types, Pcs, Working, Silent, Pinning, Creating
<1> QED BY <1>3, <1>4, <1>5, <1>6, <1>7, <1>8, <1>9, <1>10, <1>11, <1>12, <1>13, <1>14, <1>15, <1>16, <1>17,
           <1>18, <1>19, <1>20, <1>21 DEF CallerActs

\* and so does everybody else's.
LEMMA CallerStep == Shape /\ [Next]_vars => CallerInv'
<1> SUFFICES ASSUME Shape, [Next]_vars
             PROVE  CallerInv'
  OBVIOUS
<1> USE DEF Shape
<1>1. ASSUME NEW c \in Caller, CallerActs(c)
      PROVE  CallerInv'
  <2>1. Next
    BY <1>1 DEF Next, CallerActs
  <2>2. CallerAt(c)'
    BY <1>1, <2>1, CallerOwn
  <2>3. ASSUME NEW d \in Caller, d # c
        PROVE  CallerAt(d)'
    <3>1. pc'[d] = pc[d] /\ kind'[d] = kind[d] /\ sess'[d] = sess[d] /\ resp'[d] = resp[d]
      BY <1>1, <2>3, OthersStay
    <3>2. CallerAt(d)
      BY DEF CallerInv
    <3>3. pc[d] \in Pinning => status'[sess[d]] \in {"resident", "retired"}
      BY <3>2, ListedStays DEF CallerAt, Pinning, Working
    <3> QED BY <3>1, <3>2, <3>3 DEF CallerAt
  <2> QED BY <2>2, <2>3 DEF CallerInv
<1>2. CASE Others
  <2>1. /\ UNCHANGED <<pc, kind, want, sess, awaits>>
        /\ \A c \in Caller : resp[c] # "waiting" => resp'[c] = resp[c]
    BY <1>2, CallersStay
  <2>2. ASSUME NEW c \in Caller
        PROVE  CallerAt(c)'
    <3>1. CallerAt(c)
      BY DEF CallerInv
    <3>2. pc[c] \in Pinning => status'[sess[c]] \in {"resident", "retired"}
      BY <3>1, ListedStays DEF CallerAt, Pinning, Working
    <3> QED BY <2>1, <3>1, <3>2 DEF CallerAt
  <2> QED BY <2>2 DEF CallerInv
<1>3. CASE UNCHANGED vars
  BY <1>3 DEF CallerInv, CallerAt
<1> QED BY <1>1, <1>2, <1>3, NextCases

-----------------------------------------------------------------------------
(* How sessions change their status: every step leaves the statuses alone, *)
(* creates a session, evicts some residents, with or without a new one     *)
(* among them, or takes them all.                                          *)

\* What Retire does to the residents, the statuses and the batches.
LEMMA RetireFacts ==
  ASSUME Types, NEW R \in SUBSET Session, NEW E \in SUBSET Session, Resident \subseteq R \cup E, Retire(R, E)
  PROVE  /\ Resident' = R \ E
         /\ \A s \in Session : status'[s] = IF s \in E THEN "retired" ELSE IF s \in R THEN "resident" ELSE status[s]
         /\ \A b : b \in batches' <=> b \in batches \/ (b = E /\ E # {})
  BY DEF Types, Retire, Resident

Lists(c) == /\ Register(c) /\ sess[c] \in Session /\ UNCHANGED <<root, failed, late, phase, own, owners>>
            /\ \E E \in SUBSET (Resident \cup {sess[c]}) :
                  Retire(Resident \cup {sess[c]}, E) /\ \A t \in E : ~Busy(active', t)

Trims == /\ UNCHANGED <<root, failed, late, phase, own, owners>>
         /\ \E E \in SUBSET Resident : Retire(Resident, E) /\ \A t \in E : ~Busy(active', t)

Keeps == /\ status' = status /\ root' = root /\ (closed' <=> closed)
         /\ \A b \in batches' : \E d \in batches : b \subseteq d
         /\ batches' = batches \/ \E s \in Session : CloseSession(s) \/ OwnerEnds(s)

\* A batch that is left is part of one that was there.
LEMMA UnbatchedKeeps ==
  ASSUME Types, NEW s \in UNION batches, NEW r \in BOOLEAN, Unbatched(s, r)
  PROVE  \A b \in batches' : \E d \in batches : b \subseteq d
<1>1. PICK b \in batches : batches' = (batches \ {b}) \cup (IF r THEN {} ELSE {b \ {s}} \ {{}})
  BY DEF Unbatched
<1> QED BY <1>1

\* Every step is of one of these forms.
LEMMA StatusCases ==
  ASSUME Shape, [Next]_vars
  PROVE  \/ Keeps
         \/ \E c \in Caller : Create(c) \/ Lists(c)
         \/ Trims
         \/ CloseBegins
<1>1. ASSUME NEW c \in Caller, Arrive(c)
      PROVE  Keeps
  BY <1>1 DEF Arrive, Keeps, closed
<1>2. ASSUME NEW c \in Caller, Probe(c)
      PROVE  Keeps
  BY <1>2 DEF Probe, Keeps, closed
<1>3. ASSUME NEW c \in Caller, Find(c)
      PROVE  Trims
  <2>1. PICK s \in Resident : Use(c, s, Resident)
    BY <1>3 DEF Find
  <2>2. s \in Session /\ Resident \in SUBSET Session
    BY DEF Resident
  <2>3. \E E \in SUBSET Resident : Retire(Resident, E) /\ \A t \in E : ~Busy(active', t)
    BY <2>1, <2>2, UseRetires
  <2> QED BY <1>3, <2>3 DEF Find, Trims
<1>4. ASSUME NEW c \in Caller, Refused(c)
      PROVE  Keeps
  BY <1>4 DEF Refused, Keeps, closed
<1>5. ASSUME NEW c \in Caller, Started(c)
      PROVE  Keeps
  BY <1>5 DEF Started, Keeps, closed
<1>6. ASSUME NEW c \in Caller, StartFailed(c)
      PROVE  Keeps
  BY <1>6 DEF StartFailed, Keeps, closed
<1>7. ASSUME NEW c \in Caller, Register(c)
      PROVE  Lists(c)
  <2>1. sess[c] \in Session /\ Resident \cup {sess[c]} \in SUBSET Session
    BY <1>7 DEF Register, Shape, CallerInv, CallerAt, Working, Resident
  <2>2. Use(c, sess[c], Resident \cup {sess[c]})
    BY <1>7 DEF Register
  <2>3. \E E \in SUBSET (Resident \cup {sess[c]}) :
          Retire(Resident \cup {sess[c]}, E) /\ \A t \in E : ~Busy(active', t)
    BY <2>1, <2>2, UseRetires
  <2> QED BY <1>7, <2>1, <2>3 DEF Register, Lists
<1>8. ASSUME NEW c \in Caller, Reject(c)
      PROVE  Keeps
  BY <1>8 DEF Reject, Keeps, closed
<1>9. ASSUME NEW c \in Caller, Aborted(c)
      PROVE  Keeps
  BY <1>9 DEF Aborted, Keeps, closed
<1>10. ASSUME NEW c \in Caller, AbortTimesOut(c)
      PROVE  Keeps
  BY <1>10 DEF AbortTimesOut, Keeps, closed
<1>11. ASSUME NEW c \in Caller, Evicted(c)
      PROVE  Keeps
  BY <1>11 DEF Evicted, Keeps, closed
<1>12. ASSUME NEW c \in Caller, Request(c)
      PROVE  Keeps
  BY <1>12 DEF Request, Keeps, closed
<1>13. ASSUME NEW c \in Caller, Restarted(c)
      PROVE  Keeps
  BY <1>13 DEF Restarted, Keeps, closed
<1>14. ASSUME NEW c \in Caller, Answered(c)
      PROVE  Keeps \/ Trims
  <2>1. (\E E \in Evictions(Resident, {sess[c]}, active) : Evicts(c, E)) \/ UNCHANGED <<status, batches>>
    BY <1>14 DEF Answered
  <2>2. (\E E \in SUBSET Resident : Retire(Resident, E) /\ \A t \in E : ~Busy(active', t)) \/ UNCHANGED <<status, batches>>
    <3>1. active = active'
      BY <1>14 DEF Answered
    <3> QED BY <2>1, <3>1, EvictionsAre DEF Evicts
  <2> QED BY <1>14, <2>2 DEF Answered, Trims, Keeps, closed
<1>15. ASSUME NEW c \in Caller, Leave(c)
      PROVE  Keeps \/ Trims
  <2>1. (\E E \in Evictions(Resident, {}, active') : Evicts(c, E)) \/ UNCHANGED <<status, batches>>
    BY <1>15 DEF Leave
  <2>2. (\E E \in SUBSET Resident : Retire(Resident, E) /\ \A t \in E : ~Busy(active', t)) \/ UNCHANGED <<status, batches>>
    <3>1. active' = active'
      BY <1>15 DEF Leave
    <3> QED BY <2>1, <3>1, EvictionsAre DEF Evicts
  <2> QED BY <1>15, <2>2 DEF Leave, Trims, Keeps, closed
<1>16. ASSUME NEW c \in Caller, Retired(c)
      PROVE  Keeps
  BY <1>16 DEF Retired, Keeps, closed
<1>17. ASSUME NEW c \in Caller, CancelCreation(c)
      PROVE  Keeps
  BY <1>17 DEF CancelCreation, Keeps, closed
<1>18. ASSUME NEW c \in Caller, Cancel(c)
      PROVE  Keeps
  BY <1>18 DEF Cancel, Keeps, closed
<1>19. ASSUME NEW s \in Session, Initialized(s)
      PROVE  Keeps
  BY <1>19 DEF Initialized, Keeps, closed
<1>20. ASSUME NEW s \in Session, StartFails(s)
      PROVE  Keeps
  BY <1>20 DEF StartFails, Keeps, closed
<1>21. ASSUME NEW s \in Session, Take(s)
      PROVE  Keeps
  BY <1>21 DEF Take, Keeps, closed
<1>22. ASSUME NEW s \in Session, OperationEnds(s)
      PROVE  Keeps
  BY <1>22 DEF OperationEnds, Keeps, closed
<1>23. ASSUME NEW s \in Session, Breaks(s)
      PROVE  Keeps
  BY <1>23 DEF Breaks, Keeps, closed
<1>24. ASSUME NEW s \in Session, OwnerEnds(s)
      PROVE  Keeps
  <2>1. CASE slock[s] = Closer
    <3> DEFINE r == Closer \in InQueue(s)
    <3>1. r \in BOOLEAN /\ Unbatched(s, r) /\ s \in UNION batches
      BY <1>24, <2>1 DEF OwnerEnds, Shape, RetireInv
    <3> HIDE DEF r
    <3>2. \A b \in batches' : \E d \in batches : b \subseteq d
      BY <3>1, UnbatchedKeeps DEF Shape
    <3> QED BY <1>24, <3>2 DEF OwnerEnds, Keeps, closed
  <2>2. CASE slock[s] # Closer
    BY <1>24, <2>2 DEF OwnerEnds, Keeps, closed
  <2> QED BY <2>1, <2>2
<1>25. ASSUME NEW s \in Session, CloseSession(s)
      PROVE  Keeps
  <2>1. s \in UNION batches /\ (Unbatched(s, FALSE) \/ UNCHANGED batches)
    BY <1>25 DEF CloseSession
  <2>2. \A b \in batches' : \E d \in batches : b \subseteq d
    BY <2>1, UnbatchedKeeps DEF Shape
  <2> QED BY <1>25, <2>2 DEF CloseSession, Keeps, closed
<1>26. ASSUME Trim
      PROVE  Keeps \/ Trims
  <2>1. (\E E \in Evictions(Resident, {}, active) : Retire(Resident, E)) \/ UNCHANGED <<status, batches>>
    BY <1>26 DEF Trim
  <2>2. (\E E \in SUBSET Resident : Retire(Resident, E) /\ \A t \in E : ~Busy(active', t)) \/ UNCHANGED <<status, batches>>
    <3>1. active = active'
      BY <1>26 DEF Trim
    <3> QED BY <2>1, <3>1, EvictionsAre
  <2> QED BY <1>26, <2>2 DEF Trim, Trims, Keeps, closed
<1>27. ASSUME CloseEnds
      PROVE  Keeps
  BY <1>27 DEF CloseEnds, Keeps, closed
<1>28. ASSUME CloseCancelled
      PROVE  Keeps
  BY <1>28 DEF CloseCancelled, Keeps, closed
<1>29. CASE UNCHANGED vars
  BY <1>29 DEF Keeps, closed
<1> QED BY <1>1, <1>2, <1>3, <1>4, <1>5, <1>6, <1>7, <1>8, <1>9, <1>10, <1>11, <1>12, <1>13, <1>14, <1>15,
           <1>16, <1>17, <1>18, <1>19, <1>20, <1>21, <1>22, <1>23, <1>24, <1>25, <1>26, <1>27, <1>28, <1>29
           DEF Next

-----------------------------------------------------------------------------
(* What closes a session and what starts an owner. *)

\* Only a session that is not listed, or no longer, is closed.
LEMMA ShutGrows ==
  ASSUME Shape, [Next]_vars, NEW s \in Session, s \in shut', s \notin shut
  PROVE  status[s] \in {"unlisted", "retired"} /\ status' = status
<1> USE DEF Shape
<1>1. ASSUME NEW c \in Caller, Arrive(c)
      PROVE  status[s] \in {"unlisted", "retired"} /\ status' = status
  BY <1>1 DEF Arrive
<1>2. ASSUME NEW c \in Caller, Probe(c)
      PROVE  status[s] \in {"unlisted", "retired"} /\ status' = status
  BY <1>2 DEF Probe
<1>3. ASSUME NEW c \in Caller, Find(c)
      PROVE  status[s] \in {"unlisted", "retired"} /\ status' = status
  BY <1>3 DEF Find
<1>4. ASSUME NEW c \in Caller, Create(c)
      PROVE  status[s] \in {"unlisted", "retired"} /\ status' = status
  BY <1>4 DEF Create
<1>5. ASSUME NEW c \in Caller, Refused(c)
      PROVE  status[s] \in {"unlisted", "retired"} /\ status' = status
  BY <1>5 DEF Refused
<1>6. ASSUME NEW c \in Caller, Started(c)
      PROVE  status[s] \in {"unlisted", "retired"} /\ status' = status
  BY <1>6 DEF Started
<1>7. ASSUME NEW c \in Caller, StartFailed(c)
      PROVE  status[s] \in {"unlisted", "retired"} /\ status' = status
  <2>1. shut' = shut \/ (shut' = shut \cup {sess[c]} /\ pc[c] \in Creating)
    BY <1>7, AbortCases DEF StartFailed, Creating
  <2>2. s = sess[c] /\ pc[c] \in Creating
    BY <2>1
  <2> QED BY <1>7, <2>2 DEF StartFailed, CreateInv, CreateAt
<1>8. ASSUME NEW c \in Caller, Register(c)
      PROVE  status[s] \in {"unlisted", "retired"} /\ status' = status
  BY <1>8 DEF Register
<1>9. ASSUME NEW c \in Caller, Reject(c)
      PROVE  status[s] \in {"unlisted", "retired"} /\ status' = status
  <2>1. shut' = shut \/ (shut' = shut \cup {sess[c]} /\ pc[c] \in Creating)
    BY <1>9, AbortCases DEF Reject, Creating
  <2>2. s = sess[c] /\ pc[c] \in Creating
    BY <2>1
  <2> QED BY <1>9, <2>2 DEF Reject, CreateInv, CreateAt
<1>10. ASSUME NEW c \in Caller, Aborted(c)
      PROVE  status[s] \in {"unlisted", "retired"} /\ status' = status
  BY <1>10 DEF Aborted
<1>11. ASSUME NEW c \in Caller, AbortTimesOut(c)
      PROVE  status[s] \in {"unlisted", "retired"} /\ status' = status
  BY <1>11 DEF AbortTimesOut
<1>12. ASSUME NEW c \in Caller, Evicted(c)
      PROVE  status[s] \in {"unlisted", "retired"} /\ status' = status
  BY <1>12 DEF Evicted
<1>13. ASSUME NEW c \in Caller, Request(c)
      PROVE  status[s] \in {"unlisted", "retired"} /\ status' = status
  BY <1>13 DEF Request
<1>14. ASSUME NEW c \in Caller, Restarted(c)
      PROVE  status[s] \in {"unlisted", "retired"} /\ status' = status
  BY <1>14 DEF Restarted
<1>15. ASSUME NEW c \in Caller, Answered(c)
      PROVE  status[s] \in {"unlisted", "retired"} /\ status' = status
  BY <1>15 DEF Answered
<1>16. ASSUME NEW c \in Caller, Leave(c)
      PROVE  status[s] \in {"unlisted", "retired"} /\ status' = status
  BY <1>16 DEF Leave
<1>17. ASSUME NEW c \in Caller, Retired(c)
      PROVE  status[s] \in {"unlisted", "retired"} /\ status' = status
  BY <1>17 DEF Retired
<1>18. ASSUME NEW c \in Caller, CancelCreation(c)
      PROVE  status[s] \in {"unlisted", "retired"} /\ status' = status
  <2>1. shut' = shut \/ (shut' = shut \cup {sess[c]} /\ pc[c] \in Creating)
    BY <1>18, AbortCases DEF CancelCreation, Creating
  <2>2. s = sess[c] /\ pc[c] \in Creating
    BY <2>1
  <2> QED BY <1>18, <2>2 DEF CancelCreation, CreateInv, CreateAt
<1>19. ASSUME NEW c \in Caller, Cancel(c)
      PROVE  status[s] \in {"unlisted", "retired"} /\ status' = status
  BY <1>19 DEF Cancel
<1>20. ASSUME NEW t \in Session, Initialized(t)
      PROVE  status[s] \in {"unlisted", "retired"} /\ status' = status
  BY <1>20 DEF Initialized
<1>21. ASSUME NEW t \in Session, StartFails(t)
      PROVE  status[s] \in {"unlisted", "retired"} /\ status' = status
  BY <1>21 DEF StartFails
<1>22. ASSUME NEW t \in Session, Take(t)
      PROVE  status[s] \in {"unlisted", "retired"} /\ status' = status
  BY <1>22 DEF Take
<1>23. ASSUME NEW t \in Session, OperationEnds(t)
      PROVE  status[s] \in {"unlisted", "retired"} /\ status' = status
  BY <1>23 DEF OperationEnds
<1>24. ASSUME NEW t \in Session, Breaks(t)
      PROVE  status[s] \in {"unlisted", "retired"} /\ status' = status
  BY <1>24 DEF Breaks
<1>25. ASSUME NEW t \in Session, OwnerEnds(t)
      PROVE  status[s] \in {"unlisted", "retired"} /\ status' = status
  BY <1>25 DEF OwnerEnds
<1>26. ASSUME NEW t \in Session, CloseSession(t)
      PROVE  status[s] \in {"unlisted", "retired"} /\ status' = status
  BY <1>26 DEF CloseSession, ShutInv, Types
<1>27. ASSUME Trim
      PROVE  status[s] \in {"unlisted", "retired"} /\ status' = status
  BY <1>27 DEF Trim
<1>28. ASSUME CloseBegins
      PROVE  status[s] \in {"unlisted", "retired"} /\ status' = status
  BY <1>28 DEF CloseBegins
<1>29. ASSUME CloseEnds
      PROVE  status[s] \in {"unlisted", "retired"} /\ status' = status
  BY <1>29 DEF CloseEnds
<1>30. ASSUME CloseCancelled
      PROVE  status[s] \in {"unlisted", "retired"} /\ status' = status
  BY <1>30 DEF CloseCancelled
<1>31. CASE UNCHANGED vars
  BY <1>31
<1> QED BY <1>1, <1>2, <1>3, <1>4, <1>5, <1>6, <1>7, <1>8, <1>9, <1>10, <1>11, <1>12, <1>13, <1>14, <1>15,
           <1>16, <1>17, <1>18, <1>19, <1>20, <1>21, <1>22, <1>23, <1>24, <1>25, <1>26, <1>27, <1>28, <1>29,
           <1>30, <1>31 DEF Next

\* An owner starts for a new session, or for one that is listed and not closed.
LEMMA OwnerStarts ==
  ASSUME Shape, [Next]_vars, NEW s \in Session, Stopped(s), ~Stopped(s)'
  PROVE  \/ \E c \in Caller : Create(c) /\ status[s] = "new" /\ status'[s] = "unlisted" /\ sess'[c] = s
         \/ s \notin shut /\ status[s] \in {"resident", "retired"} /\ status' = status
<1> USE DEF Shape
<1>1. ASSUME NEW c \in Caller, Arrive(c)
      PROVE  FALSE
  BY <1>1 DEF Arrive, Stopped, Types
<1>2. ASSUME NEW c \in Caller, Probe(c)
      PROVE  FALSE
  BY <1>2 DEF Probe, Stopped, Types
<1>3. ASSUME NEW c \in Caller, Find(c)
      PROVE  FALSE
  BY <1>3 DEF Find, Stopped, Types
<1>4. ASSUME NEW c \in Caller, Create(c)
      PROVE  status[s] = "new" /\ status'[s] = "unlisted" /\ sess'[c] = s
  BY <1>4 DEF Create, Start, Stopped, Types
<1>5. ASSUME NEW c \in Caller, Refused(c)
      PROVE  FALSE
  BY <1>5 DEF Refused, Stopped, Types
<1>6. ASSUME NEW c \in Caller, Started(c)
      PROVE  FALSE
  BY <1>6 DEF Started, Stopped, Types
<1>7. ASSUME NEW c \in Caller, StartFailed(c)
      PROVE  FALSE
  <2>1. sess[c] \in Session
    BY <1>7 DEF StartFailed, CallerInv, CallerAt, Working
  <2>2. task' = task \/ (~Stopped(sess[c]) /\ \E x \in {"failing", "exiting"} : task' = [task EXCEPT ![sess[c]] = x])
    BY <1>7, AbortCases DEF StartFailed
  <2> QED BY <2>1, <2>2 DEF Stopped, Types
<1>8. ASSUME NEW c \in Caller, Register(c)
      PROVE  FALSE
  BY <1>8 DEF Register, Stopped, Types
<1>9. ASSUME NEW c \in Caller, Reject(c)
      PROVE  FALSE
  <2>1. sess[c] \in Session
    BY <1>9 DEF Reject, CallerInv, CallerAt, Working
  <2>2. task' = task \/ (~Stopped(sess[c]) /\ \E x \in {"failing", "exiting"} : task' = [task EXCEPT ![sess[c]] = x])
    BY <1>9, AbortCases DEF Reject
  <2> QED BY <2>1, <2>2 DEF Stopped, Types
<1>10. ASSUME NEW c \in Caller, Aborted(c)
      PROVE  FALSE
  BY <1>10 DEF Aborted, Stopped, Types
<1>11. ASSUME NEW c \in Caller, AbortTimesOut(c)
      PROVE  FALSE
  BY <1>11 DEF AbortTimesOut, Stopped, Types
<1>12. ASSUME NEW c \in Caller, Evicted(c)
      PROVE  FALSE
  BY <1>12 DEF Evicted, Stopped, Types
<1>13. ASSUME NEW c \in Caller, Request(c)
      PROVE  s \notin shut /\ status[s] \in {"resident", "retired"} /\ status' = status
  <2>1. sess[c] \in Session /\ status[sess[c]] \in {"resident", "retired"}
    BY <1>13 DEF Request, CallerInv, CallerAt, Working, Pinning
  <2>2. s = sess[c] /\ s \notin shut
    BY <1>13 DEF Request, Start, Stopped, Types
  <2> QED BY <1>13, <2>1, <2>2 DEF Request
<1>14. ASSUME NEW c \in Caller, Restarted(c)
      PROVE  FALSE
  BY <1>14 DEF Restarted, Stopped, Types
<1>15. ASSUME NEW c \in Caller, Answered(c)
      PROVE  FALSE
  BY <1>15 DEF Answered, Stopped, Types
<1>16. ASSUME NEW c \in Caller, Leave(c)
      PROVE  FALSE
  BY <1>16 DEF Leave, Stopped, Types
<1>17. ASSUME NEW c \in Caller, Retired(c)
      PROVE  FALSE
  BY <1>17 DEF Retired, Stopped, Types
<1>18. ASSUME NEW c \in Caller, CancelCreation(c)
      PROVE  FALSE
  <2>1. sess[c] \in Session
    BY <1>18 DEF CancelCreation, CallerInv, CallerAt, Working
  <2>2. task' = task \/ (~Stopped(sess[c]) /\ \E x \in {"failing", "exiting"} : task' = [task EXCEPT ![sess[c]] = x])
    BY <1>18, AbortCases DEF CancelCreation
  <2> QED BY <2>1, <2>2 DEF Stopped, Types
<1>19. ASSUME NEW c \in Caller, Cancel(c)
      PROVE  FALSE
  BY <1>19 DEF Cancel, Stopped, Types
<1>20. ASSUME NEW t \in Session, Initialized(t)
      PROVE  FALSE
  BY <1>20 DEF Initialized, Stopped, Types
<1>21. ASSUME NEW t \in Session, StartFails(t)
      PROVE  FALSE
  BY <1>21 DEF StartFails, Stopped, Types
<1>22. ASSUME NEW t \in Session, Take(t)
      PROVE  FALSE
  BY <1>22 DEF Take, Stopped, Types
<1>23. ASSUME NEW t \in Session, OperationEnds(t)
      PROVE  FALSE
  BY <1>23 DEF OperationEnds, Stopped, Types
<1>24. ASSUME NEW t \in Session, Breaks(t)
      PROVE  FALSE
  BY <1>24 DEF Breaks, Stopped, Types
<1>25. ASSUME NEW t \in Session, OwnerEnds(t)
      PROVE  FALSE
  BY <1>25 DEF OwnerEnds, Stopped, Types
<1>26. ASSUME NEW t \in Session, CloseSession(t)
      PROVE  FALSE
  BY <1>26 DEF CloseSession, Stopped, Types
<1>27. ASSUME Trim
      PROVE  FALSE
  BY <1>27 DEF Trim, Stopped, Types
<1>28. ASSUME CloseBegins
      PROVE  FALSE
  BY <1>28 DEF CloseBegins, Stopped, Types
<1>29. ASSUME CloseEnds
      PROVE  FALSE
  BY <1>29 DEF CloseEnds, Stopped, Types
<1>30. ASSUME CloseCancelled
      PROVE  FALSE
  BY <1>30 DEF CloseCancelled, Stopped, Types
<1>31. CASE UNCHANGED vars
  BY <1>31 DEF Stopped
<1> QED BY <1>1, <1>2, <1>3, <1>4, <1>5, <1>6, <1>7, <1>8, <1>9, <1>10, <1>11, <1>12, <1>13, <1>14, <1>15,
           <1>16, <1>17, <1>18, <1>19, <1>20, <1>21, <1>22, <1>23, <1>24, <1>25, <1>26, <1>27, <1>28, <1>29,
           <1>30, <1>31 DEF Next

\* Only sessions that are no longer resident are closed.
LEMMA ShutStep == Shape /\ [Next]_vars => ShutInv'
<1> SUFFICES ASSUME Shape, [Next]_vars
             PROVE  ShutInv'
  OBVIOUS
<1> USE DEF Shape
<1>1. \A s \in Session : status'[s] = "resident" => s \notin shut'
  <2> SUFFICES ASSUME NEW s \in Session, status'[s] = "resident", s \in shut'
               PROVE  FALSE
    OBVIOUS
  <2>1. s \in shut
    BY ShutGrows
  <2>2. status[s] # "resident" /\ status[s] # "new"
    BY <2>1 DEF ShutInv
  <2>3. CASE Keeps
    BY <2>2, <2>3 DEF Keeps
  <2>4. ASSUME NEW c \in Caller, Create(c)
        PROVE  FALSE
    BY <2>2, <2>4 DEF Create, Types
  <2>5. ASSUME NEW c \in Caller, Lists(c)
        PROVE  FALSE
    <3>1. PICK E \in SUBSET (Resident \cup {sess[c]}) : Retire(Resident \cup {sess[c]}, E)
      BY <2>5 DEF Lists
    <3>2. s # sess[c]
      BY <2>1, <2>5 DEF Lists, Register, CreateInv, CreateAt
    <3> QED BY <2>2, <3>1, <3>2 DEF Retire, Types, Resident
  <2>6. CASE Trims
    BY <2>2, <2>6 DEF Trims, Retire, Types, Resident
  <2>7. CASE CloseBegins
    BY <2>2, <2>7 DEF CloseBegins, Retire, Types, Resident
  <2> QED BY <2>3, <2>4, <2>5, <2>6, <2>7, StatusCases
<1>2. \A s \in Session : status'[s] = "new" => Stopped(s)' /\ s \notin shut'
  <2> SUFFICES ASSUME NEW s \in Session, status'[s] = "new"
               PROVE  Stopped(s)' /\ s \notin shut'
    OBVIOUS
  <2>1. status[s] = "new"
    <3>1. CASE Keeps
      BY <3>1 DEF Keeps
    <3>2. ASSUME NEW c \in Caller, Create(c)
          PROVE  status[s] = "new"
      BY <3>2 DEF Create, Types
    <3>3. ASSUME NEW c \in Caller, Lists(c)
          PROVE  status[s] = "new"
      BY <3>3 DEF Lists, Retire, Types
    <3>4. CASE Trims
      BY <3>4 DEF Trims, Retire, Types
    <3>5. CASE CloseBegins
      BY <3>5 DEF CloseBegins, Retire, Types
    <3> QED BY <3>1, <3>2, <3>3, <3>4, <3>5, StatusCases
  <2>2. Stopped(s) /\ s \notin shut
    BY <2>1 DEF ShutInv
  <2>3. s \notin shut'
    BY <2>1, <2>2, ShutGrows
  <2>4. Stopped(s)'
    BY <2>1, <2>2, OwnerStarts
  <2> QED BY <2>3, <2>4
<1>3. \A b \in batches' : \A s \in b : status'[s] = "retired"
  <2>1. CASE Keeps
    BY <2>1 DEF Keeps, ShutInv
  <2>2. ASSUME NEW c \in Caller, Create(c)
        PROVE  \A b \in batches' : \A s \in b : status'[s] = "retired"
    <3>1. PICK s \in Session : status[s] = "new" /\ status' = [status EXCEPT ![s] = "unlisted"]
      BY <2>2 DEF Create
    <3>2. batches' = batches
      BY <2>2 DEF Create
    <3> QED BY <3>1, <3>2 DEF ShutInv, Types
  <2>3. ASSUME NEW c \in Caller, Lists(c)
        PROVE  \A b \in batches' : \A s \in b : status'[s] = "retired"
    <3>1. PICK E \in SUBSET (Resident \cup {sess[c]}) : Retire(Resident \cup {sess[c]}, E)
      BY <2>3 DEF Lists
    <3>2. sess[c] \in Session /\ status[sess[c]] = "unlisted"
      BY <2>3 DEF Lists, Register, CreateInv, CreateAt, Creating
    <3> QED BY <3>1, <3>2 DEF Retire, Types, Resident, ShutInv
  <2>4. CASE Trims
    BY <2>4 DEF Trims, Retire, Types, Resident, ShutInv
  <2>5. CASE CloseBegins
    BY <2>5 DEF CloseBegins, Retire, Types, Resident, ShutInv
  <2> QED BY <2>1, <2>2, <2>3, <2>4, <2>5, StatusCases
<1>4. closed' => Resident' = {}
  <2>1. CASE Keeps
    BY <2>1 DEF Keeps, ShutInv, Resident
  <2>2. ASSUME NEW c \in Caller, Create(c)
        PROVE  closed' => Resident' = {}
    BY <2>2 DEF Create, closed
  <2>3. ASSUME NEW c \in Caller, Lists(c)
        PROVE  ~closed'
    BY <2>3 DEF Lists, Register, CreateInv, CreateAt, Creating, closed
  <2>4. CASE Trims
    BY <2>4 DEF Trims, Retire, Types, Resident, ShutInv, closed
  <2>5. CASE CloseBegins
    BY <2>5 DEF CloseBegins, Retire, Types, Resident
  <2> QED BY <2>1, <2>2, <2>3, <2>4, <2>5, StatusCases
<1> QED BY <1>1, <1>2, <1>3, <1>4 DEF ShutInv

-----------------------------------------------------------------------------
(* Sessions are created under the client's lock. *)

\* While d holds the lock, another caller changes neither it nor the sessions.
LEMMA HolderAlone ==
  ASSUME Shape, NEW c \in Caller, CallerActs(c), lock \in Caller, lock # c
  PROVE  UNCHANGED <<lock, status, root, shut, phase>>
<1> USE DEF Shape
<1>1. ~LockFree
  BY DEF LockFree
<1>2. pc[c] \notin Creating /\ ~(kind[c] = "describe" /\ pc[c] \in {"enter", "restart", "asked"})
  BY DEF CreateInv, CreateAt
<1>3. CASE Arrive(c)
  BY <1>3 DEF Arrive
<1>4. CASE Probe(c)
  BY <1>4 DEF Probe
<1>5. CASE Find(c)
  BY <1>1, <1>5 DEF Find
<1>6. CASE Create(c)
  BY <1>1, <1>6 DEF Create
<1>7. CASE Refused(c)
  BY <1>1, <1>7 DEF Refused
<1>8. CASE Started(c)
  BY <1>2, <1>8 DEF Started, Creating
<1>9. CASE StartFailed(c)
  BY <1>2, <1>9 DEF StartFailed, Creating
<1>10. CASE Register(c)
  BY <1>2, <1>10 DEF Register, Creating
<1>11. CASE Reject(c)
  BY <1>2, <1>11 DEF Reject, Creating
<1>12. CASE Aborted(c)
  BY <1>2, <1>12 DEF Aborted, Creating
<1>13. CASE AbortTimesOut(c)
  BY <1>2, <1>13 DEF AbortTimesOut, Creating
<1>14. CASE Evicted(c)
  BY <1>14 DEF Evicted
<1>15. CASE Request(c)
  BY <1>2, <1>15 DEF Request, Ended
<1>16. CASE Restarted(c)
  BY <1>2, <1>16 DEF Restarted, Ended
<1>17. CASE Answered(c)
  BY <1>2, <1>17 DEF Answered, Ended
<1>18. CASE Leave(c)
  BY <1>1, <1>18 DEF Leave
<1>19. CASE Retired(c)
  BY <1>19 DEF Retired
<1>20. CASE CancelCreation(c)
  BY <1>2, <1>20 DEF CancelCreation, Creating
<1>21. CASE Cancel(c)
  BY <1>2, <1>21 DEF Cancel, Ended
<1> QED BY <1>3, <1>4, <1>5, <1>6, <1>7, <1>8, <1>9, <1>10, <1>11, <1>12, <1>13, <1>14, <1>15, <1>16, <1>17,
           <1>18, <1>19, <1>20, <1>21 DEF CallerActs

\* While a caller holds the client's lock nobody else touches what it guards,
\* and only retired sessions are closed.
LEMMA OthersUnderLock ==
  ASSUME Shape, Others, ~LockFree
  PROVE  /\ UNCHANGED <<lock, status, root>> /\ (closed' <=> closed)
         /\ \A s \in shut' \ shut : status[s] = "retired"
<1> USE DEF Shape
<1>1. ASSUME NEW s \in Session, Initialized(s)
      PROVE  /\ UNCHANGED <<lock, status, root>> /\ (closed' <=> closed)
             /\ \A t \in shut' \ shut : status[t] = "retired"
  BY <1>1 DEF Initialized, closed
<1>2. ASSUME NEW s \in Session, StartFails(s)
      PROVE  /\ UNCHANGED <<lock, status, root>> /\ (closed' <=> closed)
             /\ \A t \in shut' \ shut : status[t] = "retired"
  BY <1>2 DEF StartFails, closed
<1>3. ASSUME NEW s \in Session, Take(s)
      PROVE  /\ UNCHANGED <<lock, status, root>> /\ (closed' <=> closed)
             /\ \A t \in shut' \ shut : status[t] = "retired"
  BY <1>3 DEF Take, closed
<1>4. ASSUME NEW s \in Session, OperationEnds(s)
      PROVE  /\ UNCHANGED <<lock, status, root>> /\ (closed' <=> closed)
             /\ \A t \in shut' \ shut : status[t] = "retired"
  BY <1>4 DEF OperationEnds, closed
<1>5. ASSUME NEW s \in Session, Breaks(s)
      PROVE  /\ UNCHANGED <<lock, status, root>> /\ (closed' <=> closed)
             /\ \A t \in shut' \ shut : status[t] = "retired"
  BY <1>5 DEF Breaks, closed
<1>6. ASSUME NEW s \in Session, OwnerEnds(s)
      PROVE  /\ UNCHANGED <<lock, status, root>> /\ (closed' <=> closed)
             /\ \A t \in shut' \ shut : status[t] = "retired"
  BY <1>6 DEF OwnerEnds, closed
<1>7. ASSUME NEW s \in Session, CloseSession(s)
      PROVE  /\ UNCHANGED <<lock, status, root>> /\ (closed' <=> closed)
             /\ \A t \in shut' \ shut : status[t] = "retired"
  BY <1>7 DEF CloseSession, closed, ShutInv
<1>8. ASSUME Trim
      PROVE  /\ UNCHANGED <<lock, status, root>> /\ (closed' <=> closed)
             /\ \A t \in shut' \ shut : status[t] = "retired"
  BY <1>8 DEF Trim, closed
<1>9. ASSUME CloseBegins
      PROVE  /\ UNCHANGED <<lock, status, root>> /\ (closed' <=> closed)
             /\ \A t \in shut' \ shut : status[t] = "retired"
  BY <1>9 DEF CloseBegins, closed
<1>10. ASSUME CloseEnds
      PROVE  /\ UNCHANGED <<lock, status, root>> /\ (closed' <=> closed)
             /\ \A t \in shut' \ shut : status[t] = "retired"
  BY <1>10 DEF CloseEnds, closed
<1>11. ASSUME CloseCancelled
      PROVE  /\ UNCHANGED <<lock, status, root>> /\ (closed' <=> closed)
             /\ \A t \in shut' \ shut : status[t] = "retired"
  BY <1>11 DEF CloseCancelled, closed
<1> QED BY <1>1, <1>2, <1>3, <1>4, <1>5, <1>6, <1>7, <1>8, <1>9, <1>10, <1>11 DEF Others

\* A caller creates its session under the lock from beginning to end,
LEMMA CreateOwn ==
  ASSUME Shape, Next, NEW c \in Caller, CallerActs(c)
  PROVE  CreateAt(c)'
<1> USE DEF Shape
<1>1. CallerAt(c) /\ CreateAt(c) /\ Types
  BY DEF CallerInv, CreateInv
<1>2. CASE Arrive(c)
  BY <1>1, <1>2 DEF Arrive, CreateAt, CallerAt, Types, Pcs, Creating, Resident, closed
<1>3. CASE Probe(c)
  BY <1>1, <1>3 DEF Probe, CreateAt, CallerAt, Types, Pcs, Creating, Resident, closed
<1>4. CASE Find(c)
  <2>1. PICK s \in Resident : Use(c, s, Resident)
    BY <1>4 DEF Find
  <2>2. s \in Session /\ Resident \in SUBSET Session
    BY DEF Resident
  <2>3. /\ pc' = [pc EXCEPT ![c] = "enter"] \/ pc' = [pc EXCEPT ![c] = "evicting"]
        /\ kind[c] = "call" \/ lock' = c
    BY <2>1, <2>2, UseCases
  <2>4. kind' = kind /\ (pc'[c] = "enter" \/ pc'[c] = "evicting")
    BY <1>4, <2>3 DEF Find, Types
  <2> QED BY <2>3, <2>4 DEF CreateAt, Creating
<1>5. CASE Create(c)
  <2>1. PICK s \in Session :
          /\ status[s] = "new" /\ status' = [status EXCEPT ![s] = "unlisted"]
          /\ root' = [root EXCEPT ![s] = want[c]] /\ sess' = [sess EXCEPT ![c] = s]
    BY <1>5 DEF Create
  <2>2. /\ pc'[c] = "starting" /\ lock' = c /\ ~closed /\ shut' = shut /\ phase' = phase
        /\ \A t \in Resident : root[t] # want[c]
    BY <1>5 DEF Create, Types
  <2>3. sess'[c] = s /\ status'[s] = "unlisted" /\ s \notin shut'
    BY <2>1, <2>2 DEF Types, ShutInv
  <2>4. \A t \in Resident' : root'[t] # root'[s]
    BY <2>1, <2>2 DEF Types, Resident
  <2> QED BY <2>2, <2>3, <2>4 DEF CreateAt, closed
<1>6. CASE Refused(c)
  BY <1>1, <1>6 DEF Refused, Goes, CreateAt, CallerAt, Types, Pcs, Creating, Resident, closed
<1>7. CASE Started(c)
  BY <1>1, <1>7 DEF Started, Put, Goes, CreateAt, CallerAt, Types, Pcs, Creating, Resident, closed
<1>8. CASE StartFailed(c)
  <2>1. pc' = [pc EXCEPT ![c] = "over"] \/
        (pc' = [pc EXCEPT ![c] = "aborting"] /\ sess' = [sess EXCEPT ![c] = @] /\ UNCHANGED lock)
    BY <1>8, AbortCases DEF StartFailed, Goes, GivesUp
  <2>2. UNCHANGED <<kind, status, root, phase>> /\ pc[c] \in Creating
    BY <1>8 DEF StartFailed, Creating
  <2> QED BY <1>1, <2>1, <2>2 DEF CreateAt, Creating, Types, closed
<1>9. CASE Register(c)
  <2>1. sess[c] \in Session /\ Resident \cup {sess[c]} \in SUBSET Session
    BY <1>1, <1>9 DEF Register, CallerAt, Working, Resident
  <2>2. Use(c, sess[c], Resident \cup {sess[c]})
    BY <1>9 DEF Register
  <2>3. /\ pc' = [pc EXCEPT ![c] = "enter"] \/ pc' = [pc EXCEPT ![c] = "evicting"]
        /\ kind[c] = "call" \/ lock' = c
    BY <2>1, <2>2, UseCases
  <2>4. kind' = kind /\ (pc'[c] = "enter" \/ pc'[c] = "evicting")
    BY <1>9, <2>3 DEF Register, Types
  <2> QED BY <2>3, <2>4 DEF CreateAt, Creating
<1>10. CASE Reject(c)
  <2>1. pc' = [pc EXCEPT ![c] = "over"] \/
        (pc' = [pc EXCEPT ![c] = "aborting"] /\ sess' = [sess EXCEPT ![c] = @] /\ UNCHANGED lock)
    BY <1>10, AbortCases DEF Reject, Goes, GivesUp
  <2>2. UNCHANGED <<kind, status, root, phase>> /\ pc[c] \in Creating
    BY <1>10 DEF Reject, Creating
  <2> QED BY <1>1, <2>1, <2>2 DEF CreateAt, Creating, Types, closed
<1>11. CASE Aborted(c)
  BY <1>1, <1>11 DEF Aborted, Goes, CreateAt, CallerAt, Types, Pcs, Creating, Resident, closed
<1>12. CASE AbortTimesOut(c)
  BY <1>1, <1>12 DEF AbortTimesOut, GivesUp, Goes, CreateAt, CallerAt, Types, Pcs, Creating, Resident, closed
<1>13. CASE Evicted(c)
  BY <1>1, <1>13 DEF Evicted, Goes, CreateAt, CallerAt, Types, Pcs, Creating, Resident, closed
<1>14. CASE Request(c)
  BY <1>1, <1>14 DEF Request, Ended, Goes, Put, CreateAt, CallerAt, Types, Pcs, Creating, Resident, closed
<1>15. CASE Restarted(c)
  BY <1>1, <1>15 DEF Restarted, Put, Goes, Ended, CreateAt, CallerAt, Types, Pcs, Creating, Resident, closed
<1>16. CASE Answered(c)
  <2>1. pc'[c] \in {"over", "retiring", "leave"}
    BY <1>16 DEF Answered, Evicts, Ended, Goes, Types, Pcs
  <2> QED BY <2>1 DEF CreateAt, Creating
<1>17. CASE Leave(c)
  <2>1. pc'[c] \in {"over", "retiring"}
    BY <1>17 DEF Leave, Evicts, Goes, Types, Pcs
  <2> QED BY <2>1 DEF CreateAt, Creating
<1>18. CASE Retired(c)
  BY <1>1, <1>18 DEF Retired, Goes, CreateAt, CallerAt, Types, Pcs, Creating, Resident, closed
<1>19. CASE CancelCreation(c)
  <2>1. pc' = [pc EXCEPT ![c] = "over"] \/
        (pc' = [pc EXCEPT ![c] = "aborting"] /\ sess' = [sess EXCEPT ![c] = @] /\ UNCHANGED lock)
    BY <1>19, AbortCases DEF CancelCreation, Goes, GivesUp
  <2>2. UNCHANGED <<kind, status, root, phase>> /\ pc[c] \in Creating
    BY <1>19 DEF CancelCreation, Creating
  <2> QED BY <1>1, <2>1, <2>2 DEF CreateAt, Creating, Types, closed
<1>20. CASE Cancel(c)
  <2>1. pc'[c] \in {"over", "leave"}
    BY <1>20 DEF Cancel, Ended, Goes, Types, Pcs
  <2> QED BY <2>1 DEF CreateAt, Creating
<1> QED BY <1>2, <1>3, <1>4, <1>5, <1>6, <1>7, <1>8, <1>9, <1>10, <1>11, <1>12, <1>13, <1>14, <1>15, <1>16,
           <1>17, <1>18, <1>19, <1>20 DEF CallerActs

\* whatever the others do.
LEMMA CreateStep == Shape /\ [Next]_vars => CreateInv'
<1> SUFFICES ASSUME Shape, [Next]_vars, NEW d \in Caller
             PROVE  CreateAt(d)'
  BY DEF CreateInv
<1> USE DEF Shape
<1>0. CreateAt(d)
  BY DEF CreateInv
<1>1. ASSUME NEW c \in Caller, CallerActs(c)
      PROVE  CreateAt(d)'
  <2>1. CASE c = d
    BY <1>1, <2>1, CreateOwn DEF Next, CallerActs
  <2>2. CASE c # d
    <3>1. pc'[d] = pc[d] /\ kind'[d] = kind[d] /\ sess'[d] = sess[d]
      BY <1>1, <2>2, OthersStay
    <3>2. CASE lock = d
      <4>1. UNCHANGED <<lock, status, root, shut, phase>>
        BY <1>1, <2>2, <3>2, HolderAlone
      <4> QED BY <1>0, <3>1, <4>1 DEF CreateAt, Resident, closed
    <3>3. CASE lock # d
      BY <1>0, <3>1, <3>3 DEF CreateAt, Creating
    <3> QED BY <3>2, <3>3
  <2> QED BY <2>1, <2>2
<1>2. CASE Others
  <2>1. UNCHANGED <<pc, kind, want, sess, awaits>>
    BY <1>2, CallersStay
  <2>2. CASE lock = d
    <3>1. /\ UNCHANGED <<lock, status, root>> /\ (closed' <=> closed)
          /\ \A s \in shut' \ shut : status[s] = "retired"
      BY <1>2, <2>2, OthersUnderLock DEF LockFree
    <3> QED BY <1>0, <2>1, <3>1 DEF CreateAt, Resident, Creating
  <2>3. CASE lock # d
    BY <1>0, <2>1, <2>3 DEF CreateAt, Creating
  <2> QED BY <2>2, <2>3
<1>3. CASE UNCHANGED vars
  BY <1>0, <1>3 DEF CreateAt, Resident, closed
<1> QED BY <1>1, <1>2, <1>3, NextCases

-----------------------------------------------------------------------------
(* Retire tasks close their sessions one at a time. *)

\* A close waits only where CloseSession put it.
LEMMA ClosersAre ==
  ASSUME Shape, [Next]_vars, NEW s \in Session, slock'[s] = Closer
  PROVE  slock[s] = Closer \/ CloseSession(s)
<1> USE DEF Shape
<1>1. ASSUME NEW c \in Caller, Arrive(c)
      PROVE  slock[s] = Closer
  BY <1>1 DEF Arrive, Types
<1>2. ASSUME NEW c \in Caller, Probe(c)
      PROVE  slock[s] = Closer
  BY <1>2 DEF Probe, Types
<1>3. ASSUME NEW c \in Caller, Find(c)
      PROVE  slock[s] = Closer
  BY <1>3 DEF Find, Types
<1>4. ASSUME NEW c \in Caller, Create(c)
      PROVE  slock[s] = Closer
  BY <1>4 DEF Create, Types
<1>5. ASSUME NEW c \in Caller, Refused(c)
      PROVE  slock[s] = Closer
  BY <1>5 DEF Refused, Types
<1>6. ASSUME NEW c \in Caller, Started(c)
      PROVE  slock[s] = Closer
  BY <1>6 DEF Started, Put, Types
<1>7. ASSUME NEW c \in Caller, StartFailed(c)
      PROVE  slock[s] = Closer
  <2>1. slock' = slock \/ slock' = [slock EXCEPT ![sess[c]] = None]
    BY <1>7, AbortCases DEF StartFailed, GivesUp
  <2> QED BY <2>1 DEF Types
<1>8. ASSUME NEW c \in Caller, Register(c)
      PROVE  slock[s] = Closer
  BY <1>8 DEF Register, Types
<1>9. ASSUME NEW c \in Caller, Reject(c)
      PROVE  slock[s] = Closer
  <2>1. slock' = slock \/ slock' = [slock EXCEPT ![sess[c]] = None]
    BY <1>9, AbortCases DEF Reject, GivesUp
  <2> QED BY <2>1 DEF Types
<1>10. ASSUME NEW c \in Caller, Aborted(c)
      PROVE  slock[s] = Closer
  BY <1>10 DEF Aborted, Types
<1>11. ASSUME NEW c \in Caller, AbortTimesOut(c)
      PROVE  slock[s] = Closer
  BY <1>11 DEF AbortTimesOut, GivesUp, Types
<1>12. ASSUME NEW c \in Caller, Evicted(c)
      PROVE  slock[s] = Closer
  BY <1>12 DEF Evicted, Types
<1>13. ASSUME NEW c \in Caller, Request(c)
      PROVE  slock[s] = Closer
  BY <1>13 DEF Request, Put, Types
<1>14. ASSUME NEW c \in Caller, Restarted(c)
      PROVE  slock[s] = Closer
  BY <1>14 DEF Restarted, Put, Types
<1>15. ASSUME NEW c \in Caller, Answered(c)
      PROVE  slock[s] = Closer
  BY <1>15 DEF Answered, Types
<1>16. ASSUME NEW c \in Caller, Leave(c)
      PROVE  slock[s] = Closer
  BY <1>16 DEF Leave, Types
<1>17. ASSUME NEW c \in Caller, Retired(c)
      PROVE  slock[s] = Closer
  BY <1>17 DEF Retired, Types
<1>18. ASSUME NEW c \in Caller, CancelCreation(c)
      PROVE  slock[s] = Closer
  <2>1. slock' = slock \/ slock' = [slock EXCEPT ![sess[c]] = None]
    BY <1>18, AbortCases DEF CancelCreation, GivesUp
  <2> QED BY <2>1 DEF Types
<1>19. ASSUME NEW c \in Caller, Cancel(c)
      PROVE  slock[s] = Closer
  BY <1>19 DEF Cancel, Types
<1>20. ASSUME NEW t \in Session, Initialized(t)
      PROVE  slock[s] = Closer
  BY <1>20 DEF Initialized, Types
<1>21. ASSUME NEW t \in Session, StartFails(t)
      PROVE  slock[s] = Closer
  BY <1>21 DEF StartFails, Types
<1>22. ASSUME NEW t \in Session, Take(t)
      PROVE  slock[s] = Closer
  BY <1>22 DEF Take, Types
<1>23. ASSUME NEW t \in Session, OperationEnds(t)
      PROVE  slock[s] = Closer
  BY <1>23 DEF OperationEnds, Types
<1>24. ASSUME NEW t \in Session, Breaks(t)
      PROVE  slock[s] = Closer
  BY <1>24 DEF Breaks, Types
<1>25. ASSUME NEW t \in Session, OwnerEnds(t)
      PROVE  slock[s] = Closer
  BY <1>25 DEF OwnerEnds, Types
<1>26. ASSUME NEW t \in Session, CloseSession(t)
      PROVE  slock[s] = Closer \/ CloseSession(s)
  <2>1. s = t \/ slock[s] = Closer
    <3>1. slock' = slock \/ slock' = [slock EXCEPT ![t] = Closer]
      BY <1>26 DEF CloseSession
    <3> QED BY <3>1 DEF Types
  <2> QED BY <1>26, <2>1
<1>27. ASSUME Trim
      PROVE  slock[s] = Closer
  BY <1>27 DEF Trim, Types
<1>28. ASSUME CloseBegins
      PROVE  slock[s] = Closer
  BY <1>28 DEF CloseBegins, Types
<1>29. ASSUME CloseEnds
      PROVE  slock[s] = Closer
  BY <1>29 DEF CloseEnds, Types
<1>30. ASSUME CloseCancelled
      PROVE  slock[s] = Closer
  BY <1>30 DEF CloseCancelled, Types
<1>31. CASE UNCHANGED vars
  BY <1>31
<1> QED BY <1>1, <1>2, <1>3, <1>4, <1>5, <1>6, <1>7, <1>8, <1>9, <1>10, <1>11, <1>12, <1>13, <1>14, <1>15,
           <1>16, <1>17, <1>18, <1>19, <1>20, <1>21, <1>22, <1>23, <1>24, <1>25, <1>26, <1>27, <1>28, <1>29,
           <1>30, <1>31 DEF Next

\* A closed session stays closed.
LEMMA ShutStays ==
  ASSUME Shape, [Next]_vars
  PROVE  shut \subseteq shut'
<1> USE DEF Shape
<1>1. ASSUME NEW c \in Caller, Arrive(c)
      PROVE  shut \subseteq shut'
  BY <1>1 DEF Arrive
<1>2. ASSUME NEW c \in Caller, Probe(c)
      PROVE  shut \subseteq shut'
  BY <1>2 DEF Probe
<1>3. ASSUME NEW c \in Caller, Find(c)
      PROVE  shut \subseteq shut'
  BY <1>3 DEF Find
<1>4. ASSUME NEW c \in Caller, Create(c)
      PROVE  shut \subseteq shut'
  BY <1>4 DEF Create
<1>5. ASSUME NEW c \in Caller, Refused(c)
      PROVE  shut \subseteq shut'
  BY <1>5 DEF Refused
<1>6. ASSUME NEW c \in Caller, Started(c)
      PROVE  shut \subseteq shut'
  BY <1>6 DEF Started
<1>7. ASSUME NEW c \in Caller, StartFailed(c)
      PROVE  shut \subseteq shut'
  BY <1>7, AbortCases DEF StartFailed
<1>8. ASSUME NEW c \in Caller, Register(c)
      PROVE  shut \subseteq shut'
  BY <1>8 DEF Register
<1>9. ASSUME NEW c \in Caller, Reject(c)
      PROVE  shut \subseteq shut'
  BY <1>9, AbortCases DEF Reject
<1>10. ASSUME NEW c \in Caller, Aborted(c)
      PROVE  shut \subseteq shut'
  BY <1>10 DEF Aborted
<1>11. ASSUME NEW c \in Caller, AbortTimesOut(c)
      PROVE  shut \subseteq shut'
  BY <1>11 DEF AbortTimesOut
<1>12. ASSUME NEW c \in Caller, Evicted(c)
      PROVE  shut \subseteq shut'
  BY <1>12 DEF Evicted
<1>13. ASSUME NEW c \in Caller, Request(c)
      PROVE  shut \subseteq shut'
  BY <1>13 DEF Request
<1>14. ASSUME NEW c \in Caller, Restarted(c)
      PROVE  shut \subseteq shut'
  BY <1>14 DEF Restarted
<1>15. ASSUME NEW c \in Caller, Answered(c)
      PROVE  shut \subseteq shut'
  BY <1>15 DEF Answered
<1>16. ASSUME NEW c \in Caller, Leave(c)
      PROVE  shut \subseteq shut'
  BY <1>16 DEF Leave
<1>17. ASSUME NEW c \in Caller, Retired(c)
      PROVE  shut \subseteq shut'
  BY <1>17 DEF Retired
<1>18. ASSUME NEW c \in Caller, CancelCreation(c)
      PROVE  shut \subseteq shut'
  BY <1>18, AbortCases DEF CancelCreation
<1>19. ASSUME NEW c \in Caller, Cancel(c)
      PROVE  shut \subseteq shut'
  BY <1>19 DEF Cancel
<1>20. ASSUME NEW t \in Session, Initialized(t)
      PROVE  shut \subseteq shut'
  BY <1>20 DEF Initialized
<1>21. ASSUME NEW t \in Session, StartFails(t)
      PROVE  shut \subseteq shut'
  BY <1>21 DEF StartFails
<1>22. ASSUME NEW t \in Session, Take(t)
      PROVE  shut \subseteq shut'
  BY <1>22 DEF Take
<1>23. ASSUME NEW t \in Session, OperationEnds(t)
      PROVE  shut \subseteq shut'
  BY <1>23 DEF OperationEnds
<1>24. ASSUME NEW t \in Session, Breaks(t)
      PROVE  shut \subseteq shut'
  BY <1>24 DEF Breaks
<1>25. ASSUME NEW t \in Session, OwnerEnds(t)
      PROVE  shut \subseteq shut'
  BY <1>25 DEF OwnerEnds
<1>26. ASSUME NEW t \in Session, CloseSession(t)
      PROVE  shut \subseteq shut'
  BY <1>26 DEF CloseSession
<1>27. ASSUME Trim
      PROVE  shut \subseteq shut'
  BY <1>27 DEF Trim
<1>28. ASSUME CloseBegins
      PROVE  shut \subseteq shut'
  BY <1>28 DEF CloseBegins
<1>29. ASSUME CloseEnds
      PROVE  shut \subseteq shut'
  BY <1>29 DEF CloseEnds
<1>30. ASSUME CloseCancelled
      PROVE  shut \subseteq shut'
  BY <1>30 DEF CloseCancelled
<1>31. CASE UNCHANGED vars
  BY <1>31
<1> QED BY <1>1, <1>2, <1>3, <1>4, <1>5, <1>6, <1>7, <1>8, <1>9, <1>10, <1>11, <1>12, <1>13, <1>14, <1>15,
           <1>16, <1>17, <1>18, <1>19, <1>20, <1>21, <1>22, <1>23, <1>24, <1>25, <1>26, <1>27, <1>28, <1>29,
           <1>30, <1>31 DEF Next

\* New batches have no session in common with the old ones, and nobody closes
\* anything of them yet.
LEMMA NewBatch ==
  ASSUME Shape, [Next]_vars, NEW E, batches' \subseteq batches \cup {E}, batches \subseteq batches',
         \A s \in E : s \in Session /\ status[s] # "retired",
         \A s \in Session : slock'[s] = Closer => slock[s] = Closer
  PROVE  RetireInv'
<1> USE DEF Shape
<1>1. \A b \in batches : \A s \in b : s \in Session /\ status[s] = "retired"
  BY DEF ShutInv, Types
<1>2. \A s \in E : slock[s] # Closer
  BY <1>1 DEF RetireInv
<1>3. \A b, d \in batches' : \A s \in b \cap d : b = d
  BY <1>1 DEF RetireInv
<1>4. \A s \in Session : slock'[s] = Closer => s \in shut' /\ s \in UNION batches'
  BY ShutStays DEF RetireInv
<1>5. \A b \in batches' : \A s, t \in b : slock'[s] = Closer /\ slock'[t] = Closer => s = t
  BY <1>1, <1>2 DEF RetireInv
<1> QED BY <1>3, <1>4, <1>5 DEF RetireInv

\* A retire task that is over with s, or over altogether.
LEMMA OldBatch ==
  ASSUME Shape, [Next]_vars, NEW s \in UNION batches, NEW r \in BOOLEAN, Unbatched(s, r),
         slock'[s] # Closer, \A t \in Session : slock'[t] = Closer => slock[t] = Closer,
         \A b \in batches : s \in b => \A t \in b : slock'[t] # Closer
  PROVE  RetireInv'
<1> USE DEF Shape
<1>1. PICK b \in batches : /\ s \in b
                           /\ batches' = (batches \ {b}) \cup (IF r THEN {} ELSE {b \ {s}} \ {{}})
  BY DEF Unbatched
<1>2. \A x \in batches' : x \in batches \/ (x = b \ {s} /\ ~r)
  BY <1>1
<1>3. \A x, y \in batches' : \A t \in x \cap y : x = y
  <2>1. b \notin batches'
    BY <1>1
  <2>2. \A x \in batches' : x \in batches \ {b} \/ x = b \ {s}
    BY <1>2, <2>1
  <2>3. \A x \in batches \ {b} : \A t \in x : t \notin b
    BY <1>1 DEF RetireInv
  <2> SUFFICES ASSUME NEW x \in batches', NEW y \in batches', NEW t \in x \cap y
               PROVE  x = y
    OBVIOUS
  <2>4. CASE x = b \ {s}
    <3>1. y = b \ {s}
      BY <2>2, <2>3, <2>4
    <3> QED BY <2>4, <3>1
  <2>5. CASE x \in batches \ {b}
    <3>1. y \in batches \ {b}
      BY <2>2, <2>3, <2>5
    <3> QED BY <2>5, <3>1 DEF RetireInv
  <2> QED BY <2>2, <2>4, <2>5
<1>4. \A t \in Session : slock'[t] = Closer => t \in shut' /\ t \in UNION batches'
  <2> SUFFICES ASSUME NEW t \in Session, slock'[t] = Closer
               PROVE  t \in shut' /\ t \in UNION batches'
    OBVIOUS
  <2>1. t \in shut /\ t \in UNION batches
    BY DEF RetireInv
  <2>2. PICK x \in batches : t \in x
    BY <2>1
  <2>3. x # b
    BY <1>1, <2>2
  <2> QED BY <1>1, <2>1, <2>2, <2>3, ShutStays
<1>5. \A x \in batches' : \A t, u \in x : slock'[t] = Closer /\ slock'[u] = Closer => t = u
  BY <1>2, <1>1 DEF RetireInv, Types
<1> QED BY <1>3, <1>4, <1>5 DEF RetireInv

\* The retire tasks stay apart, each at one session at a time.
LEMMA RetireStep == Shape /\ [Next]_vars => RetireInv'
<1> SUFFICES ASSUME Shape, [Next]_vars
             PROVE  RetireInv'
  OBVIOUS
<1> USE DEF Shape
<1>1. ASSUME NEW s \in Session, CloseSession(s)
      PROVE  RetireInv'
  <2>1. PICK b \in batches : s \in b /\ \A t \in b : slock[t] # Closer
    BY <1>1 DEF CloseSession
  <2>2. \A d \in batches : s \in d => d = b
    BY <2>1 DEF RetireInv
  <2>3. CASE Stopped(s)
    <3>1. Unbatched(s, FALSE) /\ slock' = slock
      BY <1>1, <2>3 DEF CloseSession
    <3> QED BY <2>1, <2>2, <3>1, OldBatch
  <2>4. CASE ~Stopped(s)
    <3>1. slock' = [slock EXCEPT ![s] = Closer] /\ batches' = batches /\ shut' = shut \cup {s}
      BY <1>1, <2>4 DEF CloseSession
    <3>2. \A t \in Session : slock'[t] = Closer => t = s \/ slock[t] = Closer
      BY <3>1 DEF Types
    <3>3. \A d \in batches : \A t \in d : t \in Session
      BY DEF Types
    <3>4. \A t \in Session : slock'[t] = Closer => t \in shut' /\ t \in UNION batches'
      BY <2>1, <3>1, <3>2 DEF RetireInv
    <3>5. \A d \in batches' : \A t, u \in d : slock'[t] = Closer /\ slock'[u] = Closer => t = u
      BY <2>1, <2>2, <3>1, <3>2, <3>3 DEF RetireInv
    <3>6. \A x, y \in batches' : \A t \in x \cap y : x = y
      BY <3>1 DEF RetireInv
    <3> QED BY <3>4, <3>5, <3>6 DEF RetireInv
  <2> QED BY <2>3, <2>4
<1>2. ASSUME NEW s \in Session, OwnerEnds(s)
      PROVE  RetireInv'
  <2>1. CASE slock[s] = Closer
    <3> DEFINE r == Closer \in InQueue(s)
    <3>1. r \in BOOLEAN /\ Unbatched(s, r) /\ slock' = [slock EXCEPT ![s] = None]
      BY <1>2, <2>1 DEF OwnerEnds
    <3> HIDE DEF r
    <3>2. s \in UNION batches
      BY <2>1 DEF RetireInv
    <3>3. \A t \in Session : slock'[t] = Closer => slock[t] = Closer /\ t # s
      BY <3>1 DEF Types
    <3>4. \A b \in batches : s \in b => \A t \in b : slock'[t] # Closer
      BY <2>1, <3>3 DEF RetireInv, Types
    <3> QED BY <3>1, <3>2, <3>3, <3>4, OldBatch
  <2>2. CASE slock[s] # Closer
    BY <1>2, <2>2 DEF OwnerEnds, RetireInv
  <2> QED BY <2>1, <2>2
<1>3. CASE ~(\E s \in Session : CloseSession(s) \/ OwnerEnds(s))
  <2>1. \A s \in Session : slock'[s] = Closer => slock[s] = Closer
    BY <1>3, ClosersAre
  <2>2. CASE batches' = batches
    <3>1. batches' \subseteq batches \cup {{}} /\ batches \subseteq batches'
      BY <2>2
    <3>2. \A s \in {} : s \in Session /\ status[s] # "retired"
      OBVIOUS
    <3> QED BY <2>1, <3>1, <3>2, NewBatch
  <2>3. ASSUME NEW c \in Caller, Lists(c)
        PROVE  RetireInv'
    <3>1. PICK E \in SUBSET (Resident \cup {sess[c]}) : Retire(Resident \cup {sess[c]}, E)
      BY <2>3 DEF Lists
    <3>2. sess[c] \in Session /\ status[sess[c]] = "unlisted"
      BY <2>3 DEF Lists, Register, CreateInv, CreateAt, Creating
    <3>3. \A s \in E : s \in Session /\ status[s] # "retired"
      BY <3>2 DEF Resident
    <3>4. batches' \subseteq batches \cup {E} /\ batches \subseteq batches'
      BY <3>1 DEF Retire
    <3> QED BY <2>1, <3>3, <3>4, NewBatch
  <2>4. CASE Trims
    <3>1. PICK E \in SUBSET Resident : Retire(Resident, E)
      BY <2>4 DEF Trims
    <3>2. \A s \in E : s \in Session /\ status[s] # "retired"
      BY DEF Resident
    <3>3. batches' \subseteq batches \cup {E} /\ batches \subseteq batches'
      BY <3>1 DEF Retire
    <3> QED BY <2>1, <3>2, <3>3, NewBatch
  <2>5. CASE CloseBegins
    <3>1. \A s \in Resident : s \in Session /\ status[s] # "retired"
      BY DEF Resident
    <3>2. batches' \subseteq batches \cup {Resident} /\ batches \subseteq batches'
      BY <2>5 DEF CloseBegins, Retire
    <3> QED BY <2>1, <3>1, <3>2, NewBatch
  <2>6. CASE \E c \in Caller : Create(c)
    BY <2>2, <2>6 DEF Create
  <2>7. CASE Keeps
    BY <1>3, <2>2, <2>7 DEF Keeps
  <2> QED BY <2>3, <2>4, <2>5, <2>6, <2>7, StatusCases
<1> QED BY <1>1, <1>2, <1>3

\* The first half of the invariant is inductive.
LEMMA ShapeStep == Shape /\ [Next]_vars => Shape'
  BY TypesStep, CallerStep, CreateStep, ShutStep, RetireStep DEF Shape

\* It holds at the start.
LEMMA ShapeInit == Init => Shape
<1> SUFFICES ASSUME Init
             PROVE  Shape
  OBVIOUS
<1>1. <<>> \in Seq(Entry)
  BY EmptySeq
<1>2. Types
  BY <1>1 DEF Init, Types, Pcs
<1>3. CallerInv /\ CreateInv /\ ShutInv /\ RetireInv
  BY DEF Init, CallerInv, CallerAt, CreateInv, CreateAt, ShutInv, RetireInv, Working, Creating, Pinning,
     Silent,
         Resident, Stopped, closed
<1> QED BY <1>2, <1>3 DEF Shape

-----------------------------------------------------------------------------
(* Requests: whose they are, and how many. *)

\* The types of a session's queue and counter.
LEMMA QueueTypes ==
  ASSUME Types, NEW s \in Session
  PROVE  /\ queue[s] \in Seq(Entry) /\ InQueue(s) = Members(queue[s])
         /\ Members(queue[s]) \in SUBSET Entry
         /\ inflight[s] \in Caller \cup {None} /\ pending[s] \in Int
         /\ Cardinality(Requests(queue[s])) \in Nat
<1>1. queue[s] \in Seq(Entry)
  BY DEF Types
<1> QED BY <1>1, RequestsFinite DEF Types, InQueue, Members

\* The empty queue.
LEMMA EmptyQueue == <<>> \in Seq(Entry) /\ Members(<<>>) = {} /\ Cardinality(Requests(<<>>)) = 0 /\ DOMAIN <<>> = {}
<1>1. <<>> \in Seq(Entry) /\ DOMAIN <<>> = {}
  BY EmptySeq
<1> QED BY <1>1, FS_EmptySet DEF Members, Requests

\* Whoever still holds something has not forgotten its response.
Remembers == \A c \in Caller : resp[c] \in {"waiting", "cancelled"} => resp'[c] \in {"waiting", "cancelled"}

\* A step that brings no request and forgets none that is left.
LEMMA HoldKeeps ==
  ASSUME HoldInv, \A c \in Caller, s \in Session :
                     Holds(c, s)' => Holds(c, s) /\ resp'[c] \in {"waiting", "cancelled"}
  PROVE  HoldInv'
  BY DEF HoldInv

\* A step that leaves the queues alone.
LEMMA QueueUnmoved ==
  ASSUME QueueInv, UNCHANGED <<task, queue, inflight, pending>>, Remembers
  PROVE  QueueInv'
<1>1. HoldInv'
  BY DEF QueueInv, HoldInv, Holds, Remembers
<1>2. ASSUME NEW s \in Session
      PROVE  QueueAt(s)'
  BY DEF QueueInv, QueueAt, Stopped
<1> QED BY <1>1, <1>2 DEF QueueInv

\* An owner that starts.
LEMMA QueueStarts ==
  ASSUME Types, QueueInv, NEW s \in Session, Start(s), Stopped(s), UNCHANGED <<inflight, pending, resp>>
  PROVE  QueueInv'
<1>1. task' = [task EXCEPT ![s] = "starting"] /\ queue' = [queue EXCEPT ![s] = <<>>]
  BY DEF Start
<1>2. QueueAt(s) /\ queue[s] = <<>> /\ inflight[s] = None
  BY DEF QueueInv, QueueAt, Stopped
<1>3. queue' = queue
  BY <1>1, <1>2 DEF Types
<1>4. HoldInv'
  BY <1>3 DEF QueueInv, HoldInv, Holds
<1>5. ASSUME NEW t \in Session
      PROVE  QueueAt(t)'
  BY <1>1, <1>2, <1>3 DEF QueueInv, QueueAt, Stopped, Types
<1> QED BY <1>4, <1>5 DEF QueueInv

\* A request, of a caller that has none.
LEMMA QueueAsks ==
  ASSUME Types, QueueInv, NEW c \in Caller, NEW s \in Session, Put(c, s), resp[c] = "none",
         ~Stopped(s), UNCHANGED <<task, inflight>>
  PROVE  QueueInv'
<1>1. /\ queue' = [queue EXCEPT ![s] = Append(@, c)] /\ pending' = [pending EXCEPT ![s] = @ + 1]
      /\ resp' = [resp EXCEPT ![c] = "waiting"]
  BY DEF Put
<1>2. queue[s] \in Seq(Entry) /\ c \in Entry /\ c # Closer
  BY DEF Types, Entry
<1>3. /\ Members(Append(queue[s], c)) = Members(queue[s]) \cup {c}
      /\ Cardinality(Requests(Append(queue[s], c))) = Cardinality(Requests(queue[s])) + 1
  BY <1>2, AppendRequests
<1>4. \A t \in Session : ~Holds(c, t)
  BY DEF QueueInv, HoldInv
<1>5. \A t \in Session : queue'[t] = IF t = s THEN Append(queue[s], c) ELSE queue[t]
  BY <1>1 DEF Types
<1>6. HoldInv'
  <2>1. \A d \in Caller, t \in Session : Holds(d, t)' => Holds(d, t) \/ (d = c /\ t = s)
    BY <1>3, <1>5 DEF Holds
  <2>2. \A d \in Caller : resp'[d] = IF d = c THEN "waiting" ELSE resp[d]
    BY <1>1 DEF Types
  <2> QED BY <1>4, <2>1, <2>2 DEF QueueInv, HoldInv
<1>7. ASSUME NEW t \in Session, t # s
      PROVE  QueueAt(t)'
  <2>1. queue'[t] = queue[t] /\ pending'[t] = pending[t]
    BY <1>1, <1>7 DEF Types
  <2> QED BY <2>1 DEF QueueInv, QueueAt, Stopped
<1>8. QueueAt(s)'
  <2>1. /\ queue'[s] = Append(queue[s], c) /\ pending'[s] = pending[s] + 1
        /\ inflight'[s] = inflight[s] /\ task'[s] = task[s]
    BY <1>1 DEF Types
  <2>2. inflight[s] # c /\ c \notin Members(queue[s])
    BY <1>4 DEF Holds
  <2>3. \A i, j \in DOMAIN queue'[s] : queue'[s][i] = queue'[s][j] /\ queue'[s][i] # Closer => i = j
    <3>1. /\ Len(queue[s]) \in Nat /\ DOMAIN queue[s] = 1..Len(queue[s])
          /\ DOMAIN Append(queue[s], c) = 1..(Len(queue[s]) + 1)
      BY <1>2, LenProperties, AppendProperties
    <3>2. \A i \in 1..Len(queue[s]) : Append(queue[s], c)[i] = queue[s][i] /\ queue[s][i] # c
      BY <1>2, <2>2, <3>1, AppendProperties DEF Members
    <3>3. Append(queue[s], c)[Len(queue[s]) + 1] = c
      BY <1>2, AppendProperties
    <3> QED BY <2>1, <3>1, <3>2, <3>3 DEF QueueInv, QueueAt
  <2>4. QueueAt(s) /\ pending[s] \in Int /\ Cardinality(Requests(queue[s])) \in Nat
    BY QueueTypes DEF QueueInv
  <2>5. pending'[s] = Cardinality(Requests(queue'[s])) + (IF inflight'[s] = None THEN 0 ELSE 1)
    BY <1>3, <2>1, <2>4 DEF QueueAt
  <2>6. inflight'[s] # None => task'[s] = "serving" /\ inflight'[s] \notin Members(queue'[s])
    BY <1>3, <2>1, <2>2, <2>4 DEF QueueAt
  <2> QED BY <2>1, <2>3, <2>5, <2>6 DEF QueueAt, Stopped
<1> QED BY <1>6, <1>7, <1>8 DEF QueueInv

\* The owner stops working on its request.
LEMMA QueueCountsOff ==
  ASSUME Types, QueueInv, NEW s \in Session, queue' = queue,
         inflight' = [inflight EXCEPT ![s] = None],
         pending' = [pending EXCEPT ![s] = IF inflight[s] = None THEN @ ELSE @ - 1],
         \A t \in Session : t # s => task'[t] = task[t], task'[s] # "gone",
         \A c \in Caller : resp[c] \in {"waiting", "cancelled"} /\ c # inflight[s] => resp'[c] \in {"waiting", "cancelled"}
  PROVE  QueueInv'
<1>1. \A t \in Session : inflight'[t] = (IF t = s THEN None ELSE inflight[t])
                         /\ (t # s => pending'[t] = pending[t])
  BY DEF Types
<1>2. pending'[s] = IF inflight[s] = None THEN pending[s] ELSE pending[s] - 1
  BY DEF Types
<1>3. HoldInv'
  <2>1. \A c \in Caller, t \in Session : Holds(c, t)' => Holds(c, t) /\ (t = s => c # inflight[s])
    BY <1>1 DEF Holds, QueueInv, QueueAt
  <2>2. \A c \in Caller, t \in Session : Holds(c, t)' => c # inflight[s]
    BY <2>1 DEF QueueInv, HoldInv, Holds
  <2> QED BY <2>1, <2>2, HoldKeeps DEF QueueInv, HoldInv
<1>4. ASSUME NEW t \in Session
      PROVE  QueueAt(t)'
  <2>1. QueueAt(t) /\ pending[t] \in Int /\ Cardinality(Requests(queue[t])) \in Nat
    BY QueueTypes DEF QueueInv
  <2>2. CASE t = s
    BY <1>1, <1>2, <2>1, <2>2 DEF QueueAt, Stopped
  <2>3. CASE t # s
    BY <1>1, <2>1, <2>3 DEF QueueAt, Stopped
  <2> QED BY <2>2, <2>3
<1> QED BY <1>3, <1>4 DEF QueueInv

\* The owner takes the next of its queue.
LEMMA QueueTake ==
  ASSUME Types, QueueInv, NEW s \in Session, Take(s)
  PROVE  QueueInv'
<1> DEFINE q == queue[s]
           c == Head(queue[s])
<1>1. /\ task[s] = "serving" /\ inflight[s] = None /\ queue[s] # <<>>
      /\ queue' = [queue EXCEPT ![s] = Tail(@)] /\ resp' = resp
  BY DEF Take
<1>2. q \in Seq(Entry) /\ QueueAt(s) /\ pending[s] \in Int /\ Cardinality(Requests(q)) \in Nat
  BY QueueTypes DEF QueueInv
<1>3. /\ c \in Members(q) /\ c \in Entry /\ Members(Tail(q)) \in SUBSET Members(q)
      /\ \A i, j \in DOMAIN Tail(q) : /\ i + 1 \in DOMAIN q /\ j + 1 \in DOMAIN q
                                       /\ Tail(q)[i] = q[i + 1] /\ Tail(q)[j] = q[j + 1]
      /\ 1 \in DOMAIN q /\ c = q[1] /\ \A i \in DOMAIN Tail(q) : i + 1 # 1
      /\ Cardinality(Requests(Tail(q))) = Cardinality(Requests(q)) - (IF c = Closer THEN 0 ELSE 1)
  BY <1>1, <1>2, TailRequests
<1>4. \A t \in Session : queue'[t] = IF t = s THEN Tail(q) ELSE queue[t]
  BY <1>1 DEF Types
<1>5. /\ c = Closer => task' = [task EXCEPT ![s] = "exiting"] /\ UNCHANGED <<inflight, pending>>
      /\ c # Closer /\ resp[c] = "cancelled" => pending' = [pending EXCEPT ![s] = @ - 1] /\ UNCHANGED <<task, inflight>>
      /\ c # Closer /\ resp[c] # "cancelled" => inflight' = [inflight EXCEPT ![s] = c] /\ UNCHANGED <<task, pending>>
  BY DEF Take
<1>6. /\ \A t \in Session : t # s => task'[t] = task[t] /\ inflight'[t] = inflight[t] /\ pending'[t] = pending[t]
      /\ c = Closer => task'[s] = "exiting" /\ inflight'[s] = None /\ pending'[s] = pending[s]
      /\ c # Closer /\ resp[c] = "cancelled" => pending'[s] = pending[s] - 1 /\ task'[s] = "serving" /\ inflight'[s] = None
      /\ c # Closer /\ resp[c] # "cancelled" => inflight'[s] = c /\ task'[s] = "serving" /\ pending'[s] = pending[s]
  BY <1>1, <1>5 DEF Types
<1>7. c # Closer => c \in Caller /\ c # None /\ c \notin Members(Tail(q))
  <2>1. \A i \in DOMAIN Tail(q) : c # Closer => Tail(q)[i] # c
    BY <1>2, <1>3 DEF QueueAt
  <2> QED BY <1>3, <2>1 DEF Entry, Members
<1> HIDE DEF q, c
<1>8. HoldInv'
  <2>1. \A d \in Caller, t \in Session : Holds(d, t)' => Holds(d, t)
    BY <1>3, <1>4, <1>6 DEF Holds, q, c
  <2> QED BY <1>1, <2>1, HoldKeeps DEF QueueInv, HoldInv
<1>9. QueueAt(s)'
  <2>1. \A i, j \in DOMAIN Tail(q) : Tail(q)[i] = Tail(q)[j] /\ Tail(q)[i] # Closer => i = j
    <3>1. DOMAIN Tail(q) \subseteq Int
      BY <1>2, <1>1, HeadTailProperties, LenProperties DEF q
    <3> QED BY <1>2, <1>3, <3>1 DEF QueueAt, q
  <2>2. pending[s] = Cardinality(Requests(q))
    BY <1>1, <1>2 DEF QueueAt, q
  <2>3. queue'[s] = Tail(q)
    BY <1>4
  <2>4. CASE c = Closer
    BY <1>2, <1>3, <1>6, <2>1, <2>2, <2>3, <2>4 DEF QueueAt, Stopped
  <2>5. CASE c # Closer /\ resp[c] = "cancelled"
    BY <1>2, <1>3, <1>6, <2>1, <2>2, <2>3, <2>5 DEF QueueAt, Stopped
  <2>6. CASE c # Closer /\ resp[c] # "cancelled"
    BY <1>2, <1>3, <1>6, <1>7, <2>1, <2>2, <2>3, <2>6 DEF QueueAt, Stopped
  <2> QED BY <2>4, <2>5, <2>6
<1>10. ASSUME NEW t \in Session, t # s
       PROVE  QueueAt(t)'
  BY <1>4, <1>6, <1>10 DEF QueueInv, QueueAt, Stopped
<1> QED BY <1>8, <1>9, <1>10 DEF QueueInv

\* The owner is gone: what was queued has ended, and is counted off.
LEMMA QueueEnds ==
  ASSUME Types, QueueInv, NEW s \in Session, OwnerEnds(s)
  PROVE  QueueInv'
<1> DEFINE left == InQueue(s) \ {Closer}
<1>1. /\ task[s] \in {"failing", "exiting"} /\ task' = [task EXCEPT ![s] = "gone"]
      /\ queue' = [queue EXCEPT ![s] = <<>>] /\ inflight' = inflight
      /\ pending' = [pending EXCEPT ![s] = @ - Cardinality(left)]
      /\ resp' = [c \in Caller |-> IF c \in left /\ resp[c] = "waiting" THEN "failed" ELSE resp[c]]
  BY DEF OwnerEnds
<1>2. /\ queue[s] \in Seq(Entry) /\ left = Members(queue[s]) \ {Closer} /\ QueueAt(s)
      /\ pending[s] \in Int /\ Cardinality(Requests(queue[s])) \in Nat
  BY QueueTypes DEF QueueInv
<1>3. Cardinality(left) = Cardinality(Requests(queue[s]))
  BY <1>2, RequestsAreMembers DEF QueueAt
<1> HIDE DEF left
<1>4. inflight[s] = None /\ pending[s] = Cardinality(left)
  BY <1>1, <1>2, <1>3 DEF QueueAt
<1>5. /\ \A t \in Session : queue'[t] = IF t = s THEN <<>> ELSE queue[t]
      /\ \A t \in Session : t # s => task'[t] = task[t] /\ pending'[t] = pending[t]
      /\ task'[s] = "gone" /\ pending'[s] = 0 /\ inflight'[s] = None
      /\ \A c \in Caller : c \notin left => resp'[c] = resp[c]
  BY <1>1, <1>2, <1>4 DEF Types
<1>6. HoldInv'
  <2>1. \A c \in Caller, t \in Session : Holds(c, t)' => Holds(c, t) /\ t # s
    BY <1>1, <1>4, <1>5, EmptyQueue DEF Holds
  <2>2. \A c \in Caller, t \in Session : Holds(c, t)' => c \notin left
    BY <1>2, <2>1 DEF QueueInv, HoldInv, Holds
  <2> QED BY <1>5, <2>1, <2>2, HoldKeeps DEF QueueInv, HoldInv
<1>7. QueueAt(s)'
  BY <1>5, EmptyQueue DEF QueueAt
<1>8. ASSUME NEW t \in Session, t # s
      PROVE  QueueAt(t)'
  BY <1>1, <1>5, <1>8 DEF QueueInv, QueueAt, Stopped
<1> QED BY <1>6, <1>7, <1>8 DEF QueueInv

\* A close is queued behind the requests.
LEMMA QueueCloses ==
  ASSUME Types, QueueInv, NEW s \in Session, CloseSession(s)
  PROVE  QueueInv'
<1>1. CASE Stopped(s)
  BY <1>1, QueueUnmoved DEF CloseSession, Remembers
<1>2. CASE ~Stopped(s)
  <2>1. queue' = [queue EXCEPT ![s] = Append(@, Closer)] /\ UNCHANGED <<resp, task, inflight, pending>>
    BY <1>2 DEF CloseSession
  <2>2. queue[s] \in Seq(Entry) /\ Closer \in Entry /\ QueueAt(s)
    BY QueueTypes DEF Entry, QueueInv
  <2>3. /\ Members(Append(queue[s], Closer)) = Members(queue[s]) \cup {Closer}
        /\ Cardinality(Requests(Append(queue[s], Closer))) = Cardinality(Requests(queue[s]))
    <3>1. Cardinality(Requests(queue[s])) \in Nat
      BY <2>2, RequestsFinite
    <3> QED BY <2>2, <3>1, AppendRequests
  <2>4. \A t \in Session : queue'[t] = IF t = s THEN Append(queue[s], Closer) ELSE queue[t]
    BY <2>1 DEF Types
  <2>5. HoldInv'
    <3>1. \A c \in Caller, t \in Session : Holds(c, t)' => Holds(c, t)
      BY <2>1, <2>3, <2>4 DEF Holds
    <3> QED BY <2>1, <3>1, HoldKeeps DEF QueueInv, HoldInv
  <2>6. QueueAt(s)'
    <3>1. /\ Len(queue[s]) \in Nat /\ DOMAIN queue[s] = 1..Len(queue[s])
          /\ DOMAIN Append(queue[s], Closer) = 1..(Len(queue[s]) + 1)
      BY <2>2, LenProperties, AppendProperties
    <3>2. /\ \A i \in 1..Len(queue[s]) : Append(queue[s], Closer)[i] = queue[s][i]
          /\ Append(queue[s], Closer)[Len(queue[s]) + 1] = Closer
      BY <2>2, AppendProperties
    <3>3. \A i, j \in DOMAIN queue'[s] : queue'[s][i] = queue'[s][j] /\ queue'[s][i] # Closer => i = j
      <4>1. queue'[s] = Append(queue[s], Closer)
        BY <2>4
      <4>2. \A i \in 1..(Len(queue[s]) + 1) : Append(queue[s], Closer)[i] # Closer =>
               i \in 1..Len(queue[s]) /\ Append(queue[s], Closer)[i] = queue[s][i]
        BY <3>1, <3>2
      <4> QED BY <2>2, <3>1, <4>1, <4>2 DEF QueueAt
    <3>4. inflight[s] # Closer
      BY DEF Types
    <3> QED BY <1>2, <2>1, <2>2, <2>3, <2>4, <3>3, <3>4 DEF QueueAt, Stopped
  <2>7. ASSUME NEW t \in Session, t # s
        PROVE  QueueAt(t)'
    BY <2>1, <2>4, <2>7 DEF QueueInv, QueueAt, Stopped
  <2> QED BY <2>5, <2>6, <2>7 DEF QueueInv
<1> QED BY <1>1, <1>2

\* A creation that is given up, whose owner was still there.
LEMMA QueueAborts ==
  ASSUME Types, QueueInv, NEW c \in Caller, sess[c] \in Session, Abort(c),
         ~UNCHANGED <<task, inflight, pending>>, Remembers, queue' = queue
  PROVE  QueueInv'
<1>1. /\ inflight' = [inflight EXCEPT ![sess[c]] = None]
      /\ pending' = [pending EXCEPT ![sess[c]] = IF inflight[sess[c]] = None THEN @ ELSE @ - 1]
      /\ \/ task' = [task EXCEPT ![sess[c]] = "failing"]
         \/ task' = [task EXCEPT ![sess[c]] = "exiting"]
  BY AbortCases
<1>2. task'[sess[c]] # "gone" /\ \A t \in Session : t # sess[c] => task'[t] = task[t]
  BY <1>1 DEF Types
<1> QED BY <1>1, <1>2, QueueCountsOff DEF Remembers

\* An owner that was started is ready, or leaves before.
LEMMA QueueRuns ==
  ASSUME Types, QueueInv, NEW s \in Session, NEW x \in {"serving", "failing"}, task[s] = "starting",
         task' = [task EXCEPT ![s] = x], UNCHANGED <<resp, queue, inflight, pending>>
  PROVE  QueueInv'
<1>1. HoldInv'
  BY DEF QueueInv, HoldInv, Holds
<1>2. ASSUME NEW t \in Session
      PROVE  QueueAt(t)'
  BY DEF QueueInv, QueueAt, Stopped, Types
<1> QED BY <1>1, <1>2 DEF QueueInv

\* Every step keeps the requests apart and counted.
LEMMA QueueStep == Shape /\ QueueInv /\ [Next]_vars => QueueInv'
<1> SUFFICES ASSUME Shape, QueueInv, [Next]_vars
             PROVE  QueueInv'
  OBVIOUS
<1> USE DEF Shape
<1>1. ASSUME NEW c \in Caller, Arrive(c)
      PROVE  QueueInv'
  BY <1>1, QueueUnmoved DEF Arrive, Remembers, Types
<1>2. ASSUME NEW c \in Caller, Probe(c)
      PROVE  QueueInv'
  BY <1>2, QueueUnmoved DEF Probe, Remembers, Types
<1>3. ASSUME NEW c \in Caller, Find(c)
      PROVE  QueueInv'
  BY <1>3, QueueUnmoved DEF Find, Remembers, Types
<1>4. ASSUME NEW c \in Caller, Create(c)
      PROVE  QueueInv'
  <2>1. PICK s \in Session : status[s] = "new" /\ Start(s)
    BY <1>4 DEF Create
  <2>2. Stopped(s)
    BY <2>1 DEF ShutInv
  <2> QED BY <1>4, <2>1, <2>2, QueueStarts DEF Create
<1>5. ASSUME NEW c \in Caller, Refused(c)
      PROVE  QueueInv'
  BY <1>5, QueueUnmoved DEF Refused, Remembers, Types
<1>6. ASSUME NEW c \in Caller, Started(c)
      PROVE  QueueInv'
  <2>1. resp[c] = "none" /\ sess[c] \in Session
    BY <1>6 DEF Started, CallerInv, CallerAt, Silent, Working
  <2> QED BY <1>6, <2>1, QueueAsks DEF Started, Ready, Stopped
<1>7. ASSUME NEW c \in Caller, StartFailed(c)
      PROVE  QueueInv'
  <2>1. sess[c] \in Session
    BY <1>7 DEF StartFailed, CallerInv, CallerAt, Working
  <2>2. Remembers /\ queue' = queue
    BY <1>7 DEF StartFailed, Drop, GivesUp, Types, Remembers
  <2>3. CASE UNCHANGED <<task, inflight, pending>>
    BY <2>2, <2>3, QueueUnmoved
  <2>4. CASE Abort(c) /\ ~UNCHANGED <<task, inflight, pending>>
    BY <2>1, <2>2, <2>4, QueueAborts
  <2> QED BY <1>7, <2>3, <2>4 DEF StartFailed
<1>8. ASSUME NEW c \in Caller, Register(c)
      PROVE  QueueInv'
  BY <1>8, QueueUnmoved DEF Register, Remembers, Types
<1>9. ASSUME NEW c \in Caller, Reject(c)
      PROVE  QueueInv'
  <2>1. sess[c] \in Session
    BY <1>9 DEF Reject, CallerInv, CallerAt, Working
  <2>2. Remembers /\ queue' = queue
    BY <1>9 DEF Reject, Drop, GivesUp, Types, Remembers
  <2>3. CASE UNCHANGED <<task, inflight, pending>>
    BY <2>2, <2>3, QueueUnmoved
  <2>4. CASE Abort(c) /\ ~UNCHANGED <<task, inflight, pending>>
    BY <2>1, <2>2, <2>4, QueueAborts
  <2> QED BY <1>9, <2>3, <2>4 DEF Reject
<1>10. ASSUME NEW c \in Caller, Aborted(c)
      PROVE  QueueInv'
  BY <1>10, QueueUnmoved DEF Aborted, Remembers, Types
<1>11. ASSUME NEW c \in Caller, AbortTimesOut(c)
      PROVE  QueueInv'
  BY <1>11, QueueUnmoved DEF AbortTimesOut, GivesUp, Remembers, Types
<1>12. ASSUME NEW c \in Caller, Evicted(c)
      PROVE  QueueInv'
  BY <1>12, QueueUnmoved DEF Evicted, Remembers, Types
<1>13. ASSUME NEW c \in Caller, Request(c)
      PROVE  QueueInv'
  <2>1. resp[c] = "none" /\ sess[c] \in Session
    BY <1>13 DEF Request, CallerInv, CallerAt, Silent, Working
  <2>2. CASE sess[c] \in shut
    BY <1>13, <2>2, QueueUnmoved DEF Request, Remembers
  <2>3. CASE sess[c] \notin shut /\ Stopped(sess[c])
    BY <1>13, <2>1, <2>3, QueueStarts DEF Request
  <2>4. CASE sess[c] \notin shut /\ ~Stopped(sess[c])
    BY <1>13, <2>1, <2>4, QueueAsks DEF Request
  <2> QED BY <2>2, <2>3, <2>4
<1>14. ASSUME NEW c \in Caller, Restarted(c)
      PROVE  QueueInv'
  <2>1. resp[c] = "none" /\ sess[c] \in Session
    BY <1>14 DEF Restarted, CallerInv, CallerAt, Silent, Working
  <2>2. CASE UNCHANGED <<resp, queue, pending>>
    BY <1>14, <2>2, QueueUnmoved DEF Restarted, Remembers
  <2>3. CASE Ready(sess[c]) /\ Put(c, sess[c])
    BY <1>14, <2>1, <2>3, QueueAsks DEF Restarted, Ready, Stopped
  <2> QED BY <1>14, <2>2, <2>3 DEF Restarted
<1>15. ASSUME NEW c \in Caller, Answered(c)
      PROVE  QueueInv'
  BY <1>15, QueueUnmoved DEF Answered, Remembers, Types
<1>16. ASSUME NEW c \in Caller, Leave(c)
      PROVE  QueueInv'
  BY <1>16, QueueUnmoved DEF Leave, Remembers, Types
<1>17. ASSUME NEW c \in Caller, Retired(c)
      PROVE  QueueInv'
  BY <1>17, QueueUnmoved DEF Retired, Remembers, Types
<1>18. ASSUME NEW c \in Caller, CancelCreation(c)
      PROVE  QueueInv'
  <2>1. sess[c] \in Session
    BY <1>18 DEF CancelCreation, CallerInv, CallerAt, Working
  <2>2. Remembers /\ queue' = queue
    BY <1>18 DEF CancelCreation, Drop, GivesUp, Types, Remembers
  <2>3. CASE UNCHANGED <<task, inflight, pending>>
    BY <2>2, <2>3, QueueUnmoved
  <2>4. CASE Abort(c) /\ ~UNCHANGED <<task, inflight, pending>>
    BY <2>1, <2>2, <2>4, QueueAborts
  <2> QED BY <1>18, <2>3, <2>4 DEF CancelCreation
<1>19. ASSUME NEW c \in Caller, Cancel(c)
      PROVE  QueueInv'
  BY <1>19, QueueUnmoved DEF Cancel, Drop, Remembers, Types
<1>20. ASSUME NEW s \in Session, Initialized(s)
      PROVE  QueueInv'
  <2>1. \E x \in {"serving", "failing"} : task' = [task EXCEPT ![s] = x]
    BY <1>20 DEF Initialized
  <2>2. task[s] = "starting" /\ UNCHANGED <<resp, queue, inflight, pending>>
    BY <1>20 DEF Initialized
  <2> QED BY <2>1, <2>2, QueueRuns
<1>21. ASSUME NEW s \in Session, StartFails(s)
      PROVE  QueueInv'
  <2>1. \E x \in {"serving", "failing"} : task' = [task EXCEPT ![s] = x]
    BY <1>21 DEF StartFails
  <2>2. task[s] = "starting" /\ UNCHANGED <<resp, queue, inflight, pending>>
    BY <1>21 DEF StartFails
  <2> QED BY <2>1, <2>2, QueueRuns
<1>22. ASSUME NEW s \in Session, Take(s)
      PROVE  QueueInv'
  BY <1>22, QueueTake
<1>23. ASSUME NEW s \in Session, OperationEnds(s)
      PROVE  QueueInv'
  <2>1. inflight[s] # None /\ UNCHANGED <<task, queue>> /\ pending' = [pending EXCEPT ![s] = @ - 1]
        /\ inflight' = [inflight EXCEPT ![s] = None]
    BY <1>23 DEF OperationEnds
  <2>2. pending' = [pending EXCEPT ![s] = IF inflight[s] = None THEN @ ELSE @ - 1]
    BY <2>1
  <2>3. \A c \in Caller : c # inflight[s] => resp'[c] = resp[c]
    BY <1>23 DEF OperationEnds, Types
  <2>4. task[s] # "gone"
    BY <2>1 DEF QueueInv, QueueAt
  <2> QED BY <2>1, <2>2, <2>3, <2>4, QueueCountsOff
<1>24. ASSUME NEW s \in Session, Breaks(s)
      PROVE  QueueInv'
  <2>1. /\ task' = [task EXCEPT ![s] = "exiting"] /\ UNCHANGED <<queue, resp>>
        /\ inflight' = [inflight EXCEPT ![s] = None]
        /\ IF inflight[s] = None THEN UNCHANGED pending ELSE pending' = [pending EXCEPT ![s] = @ - 1]
    BY <1>24 DEF Breaks
  <2>2. pending' = [pending EXCEPT ![s] = IF inflight[s] = None THEN @ ELSE @ - 1]
    BY <2>1 DEF Types
  <2>3. task'[s] = "exiting" /\ \A t \in Session : t # s => task'[t] = task[t]
    BY <2>1 DEF Types
  <2> QED BY <2>1, <2>2, <2>3, QueueCountsOff
<1>25. ASSUME NEW s \in Session, OwnerEnds(s)
      PROVE  QueueInv'
  BY <1>25, QueueEnds
<1>26. ASSUME NEW s \in Session, CloseSession(s)
      PROVE  QueueInv'
  BY <1>26, QueueCloses
<1>27. ASSUME Trim
      PROVE  QueueInv'
  BY <1>27, QueueUnmoved DEF Trim, Remembers, Types
<1>28. ASSUME CloseBegins
      PROVE  QueueInv'
  BY <1>28, QueueUnmoved DEF CloseBegins, Remembers, Types
<1>29. ASSUME CloseEnds
      PROVE  QueueInv'
  BY <1>29, QueueUnmoved DEF CloseEnds, Remembers, Types
<1>30. ASSUME CloseCancelled
      PROVE  QueueInv'
  BY <1>30, QueueUnmoved DEF CloseCancelled, Remembers, Types
<1>31. CASE UNCHANGED vars
  BY <1>31, QueueUnmoved DEF Remembers
<1> QED BY <1>1, <1>2, <1>3, <1>4, <1>5, <1>6, <1>7, <1>8, <1>9, <1>10, <1>11, <1>12, <1>13, <1>14, <1>15,
           <1>16, <1>17, <1>18, <1>19, <1>20, <1>21, <1>22, <1>23, <1>24, <1>25, <1>26, <1>27, <1>28, <1>29,
           <1>30, <1>31 DEF Next

\* No request at the start.
LEMMA QueueInit == Init => QueueInv
<1> SUFFICES ASSUME Init
             PROVE  QueueInv
  OBVIOUS
<1>1. \A s \in Session : /\ queue[s] = <<>> /\ inflight[s] = None /\ pending[s] = 0 /\ task[s] = "gone"
  BY DEF Init
<1>2. \A c \in Caller, s \in Session : ~Holds(c, s)
  BY <1>1, EmptyQueue DEF Holds
<1>3. \A s \in Session : QueueAt(s)
  BY <1>1, EmptyQueue DEF QueueAt
<1> QED BY <1>2, <1>3 DEF QueueInv, HoldInv

-----------------------------------------------------------------------------
(* Pins: a call that uses its session counts in active_calls. *)

\* The pins of a session can be counted.
LEMMA PinnedFinite ==
  ASSUME NEW s \in Session
  PROVE  IsFiniteSet(Pinned(s)) /\ Cardinality(Pinned(s)) \in Nat
<1>1. Pinned(s) \in SUBSET Caller
  BY DEF Pinned
<1> QED BY <1>1, FS_Subset, FS_CardinalityType

\* No call begins to use a session, or changes the one it uses.
PinsKept == \A c \in Caller : kind'[c] = "call" /\ pc'[c] \in Pinning =>
                              kind[c] = "call" /\ pc[c] \in Pinning /\ sess'[c] = sess[c]

\* No pin is taken and no count changed.
LEMMA PinsKeep ==
  ASSUME Types, PinInv, PinsKept, active' = active
  PROVE  PinInv'
<1> SUFFICES ASSUME NEW s \in Session
             PROVE  active'[s] >= Cardinality(Pinned(s)')
  BY DEF PinInv
<1>1. Pinned(s)' \in SUBSET Pinned(s)
  BY DEF Pinned, PinsKept
<1>2. IsFiniteSet(Pinned(s)) /\ Cardinality(Pinned(s)) \in Nat
  BY PinnedFinite
<1>3. Cardinality(Pinned(s)') <= Cardinality(Pinned(s)) /\ IsFiniteSet(Pinned(s)')
  BY <1>1, <1>2, FS_Subset
<1>4. Cardinality(Pinned(s)') \in Nat
  BY <1>3, FS_CardinalityType
<1> QED BY <1>2, <1>3, <1>4 DEF PinInv, Types

\* A call that takes a session.
LEMMA PinsGrow ==
  ASSUME Types, PinInv, NEW c \in Caller, NEW s \in Session, pc[c] \notin Pinning,
         active' = [active EXCEPT ![s] = @ + 1], sess'[c] = s,
         \A d \in Caller : d # c => pc'[d] = pc[d] /\ kind'[d] = kind[d] /\ sess'[d] = sess[d]
  PROVE  PinInv'
<1> SUFFICES ASSUME NEW t \in Session
             PROVE  active'[t] >= Cardinality(Pinned(t)')
  BY DEF PinInv
<1>1. /\ IsFiniteSet(Pinned(t)) /\ Cardinality(Pinned(t)) \in Nat /\ active[t] >= Cardinality(Pinned(t))
      /\ active[t] \in Int
  BY PinnedFinite DEF PinInv, Types
<1>2. CASE t = s
  <2>1. Pinned(t)' \in SUBSET (Pinned(t) \cup {c})
    BY DEF Pinned
  <2>2. IsFiniteSet(Pinned(t) \cup {c}) /\ Cardinality(Pinned(t) \cup {c}) <= Cardinality(Pinned(t)) + 1
    <3>1. /\ IsFiniteSet(Pinned(t) \cup {c})
          /\ Cardinality(Pinned(t) \cup {c}) = IF c \in Pinned(t) THEN Cardinality(Pinned(t)) ELSE Cardinality(Pinned(t)) + 1
      BY <1>1, FS_AddElement
    <3> QED BY <1>1, <3>1
  <2>3. Cardinality(Pinned(t)') <= Cardinality(Pinned(t) \cup {c}) /\ IsFiniteSet(Pinned(t)')
    BY <2>1, <2>2, FS_Subset
  <2>4. Cardinality(Pinned(t)') \in Nat /\ Cardinality(Pinned(t) \cup {c}) \in Nat
    BY <2>2, <2>3, FS_CardinalityType
  <2>5. active'[t] = active[t] + 1
    BY <1>2 DEF Types
  <2> QED BY <1>1, <2>2, <2>3, <2>4, <2>5
<1>3. CASE t # s
  <2>1. Pinned(t)' \in SUBSET Pinned(t)
    BY <1>3 DEF Pinned
  <2>2. Cardinality(Pinned(t)') <= Cardinality(Pinned(t)) /\ IsFiniteSet(Pinned(t)')
    BY <1>1, <2>1, FS_Subset
  <2>3. Cardinality(Pinned(t)') \in Nat
    BY <2>2, FS_CardinalityType
  <2>4. active'[t] = active[t]
    BY <1>3 DEF Types
  <2> QED BY <1>1, <2>2, <2>3, <2>4
<1> QED BY <1>2, <1>3

\* A call that leaves its session.
LEMMA PinsShrink ==
  ASSUME Types, PinInv, NEW c \in Caller, NEW s \in Session, c \in Pinned(s),
         active' = [active EXCEPT ![s] = @ - 1], pc'[c] \notin Pinning,
         \A d \in Caller : d # c => pc'[d] = pc[d] /\ kind'[d] = kind[d] /\ sess'[d] = sess[d]
  PROVE  PinInv'
<1> SUFFICES ASSUME NEW t \in Session
             PROVE  active'[t] >= Cardinality(Pinned(t)')
  BY DEF PinInv
<1>1. /\ IsFiniteSet(Pinned(t)) /\ Cardinality(Pinned(t)) \in Nat /\ active[t] >= Cardinality(Pinned(t))
      /\ active[t] \in Int
  BY PinnedFinite DEF PinInv, Types
<1>2. Pinned(t)' \in SUBSET (Pinned(t) \ {c})
  BY DEF Pinned
<1>3. /\ IsFiniteSet(Pinned(t) \ {c})
      /\ Cardinality(Pinned(t) \ {c}) = IF c \in Pinned(t) THEN Cardinality(Pinned(t)) - 1 ELSE Cardinality(Pinned(t))
  BY <1>1, FS_RemoveElement
<1>4. Cardinality(Pinned(t)') <= Cardinality(Pinned(t) \ {c}) /\ IsFiniteSet(Pinned(t)')
  BY <1>2, <1>3, FS_Subset
<1>5. Cardinality(Pinned(t)') \in Nat /\ Cardinality(Pinned(t) \ {c}) \in Nat
  BY <1>3, <1>4, FS_CardinalityType
<1>6. CASE t = s
  <2>1. active'[t] = active[t] - 1
    BY <1>6 DEF Types
  <2> QED BY <1>1, <1>3, <1>4, <1>5, <1>6, <2>1
<1>7. CASE t # s
  <2>1. active'[t] = active[t]
    BY <1>7 DEF Types
  <2>2. Cardinality(Pinned(t) \ {c}) <= Cardinality(Pinned(t))
    BY <1>1, <1>3
  <2> QED BY <1>1, <1>4, <1>5, <2>1, <2>2
<1> QED BY <1>6, <1>7

\* Every step keeps active_calls at or above the pins.
LEMMA PinStep == Shape /\ PinInv /\ [Next]_vars => PinInv'
<1> SUFFICES ASSUME Shape, PinInv, [Next]_vars
             PROVE  PinInv'
  OBVIOUS
<1> USE DEF Shape
<1>1. ASSUME NEW c \in Caller, CallerActs(c)
      PROVE  PinInv'
  <2>0. \A d \in Caller : d # c => pc'[d] = pc[d] /\ kind'[d] = kind[d] /\ sess'[d] = sess[d]
    BY <1>1, OthersStay
  <2>1. CASE Arrive(c)
    <3>1. PinsKept
      BY <2>0, <2>1 DEF Arrive, PinsKept, Types, Pcs, Pinning
    <3> QED BY <2>1, <3>1, PinsKeep DEF Arrive
  <2>2. CASE Probe(c)
    <3>1. PinsKept
      BY <2>0, <2>2 DEF Probe, PinsKept, Types, Pcs, Pinning
    <3> QED BY <2>2, <3>1, PinsKeep DEF Probe
  <2>3. CASE Find(c)
    <3>1. PICK s \in Resident : Use(c, s, Resident)
      BY <2>3 DEF Find
    <3>2. s \in Session /\ Resident \in SUBSET Session /\ pc[c] = "lock" /\ kind' = kind
      BY <2>3 DEF Find, Resident
    <3>3. sess' = [sess EXCEPT ![c] = s] /\ \/ active' = [active EXCEPT ![s] = @ + 1]
                                            \/ active' = active /\ kind[c] # "call"
      BY <3>1, <3>2, UseCases
    <3>4. sess'[c] = s
      BY <3>3 DEF Types
    <3>5. CASE active' = [active EXCEPT ![s] = @ + 1]
      BY <2>0, <3>1, <3>2, <3>4, <3>5, PinsGrow DEF Pinning
    <3>6. CASE active' = active /\ kind[c] # "call"
      <4>1. PinsKept
        BY <2>0, <3>1, <3>2, <3>6 DEF PinsKept
      <4> QED BY <3>6, <4>1, PinsKeep
    <3> QED BY <3>3, <3>5, <3>6
  <2>4. CASE Create(c)
    <3>1. PinsKept
      BY <2>0, <2>4 DEF Create, PinsKept, Types, Pcs, Pinning
    <3> QED BY <2>4, <3>1, PinsKeep DEF Create
  <2>5. CASE Refused(c)
    <3>1. PinsKept
      BY <2>0, <2>5 DEF Refused, Goes, PinsKept, Types, Pcs, Pinning
    <3> QED BY <2>5, <3>1, PinsKeep DEF Refused
  <2>6. CASE Started(c)
    <3>1. PinsKept
      BY <2>0, <2>6 DEF Started, Goes, PinsKept, Types, Pcs, Pinning
    <3> QED BY <2>6, <3>1, PinsKeep DEF Started
  <2>7. CASE StartFailed(c)
    <3>1. pc' = [pc EXCEPT ![c] = "over"] \/ pc' = [pc EXCEPT ![c] = "aborting"]
      BY <2>7, AbortCases DEF StartFailed, GivesUp, Goes
    <3>2. pc'[c] \notin Pinning
      BY <3>1 DEF Types, Pinning
    <3>3. PinsKept
      BY <2>0, <3>2 DEF PinsKept
    <3> QED BY <2>7, <3>3, PinsKeep DEF StartFailed
  <2>8. CASE Register(c)
    <3> DEFINE s == sess[c]
    <3>1. s \in Session /\ Resident \cup {s} \in SUBSET Session /\ pc[c] = "checking" /\ kind' = kind
      BY <2>8 DEF Register, CallerInv, CallerAt, Working, Resident
    <3>2. Use(c, s, Resident \cup {s})
      BY <2>8 DEF Register
    <3> HIDE DEF s
    <3>3. sess' = [sess EXCEPT ![c] = s] /\ \/ active' = [active EXCEPT ![s] = @ + 1]
                                            \/ active' = active /\ kind[c] # "call"
      BY <3>1, <3>2, UseCases
    <3>4. sess'[c] = s
      BY <3>3 DEF Types
    <3>5. CASE active' = [active EXCEPT ![s] = @ + 1]
      BY <2>0, <3>1, <3>2, <3>4, <3>5, PinsGrow DEF Pinning
    <3>6. CASE active' = active /\ kind[c] # "call"
      <4>1. PinsKept
        BY <2>0, <3>1, <3>2, <3>6 DEF PinsKept
      <4> QED BY <3>6, <4>1, PinsKeep
    <3> QED BY <3>3, <3>5, <3>6
  <2>9. CASE Reject(c)
    <3>1. pc' = [pc EXCEPT ![c] = "over"] \/ pc' = [pc EXCEPT ![c] = "aborting"]
      BY <2>9, AbortCases DEF Reject, GivesUp, Goes
    <3>2. pc'[c] \notin Pinning
      BY <3>1 DEF Types, Pinning
    <3>3. PinsKept
      BY <2>0, <3>2 DEF PinsKept
    <3> QED BY <2>9, <3>3, PinsKeep DEF Reject
  <2>10. CASE Aborted(c)
    <3>1. PinsKept
      BY <2>0, <2>10 DEF Aborted, Goes, PinsKept, Types, Pcs, Pinning
    <3> QED BY <2>10, <3>1, PinsKeep DEF Aborted
  <2>11. CASE AbortTimesOut(c)
    <3>1. PinsKept
      BY <2>0, <2>11 DEF AbortTimesOut, GivesUp, Goes, PinsKept, Types, Pcs, Pinning
    <3> QED BY <2>11, <3>1, PinsKeep DEF AbortTimesOut
  <2>12. CASE Evicted(c)
    <3>1. PinsKept
      BY <2>0, <2>12 DEF Evicted, Goes, PinsKept, Types, Pcs, Pinning
    <3> QED BY <2>12, <3>1, PinsKeep DEF Evicted
  <2>13. CASE Request(c)
    <3>1. PinsKept
      BY <2>0, <2>13 DEF Request, Ended, Goes, PinsKept, Types, Pcs, Pinning
    <3> QED BY <2>13, <3>1, PinsKeep DEF Request
  <2>14. CASE Restarted(c)
    <3>1. PinsKept
      BY <2>0, <2>14 DEF Restarted, Goes, Ended, PinsKept, Types, Pcs, Pinning
    <3> QED BY <2>14, <3>1, PinsKeep DEF Restarted
  <2>15. CASE Answered(c)
    <3>1. PinsKept
      BY <2>0, <2>15 DEF Answered, Ended, Goes, Evicts, PinsKept, Types, Pcs, Pinning
    <3> QED BY <2>15, <3>1, PinsKeep DEF Answered
  <2>16. CASE Leave(c)
    <3>1. sess[c] \in Session /\ c \in Pinned(sess[c])
      BY <2>16 DEF Leave, CallerInv, CallerAt, Working, Pinned, Pinning
    <3>2. active' = [active EXCEPT ![sess[c]] = @ - 1]
      BY <2>16 DEF Leave
    <3>3. pc'[c] \in {"over", "retiring"}
      BY <2>16 DEF Leave, Evicts, Goes, Types, Pcs
    <3> QED BY <2>0, <3>1, <3>2, <3>3, PinsShrink DEF Pinning
  <2>17. CASE Retired(c)
    <3>1. PinsKept
      BY <2>0, <2>17 DEF Retired, Goes, PinsKept, Types, Pcs, Pinning
    <3> QED BY <2>17, <3>1, PinsKeep DEF Retired
  <2>18. CASE CancelCreation(c)
    <3>1. pc' = [pc EXCEPT ![c] = "over"] \/ pc' = [pc EXCEPT ![c] = "aborting"]
      BY <2>18, AbortCases DEF CancelCreation, GivesUp, Goes
    <3>2. pc'[c] \notin Pinning
      BY <3>1 DEF Types, Pinning
    <3>3. PinsKept
      BY <2>0, <3>2 DEF PinsKept
    <3> QED BY <2>18, <3>3, PinsKeep DEF CancelCreation
  <2>19. CASE Cancel(c)
    <3>1. PinsKept
      BY <2>0, <2>19 DEF Cancel, Ended, Goes, PinsKept, Types, Pcs, Pinning
    <3> QED BY <2>19, <3>1, PinsKeep DEF Cancel
  <2> QED BY <1>1, <2>1, <2>2, <2>3, <2>4, <2>5, <2>6, <2>7, <2>8, <2>9, <2>10, <2>11, <2>12, <2>13, <2>14,
             <2>15, <2>16, <2>17, <2>18, <2>19 DEF CallerActs
<1>2. CASE Others
  <2>1. PinsKept
    BY <1>2, CallersStay DEF PinsKept
  <2>2. active' = active
    BY <1>2 DEF Others, Initialized, StartFails, Take, OperationEnds, Breaks, OwnerEnds, CloseSession,
                Trim, CloseBegins, CloseEnds, CloseCancelled
  <2> QED BY <2>1, <2>2, PinsKeep
<1>3. CASE UNCHANGED vars
  BY <1>3, PinsKeep DEF PinsKept
<1> QED BY <1>1, <1>2, <1>3, NextCases

\* No pin at the start.
LEMMA PinInit == Init => PinInv
<1> SUFFICES ASSUME Init, NEW s \in Session
             PROVE  active[s] >= Cardinality(Pinned(s))
  BY DEF PinInv
<1>1. Pinned(s) = {} /\ active[s] = 0
  BY DEF Init, Pinned, Pinning
<1> QED BY <1>1, FS_EmptySet

\* A session that a call has pinned is at work.
LEMMA PinnedIsBusy ==
  ASSUME Shape, PinInv, NEW c \in Caller, kind[c] = "call", pc[c] \in Pinning
  PROVE  sess[c] \in Session /\ active[sess[c]] >= 1 /\ Busy(active, sess[c])
<1>1. sess[c] \in Session
  BY DEF Shape, CallerInv, CallerAt, Pinning, Working
<1>2. IsFiniteSet(Pinned(sess[c])) /\ Cardinality(Pinned(sess[c])) \in Nat /\ c \in Pinned(sess[c])
  BY <1>1, PinnedFinite DEF Pinned
<1>3. Cardinality(Pinned(sess[c])) # 0
  BY <1>2, FS_EmptySet
<1> QED BY <1>1, <1>2, <1>3 DEF PinInv, Busy, Shape, Types

-----------------------------------------------------------------------------
(* A session stays open under the calls that use it. *)

\* A call begins with a session that was not evicted.
LEMMA UsesBegin ==
  ASSUME Shape, [Next]_vars, NEW c \in Caller, c \in Using'
  PROVE  \/ c \in Using /\ sess'[c] = sess[c]
         \/ sess'[c] \in Session /\ status[sess'[c]] \in {"resident", "unlisted"}
<1> USE DEF Shape
<1>0. kind'[c] = "call" /\ pc'[c] \in {"evicting", "enter", "restart", "asked"}
  BY DEF Using
<1>1. ASSUME NEW d \in Caller, d # c, CallerActs(d)
      PROVE  c \in Using /\ sess'[c] = sess[c]
  BY <1>0, <1>1, OthersStay DEF Using
<1>2. CASE CallerActs(c)
  <2>1. CASE Arrive(c)
    BY <1>0, <2>1 DEF Arrive, Using, Types, Pcs
  <2>2. CASE Probe(c)
    BY <1>0, <2>2 DEF Probe, Using, Types, Pcs
  <2>3. CASE Find(c)
    <3>1. PICK s \in Resident : Use(c, s, Resident)
      BY <2>3 DEF Find
    <3>2. s \in Session /\ status[s] = "resident" /\ sess' = [sess EXCEPT ![c] = s]
      BY <3>1 DEF Resident, Use
    <3> QED BY <3>2 DEF Types
  <2>4. CASE Create(c)
    BY <1>0, <2>4 DEF Create, Using, Types, Pcs
  <2>5. CASE Refused(c)
    BY <1>0, <2>5 DEF Refused, Goes, Using, Types, Pcs
  <2>6. CASE Started(c)
    BY <1>0, <2>6 DEF Started, Goes, Using, Types, Pcs
  <2>7. CASE StartFailed(c)
    <3>1. pc' = [pc EXCEPT ![c] = "over"] \/ pc' = [pc EXCEPT ![c] = "aborting"]
      BY <2>7, AbortCases DEF StartFailed, GivesUp, Goes
    <3> QED BY <1>0, <3>1 DEF Types
  <2>8. CASE Register(c)
    <3>1. sess[c] \in Session /\ status[sess[c]] = "unlisted" /\ sess' = [sess EXCEPT ![c] = sess[c]]
      BY <2>8 DEF Register, Use, CallerInv, CallerAt, Working, CreateInv, CreateAt, Creating
    <3> QED BY <3>1 DEF Types
  <2>9. CASE Reject(c)
    <3>1. pc' = [pc EXCEPT ![c] = "over"] \/ pc' = [pc EXCEPT ![c] = "aborting"]
      BY <2>9, AbortCases DEF Reject, GivesUp, Goes
    <3> QED BY <1>0, <3>1 DEF Types
  <2>10. CASE Aborted(c)
    BY <1>0, <2>10 DEF Aborted, Goes, Using, Types, Pcs
  <2>11. CASE AbortTimesOut(c)
    BY <1>0, <2>11 DEF AbortTimesOut, GivesUp, Goes, Using, Types, Pcs
  <2>12. CASE Evicted(c)
    BY <1>0, <2>12 DEF Evicted, Goes, Using, Types, Pcs
  <2>13. CASE Request(c)
    BY <1>0, <2>13 DEF Request, Ended, Goes, Using, Types, Pcs
  <2>14. CASE Restarted(c)
    BY <1>0, <2>14 DEF Restarted, Goes, Ended, Using, Types, Pcs
  <2>15. CASE Answered(c)
    BY <1>0, <2>15 DEF Answered, Ended, Goes, Evicts, Using, Types, Pcs
  <2>16. CASE Leave(c)
    <3>1. pc'[c] \in {"over", "retiring"}
      BY <2>16 DEF Leave, Evicts, Goes, Types, Pcs
    <3> QED BY <1>0, <3>1
  <2>17. CASE Retired(c)
    BY <1>0, <2>17 DEF Retired, Goes, Using, Types, Pcs
  <2>18. CASE CancelCreation(c)
    <3>1. pc' = [pc EXCEPT ![c] = "over"] \/ pc' = [pc EXCEPT ![c] = "aborting"]
      BY <2>18, AbortCases DEF CancelCreation, GivesUp, Goes
    <3> QED BY <1>0, <3>1 DEF Types
  <2>19. CASE Cancel(c)
    BY <1>0, <2>19 DEF Cancel, Ended, Goes, Using, Types, Pcs
  <2> QED BY <1>2, <2>1, <2>2, <2>3, <2>4, <2>5, <2>6, <2>7, <2>8, <2>9, <2>10, <2>11, <2>12, <2>13, <2>14,
             <2>15, <2>16, <2>17, <2>18, <2>19 DEF CallerActs
<1>3. CASE Others
  BY <1>0, <1>3, CallersStay DEF Using
<1>4. CASE UNCHANGED vars
  BY <1>0, <1>4 DEF Using
<1> QED BY <1>1, <1>2, <1>3, <1>4, NextCases

\* What is evicted while the client is open is not at work.
LEMMA EvictedIsIdle ==
  ASSUME Shape, [Next]_vars, NEW s \in Session, status[s] # "retired", status'[s] = "retired", ~closed'
  PROVE  ~Busy(active', s)
<1> USE DEF Shape
<1>1. CASE Keeps
  BY <1>1 DEF Keeps
<1>2. ASSUME NEW c \in Caller, Create(c)
      PROVE  FALSE
  BY <1>2 DEF Create, Types
<1>3. ASSUME NEW c \in Caller, Lists(c)
      PROVE  ~Busy(active', s)
  BY <1>3 DEF Lists, Retire, Types
<1>4. CASE Trims
  BY <1>4 DEF Trims, Retire, Types
<1>5. CASE CloseBegins
  BY <1>5 DEF CloseBegins, closed
<1> QED BY <1>1, <1>2, <1>3, <1>4, <1>5, StatusCases

\* No step evicts or closes a session under a call that uses it.
LEMMA UsedStep == Shape /\ PinInv /\ UsedStaysOpen /\ [Next]_vars => UsedStaysOpen'
<1> SUFFICES ASSUME Shape, PinInv, UsedStaysOpen, [Next]_vars, ~closed', NEW c \in Caller, c \in Using'
             PROVE  (status[sess[c]] = "resident" /\ sess[c] \notin shut)'
  BY DEF UsedStaysOpen, Using
<1>1. Shape' /\ PinInv'
  BY ShapeStep, PinStep
<1> DEFINE s == sess'[c]
<1>2. kind'[c] = "call" /\ pc'[c] \in Pinning
  BY DEF Using, Pinning
<1>3. s \in Session /\ status'[s] \in {"resident", "retired"}
  BY <1>1, <1>2 DEF Shape, CallerInv, CallerAt, Pinning, Working
<1>4. active'[s] >= 1
  <2>1. (Shape /\ PinInv /\ kind[c] = "call" /\ pc[c] \in Pinning => active[sess[c]] >= 1)'
    BY PinnedIsBusy, PTL
  <2> QED BY <1>1, <1>2, <2>1
<1>5. status[s] # "retired"
  <2>1. CASE c \in Using /\ s = sess[c]
    <3>1. ~closed
      <4>1. closed => closed'
        BY DEF Next, closed, vars, client, Arrive, Probe, Find, Create, Refused, Started, StartFailed,
           Register, Reject, Aborted,
               AbortTimesOut, Evicted, Request, Restarted, Answered, Leave, Retired, CancelCreation, Cancel, Initialized,
               StartFails, Take, OperationEnds, Breaks, OwnerEnds, CloseSession, Trim, CloseBegins, CloseEnds, CloseCancelled
      <4> QED BY <4>1
    <3> QED BY <2>1, <3>1 DEF UsedStaysOpen
  <2>2. CASE status[s] \in {"resident", "unlisted"}
    BY <2>2
  <2> QED BY <2>1, <2>2, UsesBegin
<1>6. status'[s] # "retired"
  <2>1. SUFFICES ASSUME status'[s] = "retired"
                 PROVE  FALSE
    OBVIOUS
  <2>2. ~Busy(active', s)
    BY <1>3, <1>5, <2>1, EvictedIsIdle
  <2>3. active'[s] \in Int
    BY <1>1, <1>3 DEF Shape, Types
  <2> QED BY <1>4, <2>2, <2>3 DEF Busy
<1> QED BY <1>1, <1>3, <1>6 DEF Shape, ShutInv

-----------------------------------------------------------------------------
(* A root has one resident session. *)

\* Only Register makes a session resident, and it holds the lock since its root had none.
LEMMA RootStep == Shape /\ OneSessionPerRoot /\ [Next]_vars => OneSessionPerRoot'
<1> SUFFICES ASSUME Shape, OneSessionPerRoot, [Next]_vars
             PROVE  OneSessionPerRoot'
  OBVIOUS
<1> USE DEF Shape
<1>1. CASE Keeps
  BY <1>1 DEF Keeps, OneSessionPerRoot, Resident
<1>2. ASSUME NEW c \in Caller, Create(c)
      PROVE  OneSessionPerRoot'
  <2>1. PICK s \in Session : /\ status[s] = "new" /\ status' = [status EXCEPT ![s] = "unlisted"]
                             /\ root' = [root EXCEPT ![s] = want[c]]
    BY <1>2 DEF Create
  <2> QED BY <2>1 DEF OneSessionPerRoot, Resident, Types
<1>3. ASSUME NEW c \in Caller, Lists(c)
      PROVE  OneSessionPerRoot'
  <2>1. Resident' \subseteq Resident \cup {sess[c]} /\ root' = root
    BY <1>3 DEF Lists, Retire, Resident, Types
  <2>2. \A t \in Resident : root[t] # root[sess[c]]
    BY <1>3 DEF Lists, Register, CreateInv, CreateAt
  <2> QED BY <2>1, <2>2 DEF OneSessionPerRoot
<1>4. CASE Trims
  <2>1. Resident' \subseteq Resident /\ root' = root
    BY <1>4 DEF Trims, Retire, Resident, Types
  <2> QED BY <2>1 DEF OneSessionPerRoot
<1>5. CASE CloseBegins
  <2>1. Resident' \subseteq Resident /\ root' = root
    BY <1>5 DEF CloseBegins, Retire, Resident, Types
  <2> QED BY <2>1 DEF OneSessionPerRoot
<1> QED BY <1>1, <1>2, <1>3, <1>4, <1>5, StatusCases

-----------------------------------------------------------------------------
(* The tool is described before anything else. *)

\* The session that Register adds to the residents.
LEMMA RegisterLists ==
  ASSUME Shape, NEW c \in Caller, Register(c)
  PROVE  Lists(c)
<1>1. sess[c] \in Session /\ Resident \cup {sess[c]} \in SUBSET Session
  BY DEF Register, Shape, CallerInv, CallerAt, Working, Resident
<1>2. Use(c, sess[c], Resident \cup {sess[c]})
  BY DEF Register
<1>3. \E E \in SUBSET (Resident \cup {sess[c]}) :
        Retire(Resident \cup {sess[c]}, E) /\ \A t \in E : ~Busy(active', t)
  BY <1>1, <1>2, UseRetires
<1> QED BY <1>1, <1>3 DEF Register, Lists

\* The residents that a caller leaves behind.
LEMMA CalmResidents ==
  ASSUME Shape, NEW c \in Caller, Answered(c) \/ Leave(c)
  PROVE  Resident' \subseteq Resident
<1>1. (\E E : Retire(Resident, E)) \/ UNCHANGED status
  BY DEF Answered, Leave, Evicts
<1>2. CASE UNCHANGED status
  BY <1>2 DEF Resident
<1>3. ASSUME NEW E, Retire(Resident, E)
      PROVE  Resident' \subseteq Resident
  BY <1>3 DEF Retire, Resident, Shape, Types
<1> QED BY <1>1, <1>2, <1>3

\* Nobody but a caller makes a session resident, or creates one.
LEMMA OthersRetire ==
  ASSUME Shape, Others
  PROVE  /\ Resident' \subseteq Resident
         /\ \A s \in Session : status[s] = "new" => status'[s] = "new"
<1>1. (\E R \in {Resident, {}}, E \in SUBSET Resident : Retire(R, E)) \/ UNCHANGED status
  <2>1. CASE \E s \in Session : \/ Initialized(s) \/ StartFails(s) \/ Take(s) \/ OperationEnds(s) \/ Breaks(s)
                               \/ OwnerEnds(s) \/ CloseSession(s)
    BY <2>1 DEF Initialized, StartFails, Take, OperationEnds, Breaks, OwnerEnds, CloseSession
  <2>2. CASE Trim
    BY <2>2, EvictionsAre DEF Trim
  <2>3. CASE CloseBegins \/ CloseEnds \/ CloseCancelled
    BY <2>3 DEF CloseBegins, CloseEnds, CloseCancelled
  <2> QED BY <2>1, <2>2, <2>3 DEF Others
<1>2. CASE UNCHANGED status
  BY <1>2 DEF Resident
<1>3. ASSUME NEW R \in {Resident, {}}, NEW E \in SUBSET Resident, Retire(R, E)
      PROVE  /\ Resident' \subseteq Resident
             /\ \A s \in Session : status[s] = "new" => status'[s] = "new"
  BY <1>3 DEF Retire, Resident, Shape, Types
<1> QED BY <1>1, <1>2, <1>3

\* No caller begins twice, and one that is over does nothing.
LEMMA BeginsOnce ==
  ASSUME Types, NEW c \in Caller, CallerActs(c)
  PROVE  pc'[c] # "idle" /\ pc[c] # "over"
<1>1. CASE Arrive(c)
  BY <1>1 DEF Arrive, Types
<1>2. CASE Probe(c)
  BY <1>2 DEF Probe, Types
<1>3. CASE Find(c)
  <2>1. pc' = [pc EXCEPT ![c] = "enter"] \/ \E E : pc' = [pc EXCEPT ![c] = IF E = {} THEN "enter" ELSE "evicting"]
    BY <1>3 DEF Find, Use
  <2>2. pc'[c] # "idle"
    BY <2>1 DEF Types
  <2> QED BY <1>3, <2>2 DEF Find
<1>4. CASE Create(c)
  BY <1>4 DEF Create, Types
<1>5. CASE Refused(c)
  BY <1>5 DEF Refused, Goes, Types
<1>6. CASE Started(c)
  BY <1>6 DEF Started, Goes, Types
<1>7. CASE StartFailed(c)
  <2>1. pc' = [pc EXCEPT ![c] = "over"] \/ pc' = [pc EXCEPT ![c] = "aborting"]
    BY <1>7, AbortCases DEF StartFailed, GivesUp, Goes
  <2> QED BY <1>7, <2>1 DEF StartFailed, Types
<1>8. CASE Register(c)
  <2>1. pc' = [pc EXCEPT ![c] = "enter"] \/ \E E : pc' = [pc EXCEPT ![c] = IF E = {} THEN "enter" ELSE "evicting"]
    BY <1>8 DEF Register, Use
  <2>2. pc'[c] # "idle"
    BY <2>1 DEF Types
  <2> QED BY <1>8, <2>2 DEF Register
<1>9. CASE Reject(c)
  <2>1. pc' = [pc EXCEPT ![c] = "over"] \/ pc' = [pc EXCEPT ![c] = "aborting"]
    BY <1>9, AbortCases DEF Reject, GivesUp, Goes
  <2> QED BY <1>9, <2>1 DEF Reject, Types
<1>10. CASE Aborted(c)
  BY <1>10 DEF Aborted, Goes, Types
<1>11. CASE AbortTimesOut(c)
  BY <1>11 DEF AbortTimesOut, GivesUp, Goes, Types
<1>12. CASE Evicted(c)
  BY <1>12 DEF Evicted, Goes, Types
<1>13. CASE Request(c)
  BY <1>13 DEF Request, Ended, Goes, Types
<1>14. CASE Restarted(c)
  BY <1>14 DEF Restarted, Goes, Ended, Types
<1>15. CASE Answered(c)
  BY <1>15 DEF Answered, Ended, Goes, Evicts, Types
<1>16. CASE Leave(c)
  BY <1>16 DEF Leave, Evicts, Goes, Types
<1>17. CASE Retired(c)
  BY <1>17 DEF Retired, Goes, Types
<1>18. CASE CancelCreation(c)
  <2>1. pc' = [pc EXCEPT ![c] = "over"] \/ pc' = [pc EXCEPT ![c] = "aborting"]
    BY <1>18, AbortCases DEF CancelCreation, GivesUp, Goes
  <2> QED BY <1>18, <2>1 DEF CancelCreation, Types
<1>19. CASE Cancel(c)
  BY <1>19 DEF Cancel, Ended, Goes, Types
<1> QED BY <1>1, <1>2, <1>3, <1>4, <1>5, <1>6, <1>7, <1>8, <1>9, <1>10, <1>11, <1>12, <1>13, <1>14, <1>15,
           <1>16, <1>17, <1>18, <1>19 DEF CallerActs

\* Only Register makes a session resident.
LEMMA ResidentsGrow ==
  ASSUME Shape, [Next]_vars
  PROVE  Resident' \subseteq Resident \/ \E c \in Caller : Register(c) /\ Resident' \subseteq Resident \cup {sess[c]}
<1> USE DEF Shape
<1>1. CASE Keeps
  BY <1>1 DEF Keeps, Resident
<1>2. ASSUME NEW c \in Caller, Create(c)
      PROVE  Resident' \subseteq Resident
  BY <1>2 DEF Create, Resident, Types
<1>3. ASSUME NEW c \in Caller, Lists(c)
      PROVE  Register(c) /\ Resident' \subseteq Resident \cup {sess[c]}
  BY <1>3 DEF Lists, Retire, Resident, Types
<1>4. CASE Trims
  BY <1>4 DEF Trims, Retire, Resident, Types
<1>5. CASE CloseBegins
  BY <1>5 DEF CloseBegins, Retire, Resident, Types
<1> QED BY <1>1, <1>2, <1>3, <1>4, <1>5, StatusCases

\* A caller's own step, where it describes the tool,
LEMMA DescribeOwn ==
  ASSUME Shape, DescribeInv, NEW c \in Caller, CallerActs(c)
  PROVE  DescribeAt(c)'
<1> USE DEF Shape
<1>0. DescribeAt(c) /\ CreateAt(c) /\ CallerAt(c) /\ pc'[c] # "idle" /\ pc[c] # "over"
  BY BeginsOnce DEF DescribeInv, CreateInv, CallerInv
<1>1. \A d \in Caller : d # c => pc'[d] = pc[d]
  BY OthersStay
<1>2. CASE Arrive(c)
  <2>1. kind'[c] = "describe" => (\A d \in Caller : pc[d] = "idle") /\ UNCHANGED status
    BY <1>0, <1>2 DEF Arrive, DescribeAt, Types
  <2>2. kind'[c] = "describe" => Resident' = {}
    BY <2>1 DEF DescribeInv, Resident
  <2> QED BY <1>0, <1>1, <2>1, <2>2 DEF DescribeAt
<1>3. CASE Probe(c)
  <2>1. kind'[c] = "healthy"
    BY <1>3 DEF Probe, Types
  <2> QED BY <2>1 DEF DescribeAt
<1>4. CASE Create(c)
  <2>1. Resident' \subseteq Resident /\ kind' = kind /\ pc[c] = "lock" /\ pc'[c] = "starting"
    BY <1>4 DEF Create, Resident, Types
  <2> QED BY <1>0, <1>1, <2>1 DEF DescribeAt
<1>5. CASE Find(c)
  <2>1. kind' = kind /\ pc[c] = "lock" /\ Resident # {}
    BY <1>5 DEF Find
  <2> QED BY <1>0, <2>1 DEF DescribeAt
<1>6. CASE Register(c)
  <2>1. kind' = kind /\ pc[c] = "checking" /\ sess[c] \in Session /\ sess' = [sess EXCEPT ![c] = sess[c]]
    BY <1>0, <1>6 DEF Register, Use, CallerAt, Working
  <2>2. sess'[c] = sess[c]
    BY <2>1 DEF Types
  <2>3. [Next]_vars
    BY <1>6 DEF Next
  <2>4. Resident' \subseteq Resident \cup {sess[c]}
    <3>1. Lists(c)
      BY <1>6, RegisterLists
    <3> QED BY <3>1 DEF Lists, Retire, Resident, Types
  <2>5. pc'[c] # "lock"
    <3>1. pc' = [pc EXCEPT ![c] = "enter"] \/ \E E : pc' = [pc EXCEPT ![c] = IF E = {} THEN "enter" ELSE "evicting"]
      BY <1>6 DEF Register, Use
    <3> QED BY <3>1 DEF Types
  <2> QED BY <1>0, <1>1, <2>1, <2>2, <2>4, <2>5 DEF DescribeAt
<1>7. CASE ~(Arrive(c) \/ Probe(c) \/ Create(c) \/ Find(c) \/ Register(c))
  <2>1. [Next]_vars
    BY DEF Next, CallerActs
  <2>2. kind'[c] = kind[c] /\ pc'[c] # "lock" /\ (pc'[c] # "over" => sess'[c] = sess[c]) /\ Resident' \subseteq Resident
    <3>1. CASE Refused(c)
      BY <3>1 DEF Refused, Goes, Types, Resident
    <3>2. CASE Started(c)
      BY <3>2 DEF Started, Goes, Types, Resident
    <3>3. CASE StartFailed(c)
      <4>1. /\ pc' = [pc EXCEPT ![c] = "over"] \/ (pc' = [pc EXCEPT ![c] = "aborting"] /\ sess' = [sess EXCEPT ![c] = @])
            /\ UNCHANGED <<kind, status>>
        BY <3>3, AbortCases DEF StartFailed, GivesUp, Goes
      <4> QED BY <4>1 DEF Types, Resident
    <3>4. CASE Reject(c)
      <4>1. /\ pc' = [pc EXCEPT ![c] = "over"] \/ (pc' = [pc EXCEPT ![c] = "aborting"] /\ sess' = [sess EXCEPT ![c] = @])
            /\ UNCHANGED <<kind, status>>
        BY <3>4, AbortCases DEF Reject, GivesUp, Goes
      <4> QED BY <4>1 DEF Types, Resident
    <3>5. CASE Aborted(c)
      BY <3>5 DEF Aborted, Goes, Types, Resident
    <3>6. CASE AbortTimesOut(c)
      BY <3>6 DEF AbortTimesOut, GivesUp, Goes, Types, Resident
    <3>7. CASE Evicted(c)
      BY <3>7 DEF Evicted, Goes, Types, Resident
    <3>8. CASE Request(c)
      BY <3>8 DEF Request, Ended, Goes, Types, Resident
    <3>9. CASE Restarted(c)
      BY <3>9 DEF Restarted, Goes, Ended, Types, Resident
    <3>10. CASE Answered(c)
      <4>1. /\ \E p \in {"over", "retiring", "leave"} : Goes(c, p)
            /\ kind' = kind
        BY <3>10 DEF Answered, Ended, Evicts
      <4>2. Resident' \subseteq Resident
        BY <2>1, <3>10, <1>7, CalmResidents DEF Answered
      <4> QED BY <4>1, <4>2 DEF Types, Goes
    <3>11. CASE Leave(c)
      <4>1. /\ \E p \in {"over", "retiring", "leave"} : Goes(c, p)
            /\ kind' = kind
        BY <3>11 DEF Leave, Ended, Evicts
      <4>2. Resident' \subseteq Resident
        BY <2>1, <3>11, <1>7, CalmResidents DEF Leave
      <4> QED BY <4>1, <4>2 DEF Types, Goes
    <3>12. CASE Retired(c)
      BY <3>12 DEF Retired, Goes, Types, Resident
    <3>13. CASE CancelCreation(c)
      <4>1. /\ pc' = [pc EXCEPT ![c] = "over"] \/ (pc' = [pc EXCEPT ![c] = "aborting"] /\ sess' = [sess EXCEPT ![c] = @])
            /\ UNCHANGED <<kind, status>>
        BY <3>13, AbortCases DEF CancelCreation, GivesUp, Goes
      <4> QED BY <4>1 DEF Types, Resident
    <3>14. CASE Cancel(c)
      BY <3>14 DEF Cancel, Ended, Goes, Types, Resident
    <3> QED BY <1>7, <3>1, <3>2, <3>3, <3>4, <3>5, <3>6, <3>7, <3>8, <3>9, <3>10, <3>11, <3>12, <3>13, <3>14
               DEF CallerActs
  <2> QED BY <1>0, <1>1, <2>2 DEF DescribeAt
<1> QED BY <1>2, <1>3, <1>4, <1>5, <1>6, <1>7

\* and everybody else's: they have not begun, and cannot.
LEMMA DescribeStep == Shape /\ DescribeInv /\ [Next]_vars => DescribeInv'
<1> SUFFICES ASSUME Shape, DescribeInv, [Next]_vars
             PROVE  DescribeInv'
  OBVIOUS
<1> USE DEF Shape
<1>1. ASSUME NEW c \in Caller, CallerActs(c)
      PROVE  DescribeInv'
  <2>1. pc'[c] # "idle" /\ pc[c] # "over"
    BY <1>1, BeginsOnce
  <2>2. ASSUME NEW d \in Caller, d # c
        PROVE  DescribeAt(d)'
    <3>1. pc'[d] = pc[d] /\ kind'[d] = kind[d] /\ sess'[d] = sess[d]
      BY <1>1, <2>2, OthersStay
    <3>2. SUFFICES ASSUME kind[d] = "describe", pc[d] # "over"
                   PROVE  FALSE
      BY <3>1 DEF DescribeAt, DescribeInv
    <3>3. pc[c] = "idle" /\ pc[d] # "idle"
      BY <2>2, <3>2 DEF DescribeInv, DescribeAt
    <3>4. Arrive(c) \/ Probe(c)
      BY <1>1, <3>3 DEF CallerActs, Find, Create, Refused, Started, StartFailed, Register, Reject, Aborted,
         AbortTimesOut,
                        Evicted, Request, Restarted, Answered, Leave, Retired, CancelCreation, Cancel
    <3> QED BY <3>2, <3>3, <3>4 DEF Arrive, Probe, Serving
  <2>3. DescribeAt(c)'
    BY <1>1, DescribeOwn
  <2> QED BY <2>1, <2>2, <2>3 DEF DescribeInv
<1>2. CASE Others
  <2>1. UNCHANGED <<pc, kind, sess>>
    BY <1>2, CallersStay
  <2>2. Resident' \subseteq Resident
    BY <1>2, OthersRetire
  <2>3. (\A s \in Session : status[s] = "new") => \A s \in Session : status'[s] = "new"
    BY <1>2, OthersRetire
  <2> QED BY <2>1, <2>2, <2>3 DEF DescribeInv, DescribeAt
<1>3. CASE UNCHANGED vars
  BY <1>3 DEF DescribeInv, DescribeAt, Resident
<1> QED BY <1>1, <1>2, <1>3, NextCases

\* Nothing has begun at the start.
LEMMA DescribeInit == Init => DescribeInv
  BY DEF Init, DescribeInv, DescribeAt

-----------------------------------------------------------------------------
(* Once the trims that are due have run the residents are within the bound, *)
(* or at work.                                                              *)

\* What is left after an eviction is within the bound, or protected or at work.
LEMMA EvictionsBound ==
  ASSUME NEW R \in SUBSET Session, NEW P, NEW a, NEW E \in Evictions(R, P, a)
  PROVE  /\ IsFiniteSet(R \ E)
         /\ Cardinality(R \ E) <= MaxSessions \/ \A s \in R \ E : s \in P \/ Busy(a, s)
<1> DEFINE idle == {s \in R \ P : ~Busy(a, s)}
           over == Cardinality(R) - MaxSessions
<1>1. IsFiniteSet(R) /\ IsFiniteSet(R \ E) /\ IsFiniteSet(idle) /\ idle \in SUBSET R
  BY FS_Subset
<1>2. Cardinality(R) \in Nat /\ Cardinality(idle) \in Nat
  BY <1>1, FS_CardinalityType
<1>3. CASE over <= 0
  <2>1. E = {}
    BY <1>3 DEF Evictions
  <2>2. R \ E = R
    BY <2>1
  <2>3. Cardinality(R) <= MaxSessions
    BY <1>2, <1>3
  <2> QED BY <1>1, <2>2, <2>3
<1>4. CASE over > 0 /\ Cardinality(idle) < over
  <2>1. E \in SUBSET idle /\ Cardinality(E) = Cardinality(idle)
    BY <1>2, <1>4 DEF Evictions
  <2>2. E = idle
    BY <1>1, <2>1, FS_Subset
  <2> QED BY <1>1, <2>2
<1>5. CASE over > 0 /\ ~(Cardinality(idle) < over)
  <2>1. E \in SUBSET idle /\ Cardinality(E) = over
    BY <1>2, <1>5 DEF Evictions
  <2>2. IsFiniteSet(E) /\ R \cap E = E
    BY <1>1, <2>1, FS_Subset
  <2>3. Cardinality(R \ E) = Cardinality(R) - Cardinality(E)
    <3>1. Cardinality(R \ E) = Cardinality(R) - Cardinality(R \cap E)
      BY <1>1, FS_Difference
    <3> QED BY <2>2, <3>1
  <2>4. Cardinality(R \ E) = MaxSessions
    BY <1>2, <2>1, <2>3
  <2> QED BY <1>1, <2>4
<1> QED BY <1>2, <1>3, <1>4, <1>5

\* After an eviction the residents are within the bound or at work, as protected ones are.
LEMMA EvictedWithin ==
  ASSUME Types, NEW R \in SUBSET Session, NEW P, NEW E \in Evictions(R, P, active'), Retire(R, E),
         Resident \subseteq R, pending' = pending, \A s \in P : active'[s] > 0
  PROVE  Within'
<1>1. E \in SUBSET R /\ E \in SUBSET Session
  BY EvictionsAre
<1>2. Resident' = R \ E
  BY <1>1, RetireFacts
<1>3. Cardinality(R \ E) <= MaxSessions \/ \A s \in R \ E : s \in P \/ Busy(active', s)
  BY EvictionsBound
<1> QED BY <1>2, <1>3 DEF Within, Busy

\* One resident is within any bound.
LEMMA OneFits ==
  ASSUME NEW s, Resident' \subseteq {s}
  PROVE  Within'
<1>1. IsFiniteSet({s}) /\ Cardinality({s}) = 1
  BY FS_Singleton
<1>2. Cardinality(Resident') <= 1 /\ Cardinality(Resident') \in Nat
  BY <1>1, FS_Subset, FS_CardinalityType
<1> QED BY <1>2 DEF Within

\* A step that adds no resident, ends no work of one and runs no trim.
LEMMA TrimmedKeeps ==
  ASSUME TrimmedInv, Resident' \subseteq Resident,
         trims' = 0 => trims = 0 /\ \A s \in Resident' : Busy(active, s) => Busy(active, s)'
  PROVE  TrimmedInv'
<1> SUFFICES ASSUME trims' = 0
             PROVE  Within'
  BY DEF TrimmedInv
<1>1. Within
  BY DEF TrimmedInv
<1>2. IsFiniteSet(Resident) /\ IsFiniteSet(Resident')
  BY FS_Subset DEF Resident
<1>3. /\ Cardinality(Resident') <= Cardinality(Resident)
      /\ Cardinality(Resident) \in Nat /\ Cardinality(Resident') \in Nat
  BY <1>2, FS_Subset, FS_CardinalityType
<1> QED BY <1>1, <1>3 DEF Within

\* An operation of s that ends has a trim scheduled, or s is not resident.
LEMMA TrimmedHooks ==
  ASSUME Shape, TrimmedInv, NEW s \in Session, NEW n \in Nat \ {0}, Hooks(s, n), UNCHANGED <<status, active>>,
         \A t \in Session : t # s => pending'[t] = pending[t]
  PROVE  TrimmedInv'
<1>1. Resident' = Resident
  BY DEF Resident
<1>2. CASE trims' = trims + n
  BY <1>1, <1>2, TrimmedKeeps DEF Shape, Types
<1>3. CASE trims' = trims /\ s \notin Resident
  BY <1>1, <1>3, TrimmedKeeps DEF Busy, Resident
<1> QED BY <1>2, <1>3 DEF Hooks, Resident, Shape, ShutInv

\* The session a caller uses.
LEMMA UseSess ==
  ASSUME Types, NEW c \in Caller, NEW s \in Session, NEW R \in SUBSET Session, Use(c, s, R)
  PROVE  sess'[c] = s
<1>1. sess' = [sess EXCEPT ![c] = s]
  BY UseCases
<1> QED BY <1>1 DEF Types

\* A call pins its session before it trims, and describe has the only one.
LEMMA TrimmedUse ==
  ASSUME Shape, PinInv, DescribeInv, NEW c \in Caller, NEW R \in SUBSET Session, sess'[c] \in Session,
         Use(c, sess'[c], R), Resident \subseteq R, pending' = pending, kind[c] # "healthy",
         kind[c] = "describe" => R \subseteq {sess'[c]}
  PROVE  Within'
<1> DEFINE s == sess'[c]
<1>1. CASE kind[c] = "call"
  <2>1. active' = [active EXCEPT ![s] = @ + 1] /\ \E E \in Evictions(R, {s}, active') : Retire(R, E)
    BY <1>1, UseCases
  <2>2. active[s] >= Cardinality(Pinned(s)) /\ Cardinality(Pinned(s)) \in Nat /\ active[s] \in Int
    BY PinnedFinite DEF PinInv, Shape, Types
  <2>3. active'[s] > 0
    BY <2>1, <2>2 DEF Shape, Types
  <2>4. \A t \in {s} : active'[t] > 0
    BY <2>3
  <2>5. PICK E \in Evictions(R, {s}, active') : Retire(R, E)
    BY <2>1
  <2> HIDE DEF s
  <2> QED BY <2>4, <2>5, EvictedWithin DEF Shape
<1>2. CASE kind[c] = "describe"
  <2>1. \E E \in SUBSET R : Retire(R, E)
    BY UseRetires
  <2>2. Resident' \subseteq R
    BY <2>1 DEF Retire, Resident, Shape, Types
  <2> QED BY <1>2, <2>2, OneFits
<1> QED BY <1>1, <1>2 DEF Shape, Types

\* Every step trims, leaves a trim to run, or does not matter to the bound.
LEMMA TrimmedStep == Shape /\ PinInv /\ DescribeInv /\ TrimmedInv /\ [Next]_vars => TrimmedInv'
<1> SUFFICES ASSUME Shape, PinInv, DescribeInv, TrimmedInv, [Next]_vars
             PROVE  TrimmedInv'
  OBVIOUS
<1>1. ASSUME NEW c \in Caller, Arrive(c)
      PROVE  TrimmedInv'
  <2>1. Resident' \subseteq Resident /\ UNCHANGED <<active, trims, pending>>
    BY <1>1 DEF Arrive, Resident, Shape, Types
  <2> QED BY <2>1, TrimmedKeeps DEF Busy
<1>2. ASSUME NEW c \in Caller, Probe(c)
      PROVE  TrimmedInv'
  <2>1. Resident' \subseteq Resident /\ UNCHANGED <<active, trims, pending>>
    BY <1>2 DEF Probe, Resident, Shape, Types
  <2> QED BY <2>1, TrimmedKeeps DEF Busy
<1>3. ASSUME NEW c \in Caller, Find(c)
      PROVE  TrimmedInv'
  <2>1. PICK s \in Resident : Use(c, s, Resident)
    BY <1>3 DEF Find
  <2>2. s \in Session /\ Resident \in SUBSET Session /\ pending' = pending /\ pc[c] = "lock" /\ Resident # {}
    BY <1>3, <2>1 DEF Find, Resident, owners
  <2>3. sess'[c] = s
    BY <2>1, <2>2, UseSess DEF Shape
  <2>4. kind[c] = "call"
    BY <2>2 DEF DescribeInv, DescribeAt, Shape, CallerInv, CallerAt, Types
  <2>5. Within'
    BY <2>1, <2>2, <2>3, <2>4, TrimmedUse
  <2> QED BY <2>5 DEF TrimmedInv
<1>4. ASSUME NEW c \in Caller, Create(c)
      PROVE  TrimmedInv'
  <2>1. Resident' \subseteq Resident /\ UNCHANGED <<active, trims, pending>>
    BY <1>4 DEF Create, Resident, Shape, Types
  <2> QED BY <2>1, TrimmedKeeps DEF Busy
<1>5. ASSUME NEW c \in Caller, Refused(c)
      PROVE  TrimmedInv'
  <2>1. Resident' \subseteq Resident /\ UNCHANGED <<active, trims, pending>>
    BY <1>5 DEF Refused, Resident, Shape, Types
  <2> QED BY <2>1, TrimmedKeeps DEF Busy
<1>6. ASSUME NEW c \in Caller, Started(c)
      PROVE  TrimmedInv'
  <2>1. UNCHANGED <<status, active, trims>>
    BY <1>6 DEF Started
  <2>2. pending' = pending \/ pending' = [pending EXCEPT ![sess[c]] = @ + 1]
    BY <1>6 DEF Started, Put
  <2>3. \A t \in Session : pending[t] \in Int /\ (pending'[t] = pending[t] \/ pending'[t] = pending[t] + 1)
    BY <2>2 DEF Shape, Types
  <2>4. \A t \in Session : pending[t] > 0 => pending'[t] > 0
    BY <2>3
  <2> QED BY <2>1, <2>4, TrimmedKeeps DEF Busy, Resident
<1>7. ASSUME NEW c \in Caller, StartFailed(c)
      PROVE  TrimmedInv'
  <2>1. sess[c] \in Session /\ status[sess[c]] # "resident" /\ UNCHANGED <<status, active, trims>>
    BY <1>7 DEF StartFailed, Shape, CallerInv, CallerAt, CreateInv, CreateAt, Creating, Working
  <2>2. \A t \in Session : t # sess[c] => pending'[t] = pending[t]
    BY <1>7, AbortCases DEF StartFailed, Shape, Types
  <2> QED BY <2>1, <2>2, TrimmedKeeps DEF Busy, Resident
<1>8. ASSUME NEW c \in Caller, Register(c)
      PROVE  TrimmedInv'
  <2>1. Use(c, sess[c], Resident \cup {sess[c]}) /\ pc[c] = "checking" /\ pending' = pending
    BY <1>8 DEF Register, owners
  <2>2. /\ sess[c] \in Session /\ Resident \cup {sess[c]} \in SUBSET Session /\ kind[c] # "healthy"
        /\ kind[c] = "describe" => Resident \subseteq {sess[c]}
    BY <2>1 DEF DescribeInv, DescribeAt, Shape, CallerInv, CallerAt, Creating, Working, Resident
  <2>3. sess'[c] = sess[c]
    BY <2>1, <2>2, UseSess DEF Shape
  <2>4. Within'
    BY <2>1, <2>2, <2>3, TrimmedUse
  <2> QED BY <2>4 DEF TrimmedInv
<1>9. ASSUME NEW c \in Caller, Reject(c)
      PROVE  TrimmedInv'
  <2>1. sess[c] \in Session /\ status[sess[c]] # "resident" /\ UNCHANGED <<status, active, trims>>
    BY <1>9 DEF Reject, Shape, CallerInv, CallerAt, CreateInv, CreateAt, Creating, Working
  <2>2. \A t \in Session : t # sess[c] => pending'[t] = pending[t]
    BY <1>9, AbortCases DEF Reject, Shape, Types
  <2> QED BY <2>1, <2>2, TrimmedKeeps DEF Busy, Resident
<1>10. ASSUME NEW c \in Caller, Aborted(c)
      PROVE  TrimmedInv'
  <2>1. Resident' \subseteq Resident /\ UNCHANGED <<active, trims, pending>>
    BY <1>10 DEF Aborted, Resident, Shape, Types
  <2> QED BY <2>1, TrimmedKeeps DEF Busy
<1>11. ASSUME NEW c \in Caller, AbortTimesOut(c)
      PROVE  TrimmedInv'
  <2>1. Resident' \subseteq Resident /\ UNCHANGED <<active, trims, pending>>
    BY <1>11 DEF AbortTimesOut, Resident, Shape, Types
  <2> QED BY <2>1, TrimmedKeeps DEF Busy
<1>12. ASSUME NEW c \in Caller, Evicted(c)
      PROVE  TrimmedInv'
  <2>1. Resident' \subseteq Resident /\ UNCHANGED <<active, trims, pending>>
    BY <1>12 DEF Evicted, Resident, Shape, Types
  <2> QED BY <2>1, TrimmedKeeps DEF Busy
<1>13. ASSUME NEW c \in Caller, Request(c)
      PROVE  TrimmedInv'
  <2>1. UNCHANGED <<status, active, trims>>
    BY <1>13 DEF Request
  <2>2. pending' = pending \/ pending' = [pending EXCEPT ![sess[c]] = @ + 1]
    BY <1>13 DEF Request, Put, Ended
  <2>3. \A t \in Session : pending[t] \in Int /\ (pending'[t] = pending[t] \/ pending'[t] = pending[t] + 1)
    BY <2>2 DEF Shape, Types
  <2>4. \A t \in Session : pending[t] > 0 => pending'[t] > 0
    BY <2>3
  <2> QED BY <2>1, <2>4, TrimmedKeeps DEF Busy, Resident
<1>14. ASSUME NEW c \in Caller, Restarted(c)
      PROVE  TrimmedInv'
  <2>1. UNCHANGED <<status, active, trims>>
    BY <1>14 DEF Restarted
  <2>2. pending' = pending \/ pending' = [pending EXCEPT ![sess[c]] = @ + 1]
    BY <1>14 DEF Restarted, Put
  <2>3. \A t \in Session : pending[t] \in Int /\ (pending'[t] = pending[t] \/ pending'[t] = pending[t] + 1)
    BY <2>2 DEF Shape, Types
  <2>4. \A t \in Session : pending[t] > 0 => pending'[t] > 0
    BY <2>3
  <2> QED BY <2>1, <2>4, TrimmedKeeps DEF Busy, Resident
<1>15. ASSUME NEW c \in Caller, Answered(c)
      PROVE  TrimmedInv'
  <2>1. CASE kind[c] = "describe"
    <3>1. Resident \subseteq {sess[c]}
      BY <1>15, <2>1 DEF Answered, DescribeInv, DescribeAt
    <3>2. Resident' \subseteq {sess[c]}
      BY <1>15, <3>1, CalmResidents
    <3> QED BY <3>2, OneFits DEF TrimmedInv
  <2>2. CASE kind[c] # "describe"
    <3>1. Resident' \subseteq Resident /\ UNCHANGED <<active, trims, pending>>
      BY <1>15, <2>2 DEF Answered, Resident
    <3> QED BY <3>1, TrimmedKeeps DEF Busy
  <2> QED BY <2>1, <2>2
<1>16. ASSUME NEW c \in Caller, Leave(c)
      PROVE  TrimmedInv'
  <2>1. pending' = pending /\ Resident \in SUBSET Session /\ \E E \in Evictions(Resident, {}, active') : Retire(Resident, E)
    BY <1>16 DEF Leave, Evicts, Resident
  <2>2. Within'
    BY <2>1, EvictedWithin DEF Shape
  <2> QED BY <2>2 DEF TrimmedInv
<1>17. ASSUME NEW c \in Caller, Retired(c)
      PROVE  TrimmedInv'
  <2>1. Resident' \subseteq Resident /\ UNCHANGED <<active, trims, pending>>
    BY <1>17 DEF Retired, Resident, Shape, Types
  <2> QED BY <2>1, TrimmedKeeps DEF Busy
<1>18. ASSUME NEW c \in Caller, CancelCreation(c)
      PROVE  TrimmedInv'
  <2>1. sess[c] \in Session /\ status[sess[c]] # "resident" /\ UNCHANGED <<status, active, trims>>
    BY <1>18 DEF CancelCreation, Shape, CallerInv, CallerAt, CreateInv, CreateAt, Creating, Working
  <2>2. \A t \in Session : t # sess[c] => pending'[t] = pending[t]
    BY <1>18, AbortCases DEF CancelCreation, Shape, Types
  <2> QED BY <2>1, <2>2, TrimmedKeeps DEF Busy, Resident
<1>19. ASSUME NEW c \in Caller, Cancel(c)
      PROVE  TrimmedInv'
  <2>1. Resident' \subseteq Resident /\ UNCHANGED <<active, trims, pending>>
    BY <1>19 DEF Cancel, Resident, Shape, Types
  <2> QED BY <2>1, TrimmedKeeps DEF Busy
<1>20. ASSUME NEW s \in Session, Initialized(s)
      PROVE  TrimmedInv'
  <2>1. Resident' \subseteq Resident /\ UNCHANGED <<active, trims, pending>>
    BY <1>20 DEF Initialized, Resident, Shape, Types
  <2> QED BY <2>1, TrimmedKeeps DEF Busy
<1>21. ASSUME NEW s \in Session, StartFails(s)
      PROVE  TrimmedInv'
  <2>1. Resident' \subseteq Resident /\ UNCHANGED <<active, trims, pending>>
    BY <1>21 DEF StartFails, Resident, Shape, Types
  <2> QED BY <2>1, TrimmedKeeps DEF Busy
<1>22. ASSUME NEW s \in Session, Take(s)
      PROVE  TrimmedInv'
  <2>1. CASE Hooks(s, 1) /\ pending' = [pending EXCEPT ![s] = @ - 1]
    BY <1>22, <2>1, TrimmedHooks DEF Take, Shape, Types
  <2>2. CASE UNCHANGED <<pending, trims>>
    BY <1>22, <2>2, TrimmedKeeps DEF Take, Busy, Resident
  <2> QED BY <1>22, <2>1, <2>2 DEF Take
<1>23. ASSUME NEW s \in Session, OperationEnds(s)
      PROVE  TrimmedInv'
  BY <1>23, TrimmedHooks DEF OperationEnds, Shape, Types
<1>24. ASSUME NEW s \in Session, Breaks(s)
      PROVE  TrimmedInv'
  <2>1. CASE Hooks(s, 1) /\ pending' = [pending EXCEPT ![s] = @ - 1]
    BY <1>24, <2>1, TrimmedHooks DEF Breaks, Shape, Types
  <2>2. CASE UNCHANGED <<pending, trims>>
    BY <1>24, <2>2, TrimmedKeeps DEF Breaks, Busy, Resident
  <2> QED BY <1>24, <2>1, <2>2 DEF Breaks
<1>25. ASSUME NEW s \in Session, OwnerEnds(s)
      PROVE  TrimmedInv'
  <2> DEFINE n == Cardinality(InQueue(s) \ {Closer})
  <2>1. /\ pending' = [pending EXCEPT ![s] = @ - n] /\ Hooks(s, n)
        /\ UNCHANGED <<status, active>>
    BY <1>25 DEF OwnerEnds
  <2>2. n \in Nat
    <3>1. InQueue(s) \ {Closer} \in SUBSET Caller
      BY QueueTypes DEF Shape, Entry
    <3> QED BY <3>1, FS_Subset, FS_CardinalityType
  <2> HIDE DEF n
  <2>3. CASE n = 0
    <3>1. pending' = pending /\ trims' = trims
      BY <2>1, <2>3 DEF Hooks, Shape, Types
    <3> QED BY <2>1, <3>1, TrimmedKeeps DEF Busy, Resident
  <2>4. CASE n # 0
    BY <2>1, <2>2, <2>4, TrimmedHooks DEF Shape, Types
  <2> QED BY <2>3, <2>4
<1>26. ASSUME NEW s \in Session, CloseSession(s)
      PROVE  TrimmedInv'
  <2>1. Resident' \subseteq Resident /\ UNCHANGED <<active, trims, pending>>
    BY <1>26 DEF CloseSession, Resident, Shape, Types
  <2> QED BY <2>1, TrimmedKeeps DEF Busy
<1>27. ASSUME Trim
      PROVE  TrimmedInv'
  <2>1. CASE closed
    <3>1. Resident' = {}
      BY <1>27, <2>1 DEF Trim, Resident, Shape, ShutInv
    <3>2. Resident' \subseteq {None}
      BY <3>1
    <3> QED BY <3>2, OneFits DEF TrimmedInv
  <2>2. CASE ~closed
    <3>1. /\ active' = active /\ pending' = pending /\ Resident \in SUBSET Session
          /\ \E E \in Evictions(Resident, {}, active') : Retire(Resident, E)
      BY <1>27, <2>2 DEF Trim, Resident
    <3>2. Within'
      BY <3>1, EvictedWithin DEF Shape
    <3> QED BY <3>2 DEF TrimmedInv
  <2> QED BY <2>1, <2>2
<1>28. ASSUME CloseBegins
      PROVE  TrimmedInv'
  <2>1. Resident' = {}
    BY <1>28 DEF CloseBegins, Retire, Resident, Shape, Types
  <2>2. Resident' \subseteq {None}
    BY <2>1
  <2> QED BY <2>2, OneFits DEF TrimmedInv
<1>29. ASSUME CloseEnds
      PROVE  TrimmedInv'
  <2>1. Resident' \subseteq Resident /\ UNCHANGED <<active, trims, pending>>
    BY <1>29 DEF CloseEnds, Resident, Shape, Types
  <2> QED BY <2>1, TrimmedKeeps DEF Busy
<1>30. ASSUME CloseCancelled
      PROVE  TrimmedInv'
  <2>1. Resident' \subseteq Resident /\ UNCHANGED <<active, trims, pending>>
    BY <1>30 DEF CloseCancelled, Resident, Shape, Types
  <2> QED BY <2>1, TrimmedKeeps DEF Busy
<1>31. CASE UNCHANGED vars
  BY <1>31 DEF vars, callers, client, owners, TrimmedInv, Within, Busy, Resident
<1> QED BY <1>1, <1>2, <1>3, <1>4, <1>5, <1>6, <1>7, <1>8, <1>9, <1>10, <1>11, <1>12, <1>13, <1>14, <1>15,
           <1>16, <1>17, <1>18, <1>19, <1>20, <1>21, <1>22, <1>23, <1>24, <1>25, <1>26, <1>27, <1>28, <1>29,
           <1>30, <1>31 DEF Next

\* No session is resident at the start.
LEMMA TrimmedInit == Init => TrimmedInv
<1> SUFFICES ASSUME Init
             PROVE  Within
  BY DEF TrimmedInv
<1>1. Resident = {}
  BY DEF Init, Resident
<1> QED BY <1>1, FS_EmptySet DEF Within

-----------------------------------------------------------------------------
(* When close() has returned no owner task is left.                        *)

\* What the cleanup tasks have failed at stays; the end of an owner task alone takes
\* it off the late ones, and an abort alone makes it one; close() returns with
\* nothing left to clean up.
Cleanup ==
    /\ failed \subseteq failed'
    /\ \A s \in Session : s \in late /\ s \notin late' => Stopped(s)'
    /\ late' \subseteq late \/ \E c \in Caller : pc[c] = "aborting"
    /\ phase' = "returned" =>
         phase = "returned" \/ (batches = {} /\ late = {} /\ UNCHANGED <<batches, late>>)

\* Every step is of this form.
LEMMA CleanupCases ==
  ASSUME Shape, [Next]_vars
  PROVE  Cleanup
<1>1. ASSUME NEW c \in Caller, Arrive(c)
      PROVE  Cleanup
  BY <1>1 DEF Arrive, Cleanup
<1>2. ASSUME NEW c \in Caller, Probe(c)
      PROVE  Cleanup
  BY <1>2 DEF Probe, Cleanup
<1>3. ASSUME NEW c \in Caller, Find(c)
      PROVE  Cleanup
  BY <1>3 DEF Find, Cleanup
<1>4. ASSUME NEW c \in Caller, Create(c)
      PROVE  Cleanup
  BY <1>4 DEF Create, Cleanup
<1>5. ASSUME NEW c \in Caller, Refused(c)
      PROVE  Cleanup
  BY <1>5 DEF Refused, Cleanup
<1>6. ASSUME NEW c \in Caller, Started(c)
      PROVE  Cleanup
  BY <1>6 DEF Started, Cleanup
<1>7. ASSUME NEW c \in Caller, StartFailed(c)
      PROVE  Cleanup
  BY <1>7 DEF StartFailed, Cleanup
<1>8. ASSUME NEW c \in Caller, Register(c)
      PROVE  Cleanup
  BY <1>8 DEF Register, Cleanup
<1>9. ASSUME NEW c \in Caller, Reject(c)
      PROVE  Cleanup
  BY <1>9 DEF Reject, Cleanup
<1>10. ASSUME NEW c \in Caller, Aborted(c)
      PROVE  Cleanup
  BY <1>10 DEF Aborted, Cleanup
<1>11. ASSUME NEW c \in Caller, AbortTimesOut(c)
      PROVE  Cleanup
  BY <1>11 DEF AbortTimesOut, GivesUp, Cleanup
<1>12. ASSUME NEW c \in Caller, Evicted(c)
      PROVE  Cleanup
  BY <1>12 DEF Evicted, Cleanup
<1>13. ASSUME NEW c \in Caller, Request(c)
      PROVE  Cleanup
  BY <1>13 DEF Request, Cleanup
<1>14. ASSUME NEW c \in Caller, Restarted(c)
      PROVE  Cleanup
  BY <1>14 DEF Restarted, Cleanup
<1>15. ASSUME NEW c \in Caller, Answered(c)
      PROVE  Cleanup
  BY <1>15 DEF Answered, Cleanup
<1>16. ASSUME NEW c \in Caller, Leave(c)
      PROVE  Cleanup
  BY <1>16 DEF Leave, Evicts, Cleanup
<1>17. ASSUME NEW c \in Caller, Retired(c)
      PROVE  Cleanup
  BY <1>17 DEF Retired, Cleanup
<1>18. ASSUME NEW c \in Caller, CancelCreation(c)
      PROVE  Cleanup
  <2>1. /\ failed' = failed /\ phase' = phase
        /\ late' = late \/ (pc[c] = "aborting" /\ late \subseteq late')
    BY <1>18 DEF CancelCreation, GivesUp
  <2> QED BY <2>1 DEF Cleanup
<1>19. ASSUME NEW c \in Caller, Cancel(c)
      PROVE  Cleanup
  BY <1>19 DEF Cancel, Cleanup
<1>20. ASSUME NEW s \in Session, Initialized(s)
      PROVE  Cleanup
  BY <1>20 DEF Initialized, Cleanup
<1>21. ASSUME NEW s \in Session, StartFails(s)
      PROVE  Cleanup
  BY <1>21 DEF StartFails, Cleanup
<1>22. ASSUME NEW s \in Session, Take(s)
      PROVE  Cleanup
  BY <1>22 DEF Take, Cleanup
<1>23. ASSUME NEW s \in Session, OperationEnds(s)
      PROVE  Cleanup
  BY <1>23 DEF OperationEnds, Cleanup
<1>24. ASSUME NEW s \in Session, Breaks(s)
      PROVE  Cleanup
  BY <1>24 DEF Breaks, Cleanup
<1>25. ASSUME NEW s \in Session, OwnerEnds(s)
      PROVE  Cleanup
  <2>1. failed \subseteq failed'
    BY <1>25 DEF OwnerEnds, Unbatched
  <2>2. late' = late \ {s} /\ phase' = phase /\ Stopped(s)'
    BY <1>25 DEF OwnerEnds, Stopped, Shape, Types
  <2> QED BY <2>1, <2>2 DEF Cleanup
<1>26. ASSUME NEW s \in Session, CloseSession(s)
      PROVE  Cleanup
  <2>1. failed \subseteq failed' /\ late' = late /\ phase' = phase
    BY <1>26 DEF CloseSession, Unbatched
  <2> QED BY <2>1 DEF Cleanup
<1>27. ASSUME Trim
      PROVE  Cleanup
  BY <1>27 DEF Trim, Cleanup
<1>28. ASSUME CloseBegins
      PROVE  Cleanup
  BY <1>28 DEF CloseBegins, Cleanup
<1>29. ASSUME CloseEnds
      PROVE  Cleanup
  BY <1>29 DEF CloseEnds, Cleanup
<1>30. ASSUME CloseCancelled
      PROVE  Cleanup
  BY <1>30 DEF CloseCancelled, Cleanup
<1>31. CASE UNCHANGED vars
  BY <1>31 DEF Cleanup
<1> QED BY <1>1, <1>2, <1>3, <1>4, <1>5, <1>6, <1>7, <1>8, <1>9, <1>10, <1>11, <1>12, <1>13, <1>14, <1>15,
           <1>16, <1>17, <1>18, <1>19, <1>20, <1>21, <1>22, <1>23, <1>24, <1>25, <1>26, <1>27, <1>28, <1>29,
           <1>30, <1>31 DEF Next

\* A batch loses a session when it was closed, and is given up when that raised.
LEMMA UnbatchedAre ==
  ASSUME Shape, NEW t \in UNION batches, NEW r \in BOOLEAN, Unbatched(t, r),
         NEW s \in UNION batches
  PROVE  s \in UNION batches' \/ s \in failed' \/ (s = t /\ ~r)
<1>1. PICK b \in batches : /\ t \in b
                           /\ batches' = (batches \ {b}) \cup (IF r THEN {} ELSE {b \ {t}} \ {{}})
                           /\ failed' = IF r THEN failed \cup b ELSE failed
  BY DEF Unbatched
<1>2. PICK d \in batches : s \in d
  OBVIOUS
<1>3. CASE d # b
  BY <1>1, <1>2, <1>3
<1>4. CASE d = b /\ r
  BY <1>1, <1>2, <1>4
<1>5. CASE d = b /\ ~r /\ s # t
  <2>1. s \in b \ {t} /\ b \ {t} \in batches'
    BY <1>1, <1>2, <1>5
  <2> QED BY <2>1
<1> QED BY <1>3, <1>4, <1>5

\* What a retire task has to close is closed in the end, or the task raises.
LEMMA BatchedStays ==
  ASSUME Shape, [Next]_vars, NEW s \in UNION batches
  PROVE  s \in (UNION batches') \cup failed' \/ (s \in shut' /\ Stopped(s)')
<1> USE DEF Shape
<1>1. CASE batches \subseteq batches'
  BY <1>1
<1>2. ASSUME NEW t \in Session, CloseSession(t), batches' # batches
      PROVE  s \in (UNION batches') \cup failed' \/ (s \in shut' /\ Stopped(s)')
  <2>1. /\ t \in UNION batches /\ t \in shut' /\ Stopped(t) /\ Unbatched(t, FALSE) /\ task' = task
    BY <1>2 DEF CloseSession
  <2>2. s \in UNION batches' \/ s \in failed' \/ s = t
    BY <2>1, UnbatchedAre
  <2> QED BY <2>1, <2>2 DEF Stopped
<1>3. ASSUME NEW t \in Session, OwnerEnds(t), batches' # batches
      PROVE  s \in (UNION batches') \cup failed' \/ (s \in shut' /\ Stopped(s)')
  <2> DEFINE r == Closer \in InQueue(t)
  <2>1. /\ slock[t] = Closer /\ Unbatched(t, r) /\ Stopped(t)' /\ shut' = shut
    BY <1>3 DEF OwnerEnds, Stopped, Types
  <2>2. t \in shut /\ t \in UNION batches /\ r \in BOOLEAN
    BY <2>1 DEF RetireInv
  <2> HIDE DEF r
  <2>3. s \in UNION batches' \/ s \in failed' \/ s = t
    BY <2>1, <2>2, UnbatchedAre
  <2> QED BY <2>1, <2>2, <2>3 DEF Stopped
<1>4. CASE Keeps
  BY <1>1, <1>2, <1>3, <1>4 DEF Keeps
<1>5. CASE \E c \in Caller : Create(c) \/ Lists(c)
  BY <1>1, <1>5 DEF Create, Lists, Retire
<1>6. CASE Trims \/ CloseBegins
  BY <1>1, <1>6 DEF Trims, CloseBegins, Retire
<1> QED BY <1>4, <1>5, <1>6, StatusCases

\* A session that is evicted is given to a retire task.
LEMMA EvictedIsBatched ==
  ASSUME Shape, [Next]_vars, NEW s \in Session, status[s] # "retired", status'[s] = "retired"
  PROVE  s \in UNION batches'
<1> USE DEF Shape
<1>1. ASSUME NEW R, NEW E \in SUBSET Session, Retire(R, E)
      PROVE  s \in UNION batches'
  <2>1. s \in E
    BY <1>1 DEF Retire
  <2>2. E \in batches'
    BY <1>1, <2>1 DEF Retire
  <2> QED BY <2>1, <2>2
<1>2. ~Keeps /\ ~\E c \in Caller : Create(c)
  BY DEF Keeps, Create, Types
<1>3. CASE \E c \in Caller : Lists(c)
  BY <1>1, <1>3 DEF Lists, Resident
<1>4. CASE Trims \/ CloseBegins
  BY <1>1, <1>4 DEF Trims, CloseBegins, Resident
<1> QED BY <1>2, <1>3, <1>4, StatusCases

\* A caller that creates a session goes on, or its owner task is gone or tracked, or
\* the session is registered.
LEMMA CreatorStays ==
  ASSUME Shape, [Next]_vars, NEW c \in Caller, pc[c] \in Creating
  PROVE  \/ pc'[c] \in Creating /\ sess'[c] = sess[c]
         \/ task'[sess[c]] = "gone" \/ sess[c] \in late' \/ status'[sess[c]] # "unlisted"
<1> USE DEF Shape
<1>1. sess[c] \in Session
  BY DEF CallerInv, CallerAt, Creating, Working
<1>2. ASSUME Abort(c)
      PROVE  (pc'[c] \in Creating /\ sess'[c] = sess[c]) \/ task'[sess[c]] = "gone"
  <2>1. CASE Stopped(sess[c]) /\ task' = task
    BY <2>1 DEF Stopped
  <2>2. CASE Goes(c, "aborting")
    BY <2>2 DEF Goes, Creating, Types
  <2> QED BY <1>2, <2>1, <2>2, AbortCases
<1>3. ASSUME GivesUp(c), task' = task
      PROVE  task'[sess[c]] = "gone" \/ sess[c] \in late'
  BY <1>3 DEF GivesUp, Stopped
<1>4. ASSUME Register(c)
      PROVE  status'[sess[c]] # "unlisted"
  <2>1. PICK E \in SUBSET (Resident \cup {sess[c]}) : Retire(Resident \cup {sess[c]}, E)
    BY <1>4, RegisterLists DEF Lists
  <2> QED BY <1>1, <2>1 DEF Retire
<1>5. CASE CallerActs(c)
  <2>1. CASE Started(c)
    BY <2>1 DEF Started, Goes, Creating, Types
  <2>2. CASE StartFailed(c) \/ Reject(c)
    BY <1>2, <2>2 DEF StartFailed, Reject
  <2>3. CASE Register(c)
    BY <1>4, <2>3
  <2>4. CASE Aborted(c)
    BY <2>4 DEF Aborted, Stopped, owners
  <2>5. CASE AbortTimesOut(c)
    BY <1>3, <2>5 DEF AbortTimesOut
  <2>6. CASE CancelCreation(c)
    BY <1>2, <1>3, <2>6 DEF CancelCreation
  <2>7. CASE ~(Started(c) \/ StartFailed(c) \/ Reject(c) \/ Register(c) \/ Aborted(c) \/ AbortTimesOut(c) \/ CancelCreation(c))
    BY <1>5, <2>7 DEF CallerActs, Creating, Arrive, Probe, Find, Create, Refused, Evicted, Request, Restarted,
                      Answered, Leave, Retired, Cancel
  <2> QED BY <2>1, <2>2, <2>3, <2>4, <2>5, <2>6, <2>7
<1>6. ASSUME NEW d \in Caller, CallerActs(d), d # c
      PROVE  pc'[c] \in Creating /\ sess'[c] = sess[c]
  BY <1>6, OthersStay
<1>7. CASE Others
  BY <1>7, CallersStay
<1>8. CASE UNCHANGED vars
  BY <1>8
<1> QED BY <1>5, <1>6, <1>7, <1>8, NextCases

\* An evicted session is closed, waits for its retire task or has seen it raise.
LEMMA RetiredStep ==
  ASSUME Shape, CloseInv, [Next]_vars, NEW s \in Session, status'[s] = "retired"
  PROVE  s \in (UNION batches') \cup failed' \/ (s \in shut' /\ Stopped(s)')
<1> USE DEF Shape
<1>1. CASE status[s] # "retired"
  BY <1>1, EvictedIsBatched
<1>2. CASE s \in failed
  BY <1>2, CleanupCases DEF Cleanup
<1>3. CASE s \in UNION batches
  BY <1>3, BatchedStays
<1>4. CASE s \in shut /\ Stopped(s) /\ status[s] = "retired"
  <2>1. s \in shut'
    BY <1>4, ShutStays
  <2>2. Stopped(s)'
    BY <1>4, OwnerStarts
  <2> QED BY <2>1, <2>2
<1> QED BY <1>1, <1>2, <1>3, <1>4 DEF CloseInv

\* An owner task that was started for a new session has a caller that ends it, or is tracked.
LEMMA UnlistedStep ==
  ASSUME Shape, CloseInv, [Next]_vars, NEW s \in Session, status'[s] = "unlisted", ~Stopped(s)'
  PROVE  s \in late' \/ \E c \in Caller : pc'[c] \in Creating /\ sess'[c] = s
<1> USE DEF Shape
<1>1. CASE status[s] = "unlisted"
  <2>1. ~Stopped(s)
    BY <1>1, OwnerStarts
  <2>2. CASE s \in late
    BY <2>2, CleanupCases DEF Cleanup
  <2>3. ASSUME NEW c \in Caller, pc[c] \in Creating, sess[c] = s
        PROVE  s \in late' \/ (pc'[c] \in Creating /\ sess'[c] = s)
    BY <2>3, CreatorStays DEF Stopped
  <2> QED BY <1>1, <2>1, <2>2, <2>3 DEF CloseInv
<1>2. CASE status[s] # "unlisted"
  <2>1. PICK c \in Caller : Create(c)
    <3>1. ASSUME NEW R, NEW E, Retire(R, E)
          PROVE  FALSE
      BY <1>2, <3>1 DEF Retire
    <3>2. ~Keeps
      BY <1>2 DEF Keeps
    <3>3. ~Trims /\ ~CloseBegins /\ ~\E c \in Caller : Lists(c)
      BY <3>1 DEF Trims, CloseBegins, Lists
    <3> QED BY <3>2, <3>3, StatusCases
  <2>2. pc'[c] \in Creating /\ sess'[c] = s
    BY <1>2, <2>1 DEF Create, Creating, Types
  <2> QED BY <2>2
<1> QED BY <1>1, <1>2

\* Nothing is evicted or aborted after close() has returned.
LEMMA ReturnedStep ==
  ASSUME Shape, CloseInv, [Next]_vars, phase' = "returned"
  PROVE  batches' = {} /\ late' = {}
<1> USE DEF Shape
<1>1. CASE phase # "returned"
  BY <1>1, CleanupCases DEF Cleanup
<1>2. CASE phase = "returned"
  <2>1. batches = {} /\ late = {} /\ closed /\ Resident = {} /\ \A c \in Caller : pc[c] \notin Creating
    BY <1>2 DEF CloseInv, closed, ShutInv, CreateInv, CreateAt
  <2>2. late' = {}
    BY <2>1, CleanupCases DEF Cleanup, Creating
  <2>3. batches' = {}
    <3>1. CASE Keeps
      BY <2>1, <3>1 DEF Keeps
    <3>2. ~CloseBegins /\ ~\E c \in Caller : Create(c) \/ Lists(c)
      BY <1>2, <2>1 DEF CloseBegins, Create, Lists, Register, Creating
    <3>3. CASE Trims
      BY <2>1, <3>3 DEF Trims, Retire
    <3> QED BY <3>1, <3>2, <3>3, StatusCases
  <2> QED BY <2>2, <2>3
<1> QED BY <1>1, <1>2

\* Every owner task keeps somebody who ends it.
LEMMA CloseStep == Shape /\ CloseInv /\ [Next]_vars => CloseInv'
  BY RetiredStep, UnlistedStep, ReturnedStep DEF CloseInv

\* No owner task at the start.
LEMMA CloseInit == Init => CloseInv
  BY DEF Init, CloseInv, Stopped

-----------------------------------------------------------------------------
(* The theorems.                                                           *)

GraphInv == /\ Shape /\ QueueInv /\ PinInv /\ DescribeInv
            /\ UsedStaysOpen /\ OneSessionPerRoot /\ TrimmedInv /\ CloseInv

\* Every state of the client satisfies the inductive invariant: who holds which lock,
\* what waits in which queue, which sessions are pinned and who closes the others.
THEOREM GraphInvariant == Spec => []GraphInv
<1>1. Init => GraphInv
  <2>1. Init => UsedStaysOpen /\ OneSessionPerRoot
    BY DEF Init, UsedStaysOpen, Using, OneSessionPerRoot, Resident
  <2> QED BY <2>1, ShapeInit, QueueInit, PinInit, DescribeInit, TrimmedInit, CloseInit DEF GraphInv
<1>2. GraphInv /\ [Next]_vars => GraphInv'
  BY ShapeStep, QueueStep, PinStep, DescribeStep, UsedStep, RootStep, TrimmedStep, CloseStep DEF GraphInv
<1> QED BY <1>1, <1>2, PTL DEF Spec

\* The variables stay in their types; active_calls and _pending_operations are never
\* negative, which no assignment shows.
THEOREM GraphTypes == Spec => []TypeOK
<1>1. GraphInv => TypeOK
  <2> SUFFICES ASSUME GraphInv
               PROVE  TypeOK
    OBVIOUS
  <2>1. Types
    BY DEF GraphInv, Shape
  <2>2. active \in [Session -> Nat]
    <3>1. \A s \in Session : active[s] \in Int /\ active[s] >= Cardinality(Pinned(s))
      BY <2>1 DEF GraphInv, PinInv, Types
    <3>2. \A s \in Session : active[s] \in Nat
      BY <3>1, PinnedFinite
    <3> QED BY <2>1, <3>2 DEF Types
  <2>3. pending \in [Session -> Nat]
    <3>1. ASSUME NEW s \in Session
          PROVE  pending[s] \in Nat
      <4>1. Cardinality(Requests(queue[s])) \in Nat
        BY <2>1, QueueTypes
      <4> QED BY <4>1 DEF GraphInv, QueueInv, QueueAt
    <3> QED BY <2>1, <3>1 DEF Types
  <2>4. \A s \in Session : InQueue(s) \subseteq Caller \cup {Closer}
    BY <2>1, QueueTypes DEF Entry
  <2>5. pc \in [Caller -> {"idle", "lock", "starting", "checking", "aborting", "evicting", "enter",
                           "restart", "asked", "leave", "retiring", "over"}]
    BY <2>1 DEF Types, Pcs, Working
  <2> QED BY <2>1, <2>2, <2>3, <2>4, <2>5 DEF Types, TypeOK
<1> QED BY <1>1, GraphInvariant, PTL

\* _pending_operations counts what is queued and what is in flight, whichever way the
\* operations and the owner task end.
THEOREM PendingStaysExact == Spec => []PendingExact
<1>1. GraphInv => PendingExact
  BY DEF GraphInv, QueueInv, QueueAt, Requests, PendingExact
<1> QED BY <1>1, GraphInvariant, PTL

\* No session is evicted or closed under a call that uses it.
THEOREM UsedStaysOpenAlways == Spec => []UsedStaysOpen
<1>1. GraphInv => UsedStaysOpen
  BY DEF GraphInv
<1> QED BY <1>1, GraphInvariant, PTL

\* Concurrent calls for a root never create two sessions for it.
THEOREM RootsStaySingle == Spec => []OneSessionPerRoot
<1>1. GraphInv => OneSessionPerRoot
  BY DEF GraphInv
<1> QED BY <1>1, GraphInvariant, PTL

\* The trims that the ends of calls and operations schedule are enough to keep the
\* resident sessions within the configured bound, those at work excepted.
THEOREM ResidencyStaysBounded == Spec => []ResidencyBounded
<1>1. GraphInv => ResidencyBounded
  BY DEF GraphInv, TrimmedInv, Within, ResidencyBounded
<1> QED BY <1>1, GraphInvariant, PTL

\* When close() returns every owner task has ended, but those a failed retire task
\* has left.
THEOREM CloseIsComplete == Spec => []CloseComplete
<1>1. GraphInv => CloseComplete
  <2> SUFFICES ASSUME GraphInv, phase = "returned", NEW s \in Session, ~Stopped(s)
               PROVE  s \in failed
    BY DEF CloseComplete
  <2>1. batches = {} /\ late = {} /\ closed /\ Resident = {}
    BY DEF GraphInv, CloseInv, Shape, ShutInv, closed
  <2>2. \A c \in Caller : pc[c] \notin Creating
    BY <2>1 DEF GraphInv, Shape, CreateInv, CreateAt
  <2>3. status[s] # "new"
    BY DEF GraphInv, Shape, ShutInv
  <2>4. status[s] # "unlisted"
    BY <2>1, <2>2 DEF GraphInv, CloseInv
  <2>5. status[s] = "retired"
    BY <2>1, <2>3, <2>4 DEF GraphInv, Shape, Types, Resident
  <2> QED BY <2>1, <2>5 DEF GraphInv, CloseInv
<1> QED BY <1>1, GraphInvariant, PTL

\* Before shutdown a step evicts only sessions without work, counted as the step
\* leaves them; once closed and ended, no session is started again, although a
\* caller restarts the owner of any other.
THEOREM EvictsOnlyIdle ==
  Spec => [][/\ ~closed' => \A s \in Session : status[s] # "retired" /\ status'[s] = "retired" => ~Busy(active', s)
             /\ \A s \in shut : Stopped(s) => s \in shut' /\ Stopped(s)']_vars
<1>1. GraphInv /\ [Next]_vars =>
        [/\ ~closed' => \A s \in Session : status[s] # "retired" /\ status'[s] = "retired" => ~Busy(active', s)
         /\ \A s \in shut : Stopped(s) => s \in shut' /\ Stopped(s)']_vars
  <2> SUFFICES ASSUME GraphInv, [Next]_vars
               PROVE  /\ ~closed' => \A s \in Session :
                            status[s] # "retired" /\ status'[s] = "retired" => ~Busy(active', s)
                      /\ \A s \in shut : Stopped(s) => s \in shut' /\ Stopped(s)'
    OBVIOUS
  <2>1. Shape /\ shut \subseteq Session
    BY DEF GraphInv, Shape, Types
  <2>2. ASSUME NEW s \in shut, Stopped(s)
        PROVE  s \in shut' /\ Stopped(s)'
    BY <2>1, <2>2, ShutStays, OwnerStarts DEF Shape, ShutInv
  <2>3. ~closed' => \A s \in Session : status[s] # "retired" /\ status'[s] = "retired" => ~Busy(active', s)
    BY <2>1, EvictedIsIdle
  <2> QED BY <2>2, <2>3
<1> QED BY <1>1, GraphInvariant, PTL DEF Spec
=============================================================================
