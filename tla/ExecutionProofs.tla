--------------------------- MODULE ExecutionProofs ---------------------------
(***************************************************************************)
(* Proofs about ExecutionPromises, for any calls, descendants and slots.   *)
(***************************************************************************)
EXTENDS ExecutionPromises, FiniteSetTheorems, TLAPS

-----------------------------------------------------------------------------
(* Types. *)

\* What the two halves of a termination and a cancellation do to the types.
LEMMA SigTermType ==
  ASSUME TypeOK, NEW S, SigTerm(S)
  PROVE  /\ worker' \in [Call -> {"none", "launching", "failed", "waiting", "running", "dead"}]
         /\ kid' = kid /\ parent' = parent
         /\ known' \subseteq Kid /\ termed' \subseteq Kid
BY DEF SigTerm, TypeOK, Kids

\* A cancellation keeps the types.
LEMMA ThrowType ==
  ASSUME TypeOK, NEW S, Throw(S)
  PROVE  /\ pc' \in [Call -> DOMAIN Thrown]
         /\ saw' = saw /\ active' = active
<1>1. \A x \in DOMAIN Thrown : Thrown[x] \in DOMAIN Thrown
  BY DEF Thrown
<1>2. \A c \in Call : pc[c] \in DOMAIN Thrown
  BY DEF TypeOK
<1> QED BY <1>1, <1>2 DEF Throw

\* Every step keeps the types.
LEMMA TypeStep == TypeOK /\ [Next]_vars => TypeOK'
<1> SUFFICES ASSUME TypeOK, [Next]_vars
             PROVE  TypeOK'
  OBVIOUS
<1>0. DOMAIN Thrown = {"idle", "over", "queued", "launching", "salvaging", "running", "terminating", "killing"}
  BY DEF Thrown
<1>1. ASSUME NEW c \in Call, Arrive(c) \/ Acquire(c)
      PROVE  TypeOK'
  BY <1>0, <1>1 DEF TypeOK, Arrive, Acquire, Launch, closing
<1>2. ASSUME NEW c \in Call, Launched(c)
      PROVE  TypeOK'
  <2>1. CASE Closed
    BY <1>0, <1>2, <2>1, SigTermType DEF TypeOK, Launched, closing
  <2>2. CASE ~Closed
    BY <1>0, <1>2, <2>2 DEF TypeOK, Launched, closing
  <2> QED BY <2>1, <2>2
<1>3. ASSUME NEW c \in Call, Salvaged(c)
      PROVE  TypeOK'
  BY <1>0, <1>3, SigTermType DEF TypeOK, Salvaged, closing
<1>4. ASSUME NEW c \in Call, LaunchFailed(c) \/ Reaped(c)
      PROVE  TypeOK'
  BY <1>0, <1>4 DEF TypeOK, LaunchFailed, Reaped, processes, closing
<1>5. ASSUME NEW S, Throw(S), armed' \subseteq armed, UNCHANGED closing
      PROVE  TypeOK'
  BY <1>5, ThrowType, SigTermType DEF TypeOK, Throw, closing
<1>6. ASSUME NEW c \in Call, RunEnds(c) \/ Deadline(c) \/ Disconnect(c)
      PROVE  TypeOK'
  BY <1>5, <1>6 DEF RunEnds, Deadline, Disconnect
<1>7. ASSUME NEW c \in Call, SigKill(c), pc' \in [Call -> DOMAIN Thrown], UNCHANGED <<armed, saw, active>>,
             UNCHANGED <<todo, victim>>, phase' = phase \/ phase' = "killing"
      PROVE  TypeOK'
  BY <1>7 DEF TypeOK, SigKill
<1>8. ASSUME NEW c \in Call, Kill(c)
      PROVE  TypeOK'
  BY <1>0, <1>7, <1>8 DEF Kill, closing, TypeOK
<1>9. ASSUME NEW c \in Call, LaunchEnds(c) \/ WorkerExits(c)
      PROVE  TypeOK'
  BY <1>9 DEF TypeOK, LaunchEnds, WorkerExits, calls, closing
<1>10. ASSUME NEW k \in Kid, KidExits(k) \/ Track(k) \/ \E c \in Call : KidBorn(k, c)
       PROVE  TypeOK'
  BY <1>10 DEF TypeOK, KidExits, Track, KidBorn, calls, closing
<1>11. CASE CloseBegins
  BY <1>11, ThrowType, SigTermType DEF TypeOK, CloseBegins, Throw
<1>12. CASE Gathered \/ CloseReaped \/ CloseEnds
  BY <1>12 DEF TypeOK, Gathered, CloseReaped, CloseEnds, calls, processes
<1>13. ASSUME NEW c \in Call, CloseTerm(c)
       PROVE  TypeOK'
  BY <1>13, SigTermType DEF TypeOK, CloseTerm, calls
<1>14. CASE CloseKill
  <2>1. CASE victim \in Call
    BY <1>7, <1>14, <2>1 DEF CloseKill, calls, TypeOK
  <2>2. CASE victim = None
    <3>1. SigKill(victim) /\ UNCHANGED <<calls, todo, victim>> /\ phase' = "killing"
      BY <1>14 DEF CloseKill
    <3>2. worker' \in [Call -> {"none", "launching", "failed", "waiting", "running", "dead"}]
      BY <2>2, <3>1, ExecutionAssumption DEF SigKill, TypeOK, ExecutionAssumption
    <3> QED BY <3>1, <3>2 DEF SigKill, TypeOK, calls
  <2> QED BY <2>1, <2>2 DEF TypeOK
<1>15. CASE CloseCancelled
  <2>1. CASE phase = "gathering"
    BY <1>15, <2>1, ThrowType, SigTermType DEF TypeOK, CloseCancelled, Throw
  <2>2. CASE phase # "gathering"
    BY <1>15, <2>2 DEF TypeOK, CloseCancelled, calls, processes
  <2> QED BY <2>1, <2>2
<1>16. CASE UNCHANGED vars
  BY <1>16 DEF TypeOK, vars, calls, processes, closing
<1> QED BY <1>1, <1>2, <1>3, <1>4, <1>6, <1>8, <1>9, <1>10, <1>11, <1>12, <1>13, <1>14, <1>15, <1>16 DEF Next

\* TypeOK: every variable keeps its type.
THEOREM Typing == Spec => []TypeOK
<1>1. Init => TypeOK
  BY DEF Init, TypeOK, Thrown
<1> QED BY <1>1, TypeStep, PTL DEF Spec

-----------------------------------------------------------------------------
(* The inductive invariant. *)

\* What a call says of its worker, its entry and its descendants.
CallInv ==
    /\ active \subseteq saw
    /\ \A c \in Call :
        /\ pc[c] \in {"idle", "queued"} => worker[c] = "none"
        /\ c \in saw => worker[c] \in {"running", "dead"}
                        /\ pc[c] \in {"running", "terminating", "killing", "over"}
        /\ pc[c] \in {"running", "terminating", "killing"} => c \in saw
        /\ pc[c] = "running" => c \in active
        /\ worker[c] = "running" => c \in saw

\* A descendant is signalled only when it is known, and known only when it was
\* born, to a worker that got its code.
KidInv == /\ termed \subseteq known
          /\ \A k \in Kid : IF kid[k] = "unborn" THEN k \notin known ELSE parent[k] \in saw

\* After SIGKILL nothing signalled is left; and a call whose process is not in the
\* table never had anything to leave, or has terminated it.
CleanupInv ==
    /\ \A c \in Call : pc[c] = "killing" => TreeDead(c)
    /\ \A c \in saw \ active : TreeDead(c)

\* Once close() has gathered the calls, what it has not on its list is dead.
CloseInv ==
    /\ phase \in {"choosing", "terminating", "killing", "closed"} =>
        /\ \A c \in Call : pc[c] \in {"idle", "over"}
        /\ todo \subseteq active
        /\ \A c \in active \ todo : TreeDead(c)
    /\ phase \in {"terminating", "killing"} => victim \in todo
    /\ phase = "killing" => TreeDead(victim)
    /\ phase = "closed" => todo = {}

SlotInv == Cardinality(Holding) <= MaxConcurrent

ExecInv == TypeOK /\ CallInv /\ KidInv /\ CleanupInv /\ CloseInv /\ SlotInv

-----------------------------------------------------------------------------
(* The calls and the descendants. *)

\* The states of a call, spelled out.
LEMMA States ==
  DOMAIN Thrown = {"idle", "over", "queued", "launching", "salvaging", "running", "terminating", "killing"}
BY DEF Thrown

\* A cancellation ends a call or sends a running one to its cleanup.
LEMMA ThrowCalls ==
  ASSUME TypeOK, CallInv, NEW S, Throw(S)
  PROVE  CallInv'
<1>1. saw' = saw /\ active' = active
  BY DEF Throw
<1>2. ASSUME NEW c \in Call
      PROVE  /\ \/ pc'[c] = pc[c]
                \/ pc'[c] = "over" /\ pc[c] \notin {"running", "idle"}
                \/ pc'[c] = "salvaging" /\ pc[c] = "launching"
                \/ pc'[c] = "terminating" /\ pc[c] = "running"
             /\ worker'[c] = worker[c] \/ (worker[c] = "waiting" /\ pc[c] = "running")
  BY States DEF Throw, SigTerm, Thrown, TypeOK
<1> QED BY <1>1, <1>2 DEF CallInv, TypeOK

\* Every step keeps what the state of a call says of its worker and its entry.
LEMMA CallStep == TypeOK /\ CallInv /\ CloseInv /\ [Next]_vars => CallInv'
<1> SUFFICES ASSUME TypeOK, CallInv, CloseInv, [Next]_vars
             PROVE  CallInv'
  OBVIOUS
<1>1. ASSUME NEW c \in Call, Arrive(c) \/ Acquire(c)
      PROVE  CallInv'
  BY <1>1 DEF CallInv, TypeOK, Arrive, Acquire, Launch
<1>2. ASSUME NEW c \in Call, Launched(c)
      PROVE  CallInv'
  <2>1. saw' = saw \cup {c} /\ active' = active \cup {c}
    BY <1>2 DEF Launched
  <2>2. ASSUME NEW d \in Call
        PROVE  IF d = c THEN pc'[d] \in {"terminating", "running"} ELSE pc'[d] = pc[d]
    BY <1>2 DEF Launched, TypeOK
  <2>3. ASSUME NEW d \in Call
        PROVE  IF d = c THEN worker'[d] \in {"running", "dead"} ELSE worker'[d] = worker[d]
    BY <1>2 DEF Launched, SigTerm, TypeOK
  <2> QED BY <2>1, <2>2, <2>3 DEF CallInv
<1>3. ASSUME NEW c \in Call, Salvaged(c)
      PROVE  CallInv'
  <2>1. worker'[c] = "dead" /\ \A d \in Call \ {c} : worker'[d] = worker[d]
    BY <1>3 DEF Salvaged, SigTerm, TypeOK
  <2> QED BY <1>3, <2>1 DEF Salvaged, CallInv, TypeOK
<1>4. ASSUME NEW c \in Call, LaunchFailed(c) \/ Reaped(c)
      PROVE  CallInv'
  BY <1>4 DEF CallInv, TypeOK, LaunchFailed, Reaped, processes
<1>5. ASSUME NEW S, Throw(S)
      PROVE  CallInv'
  BY <1>5, ThrowCalls
<1>6. ASSUME NEW c \in Call, RunEnds(c) \/ Deadline(c) \/ Disconnect(c)
      PROVE  CallInv'
  BY <1>5, <1>6 DEF RunEnds, Deadline, Disconnect
<1>7. ASSUME NEW c \in Call, Kill(c)
      PROVE  CallInv'
  BY <1>7 DEF CallInv, TypeOK, Kill, SigKill
<1>8. ASSUME NEW c \in Call, LaunchEnds(c) \/ WorkerExits(c)
      PROVE  CallInv'
  BY <1>8 DEF CallInv, TypeOK, LaunchEnds, WorkerExits, calls, Alive
<1>9. ASSUME NEW k \in Kid, KidExits(k) \/ Track(k) \/ \E c \in Call : KidBorn(k, c)
      PROVE  CallInv'
  BY <1>9 DEF CallInv, KidExits, Track, KidBorn, calls
<1>10. CASE CloseBegins \/ CloseCancelled
  <2>1. Throw(Call) \/ UNCHANGED <<calls, processes>>
    BY <1>10 DEF CloseBegins, CloseCancelled
  <2> QED BY <1>5, <2>1 DEF CallInv, calls, processes
<1>11. CASE Gathered \/ CloseReaped \/ CloseEnds
  BY <1>11 DEF CallInv, Gathered, CloseReaped, CloseEnds, calls, processes
<1>12. ASSUME NEW c \in Call, CloseTerm(c)
       PROVE  CallInv'
  <2>1. ASSUME NEW d \in Call
        PROVE  worker'[d] = worker[d] \/ (worker[d] = "waiting" /\ worker'[d] = "dead")
    BY <1>12 DEF CloseTerm, SigTerm
  <2> QED BY <1>12, <2>1 DEF CallInv, CloseTerm, calls
<1>13. CASE CloseKill
  <2>1. victim \in saw /\ victim \in Call
    BY <1>13 DEF CloseKill, CloseInv, CallInv, TypeOK
  <2> QED BY <1>13, <2>1 DEF CloseKill, SigKill, CallInv, TypeOK, calls
<1>14. CASE UNCHANGED vars
  BY <1>14 DEF CallInv, vars, calls, processes
<1> QED BY <1>1, <1>2, <1>3, <1>4, <1>6, <1>7, <1>8, <1>9, <1>10, <1>11, <1>12, <1>13, <1>14 DEF Next

\* SIGTERM goes to known descendants, which were all born.
LEMMA SigTermKids ==
  ASSUME TypeOK, KidInv, NEW S, SigTerm(S)
  PROVE  /\ kid' = kid /\ parent' = parent
         /\ termed' \subseteq known'
         /\ \A k \in Kid : kid[k] = "unborn" => k \notin known'
BY DEF SigTerm, KidInv, Kids

\* Every step keeps what is known of the descendants.
LEMMA KidStep == TypeOK /\ CallInv /\ KidInv /\ [Next]_vars => KidInv'
<1> SUFFICES ASSUME TypeOK, CallInv, KidInv, [Next]_vars
             PROVE  KidInv'
  OBVIOUS
<1>1. ASSUME NEW S, SigTerm(S), saw \subseteq saw'
      PROVE  KidInv'
  BY <1>1, SigTermKids DEF KidInv
<1>2. ASSUME NEW c, SigKill(c), saw' = saw
      PROVE  KidInv'
  <2>1. ASSUME NEW k \in Kid
        PROVE  kid'[k] = "unborn" <=> kid[k] = "unborn"
    BY <1>2 DEF SigKill, Kids, TypeOK
  <2> QED BY <1>2, <2>1 DEF SigKill, KidInv
<1>3. ASSUME UNCHANGED <<saw, kid, parent, known, termed>>
      PROVE  KidInv'
  BY <1>3 DEF KidInv
<1>4. ASSUME NEW c \in Call, Launched(c)
      PROVE  KidInv'
  <2>1. SigTerm({c}) \/ UNCHANGED <<kid, parent, known, termed>>
    BY <1>4 DEF Launched
  <2>2. saw \subseteq saw'
    BY <1>4 DEF Launched
  <2> QED BY <1>1, <2>1, <2>2 DEF KidInv
<1>5. ASSUME NEW c \in Call, WorkerExits(c)
      PROVE  KidInv'
  <2>1. ASSUME NEW k \in Kid
        PROVE  kid'[k] = "unborn" <=> kid[k] = "unborn"
    BY <1>5 DEF WorkerExits, Kids, TypeOK
  <2> QED BY <1>5, <2>1 DEF WorkerExits, KidInv, calls
<1>6. ASSUME NEW k \in Kid, NEW c \in Call, KidBorn(k, c)
      PROVE  KidInv'
  <2>1. c \in saw
    BY <1>6 DEF KidBorn, CallInv, KidInv, Kids
  <2> QED BY <1>6, <2>1 DEF KidBorn, KidInv, TypeOK, calls
<1>7. ASSUME NEW k \in Kid, KidExits(k) \/ Track(k)
      PROVE  KidInv'
  BY <1>7 DEF KidExits, Track, KidInv, TypeOK, calls
<1>8. ASSUME NEW c \in Call,
             \/ Arrive(c) \/ Acquire(c) \/ Salvaged(c) \/ LaunchFailed(c) \/ RunEnds(c) \/ Kill(c)
             \/ Reaped(c) \/ Deadline(c) \/ Disconnect(c) \/ LaunchEnds(c) \/ CloseTerm(c)
      PROVE  KidInv'
  <2>1. CASE Arrive(c) \/ Acquire(c) \/ LaunchFailed(c) \/ Reaped(c) \/ LaunchEnds(c)
    BY <1>3, <2>1 DEF Arrive, Acquire, LaunchFailed, Reaped, LaunchEnds, processes, calls
  <2>2. CASE RunEnds(c) \/ Deadline(c) \/ Disconnect(c)
    BY <1>1, <2>2 DEF RunEnds, Deadline, Disconnect, Throw
  <2>3. CASE Salvaged(c) \/ CloseTerm(c)
    BY <1>1, <2>3 DEF Salvaged, CloseTerm, calls
  <2>4. CASE Kill(c)
    BY <1>2, <2>4 DEF Kill
  <2> QED BY <1>8, <2>1, <2>2, <2>3, <2>4
<1>9. CASE CloseBegins \/ CloseCancelled
  <2>1. Throw(Call) \/ UNCHANGED <<calls, processes>>
    BY <1>9 DEF CloseBegins, CloseCancelled
  <2> QED BY <1>1, <1>3, <2>1 DEF Throw, calls, processes
<1>10. CASE Gathered \/ CloseReaped \/ CloseEnds \/ UNCHANGED vars
  BY <1>3, <1>10 DEF Gathered, CloseReaped, CloseEnds, calls, processes, vars
<1>11. CASE CloseKill
  BY <1>2, <1>11 DEF CloseKill, calls
<1> QED BY <1>4, <1>5, <1>6, <1>7, <1>8, <1>9, <1>10, <1>11 DEF Next

-----------------------------------------------------------------------------
(* A dead tree stays dead: its worker does not come back, and nobody signals *)
(* a descendant of it unless its call runs or close() picks its entry.       *)

\* Every descendant that a step newly signals belongs to such a call.
Fresh(c) == \E k \in termed' : parent'[k] = c /\ kid'[k] = "alive"
                               /\ ~(k \in termed /\ parent[k] = c /\ kid[k] = "alive")

\* SIGTERM brings no process to life.
LEMMA SigTermFresh ==
  ASSUME TypeOK, KidInv, NEW S, SigTerm(S), NEW c \in Call, c \notin S \/ c \notin saw
  PROVE  ~Fresh(c) /\ (worker[c] = "dead" => worker'[c] = "dead")
BY DEF SigTerm, Fresh, Kids, KidInv, TypeOK

\* SIGKILL brings no process to life.
LEMMA SigKillFresh ==
  ASSUME TypeOK, NEW d, SigKill(d), NEW c \in Call
  PROVE  ~Fresh(c) /\ (worker[c] = "dead" => worker'[c] = "dead")
BY DEF SigKill, Fresh, Kids, TypeOK

\* No step brings a process of a dead tree to life or adds one to it.
LEMMA TreeSteps ==
  ASSUME TypeOK, CallInv, KidInv, [Next]_vars, NEW c \in Call, pc[c] # "running",
         phase = "choosing" => c \notin todo
  PROVE  ~Fresh(c) /\ (worker[c] = "dead" => worker'[c] = "dead")
<1>1. ASSUME NEW S, SigTerm(S), c \notin S \/ c \notin saw
      PROVE  ~Fresh(c) /\ (worker[c] = "dead" => worker'[c] = "dead")
  BY <1>1, SigTermFresh
<1>2. ASSUME NEW S, Throw(S)
      PROVE  ~Fresh(c) /\ (worker[c] = "dead" => worker'[c] = "dead")
  BY <1>1, <1>2 DEF Throw
<1>3. ASSUME UNCHANGED <<kid, parent, termed>>, worker[c] = "dead" => worker'[c] = "dead"
      PROVE  ~Fresh(c) /\ (worker[c] = "dead" => worker'[c] = "dead")
  BY <1>3 DEF Fresh
<1>4. ASSUME NEW d \in Call, Arrive(d) \/ Acquire(d)
      PROVE  ~Fresh(c) /\ (worker[c] = "dead" => worker'[c] = "dead")
  BY <1>3, <1>4 DEF Arrive, Acquire, Launch, CallInv, TypeOK
<1>5. ASSUME NEW d \in Call, Launched(d)
      PROVE  ~Fresh(c) /\ (worker[c] = "dead" => worker'[c] = "dead")
  <2>1. CASE Closed
    <3>1. SigTerm({d}) /\ d \notin saw
      BY <1>5, <2>1 DEF Launched, CallInv
    <3> QED BY <1>1, <3>1
  <2>2. CASE ~Closed
    BY <1>3, <1>5, <2>2 DEF Launched, TypeOK
  <2> QED BY <2>1, <2>2
<1>6. ASSUME NEW d \in Call, Salvaged(d)
      PROVE  ~Fresh(c) /\ (worker[c] = "dead" => worker'[c] = "dead")
  <2>1. SigTerm({d}) /\ d \notin saw
    BY <1>6 DEF Salvaged, CallInv
  <2> QED BY <1>1, <2>1
<1>7. ASSUME NEW d \in Call, LaunchFailed(d) \/ Reaped(d) \/ LaunchEnds(d)
      PROVE  ~Fresh(c) /\ (worker[c] = "dead" => worker'[c] = "dead")
  BY <1>3, <1>7 DEF LaunchFailed, Reaped, LaunchEnds, processes, TypeOK
<1>8. ASSUME NEW d \in Call, RunEnds(d) \/ Deadline(d) \/ Disconnect(d)
      PROVE  ~Fresh(c) /\ (worker[c] = "dead" => worker'[c] = "dead")
  BY <1>2, <1>8 DEF RunEnds, Deadline, Disconnect
<1>9. ASSUME NEW d \in Call, Kill(d)
      PROVE  ~Fresh(c) /\ (worker[c] = "dead" => worker'[c] = "dead")
  BY <1>9, SigKillFresh DEF Kill
<1>10. ASSUME NEW d \in Call, WorkerExits(d)
       PROVE  ~Fresh(c) /\ (worker[c] = "dead" => worker'[c] = "dead")
  BY <1>10 DEF WorkerExits, Fresh, TypeOK
<1>11. ASSUME NEW k \in Kid, KidExits(k) \/ Track(k) \/ \E d \in Call : KidBorn(k, d)
       PROVE  ~Fresh(c) /\ (worker[c] = "dead" => worker'[c] = "dead")
  BY <1>11 DEF KidExits, Track, KidBorn, Fresh, TypeOK, KidInv
<1>12. ASSUME NEW d \in Call, CloseTerm(d)
       PROVE  ~Fresh(c) /\ (worker[c] = "dead" => worker'[c] = "dead")
  BY <1>1, <1>12 DEF CloseTerm
<1>13. CASE CloseBegins \/ CloseCancelled
  <2>1. Throw(Call) \/ UNCHANGED <<calls, processes>>
    BY <1>13 DEF CloseBegins, CloseCancelled
  <2> QED BY <1>2, <1>3, <2>1 DEF processes
<1>14. CASE CloseKill
  BY <1>14, SigKillFresh DEF CloseKill
<1>15. CASE Gathered \/ CloseReaped \/ CloseEnds \/ UNCHANGED vars
  BY <1>3, <1>15 DEF Gathered, CloseReaped, CloseEnds, processes, vars
<1> QED BY <1>4, <1>5, <1>6, <1>7, <1>8, <1>9, <1>10, <1>11, <1>12, <1>13, <1>14, <1>15 DEF Next

\* A tree that is dead stays dead.
LEMMA TreeStays ==
  ASSUME TypeOK, CallInv, KidInv, [Next]_vars, NEW c \in saw, pc[c] # "running",
         phase = "choosing" => c \notin todo, TreeDead(c)
  PROVE  TreeDead(c)'
<1>1. c \in Call
  BY DEF TypeOK
<1>2. worker[c] = "dead"
  BY <1>1 DEF TreeDead, Alive, CallInv
<1> QED BY <1>1, <1>2, TreeSteps DEF TreeDead, Alive, Fresh

\* SIGKILL reaches everything SIGTERM was sent to.
LEMMA KillTree ==
  ASSUME TypeOK, KidInv, NEW c \in Call, SigKill(c)
  PROVE  TreeDead(c)'
BY DEF SigKill, TreeDead, Alive, Kids, KidInv, TypeOK

\* Every step keeps what the stages of a cleanup have established.
LEMMA CleanupStep ==
  TypeOK /\ CallInv /\ KidInv /\ CleanupInv /\ CloseInv /\ [Next]_vars => CleanupInv'
<1> SUFFICES ASSUME TypeOK, CallInv, KidInv, CleanupInv, CloseInv, [Next]_vars
             PROVE  CleanupInv'
  OBVIOUS
<1>1. ASSUME NEW c \in Call, pc'[c] = "killing"
      PROVE  TreeDead(c)'
  <2>1. CASE pc[c] = "killing"
    BY <2>1, TreeStays DEF CleanupInv, CloseInv, CallInv
  <2>2. CASE pc[c] # "killing"
    <3>1. ASSUME NEW S, Throw(S)
          PROVE  FALSE
      BY <1>1, <2>2, <3>1, States DEF Throw, Thrown, TypeOK
    <3>2. Kill(c)
      BY <1>1, <2>2, <3>1 DEF Next, Arrive, Acquire, Launch, Launched, Salvaged, LaunchFailed,
            RunEnds, Kill, Reaped, Deadline, Disconnect, LaunchEnds, WorkerExits, KidBorn, KidExits,
            Track, CloseBegins, Gathered, CloseTerm, CloseKill, CloseReaped, CloseEnds,
            CloseCancelled, vars, calls, TypeOK
    <3> QED BY <3>2, KillTree DEF Kill
  <2> QED BY <2>1, <2>2
<1>2. ASSUME NEW c \in saw', c \notin active'
      PROVE  TreeDead(c)'
  <2>1. CASE c \in saw /\ c \notin active
    BY <2>1, TreeStays DEF CleanupInv, CallInv, CloseInv, TypeOK
  <2>2. CASE c \in active
    <3>1. ASSUME NEW S, Throw(S)
          PROVE  FALSE
      BY <1>2, <2>2, <3>1 DEF Throw
    <3>2. c \in Call /\ c \in saw
      BY <2>2 DEF CallInv, TypeOK
    <3>3. Reaped(c)
      BY <1>2, <2>2, <3>1 DEF Next, Arrive, Acquire, Launched, Salvaged, LaunchFailed,
            RunEnds, Kill, Reaped, Deadline, Disconnect, LaunchEnds, WorkerExits, KidBorn, KidExits,
            Track, CloseBegins, Gathered, CloseTerm, CloseKill, CloseReaped, CloseEnds,
            CloseCancelled, vars, calls
    <3> QED BY <3>2, <3>3, TreeStays DEF Reaped, CleanupInv, CloseInv
  <2>3. CASE c \notin saw
    <3>1. ASSUME NEW S, Throw(S)
          PROVE  FALSE
      BY <1>2, <2>3, <3>1 DEF Throw
    <3>2. c \in Call /\ Salvaged(c)
      BY <1>2, <2>3, <3>1 DEF Next, Arrive, Acquire, Launched, Salvaged, LaunchFailed,
            RunEnds, Kill, Reaped, Deadline, Disconnect, LaunchEnds, WorkerExits, KidBorn, KidExits,
            Track, CloseBegins, Gathered, CloseTerm, CloseKill, CloseReaped, CloseEnds,
            CloseCancelled, vars, calls
    <3>3. worker'[c] = "dead"
      BY <3>2 DEF Salvaged, SigTerm, TypeOK
    <3>4. ASSUME NEW k \in termed', parent'[k] = c
          PROVE  kid'[k] # "alive"
      BY <2>3, <3>2, <3>4, SigTermKids DEF Salvaged, KidInv, SigTerm, TypeOK, Kids
    <3> QED BY <3>3, <3>4 DEF TreeDead, Alive
  <2> QED BY <2>1, <2>2, <2>3
<1> QED BY <1>1, <1>2 DEF CleanupInv

-----------------------------------------------------------------------------
(* Shutdown and the slots. *)

Late == phase \in {"choosing", "terminating", "killing", "closed"}

\* Once close() has gathered the calls nothing but processes and close() moves.
LEMMA LateSteps ==
  ASSUME TypeOK, CloseInv, Late, [Next]_vars
  PROVE  /\ UNCHANGED <<pc, active>>
         /\ \/ UNCHANGED closing
            \/ \E c \in Call : CloseTerm(c)
            \/ CloseKill \/ CloseReaped \/ CloseEnds
            \/ phase' = "interrupted"
<1> USE DEF Late
<1>1. \A c \in Call : pc[c] \in {"idle", "over"}
  BY DEF CloseInv
<1>2. ASSUME NEW c \in Call
      PROVE  ~(\/ Arrive(c) \/ Acquire(c) \/ Launched(c) \/ Salvaged(c) \/ LaunchFailed(c) \/ RunEnds(c)
               \/ Kill(c) \/ Reaped(c) \/ Deadline(c) \/ Disconnect(c))
  BY <1>1 DEF Arrive, Acquire, Launched, Salvaged, LaunchFailed, RunEnds, Kill, Reaped, Deadline,
        Disconnect, Closed
<1>3. ~CloseBegins /\ ~Gathered
  BY DEF CloseBegins, Gathered
<1>4. ASSUME NEW c \in Call, LaunchEnds(c) \/ WorkerExits(c) \/ CloseTerm(c)
      PROVE  UNCHANGED <<pc, active>> /\ (UNCHANGED closing \/ CloseTerm(c))
  BY <1>4 DEF LaunchEnds, WorkerExits, CloseTerm, calls
<1>5. ASSUME NEW k \in Kid, KidExits(k) \/ Track(k) \/ \E c \in Call : KidBorn(k, c)
      PROVE  UNCHANGED <<pc, active, closing>>
  BY <1>5 DEF KidExits, Track, KidBorn, calls
<1>6. ASSUME CloseKill \/ CloseReaped \/ CloseEnds \/ CloseCancelled
      PROVE  UNCHANGED <<pc, active>> /\ (CloseCancelled => phase' = "interrupted")
  BY <1>6 DEF CloseKill, CloseReaped, CloseEnds, CloseCancelled, calls
<1>7. CASE UNCHANGED vars
  BY <1>7 DEF vars, calls
<1> QED BY <1>2, <1>3, <1>4, <1>5, <1>6, <1>7 DEF Next

\* Every step keeps what the phases of close() have established.
LEMMA CloseStep ==
  TypeOK /\ CallInv /\ KidInv /\ CleanupInv /\ CloseInv /\ [Next]_vars => CloseInv'
<1> SUFFICES ASSUME TypeOK, CallInv, KidInv, CleanupInv, CloseInv, [Next]_vars
             PROVE  CloseInv'
  OBVIOUS
<1>1. CASE Late
  <2> USE <1>1 DEF Late
  <2>1. UNCHANGED <<pc, active>> /\ active \subseteq saw /\ active \subseteq Call
    BY LateSteps DEF CallInv, TypeOK
  <2>2. ASSUME NEW c \in active \ todo
        PROVE  TreeDead(c)'
    BY <2>1, <2>2, TreeStays DEF CloseInv
  <2>3. phase # "choosing" => \A c \in active : TreeDead(c) => TreeDead(c)'
    BY <2>1, TreeStays DEF CloseInv
  <2>4. CASE UNCHANGED closing
    BY <2>1, <2>2, <2>3, <2>4 DEF CloseInv, closing
  <2>5. CASE phase' = "interrupted"
    BY <2>5 DEF CloseInv
  <2>6. ASSUME NEW c \in Call, CloseTerm(c)
        PROVE  CloseInv'
    BY <2>1, <2>2, <2>6 DEF CloseInv, CloseTerm
  <2>7. CASE CloseKill
    <3>1. victim \in Call /\ TreeDead(victim)' /\ victim' = victim
      BY <2>1, <2>7, KillTree DEF CloseInv, CloseKill
    <3>2. phase' = "killing" /\ todo' = todo
      BY <2>7 DEF CloseKill
    <3> QED BY <2>1, <2>2, <2>7, <3>1, <3>2 DEF CloseInv, CloseKill, TreeDead, Alive
  <2>8. CASE CloseReaped
    <3>1. PICK v \in active : v = victim /\ v \in todo /\ TreeDead(v)
      BY <2>1, <2>8 DEF CloseInv, CloseReaped
    <3>2. TreeDead(v)' /\ todo' = todo \ {v} /\ phase' = "choosing"
      BY <2>3, <2>8, <3>1 DEF CloseReaped
    <3> QED BY <2>1, <2>2, <3>2 DEF CloseInv
  <2>9. CASE CloseEnds
    BY <2>1, <2>2, <2>9 DEF CloseInv, CloseEnds
  <2> QED BY <2>4, <2>5, <2>6, <2>7, <2>8, <2>9, LateSteps
<1>2. CASE ~Late
  <2>1. CASE Gathered
    BY <2>1 DEF Gathered, CloseInv, calls
  <2>2. CASE ~Gathered
    <3>1. phase' = phase \/ phase' \in {"gathering", "interrupted"}
      BY <1>2, <2>2 DEF Late, Next, Arrive, Acquire, Launched, Salvaged, LaunchFailed,
            RunEnds, Kill, Reaped, Deadline, Disconnect, LaunchEnds, WorkerExits, KidBorn, KidExits,
            Track, CloseBegins, CloseTerm, CloseKill, CloseReaped, CloseEnds,
            CloseCancelled, vars, closing
    <3> QED BY <1>2, <3>1 DEF Late, CloseInv
  <2> QED BY <2>1, <2>2
<1> QED BY <1>1, <1>2

\* Slots are taken one at a time and only while there is one.
LEMMA SlotStep == TypeOK /\ SlotInv /\ [Next]_vars => SlotInv'
<1> SUFFICES ASSUME TypeOK, SlotInv, [Next]_vars
             PROVE  SlotInv'
  OBVIOUS
<1>1. IsFiniteSet(Holding) /\ IsFiniteSet(Holding') /\ Cardinality(Holding) \in Nat
  <2>1. Holding \in SUBSET Call /\ Holding' \in SUBSET Call
    BY DEF Holding
  <2> QED BY <2>1, FS_Subset, FS_CardinalityType, ExecutionAssumption DEF ExecutionAssumption
<1>2. ASSUME Holding' \subseteq Holding
      PROVE  SlotInv'
  BY <1>1, <1>2, FS_Subset, FS_CardinalityType, ExecutionAssumption DEF SlotInv, ExecutionAssumption
<1>3. ASSUME NEW S, Throw(S)
      PROVE  SlotInv'
  <2>1. ASSUME NEW c \in Call, c \in Holding'
        PROVE  c \in Holding
    BY <1>3, <2>1, States DEF Throw, Thrown, Holding, TypeOK
  <2> QED BY <1>2, <2>1 DEF Holding
<1>4. ASSUME pc' = pc
      PROVE  SlotInv'
  BY <1>2, <1>4 DEF Holding
<1>5. ASSUME NEW c \in Call, Arrive(c) \/ Acquire(c)
      PROVE  SlotInv'
  <2>1. CASE HasRoom
    <3>1. Holding' \subseteq Holding \cup {c}
      BY <1>5 DEF Holding, Arrive, Acquire, Launch, TypeOK
    <3>2. IsFiniteSet(Holding \cup {c})
      BY <1>1, FS_AddElement
    <3>3. \/ Cardinality(Holding \cup {c}) = Cardinality(Holding)
          \/ Cardinality(Holding \cup {c}) = Cardinality(Holding) + 1
      BY <1>1, FS_AddElement
    <3>4. Cardinality(Holding') <= Cardinality(Holding \cup {c}) /\ Cardinality(Holding') \in Nat
      BY <1>1, <3>1, <3>2, FS_Subset, FS_CardinalityType
    <3>5. Cardinality(Holding \cup {c}) \in Nat
      BY <3>2, FS_CardinalityType
    <3> QED BY <1>1, <2>1, <3>3, <3>4, <3>5, ExecutionAssumption DEF HasRoom, SlotInv, ExecutionAssumption
  <2>2. CASE ~HasRoom
    <3>1. Holding' \subseteq Holding
      BY <1>5, <2>2 DEF Holding, Arrive, Acquire, TypeOK
    <3> QED BY <1>2, <3>1
  <2> QED BY <2>1, <2>2
<1>6. ASSUME NEW c \in Call, Launched(c) \/ Salvaged(c) \/ LaunchFailed(c) \/ Kill(c) \/ Reaped(c)
      PROVE  SlotInv'
  <2>1. Holding' \subseteq Holding
    BY <1>6 DEF Holding, Launched, Salvaged, LaunchFailed, Kill, Reaped, TypeOK
  <2> QED BY <1>2, <2>1
<1>7. ASSUME NEW c \in Call, RunEnds(c) \/ Deadline(c) \/ Disconnect(c)
      PROVE  SlotInv'
  BY <1>3, <1>7 DEF RunEnds, Deadline, Disconnect
<1>8. ASSUME NEW c \in Call, LaunchEnds(c) \/ WorkerExits(c) \/ CloseTerm(c)
      PROVE  SlotInv'
  BY <1>4, <1>8 DEF LaunchEnds, WorkerExits, CloseTerm, calls
<1>9. ASSUME NEW k \in Kid, KidExits(k) \/ Track(k) \/ \E c \in Call : KidBorn(k, c)
      PROVE  SlotInv'
  BY <1>4, <1>9 DEF KidExits, Track, KidBorn, calls
<1>10. CASE CloseBegins \/ CloseCancelled
  <2>1. Throw(Call) \/ pc' = pc
    BY <1>10 DEF CloseBegins, CloseCancelled, calls
  <2> QED BY <1>3, <1>4, <2>1
<1>11. CASE Gathered \/ CloseKill \/ CloseReaped \/ CloseEnds \/ UNCHANGED vars
  BY <1>4, <1>11 DEF Gathered, CloseKill, CloseReaped, CloseEnds, calls, vars
<1> QED BY <1>5, <1>6, <1>7, <1>8, <1>9, <1>10, <1>11 DEF Next

-----------------------------------------------------------------------------
(* The theorems. *)

\* ExecInv: the inductive invariant of native execution.
THEOREM ExecutionInvariant == Spec => []ExecInv
<1>1. Init => ExecInv
  <2> SUFFICES ASSUME Init
               PROVE  ExecInv
    OBVIOUS
  <2>1. Holding = {}
    BY DEF Init, Holding
  <2>2. SlotInv
    BY <2>1, FS_EmptySet, ExecutionAssumption DEF SlotInv, ExecutionAssumption
  <2>3. TypeOK
    BY DEF Init, TypeOK, Thrown
  <2>4. CallInv /\ KidInv /\ CleanupInv /\ CloseInv
    BY DEF Init, CallInv, KidInv, CleanupInv, CloseInv
  <2> QED BY <2>2, <2>3, <2>4 DEF ExecInv
<1>2. ExecInv /\ [Next]_vars => ExecInv'
  BY TypeStep, CallStep, KidStep, CleanupStep, CloseStep, SlotStep DEF ExecInv
<1> QED BY <1>1, <1>2, PTL DEF Spec

\* NothingForgotten: a worker whose call is over is dead or still in _active.
THEOREM WorkersAreKept == Spec => []NothingForgotten
<1>1. ExecInv => NothingForgotten
  BY DEF ExecInv, CleanupInv, NothingForgotten
<1> QED BY <1>1, ExecutionInvariant, PTL

\* ClosedIsEmpty: close() leaves no tree of a call that got its worker.
THEOREM CloseLeavesNothing == Spec => []ClosedIsEmpty
<1>1. ExecInv => ClosedIsEmpty
  BY DEF ExecInv, CleanupInv, CloseInv, ClosedIsEmpty
<1> QED BY <1>1, ExecutionInvariant, PTL

\* WorkersBounded: live workers that no interruption left behind have a slot each.
THEOREM WorkersStayBounded == Spec => []WorkersBounded
<1>1. ExecInv => WorkersBounded
  <2> SUFFICES ASSUME ExecInv
               PROVE  WorkersBounded
    OBVIOUS
  <2> USE DEF ExecInv
  <2> DEFINE L == {c \in Call : (Alive(c) \/ worker[c] = "launching") /\ c \notin Abandoned}
  <2>1. ASSUME NEW c \in L
        PROVE  c \in Holding
    BY <2>1, States DEF TypeOK, CallInv, CleanupInv, TreeDead, Alive, Abandoned, Holding
  <2>2. IsFiniteSet(Holding)
    BY FS_Subset, ExecutionAssumption DEF Holding, ExecutionAssumption
  <2>3. Cardinality(L) <= Cardinality(Holding) /\ Cardinality(L) \in Nat /\ Cardinality(Holding) \in Nat
    BY <2>1, <2>2, FS_Subset, FS_CardinalityType
  <2> QED BY <2>3, ExecutionAssumption DEF SlotInv, WorkersBounded, ExecutionAssumption
<1> QED BY <1>1, ExecutionInvariant, PTL
=============================================================================
