---------------------------- MODULE JobsProofs ----------------------------
(***************************************************************************)
(* Proofs about the job store, for any number of jobs, gateways, callers   *)
(* and directories.                                                        *)
(***************************************************************************)
EXTENDS JobsPromises, FiniteSetTheorems, TLAPS

USE DEF vars, table, stable, rowVars, settings, calls, hermesVars

(* What the operations of the per-job lock do to the table of operations.  *)
(* Each lemma says that a helper of Jobs keeps the table well typed.       *)

\* Replacing the operation of one job keeps the table of operations typed.
LEMMA OpSet ==
  ASSUME op \in OpTable, NEW g \in Gateway, NEW j \in Job, NEW r \in Op \cup {NoOp},
         op' = [op EXCEPT ![g][j] = r]
  PROVE  op' \in OpTable
  BY DEF OpTable

\* Taking the lock and awaiting Hermes.
LEMMA AwaitOp ==
  ASSUME op \in OpTable, NEW g \in Gateway, NEW j \in Job,
         NEW kind \in {"status", "cancel", "maintain"}, NEW pc \in {"adopt", "poll", "kill"},
         NEW late \in BOOLEAN, NEW stale \in BOOLEAN, Await(g, j, kind, pc, late, stale)
  PROVE  op' \in OpTable
<1> DEFINE r == [kind |-> kind, pc |-> pc, ans |-> "wait", late |-> late, stale |-> stale]
<1>1. r \in Op
  BY DEF Op
<1>2. op' = [op EXCEPT ![g][j] = r]
  BY DEF Await
<1> HIDE DEF r
<1> QED BY <1>1, <1>2, OpSet

\* Going on from one Hermes call to the next.
LEMMA ThenOp ==
  ASSUME op \in OpTable, NEW g \in Gateway, NEW j \in Job, op[g][j] # NoOp,
         NEW pc \in {"adopt", "poll", "kill", "repoll"}, Then(g, j, pc)
  PROVE  op' \in OpTable
<1> DEFINE r == [op[g][j] EXCEPT !.pc = pc, !.ans = "wait"]
<1>1. op[g][j] \in Op
  BY DEF OpTable
<1>2. r \in Op
  BY <1>1 DEF Op
<1>3. op' = [op EXCEPT ![g][j] = r]
  BY DEF Then
<1> HIDE DEF r
<1> QED BY <1>2, <1>3, OpSet

\* Releasing the lock.
LEMMA ReleaseOp ==
  ASSUME op \in OpTable, NEW g \in Gateway, NEW j \in Job, Release(g, j)
  PROVE  op' \in OpTable
  BY OpSet DEF Release

\* A termination request stays one of the two kinds.
LEMMA TerminateType ==
  ASSUME killing \in [Job -> SUBSET Killed], NEW j \in Job, NEW k \in Killed, Terminate(j, k)
  PROVE  killing' \in [Job -> SUBSET Killed]
<1>1. killing[j] \cup {k} \in SUBSET Killed
  OBVIOUS
<1>2. killing' = killing \/ killing' = [killing EXCEPT ![j] = killing[j] \cup {k}]
  BY DEF Terminate
<1> QED BY <1>1, <1>2

\* What Hermes answers is the answer of an operation.
LEMMA AnswerOp ==
  ASSUME op \in OpTable, proc \in [Job -> Proc], NEW g \in Gateway, NEW j \in Job, Answer(g, j)
  PROVE  op' \in OpTable
<1> DEFINE a == CASE op[g][j].pc = "adopt"  -> "found"
                  [] proc[j] \in Killed     -> "killed"
                  [] proc[j] = "lost"       -> "odd"
                  [] OTHER                  -> proc[j]
           r == [op[g][j] EXCEPT !.ans = a]
<1>1. op[g][j] \in Op
  BY DEF OpTable, Answer
<1>2. a \in {"found", "running", "odd", "exit0", "exit1", "killed"}
  BY DEF Answer, Spawned, Ended
<1>3. op' = [op EXCEPT ![g][j] = r]
  BY DEF Answer
<1> HIDE DEF a
<1>4. r \in Op
  BY <1>1, <1>2 DEF Op
<1> HIDE DEF r
<1> QED BY <1>3, <1>4, OpSet

\* Every variable keeps its type under every action.
THEOREM Typing == Spec => []TypeOK
<1>1. Init => TypeOK
  BY JobsAssumption DEF Init, TypeOK, State, NoRow, ACTIVE, FINAL, Proc, Live, Ended, Killed, Idle, NoSweep, OpTable
<1>2. TypeOK /\ [Next]_vars => TypeOK'
  <2> SUFFICES ASSUME TypeOK, [Next]_vars PROVE TypeOK'
    OBVIOUS
  <2> USE DEF State, NoRow, ACTIVE, FINAL
  <2>1. ASSUME NEW g \in Gateway, NEW j \in Job, Calls(g, j) PROVE TypeOK'
    <3>1. ASSUME NEW o \in Owner, NEW d \in Dir, NEW k \in Key \cup {None}, Prepare(g, j, o, d, k)
          PROVE TypeOK'
      BY <3>1 DEF Prepare, TypeOK
    <3>2. CASE StartExpired(g, j)
      BY <3>2 DEF StartExpired, TypeOK
    <3>3. ASSUME NEW o \in Owner, StartAdmit(g, j, o) PROVE TypeOK'
      BY <3>3 DEF StartAdmit, TypeOK
    <3>4. CASE StatusExpired(g, j)
      BY <3>4 DEF StatusExpired, SettlePrepared, Update, TypeOK
    <3>5. CASE Status(g, j)
      <4>1. op' \in OpTable
        BY <3>5, AwaitOp DEF Status, TypeOK
      <4> QED BY <4>1, <3>5 DEF Status, TypeOK
    <3>6. CASE CancelPrepared(g, j)
      BY <3>6 DEF CancelPrepared, SettlePrepared, Update, TypeOK
    <3>7. CASE Cancel(g, j)
      <4>1. op' \in OpTable
        BY <3>7, AwaitOp DEF Cancel, TypeOK
      <4>2. killing' \in [Job -> SUBSET Killed]
        BY <3>7, TerminateType DEF Cancel, Killed, TypeOK
      <4> QED BY <4>1, <4>2, <3>7 DEF Cancel, TypeOK
    <3> QED BY <2>1, <3>1, <3>2, <3>3, <3>4, <3>5, <3>6, <3>7 DEF Calls
  <2>2. ASSUME NEW g \in Gateway, NEW j \in Job, Resume(g, j) PROVE TypeOK'
    <3>1. CASE Adopted(g, j)
      <4>1. op' \in OpTable
        BY <3>1, ThenOp DEF Adopted, Adopt, TypeOK
      <4>2. killing' \in [Job -> SUBSET Killed]
        BY <3>1, TerminateType DEF Adopted, Killed, TypeOK
      <4> QED BY <4>1, <4>2, <3>1 DEF Adopted, Update, TypeOK
    <3>2. CASE NotAdopted(g, j)
      <4>1. op' \in OpTable
        BY <3>2, ThenOp, ReleaseOp DEF NotAdopted, Adopt, TypeOK
      <4>2. killing' \in [Job -> SUBSET Killed]
        BY <3>2, TerminateType DEF NotAdopted, Killed, TypeOK
      <4> QED BY <4>1, <4>2, <3>2 DEF NotAdopted, Update, TypeOK
    <3>3. CASE KillAck(g, j)
      <4>1. op' \in OpTable
        BY <3>3, ThenOp DEF KillAck, TypeOK
      <4> QED BY <4>1, <3>3 DEF KillAck, TypeOK
    <3>4. CASE PollDone(g, j)
      BY <3>4 DEF PollDone, Answered, Outcome, Update, Release, OpTable, TypeOK
    <3>5. CASE PollOverdue(g, j)
      <4>1. op' \in OpTable
        BY <3>5, ThenOp DEF PollOverdue, Answered, TypeOK
      <4>2. killing' \in [Job -> SUBSET Killed]
        BY <3>5, TerminateType DEF PollOverdue, Killed, TypeOK
      <4> QED BY <4>1, <4>2, <3>5 DEF PollOverdue, Update, TypeOK
    <3>6. CASE CallFails(g, j)
      BY <3>6 DEF CallFails, Update, Release, OpTable, TypeOK
    <3> QED BY <2>2, <3>1, <3>2, <3>3, <3>4, <3>5, <3>6 DEF Resume
  <2>3. ASSUME NEW g \in Gateway, NEW j \in Job,
               Abandon(g, j) \/ MaintainSkip(g, j) \/ MaintainOne(g, j) \/ Answer(g, j)
        PROVE TypeOK'
    <3>1. CASE Abandon(g, j)
      BY <3>1 DEF Abandon, Release, OpTable, TypeOK
    <3>2. CASE MaintainSkip(g, j)
      BY <3>2 DEF MaintainSkip, Turn, TypeOK
    <3>3. CASE MaintainOne(g, j)
      <4>1. op' \in OpTable
        <5>0. op \in OpTable
          BY DEF TypeOK
        <5>1. /\ (j \in reap[g].late) \in BOOLEAN
              /\ (state[j] = "starting") \in BOOLEAN
          OBVIOUS
        <5>2. CASE Await(g, j, "maintain", "adopt", j \in reap[g].late, state[j] = "starting")
          BY <5>0, <5>1, <5>2, AwaitOp, Zenon
        <5>3. CASE Await(g, j, "maintain", "poll", j \in reap[g].late, FALSE)
          BY <5>0, <5>1, <5>3, AwaitOp, Zenon
        <5> QED BY <3>3, <5>2, <5>3 DEF MaintainOne
      <4> QED BY <4>1, <3>3 DEF MaintainOne, Turn, TypeOK
    <3>4. CASE Answer(g, j)
      <4>1. op' \in OpTable
        BY <3>4, AnswerOp DEF TypeOK
      <4> QED BY <4>1, <3>4 DEF Answer, TypeOK
    <3> QED BY <2>3, <3>1, <3>2, <3>3, <3>4
  <2>4. ASSUME NEW g \in Gateway, MaintainSweep(g) PROVE TypeOK'
    BY <2>4 DEF MaintainSweep, Delete, Active, TypeOK
  <2>5. ASSUME NEW g \in Gateway, Crash(g) PROVE TypeOK'
    BY <2>5, JobsAssumption DEF Crash, Idle, NoSweep, OpTable, TypeOK
  <2>6. ASSUME NEW g \in Gateway, NEW k \in Key, PrepareReplay(g, k) PROVE TypeOK'
    BY <2>6 DEF PrepareReplay, Delete, TypeOK
  <2>7. ASSUME NEW j \in Job, Starting(j) PROVE TypeOK'
    <3>1. CASE StartRefused(j)
      BY <3>1 DEF StartRefused, Update, Idle, TypeOK
    <3>2. CASE StartDispatch(j)
      BY <3>2 DEF StartDispatch, Proc, Live, TypeOK
    <3>3. CASE StartAck(j)
      BY <3>3 DEF StartAck, Update, Idle, TypeOK
    <3>4. CASE StartUncertain(j)
      BY <3>4 DEF StartUncertain, Update, Idle, TypeOK
    <3> QED BY <2>7, <3>1, <3>2, <3>3, <3>4 DEF Starting
  <2>8. ASSUME NEW j \in Job, Hermes(j) PROVE TypeOK'
    <3>1. CASE Spawn(j) \/ LaunchLost(j)
      BY <3>1 DEF Spawn, LaunchLost, HermesStep, Proc, Live, TypeOK
    <3>2. CASE Exit(j)
      BY <3>2, JobsAssumption DEF Exit, HermesStep, Proc, Ended, TypeOK
    <3>3. CASE Kill(j)
      BY <3>3 DEF Kill, HermesStep, Proc, Ended, TypeOK
    <3>4. CASE KillLost(j)
      BY <3>4 DEF KillLost, HermesStep, TypeOK
    <3> QED BY <2>8, <3>1, <3>2, <3>3, <3>4 DEF Hermes
  <2>9. ASSUME NEW j \in Job, ClockPastExpiry(j) \/ ClockPastUpdate(j) PROVE TypeOK'
    BY <2>9 DEF ClockPastExpiry, ClockPastUpdate, TypeOK
  <2>10. ASSUME NEW v \in Settings, SetGate(v) PROVE TypeOK'
    BY <2>10, JobsAssumption DEF SetGate, TypeOK
  <2>11. CASE UNCHANGED vars
    BY <2>11 DEF TypeOK
  <2> QED
    BY <2>1, <2>2, <2>3, <2>4, <2>5, <2>6, <2>7, <2>8, <2>9, <2>10, <2>11 DEF Next, GatewayNext
<1> QED
  BY <1>1, <1>2, PTL DEF Spec

-----------------------------------------------------------------------------
(* The inductive invariant, one job at a time.                             *)

\* What a row, its process and its starter say of each other.
RowInv(j) ==
    /\ payload[j] <=> state[j] = "prepared"
    /\ launches[j] = IF proc[j] = "none" THEN 0 ELSE 1
    /\ state[j] \in {"absent", "prepared", "expired"} => proc[j] = "none"
    /\ starter[j].pc = "admitted" => proc[j] = "none" /\ state[j] \in ACTIVE
    /\ native[j] => proc[j] \in Spawned
    /\ proc[j] \in Live => state[j] \in ACTIVE

\* A final state is earned by the way the process ended; a kill for a timeout
\* is in flight only when the intent is already in the table.
VerdictInv(j) ==
    /\ "killed_timeout" \in killing[j] \/ proc[j] = "killed_timeout" => timeout[j]
    /\ state[j] = "succeeded" => proc[j] = "exit0"
    /\ state[j] = "failed"    => proc[j] \in {"exit1", "none"}
    /\ state[j] = "cancelled" => proc[j] \in {"killed_user", "none"}
    /\ state[j] = "timed_out" => proc[j] \in Killed /\ timeout[j]

\* An answer in hand is still true of the process when the gateway applies it.
AnswerInv(g, j) ==
    op[g][j] # NoOp =>
        /\ op[g][j].ans = "found"  => proc[j] \in Spawned
        /\ op[g][j].ans = "exit0"  => proc[j] = "exit0"
        /\ op[g][j].ans = "exit1"  => proc[j] = "exit1"
        /\ op[g][j].ans = "killed" => proc[j] \in Killed
        /\ op[g][j].ans = "odd"    => proc[j] = "lost"

JobInv == /\ \A j \in Job : RowInv(j) /\ VerdictInv(j)
          /\ \A g \in Gateway, j \in Job : AnswerInv(g, j)

\* The invariant is kept by every step.  An operation that begins to wait has
\* no answer yet, so what answers say stays true.
LEMMA WaitKeeps ==
  ASSUME op \in OpTable, NEW g \in Gateway, NEW j \in Job, NEW r, r.ans = "wait",
         op' = [op EXCEPT ![g][j] = r], UNCHANGED proc,
         \A h \in Gateway, i \in Job : AnswerInv(h, i)
  PROVE  \A h \in Gateway, i \in Job : AnswerInv(h, i)'
<1> TAKE h \in Gateway, i \in Job
<1>1. CASE h = g /\ i = j
  <2>1. op'[h][i] = r
    BY <1>1 DEF OpTable
  <2> QED BY <2>1 DEF AnswerInv
<1>2. CASE ~(h = g /\ i = j)
  <2>1. op'[h][i] = op[h][i]
    BY <1>2 DEF OpTable
  <2> QED BY <2>1 DEF AnswerInv
<1> QED BY <1>1, <1>2

\* Taking the lock and awaiting Hermes is such a wait.
LEMMA AwaitKeeps ==
  ASSUME op \in OpTable, NEW g \in Gateway, NEW j \in Job, NEW kind, NEW pc, NEW late, NEW stale,
         Await(g, j, kind, pc, late, stale), UNCHANGED proc,
         \A h \in Gateway, i \in Job : AnswerInv(h, i)
  PROVE  \A h \in Gateway, i \in Job : AnswerInv(h, i)'
<1> DEFINE r == [kind |-> kind, pc |-> pc, ans |-> "wait", late |-> late, stale |-> stale]
<1>1. r.ans = "wait" /\ op' = [op EXCEPT ![g][j] = r]
  BY DEF Await
<1> HIDE DEF r
<1> QED BY <1>1, WaitKeeps

\* So is going on to the next Hermes call.
LEMMA ThenKeeps ==
  ASSUME op \in OpTable, NEW g \in Gateway, NEW j \in Job, NEW pc, op[g][j] # NoOp,
         Then(g, j, pc), UNCHANGED proc, \A h \in Gateway, i \in Job : AnswerInv(h, i)
  PROVE  \A h \in Gateway, i \in Job : AnswerInv(h, i)'
<1> DEFINE r == [op[g][j] EXCEPT !.pc = pc, !.ans = "wait"]
<1>1. op[g][j] \in Op
  BY DEF OpTable
<1>2. r.ans = "wait" /\ op' = [op EXCEPT ![g][j] = r]
  BY <1>1 DEF Then, Op
<1> HIDE DEF r
<1> QED BY <1>2, WaitKeeps

\* Releasing the lock drops the answer.
LEMMA ReleaseKeeps ==
  ASSUME op \in OpTable, NEW g \in Gateway, NEW j \in Job, Release(g, j), UNCHANGED proc,
         \A h \in Gateway, i \in Job : AnswerInv(h, i)
  PROVE  \A h \in Gateway, i \in Job : AnswerInv(h, i)'
  BY DEF Release, OpTable, AnswerInv

\* A user's termination request adds no timeout kill.
LEMMA UserKill ==
  ASSUME killing \in [Job -> SUBSET Killed], NEW j \in Job, NEW i \in Job,
         Terminate(j, "killed_user") \/ UNCHANGED killing
  PROVE  "killed_timeout" \in killing'[i] => "killed_timeout" \in killing[i]
<1>1. CASE killing' = killing
  BY <1>1
<1>2. CASE killing' = [killing EXCEPT ![j] = killing[j] \cup {"killed_user"}]
  <2>1. CASE i = j
    <3>1. killing'[i] = killing[i] \cup {"killed_user"}
      BY <1>2, <2>1
    <3> QED BY <3>1
  <2>2. CASE i # j
    BY <1>2, <2>2
  <2> QED BY <2>1, <2>2
<1> QED BY <1>1, <1>2 DEF Terminate

\* A step of the native process of job j to p, a process that Hermes spawned,
\* from one that had not ended.
LEMMA ProcessStep ==
  ASSUME TypeOK, JobInv, NEW j \in Job, NEW p \in {"running", "dropped"} \cup Ended,
         proc[j] \in Live, p \notin Spawned => proc[j] = "requested",
         proc' = [proc EXCEPT ![j] = p],
         p = "killed_timeout" => timeout[j],
         p = "running" => proc[j] = "requested",
         \A i \in Job : killing'[i] = {} \/ killing'[i] = killing[i],
         HermesStep
  PROVE  JobInv'
<1> USE DEF HermesStep, ACTIVE, Ended, Killed, Spawned, Live
<1>1. \A i \in Job : proc'[i] = IF i = j THEN p ELSE proc[i]
  BY DEF TypeOK
<1>2. ASSUME NEW i \in Job PROVE RowInv(i)' /\ VerdictInv(i)'
  <2>1. RowInv(i) /\ VerdictInv(i)
    BY DEF JobInv
  <2>2. CASE i = j
    BY <1>1, <2>1, <2>2 DEF RowInv, VerdictInv
  <2>3. CASE i # j
    BY <1>1, <2>1, <2>3 DEF RowInv, VerdictInv
  <2> QED BY <2>2, <2>3
<1>3. ASSUME NEW h \in Gateway, NEW i \in Job PROVE AnswerInv(h, i)'
  <2>1. AnswerInv(h, i)
    BY DEF JobInv
  <2>2. CASE i = j
    BY <1>1, <2>1, <2>2 DEF AnswerInv
  <2>3. CASE i # j
    BY <1>1, <2>1, <2>3 DEF AnswerInv
  <2> QED BY <2>2, <2>3
<1> QED BY <1>2, <1>3 DEF JobInv

\* One step of the job store.
LEMMA JobInvStep == TypeOK /\ JobInv /\ [Next]_vars => JobInv'
<1> SUFFICES ASSUME TypeOK, JobInv, [Next]_vars PROVE JobInv'
  OBVIOUS
<1> USE DEF ACTIVE, Killed, Ended, Spawned, Live, JobInv, RowInv, VerdictInv, AnswerInv, OpTable, TypeOK
<1>1. ASSUME NEW g \in Gateway, NEW j \in Job, Calls(g, j) PROVE JobInv'
  <2>1. ASSUME NEW o \in Owner, NEW d \in Dir, NEW k \in Key \cup {None}, Prepare(g, j, o, d, k)
        PROVE JobInv'
    <3>1. \A i \in Job : RowInv(i)' /\ VerdictInv(i)'
      <4> TAKE i \in Job
      <4>1. CASE i = j
        BY <2>1, <4>1 DEF Prepare
      <4>2. CASE i # j
        BY <2>1, <4>2 DEF Prepare, Expired, Prepared
      <4> QED BY <4>1, <4>2
    <3>2. \A h \in Gateway, i \in Job : AnswerInv(h, i)'
      BY <2>1 DEF Prepare
    <3> QED BY <3>1, <3>2
  <2>2. CASE StartExpired(g, j)
    BY <2>2 DEF StartExpired
  <2>3. ASSUME NEW o \in Owner, StartAdmit(g, j, o) PROVE JobInv'
    BY <2>3 DEF StartAdmit, Startable
  <2>4. CASE StatusExpired(g, j)
    BY <2>4 DEF StatusExpired, SettlePrepared, Update
  <2>5. CASE Status(g, j)
    <3>1. \A i \in Job : RowInv(i)' /\ VerdictInv(i)'
      BY <2>5 DEF Status
    <3>2. \A h \in Gateway, i \in Job : AnswerInv(h, i)'
      BY <2>5, AwaitKeeps DEF Status
    <3> QED BY <3>1, <3>2
  <2>6. CASE CancelPrepared(g, j)
    BY <2>6 DEF CancelPrepared, SettlePrepared, Update
  <2>7. CASE Cancel(g, j)
    <3>1. \A i \in Job : RowInv(i)' /\ VerdictInv(i)'
      <4> TAKE i \in Job
      <4>1. "killed_timeout" \in killing'[i] => "killed_timeout" \in killing[i]
        BY <2>7, UserKill DEF Cancel
      <4> QED BY <2>7, <4>1 DEF Cancel
    <3>2. \A h \in Gateway, i \in Job : AnswerInv(h, i)'
      BY <2>7, AwaitKeeps DEF Cancel
    <3> QED BY <3>1, <3>2
  <2> QED BY <1>1, <2>1, <2>2, <2>3, <2>4, <2>5, <2>6, <2>7 DEF Calls
<1>2. ASSUME NEW g \in Gateway, NEW j \in Job, Resume(g, j) PROVE JobInv'
  <2>1. CASE Adopted(g, j)
    <3>1. \A i \in Job : RowInv(i)' /\ VerdictInv(i)'
      BY <2>1 DEF Adopted, Adopt, Update, Terminate
    <3>2. \A h \in Gateway, i \in Job : AnswerInv(h, i)'
      BY <2>1, ThenKeeps DEF Adopted, Adopt
    <3> QED BY <3>1, <3>2
  <2>2. CASE NotAdopted(g, j)
    <3>1. \A i \in Job : RowInv(i)' /\ VerdictInv(i)'
      <4> TAKE i \in Job
      <4>1. UNCHANGED <<payload, launches, proc, starter, native, timeout>>
        BY <2>2 DEF NotAdopted
      <4>2. state'[i] = state[i] \/ (state[i] \in ACTIVE /\ state'[i] = "unknown")
        BY <2>2 DEF NotAdopted, Update
      <4>3. "killed_timeout" \in killing'[i] => "killed_timeout" \in killing[i]
        BY <2>2, UserKill DEF NotAdopted
      <4> QED BY <4>1, <4>2, <4>3
    <3>2. \A h \in Gateway, i \in Job : AnswerInv(h, i)'
      BY <2>2, ThenKeeps, ReleaseKeeps DEF NotAdopted, Adopt
    <3> QED BY <3>1, <3>2
  <2>3. CASE KillAck(g, j)
    BY <2>3 DEF KillAck, Then
  <2>4. CASE PollDone(g, j)
    <3>1. \A i \in Job : RowInv(i)' /\ VerdictInv(i)'
      BY <2>4 DEF PollDone, Answered, Outcome, Update
    <3>2. \A h \in Gateway, i \in Job : AnswerInv(h, i)'
      BY <2>4, ReleaseKeeps DEF PollDone
    <3> QED BY <3>1, <3>2
  <2>5. CASE PollOverdue(g, j)
    BY <2>5 DEF PollOverdue, Answered, Update, Then, Terminate, Overdue
  <2>6. CASE CallFails(g, j)
    BY <2>6 DEF CallFails, Update, Release
  <2> QED BY <1>2, <2>1, <2>2, <2>3, <2>4, <2>5, <2>6 DEF Resume
<1>3. ASSUME NEW g \in Gateway, NEW j \in Job,
             Abandon(g, j) \/ MaintainSkip(g, j) \/ MaintainOne(g, j) \/ Answer(g, j)
      PROVE JobInv'
  <2>1. CASE Abandon(g, j)
    BY <2>1 DEF Abandon, Release
  <2>2. CASE MaintainSkip(g, j)
    BY <2>2 DEF MaintainSkip, Turn
  <2>3. CASE MaintainOne(g, j)
    <3>1. \A i \in Job : RowInv(i)' /\ VerdictInv(i)'
      BY <2>3 DEF MaintainOne, Turn
    <3>2. \A h \in Gateway, i \in Job : AnswerInv(h, i)'
      BY <2>3, AwaitKeeps DEF MaintainOne, Turn
    <3> QED BY <3>1, <3>2
  <2>4. CASE Answer(g, j)
    BY <2>4 DEF Answer
  <2> QED BY <1>3, <2>1, <2>2, <2>3, <2>4
<1>4. ASSUME NEW g \in Gateway, MaintainSweep(g) PROVE JobInv'
  BY <1>4 DEF MaintainSweep, Delete, Active, Expired, Prepared, Retired, FINAL
<1>5. ASSUME NEW g \in Gateway, Crash(g) PROVE JobInv'
  BY <1>5 DEF Crash, Idle
<1>6. ASSUME NEW g \in Gateway, NEW k \in Key, PrepareReplay(g, k) PROVE JobInv'
  BY <1>6 DEF PrepareReplay, Delete, Expired, Prepared
<1>7. ASSUME NEW j \in Job, Starting(j) PROVE JobInv'
  <2>1. CASE StartRefused(j)
    BY <2>1 DEF StartRefused, Update, Idle
  <2>2. CASE StartDispatch(j)
    BY <2>2 DEF StartDispatch
  <2>3. CASE StartAck(j)
    BY <2>3 DEF StartAck, Update, Idle
  <2>4. CASE StartUncertain(j)
    BY <2>4 DEF StartUncertain, Update, Idle
  <2> QED BY <1>7, <2>1, <2>2, <2>3, <2>4 DEF Starting
<1>8. ASSUME NEW j \in Job, Hermes(j) PROVE JobInv'
  <2> HIDE DEF JobInv, TypeOK
  <2>1. CASE Spawn(j)
    BY <2>1, ProcessStep DEF Spawn
  <2>2. CASE LaunchLost(j)
    BY <2>2, ProcessStep DEF LaunchLost
  <2>3. CASE Exit(j)
    <3>1. PICK e \in Exits : proc' = [proc EXCEPT ![j] = e]
      BY <2>3 DEF Exit
    <3>2. e \in {"exit0", "exit1", "lost"}
      BY JobsAssumption
    <3>3. \A i \in Job : killing'[i] = {} \/ killing'[i] = killing[i]
      BY <2>3 DEF Exit, TypeOK
    <3> QED BY <2>3, <3>1, <3>2, <3>3, ProcessStep DEF Exit
  <2>4. CASE Kill(j)
    <3>1. PICK k \in killing[j] : proc' = [proc EXCEPT ![j] = k]
      BY <2>4 DEF Kill
    <3>2. k \in Killed /\ (k = "killed_timeout" => timeout[j])
      BY <3>1 DEF TypeOK, JobInv, VerdictInv
    <3>3. \A i \in Job : killing'[i] = {} \/ killing'[i] = killing[i]
      BY <2>4 DEF Kill, TypeOK
    <3> QED BY <2>4, <3>1, <3>2, <3>3, ProcessStep DEF Kill
  <2>5. CASE KillLost(j)
    <3>1. \A i \in Job : killing'[i] = {} \/ killing'[i] = killing[i]
      BY <2>5 DEF KillLost, TypeOK
    <3> QED BY <2>5, <3>1 DEF KillLost, HermesStep, JobInv
  <2> QED BY <1>8, <2>1, <2>2, <2>3, <2>4, <2>5 DEF Hermes
<1>9. ASSUME NEW j \in Job, ClockPastExpiry(j) \/ ClockPastUpdate(j) PROVE JobInv'
  BY <1>9 DEF ClockPastExpiry, ClockPastUpdate
<1>10. ASSUME NEW v \in Settings, SetGate(v) PROVE JobInv'
  BY <1>10 DEF SetGate
<1>11. CASE UNCHANGED vars
  BY <1>11
<1> QED
  BY <1>1, <1>2, <1>3, <1>4, <1>5, <1>6, <1>7, <1>8, <1>9, <1>10, <1>11 DEF Next, GatewayNext

\* What holds of every job in every reachable state.
THEOREM JobInvariant == Spec => [](TypeOK /\ JobInv)
<1>1. Init => JobInv
  BY JobsAssumption DEF Init, JobInv, RowInv, VerdictInv, AnswerInv, Idle, Live, Spawned, Ended, Killed
<1>2. TypeOK /\ JobInv /\ [Next]_vars => JobInv'
  BY JobInvStep
<1> QED
  BY <1>1, <1>2, Typing, PTL DEF Spec

\* Native work is asked for at most once for a job, and only once it started:
\* not again by any start, gateway, restart or uncertain launch.
THEOREM LaunchedOnce == Spec => []LaunchOnce
<1>1. JobInv => LaunchOnce
  BY DEF JobInv, RowInv, LaunchOnce
<1> QED
  BY <1>1, JobInvariant, PTL

\* A process that runs, or may yet be spawned, has an active row.
THEOREM LiveWorkAdmitted == Spec => []LiveWorkIsAdmitted
<1>1. JobInv => LiveWorkIsAdmitted
  BY DEF JobInv, RowInv, LiveWorkIsAdmitted, Working
<1> QED
  BY <1>1, JobInvariant, PTL

\* A final state says how the work ended.
THEOREM VerdictsTruthful == Spec => []ReceiptsTruthful
<1>1. TypeOK /\ JobInv => ReceiptsTruthful
  BY DEF TypeOK, JobInv, RowInv, VerdictInv, ReceiptsTruthful
<1> QED
  BY <1>1, JobInvariant, PTL

\* The command is stored exactly while the job is prepared.
THEOREM PayloadsPrivate == Spec => []PayloadPrivate
<1>1. JobInv => PayloadPrivate
  BY DEF JobInv, RowInv, PayloadPrivate
<1> QED
  BY <1>1, JobInvariant, PTL

-----------------------------------------------------------------------------
(* How rows change: besides a fresh receipt and an admission, a step only  *)
(* moves rows towards their end and leaves the requests alone.             *)

Edge(j) ==
    \/ state'[j] = state[j]
    \/ state[j] \in ACTIVE /\ state'[j] \in ACTIVE \cup {"failed"}
    \/ state[j] \in ACTIVE /\ state'[j] \in FINAL /\ proc[j] \in Ended
    \/ state[j] = "prepared" /\ state'[j] \in {"expired", "cancelled", "gone"}
    \/ state[j] \in FINAL /\ state'[j] = "gone"

Settling == UNCHANGED rowVars /\ \A j \in Job : Edge(j)

\* A conditional write from active states is such a change.
LEMMA UpdateEdge ==
  ASSUME TypeOK, NEW j \in Job, NEW from \in SUBSET ACTIVE, NEW to \in ACTIVE \cup {"failed"},
         Update(j, from, to)
  PROVE  \A i \in Job : Edge(i)
<1>1. \A i \in Job : state'[i] = IF i = j /\ state[j] \in from THEN to ELSE state[i]
  BY DEF Update, TypeOK
<1> QED BY <1>1 DEF Edge

\* Every step is one of the three.
LEMMA Steps ==
  ASSUME TypeOK, JobInv, [Next]_vars
  PROVE  \/ \E g \in Gateway, j \in Job, o \in Owner, d \in Dir, k \in Key \cup {None} :
               Prepare(g, j, o, d, k)
         \/ \E g \in Gateway, j \in Job, o \in Owner : StartAdmit(g, j, o)
         \/ Settling
<1>1. ASSUME NEW g \in Gateway, NEW j \in Job, Calls(g, j),
             \A o \in Owner, d \in Dir, k \in Key \cup {None} : ~Prepare(g, j, o, d, k),
             \A o \in Owner : ~StartAdmit(g, j, o)
      PROVE  Settling
  <2>1. CASE StartExpired(g, j)
    BY <2>1 DEF StartExpired, Settling, Edge, FINAL, TypeOK
  <2>2. CASE StatusExpired(g, j)
    BY <2>2 DEF StatusExpired, SettlePrepared, Update, Settling, Edge, FINAL, TypeOK
  <2>3. CASE CancelPrepared(g, j)
    BY <2>3 DEF CancelPrepared, SettlePrepared, Update, Settling, Edge, FINAL, TypeOK
  <2>4. CASE Status(g, j) \/ Cancel(g, j)
    BY <2>4 DEF Status, Cancel, Settling, Edge
  <2> QED BY <1>1, <2>1, <2>2, <2>3, <2>4 DEF Calls
<1>2. ASSUME NEW g \in Gateway, NEW j \in Job, Resume(g, j) PROVE Settling
  <2>1. CASE Adopted(g, j)
    BY <2>1, UpdateEdge DEF Adopted, Settling, ACTIVE
  <2>2. CASE NotAdopted(g, j)
    <3>1. \/ UNCHANGED state
          \/ Update(j, ACTIVE, "unknown")
          \/ Update(j, {"starting"}, "unknown")
      BY <2>2 DEF NotAdopted
    <3>2. \A i \in Job : Edge(i)
      BY <3>1, UpdateEdge DEF Edge, ACTIVE
    <3> QED BY <2>2, <3>2 DEF NotAdopted, Settling
  <2>3. CASE KillAck(g, j)
    BY <2>3 DEF KillAck, Settling, Edge
  <2>4. CASE PollDone(g, j)
    <3> DEFINE to == Outcome(j, op[g][j].ans)
    <3>1. to \in ACTIVE \/ (to \in FINAL /\ proc[j] \in Ended)
      BY <2>4 DEF PollDone, Answered, Outcome, JobInv, AnswerInv, ACTIVE, FINAL, Ended
    <3>2. \A i \in Job : state'[i] = IF i = j /\ state[j] \in ACTIVE THEN to ELSE state[i]
      BY <2>4 DEF PollDone, Update, TypeOK
    <3> HIDE DEF to
    <3> QED BY <2>4, <3>1, <3>2 DEF PollDone, Settling, Edge
  <2>5. CASE PollOverdue(g, j)
    BY <2>5, UpdateEdge DEF PollOverdue, Settling, ACTIVE
  <2>6. CASE CallFails(g, j)
    BY <2>6, UpdateEdge DEF CallFails, Settling, ACTIVE
  <2> QED BY <1>2, <2>1, <2>2, <2>3, <2>4, <2>5, <2>6 DEF Resume
<1>3. ASSUME NEW g \in Gateway, NEW j \in Job,
             Abandon(g, j) \/ MaintainSkip(g, j) \/ MaintainOne(g, j) \/ Answer(g, j)
      PROVE Settling
  BY <1>3 DEF Abandon, MaintainSkip, MaintainOne, Turn, Answer, Settling, Edge
<1>4. ASSUME NEW g \in Gateway, MaintainSweep(g) PROVE Settling
  BY <1>4 DEF MaintainSweep, Delete, Expired, Prepared, Retired, Settling, Edge
<1>5. ASSUME NEW g \in Gateway, Crash(g) PROVE Settling
  BY <1>5 DEF Crash, Settling, Edge
<1>6. ASSUME NEW g \in Gateway, NEW k \in Key, PrepareReplay(g, k) PROVE Settling
  BY <1>6 DEF PrepareReplay, Delete, Expired, Prepared, Settling, Edge
<1>7. ASSUME NEW j \in Job, Starting(j) PROVE Settling
  <2>1. CASE StartRefused(j)
    BY <2>1, UpdateEdge DEF StartRefused, Settling, ACTIVE, FINAL
  <2>2. CASE StartDispatch(j)
    BY <2>2 DEF StartDispatch, Settling, Edge
  <2>3. CASE StartAck(j)
    BY <2>3, UpdateEdge DEF StartAck, Settling, ACTIVE
  <2>4. CASE StartUncertain(j)
    BY <2>4, UpdateEdge DEF StartUncertain, Settling, ACTIVE
  <2> QED BY <1>7, <2>1, <2>2, <2>3, <2>4 DEF Starting
<1>8. ASSUME NEW j \in Job, Hermes(j) PROVE Settling
  BY <1>8 DEF Hermes, Spawn, LaunchLost, Exit, Kill, KillLost, HermesStep, Settling, Edge
<1>9. ASSUME NEW j \in Job, ClockPastExpiry(j) \/ ClockPastUpdate(j) PROVE Settling
  BY <1>9 DEF ClockPastExpiry, ClockPastUpdate, Settling, Edge
<1>10. ASSUME NEW v \in Settings, SetGate(v) PROVE Settling
  BY <1>10 DEF SetGate, Settling, Edge
<1>11. CASE UNCHANGED vars
  BY <1>11 DEF Settling, Edge
<1> QED
  BY <1>1, <1>2, <1>3, <1>4, <1>5, <1>6, <1>7, <1>8, <1>9, <1>10, <1>11 DEF Next, GatewayNext

\* A final state is never rewritten, only deleted.
THEOREM FinalStays == Spec => FinalIsFinal
<1>1. TypeOK /\ JobInv /\ [Next]_vars
        => [\A j \in Job : state[j] \in FINAL => state'[j] \in {state[j], "gone"}]_vars
  <2> SUFFICES ASSUME TypeOK, JobInv, [Next]_vars, NEW j \in Job, state[j] \in FINAL
               PROVE  state'[j] \in {state[j], "gone"}
    OBVIOUS
  <2>1. ASSUME NEW g \in Gateway, NEW i \in Job, NEW o \in Owner, NEW d \in Dir,
               NEW k \in Key \cup {None}, Prepare(g, i, o, d, k)
        PROVE  state'[j] = state[j]
    BY <2>1 DEF Prepare, Expired, Prepared, FINAL
  <2>2. ASSUME NEW g \in Gateway, NEW i \in Job, NEW o \in Owner, StartAdmit(g, i, o)
        PROVE  state'[j] = state[j]
    BY <2>2 DEF StartAdmit, Startable, FINAL, TypeOK
  <2>3. CASE Settling
    BY <2>3 DEF Settling, Edge, ACTIVE, FINAL
  <2> QED BY <2>1, <2>2, <2>3, Steps
<1> QED
  BY <1>1, JobInvariant, PTL DEF Spec, FinalIsFinal

-----------------------------------------------------------------------------
(* Capacity, workspaces and keys.                                          *)

\* Counting in subsets of Job.
LEMMA Counting ==
  ASSUME NEW S \in SUBSET Job
  PROVE  /\ IsFiniteSet(S) /\ Cardinality(S) \in Nat
         /\ \A T \in SUBSET S : Cardinality(T) <= Cardinality(S)
         /\ \A j \in Job : Cardinality(S \cup {j}) <= Cardinality(S) + 1
<1>1. IsFiniteSet(S)
  BY JobsAssumption, FS_Subset
<1>2. Cardinality(S) \in Nat
  BY <1>1, FS_CardinalityType
<1>3. \A T \in SUBSET S : Cardinality(T) <= Cardinality(S)
  BY <1>1, FS_Subset
<1>4. ASSUME NEW j \in Job PROVE Cardinality(S \cup {j}) <= Cardinality(S) + 1
  BY <1>1, <1>2, FS_AddElement
<1> QED BY <1>1, <1>2, <1>3, <1>4

\* The caps and the workspaces of the active rows.
AdmissionInv ==
    /\ Cardinality(Active) <= MaxActive
    /\ \A o \in Owner : Cardinality(ActiveOf(o)) <= MaxPerSession
    /\ \A i, j \in Active : i # j => ~Overlap(workdir[i], workdir[j])

\* A step that activates no row, and changes no owner or directory of an active
\* one, keeps the caps and the workspaces.
LEMMA AdmissionShrinks ==
  ASSUME AdmissionInv, Active' \subseteq Active,
         \A j \in Active : owner'[j] = owner[j] /\ workdir'[j] = workdir[j]
  PROVE  AdmissionInv'
<1>1. Cardinality(Active') <= Cardinality(Active)
  BY Counting DEF Active
<1>2. ASSUME NEW o \in Owner PROVE Cardinality(ActiveOf(o)') <= Cardinality(ActiveOf(o))
  <2>1. ActiveOf(o)' \subseteq ActiveOf(o) /\ ActiveOf(o) \subseteq Job
    BY DEF ActiveOf, Active
  <2> QED BY <2>1, Counting
<1>3. /\ Active \subseteq Job /\ Cardinality(Active) \in Nat /\ Cardinality(Active') \in Nat
      /\ \A o \in Owner : Cardinality(ActiveOf(o)) \in Nat /\ Cardinality(ActiveOf(o)') \in Nat
  BY Counting DEF ActiveOf, Active
<1>4. MaxActive \in Nat /\ MaxPerSession \in Nat
  BY JobsAssumption
<1>5. Cardinality(Active') <= MaxActive
  BY <1>1, <1>3, <1>4 DEF AdmissionInv
<1>6. \A o \in Owner : Cardinality(ActiveOf(o)') <= MaxPerSession
  BY <1>2, <1>3, <1>4 DEF AdmissionInv
<1>7. \A i, j \in Active' : i # j => ~Overlap(workdir'[i], workdir'[j])
  BY DEF AdmissionInv, Overlap
<1> QED BY <1>5, <1>6, <1>7 DEF AdmissionInv, Overlap

\* A fresh admission fits, by the guards of start.
LEMMA AdmissionGrows ==
  ASSUME TypeOK, AdmissionInv, NEW g \in Gateway, NEW j \in Job, NEW o \in Owner,
         StartAdmit(g, j, o)
  PROVE  AdmissionInv'
<1>1. Active' = Active \cup {j} /\ j \notin Active /\ Active \subseteq Job
  BY DEF StartAdmit, Startable, Active, ACTIVE, TypeOK
<1>2. /\ \A i \in Job : owner'[i] = IF i = j THEN o ELSE owner[i]
      /\ workdir' = workdir
  BY DEF StartAdmit, TypeOK
<1>3. MaxActive \in Nat /\ MaxPerSession \in Nat
  BY JobsAssumption
<1>4. Cardinality(Active') <= MaxActive
  <2>1. Cardinality(Active) < MaxActive
    BY DEF StartAdmit
  <2>2. Cardinality(Active) \in Nat /\ Cardinality(Active') \in Nat
    BY Counting DEF Active
  <2>3. Cardinality(Active') <= Cardinality(Active) + 1
    BY <1>1, Counting
  <2> QED BY <1>3, <2>1, <2>2, <2>3
<1>5. ASSUME NEW p \in Owner PROVE Cardinality(ActiveOf(p)') <= MaxPerSession
  <2>1. ActiveOf(p) \subseteq Job /\ ActiveOf(p)' \subseteq Job
    BY DEF ActiveOf, Active
  <2>2. Cardinality(ActiveOf(p)) \in Nat /\ Cardinality(ActiveOf(p)') \in Nat
    BY <2>1, Counting
  <2>3. CASE p = o
    <3>1. ActiveOf(p)' = ActiveOf(p) \cup {j}
      BY <1>1, <1>2, <2>3 DEF ActiveOf
    <3>2. Cardinality(ActiveOf(p)) < MaxPerSession
      BY <2>3 DEF StartAdmit
    <3>3. Cardinality(ActiveOf(p)') <= Cardinality(ActiveOf(p)) + 1
      BY <2>1, <3>1, Counting
    <3> QED BY <1>3, <2>2, <3>2, <3>3
  <2>4. CASE p # o
    <3>1. ActiveOf(p)' = ActiveOf(p)
      BY <1>1, <1>2, <2>4 DEF ActiveOf
    <3> QED BY <3>1 DEF AdmissionInv
  <2> QED BY <2>3, <2>4
<1>6. \A i, k \in Active' : i # k => ~Overlap(workdir[i], workdir[k])
  BY <1>1 DEF StartAdmit, AdmissionInv, Overlap
<1> QED BY <1>2, <1>4, <1>5, <1>6 DEF AdmissionInv, Overlap

\* The active rows stay within the caps of start, in disjoint workspaces.
LEMMA AdmissionInvariant == Spec => []AdmissionInv
<1>1. Init => AdmissionInv
  <2> SUFFICES ASSUME Init PROVE AdmissionInv
    OBVIOUS
  <2>1. Active = {} /\ \A o \in Owner : ActiveOf(o) = {}
    BY DEF Init, Active, ActiveOf, ACTIVE
  <2>2. Cardinality({}) = 0
    BY FS_EmptySet
  <2> QED BY <2>1, <2>2, JobsAssumption DEF AdmissionInv
<1>2. TypeOK /\ JobInv /\ AdmissionInv /\ [Next]_vars => AdmissionInv'
  <2> SUFFICES ASSUME TypeOK, JobInv, AdmissionInv, [Next]_vars PROVE AdmissionInv'
    OBVIOUS
  <2>1. ASSUME NEW g \in Gateway, NEW j \in Job, NEW o \in Owner, NEW d \in Dir,
               NEW k \in Key \cup {None}, Prepare(g, j, o, d, k)
        PROVE  AdmissionInv'
    <3>1. Active' \subseteq Active /\ j \notin Active
      BY <2>1 DEF Prepare, Active, ACTIVE
    <3>2. \A i \in Active : owner'[i] = owner[i] /\ workdir'[i] = workdir[i]
      BY <2>1, <3>1 DEF Prepare, Active, TypeOK
    <3> QED BY <3>1, <3>2, AdmissionShrinks
  <2>2. CASE Settling
    <3>1. Active' \subseteq Active
      BY <2>2 DEF Settling, Edge, Active, ACTIVE, FINAL
    <3> QED BY <2>2, <3>1, AdmissionShrinks DEF Settling
  <2> QED BY <2>1, <2>2, AdmissionGrows, Steps
<1> QED
  BY <1>1, <1>2, JobInvariant, PTL DEF Spec

\* The caps bound the native work itself: late and quarantined work counts.
THEOREM WorkIsBounded == Spec => []WorkBounded
<1>1. JobInv /\ AdmissionInv => WorkBounded
  <2> SUFFICES ASSUME JobInv, AdmissionInv PROVE WorkBounded
    OBVIOUS
  <2>1. Holding = Active /\ \A o \in Owner : {j \in Holding : owner[j] = o} = ActiveOf(o)
    BY DEF JobInv, RowInv, Holding, Active, ActiveOf
  <2> QED BY <2>1 DEF AdmissionInv, WorkBounded
<1> QED
  BY <1>1, JobInvariant, AdmissionInvariant, PTL

\* No two jobs work in nested directories.
THEOREM WorkspacesStayDisjoint == Spec => []WorkspacesDisjoint
<1>1. JobInv /\ AdmissionInv => WorkspacesDisjoint
  <2> SUFFICES ASSUME JobInv, AdmissionInv PROVE WorkspacesDisjoint
    OBVIOUS
  <2>1. Holding = Active
    BY DEF JobInv, RowInv, Holding, Active
  <2> QED BY <2>1 DEF AdmissionInv, WorkspacesDisjoint
<1> QED
  BY <1>1, JobInvariant, AdmissionInvariant, PTL

\* An idempotency key names one row.
THEOREM KeysStayUnique == Spec => []KeysUnique
<1>1. Init => KeysUnique
  BY DEF Init, KeysUnique, NoRow
<1>2. TypeOK /\ JobInv /\ KeysUnique /\ [Next]_vars => KeysUnique'
  <2> SUFFICES ASSUME TypeOK, JobInv, KeysUnique, [Next]_vars PROVE KeysUnique'
    OBVIOUS
  <2>1. ASSUME NEW g \in Gateway, NEW j \in Job, NEW o \in Owner, NEW d \in Dir,
               NEW k \in Key \cup {None}, Prepare(g, j, o, d, k)
        PROVE  KeysUnique'
    <3>1. \A i \in Job : key'[i] = IF i = j THEN k ELSE key[i]
      BY <2>1 DEF Prepare, TypeOK
    <3>2. \A i \in Job : i # j /\ state'[i] \notin NoRow =>
              state[i] \notin NoRow /\ i \notin Expired
      BY <2>1 DEF Prepare, NoRow
    <3>3. \A i \in Job : i # j /\ state'[i] \notin NoRow /\ k # None => key[i] # k
      BY <2>1, <3>2 DEF Prepare, HasKey
    <3> QED BY <3>1, <3>2, <3>3 DEF KeysUnique
  <2>2. ASSUME NEW g \in Gateway, NEW j \in Job, NEW o \in Owner, StartAdmit(g, j, o)
        PROVE  KeysUnique'
    <3>1. key' = key /\ \A i \in Job : state'[i] \notin NoRow => state[i] \notin NoRow
      BY <2>2 DEF StartAdmit, Startable, NoRow, TypeOK
    <3> QED BY <3>1 DEF KeysUnique
  <2>3. CASE Settling
    <3>1. key' = key /\ \A i \in Job : state'[i] \notin NoRow => state[i] \notin NoRow
      BY <2>3 DEF Settling, Edge, NoRow, ACTIVE, FINAL
    <3> QED BY <3>1 DEF KeysUnique
  <2> QED BY <2>1, <2>2, <2>3, Steps
<1> QED
  BY <1>1, <1>2, JobInvariant, PTL DEF Spec

\* The prepared rows stay within the caps of prepare.
THEOREM PreparedStaysBounded == Spec => []PreparedBounded
<1> DEFINE Of(o) == {j \in Prepared : owner[j] = o}
<1>1. MaxPrepared \in Nat /\ MaxPreparedPerOwner \in Nat
  BY JobsAssumption
<1>2. Init => PreparedBounded
  <2> SUFFICES ASSUME Init PROVE PreparedBounded
    OBVIOUS
  <2>1. Prepared = {} /\ \A o \in Owner : Of(o) = {}
    BY DEF Init, Prepared
  <2>2. Cardinality({}) = 0
    BY FS_EmptySet
  <2> QED BY <1>1, <2>1, <2>2 DEF PreparedBounded
<1>3. TypeOK /\ JobInv /\ PreparedBounded /\ [Next]_vars => PreparedBounded'
  <2> SUFFICES ASSUME TypeOK, JobInv, PreparedBounded, [Next]_vars PROVE PreparedBounded'
    OBVIOUS
  <2>1. ASSUME Prepared' \subseteq Prepared, \A j \in Prepared' : owner'[j] = owner[j]
        PROVE  PreparedBounded'
    <3>1. Prepared \subseteq Job /\ \A o \in Owner : Of(o) \subseteq Job /\ Of(o)' \subseteq Of(o)
      BY <2>1 DEF Prepared
    <3>2. /\ Cardinality(Prepared) \in Nat /\ Cardinality(Prepared') \in Nat
          /\ Cardinality(Prepared') <= Cardinality(Prepared)
      BY <2>1, <3>1, Counting
    <3>3. ASSUME NEW o \in Owner PROVE Cardinality(Of(o)') <= MaxPreparedPerOwner
      <4>1. /\ Cardinality(Of(o)) \in Nat /\ Cardinality(Of(o)') \in Nat
            /\ Cardinality(Of(o)') <= Cardinality(Of(o))
        BY <3>1, Counting
      <4> QED BY <1>1, <4>1 DEF PreparedBounded
    <3>4. Cardinality(Prepared') <= MaxPrepared
      BY <1>1, <3>2 DEF PreparedBounded
    <3> QED BY <3>3, <3>4 DEF PreparedBounded
  <2>2. ASSUME NEW g \in Gateway, NEW j \in Job, NEW o \in Owner, NEW d \in Dir,
               NEW k \in Key \cup {None}, Prepare(g, j, o, d, k)
        PROVE  PreparedBounded'
    <3> DEFINE Kept == Prepared \ Expired
               KeptOf(p) == {i \in Kept : owner[i] = p}
    <3>1. /\ Prepared' = Kept \cup {j} /\ j \notin Kept /\ Kept \subseteq Job
          /\ \A i \in Job : owner'[i] = IF i = j THEN o ELSE owner[i]
      BY <2>2 DEF Prepare, Prepared, Expired, TypeOK
    <3>2. Cardinality(Kept) < MaxPrepared /\ Cardinality(KeptOf(o)) < MaxPreparedPerOwner
      BY <2>2 DEF Prepare, Room
    <3>3. /\ Cardinality(Kept) \in Nat /\ Cardinality(Prepared') \in Nat
          /\ Cardinality(Prepared') <= Cardinality(Kept) + 1
      <4>1. Prepared' \subseteq Job
        BY DEF Prepared
      <4> QED BY <3>1, <4>1, Counting
    <3>4. ASSUME NEW p \in Owner PROVE Cardinality(Of(p)') <= MaxPreparedPerOwner
      <4>1. Of(p) \subseteq Job /\ Of(p)' \subseteq Job /\ KeptOf(p) \subseteq Of(p)
        BY DEF Prepared
      <4>2. Cardinality(Of(p)) \in Nat /\ Cardinality(Of(p)') \in Nat /\ Cardinality(KeptOf(p)) \in Nat
        BY <4>1, Counting
      <4>3. CASE p = o
        <5>1. Of(p)' = KeptOf(p) \cup {j}
          BY <3>1, <4>3
        <5>2. Cardinality(Of(p)') <= Cardinality(KeptOf(p)) + 1
          BY <4>1, <5>1, Counting
        <5> QED BY <1>1, <3>2, <4>2, <4>3, <5>2
      <4>4. CASE p # o
        <5>1. Of(p)' = KeptOf(p)
          BY <3>1, <4>4
        <5>2. Cardinality(KeptOf(p)) <= Cardinality(Of(p))
          BY <4>1, Counting
        <5>3. Cardinality(Of(p)) <= MaxPreparedPerOwner
          BY DEF PreparedBounded
        <5>4. Cardinality(KeptOf(p)) <= MaxPreparedPerOwner
          <6> HIDE DEF Kept, KeptOf, Of
          <6> QED BY <1>1, <4>2, <5>2, <5>3
        <5> QED BY <5>1, <5>4
      <4> QED BY <4>3, <4>4
    <3>5. Cardinality(Prepared') <= MaxPrepared
      BY <1>1, <3>2, <3>3
    <3> QED BY <3>4, <3>5 DEF PreparedBounded
  <2>3. ASSUME NEW g \in Gateway, NEW j \in Job, NEW o \in Owner, StartAdmit(g, j, o)
        PROVE  PreparedBounded'
    BY <2>1, <2>3 DEF StartAdmit, Startable, Prepared, TypeOK
  <2>4. CASE Settling
    BY <2>1, <2>4 DEF Settling, Edge, Prepared, ACTIVE, FINAL
  <2> QED BY <2>2, <2>3, <2>4, Steps
<1> QED
  BY <1>2, <1>3, JobInvariant, PTL DEF Spec

\* All that admission promises together.
COROLLARY AdmissionStaysKept == Spec => []AdmissionKept
  BY LiveWorkAdmitted, WorkIsBounded, WorkspacesStayDisjoint, PreparedStaysBounded, KeysStayUnique,
     PayloadsPrivate, PTL DEF AdmissionKept

-----------------------------------------------------------------------------
(* Refinement: the store implements the abstract receipt.                  *)

\* The process moves forward, under an active row that does not change.
LEMMA ProcSteps ==
  ASSUME TypeOK, JobInv, [Next]_vars
  PROVE  \/ UNCHANGED proc
         \/ /\ UNCHANGED state
            /\ \A j \in Job : \/ proc'[j] = proc[j]
                              \/ proc[j] = "none" /\ proc'[j] = "requested" /\ state[j] \in ACTIVE
                              \/ proc[j] = "requested" /\ proc'[j] \in {"running", "dropped"}
                              \/ proc[j] = "running" /\ proc'[j] \in Ended
<1>1. ASSUME NEW g \in Gateway, NEW j \in Job, Calls(g, j) PROVE UNCHANGED proc
  BY <1>1 DEF Calls, Prepare, StartExpired, StartAdmit, StatusExpired, Status, CancelPrepared, Cancel
<1>2. ASSUME NEW g \in Gateway, NEW j \in Job, Resume(g, j) PROVE UNCHANGED proc
  BY <1>2 DEF Resume, Adopted, NotAdopted, KillAck, PollDone, PollOverdue, CallFails
<1>3. ASSUME NEW g \in Gateway, NEW j \in Job,
             Abandon(g, j) \/ MaintainSkip(g, j) \/ MaintainOne(g, j) \/ Answer(g, j)
      PROVE UNCHANGED proc
  BY <1>3 DEF Abandon, MaintainSkip, MaintainOne, Turn, Answer
<1>4. ASSUME NEW g \in Gateway, MaintainSweep(g) \/ Crash(g) \/ \E k \in Key : PrepareReplay(g, k)
      PROVE UNCHANGED proc
  BY <1>4 DEF MaintainSweep, Crash, PrepareReplay
<1>5. ASSUME NEW j \in Job, StartRefused(j) \/ StartAck(j) \/ StartUncertain(j) PROVE UNCHANGED proc
  BY <1>5 DEF StartRefused, StartAck, StartUncertain
<1>6. ASSUME NEW j \in Job, StartDispatch(j) \/ Spawn(j) \/ LaunchLost(j)
      PROVE  /\ UNCHANGED state
             /\ \A i \in Job : \/ proc'[i] = proc[i]
                               \/ proc[i] = "none" /\ proc'[i] = "requested" /\ state[i] \in ACTIVE
                               \/ proc[i] = "requested" /\ proc'[i] \in {"running", "dropped"}
  BY <1>6 DEF StartDispatch, Spawn, LaunchLost, HermesStep, TypeOK, JobInv, RowInv
<1>7. ASSUME NEW j \in Job, Exit(j) \/ Kill(j) \/ KillLost(j)
      PROVE  /\ UNCHANGED state
             /\ \A i \in Job : \/ proc'[i] = proc[i]
                               \/ proc[i] = "running" /\ proc'[i] \in Ended
  <2>1. CASE Exit(j)
    BY <2>1, JobsAssumption DEF Exit, HermesStep, Ended, TypeOK
  <2>2. CASE Kill(j)
    <3>1. PICK k \in killing[j] : proc' = [proc EXCEPT ![j] = k]
      BY <2>2 DEF Kill
    <3>2. k \in Ended
      BY <3>1 DEF TypeOK, Ended
    <3> QED BY <2>2, <3>1, <3>2 DEF Kill, HermesStep, TypeOK
  <2>3. CASE KillLost(j)
    BY <2>3 DEF KillLost, HermesStep
  <2> QED BY <1>7, <2>1, <2>2, <2>3
<1>8. ASSUME NEW j \in Job, ClockPastExpiry(j) \/ ClockPastUpdate(j) PROVE UNCHANGED proc
  BY <1>8 DEF ClockPastExpiry, ClockPastUpdate
<1>9. ASSUME NEW v \in Settings, SetGate(v) PROVE UNCHANGED proc
  BY <1>9 DEF SetGate
<1> QED
  BY <1>1, <1>2, <1>3, <1>4, <1>5, <1>6, <1>7, <1>8, <1>9
  DEF Next, GatewayNext, Starting, Hermes

\* One job of one step, seen as a receipt.
Moves(j) ==
    \/ R!Prepares(j) \/ R!Settles(j) \/ R!Forgets(j) \/ R!Admits(j) \/ R!Refuses(j)
    \/ R!Concludes(j) \/ R!Asks(j) \/ R!Runs(j) \/ R!Ends(j) \/ R!Same(j)

\* Every step of the store is, for each job, a step of its receipt or none.
LEMMA ReceiptStep ==
  ASSUME TypeOK, JobInv, JobInv', [Next]_vars, NEW j \in Job
  PROVE  Moves(j)
<1> USE DEF Moves, R!Become, R!Works, PhaseOf, WorkOf, ACTIVE, FINAL, Killed
<1>1. ASSUME state'[j] = state[j], proc'[j] = proc[j] PROVE Moves(j)
  BY <1>1 DEF R!Same
<1>2. ASSUME proc'[j] = proc[j], Edge(j) PROVE Moves(j)
  <2>1. RowInv(j) /\ VerdictInv(j) /\ RowInv(j)' /\ VerdictInv(j)'
    BY DEF JobInv
  <2>2. CASE state[j] \in ACTIVE /\ state'[j] \in ACTIVE
    BY <1>2, <2>2 DEF R!Same
  <2>3. CASE state[j] \in ACTIVE /\ state'[j] = "failed" /\ proc[j] = "none"
    BY <1>2, <2>3 DEF R!Refuses
  <2>4. CASE state[j] \in ACTIVE /\ state'[j] \in FINAL /\ proc[j] # "none"
    BY <1>2, <2>1, <2>4 DEF R!Concludes, R!Verdicts, RowInv, VerdictInv
  <2>5. CASE state[j] = "prepared" /\ state'[j] \in {"expired", "cancelled", "gone"}
    BY <1>2, <2>5 DEF R!Settles, R!Forgets
  <2>6. CASE state[j] \in FINAL /\ state'[j] = "gone"
    BY <1>2, <2>6 DEF R!Forgets
  <2> QED BY <1>1, <1>2, <2>2, <2>3, <2>4, <2>5, <2>6 DEF Edge, Ended
<1>3. CASE UNCHANGED state
  <2>1. RowInv(j)
    BY DEF JobInv
  <2>2. CASE proc[j] = "none" /\ proc'[j] = "requested" /\ state[j] \in ACTIVE
    BY <1>3, <2>2 DEF R!Asks
  <2>3. CASE proc[j] = "requested" /\ proc'[j] \in {"running", "dropped"}
    BY <1>3, <2>1, <2>3 DEF R!Runs, RowInv, Live
  <2>4. CASE proc[j] = "running" /\ proc'[j] \in Ended
    BY <1>3, <2>1, <2>4 DEF R!Ends, R!Over, RowInv, Live, Ended
  <2> QED BY <1>1, <1>3, <2>2, <2>3, <2>4, ProcSteps
<1>4. CASE UNCHANGED proc
  <2>1. ASSUME NEW g \in Gateway, NEW i \in Job, NEW o \in Owner, NEW d \in Dir,
               NEW k \in Key \cup {None}, Prepare(g, i, o, d, k)
        PROVE  Moves(j)
    <3>1. CASE i = j
      BY <1>4, <2>1, <3>1 DEF Prepare, R!Prepares
    <3>2. CASE i # j
      <4>1. Edge(j)
        BY <2>1, <3>2 DEF Prepare, Expired, Prepared, Edge
      <4> QED BY <1>2, <1>4, <4>1
    <3> QED BY <3>1, <3>2
  <2>2. ASSUME NEW g \in Gateway, NEW i \in Job, NEW o \in Owner, StartAdmit(g, i, o)
        PROVE  Moves(j)
    <3>1. CASE i = j
      BY <1>4, <2>2, <3>1 DEF StartAdmit, Startable, TypeOK, R!Admits
    <3>2. CASE i # j
      BY <1>1, <1>4, <2>2, <3>2 DEF StartAdmit, TypeOK
    <3> QED BY <3>1, <3>2
  <2>3. CASE Settling
    BY <1>2, <1>4, <2>3 DEF Settling
  <2> QED BY <2>1, <2>2, <2>3, Steps
<1> QED BY <1>3, <1>4, ProcSteps

\* The job store implements Receipt.
THEOREM StoreImplementsReceipt == Spec => ImplementsReceipt
<1>1. Init => R!RInit
  <2> SUFFICES ASSUME Init PROVE R!RInit
    OBVIOUS
  <2>1. \A j \in Job : state[j] = "absent" /\ proc[j] = "none"
    BY DEF Init
  <2>2. PhaseOf("absent") = "none" /\ WorkOf("none") = "none" /\ "absent" \notin FINAL
    BY DEF PhaseOf, WorkOf, ACTIVE, FINAL, Killed
  <2> QED BY <2>1, <2>2 DEF R!RInit
<1>2. TypeOK /\ JobInv /\ JobInv' /\ [Next]_vars => [R!RNext]_R!rvars
  BY ReceiptStep DEF R!RNext, Moves
<1> QED
  BY <1>1, <1>2, JobInvariant, PTL DEF Spec, ImplementsReceipt, R!RSpec
=============================================================================
