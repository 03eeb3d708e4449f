------------------------------- MODULE Jobs -------------------------------
(***************************************************************************)
(* The resumable job store of jobs.py: durable receipts in one SQLite      *)
(* table, native work launched through Hermes at most once per receipt,    *)
(* and the status, cancel and reaper operations that reconcile a receipt   *)
(* with the process it stands for.                                         *)
(*                                                                         *)
(* An action is one stretch of code between two awaits: asyncio cannot     *)
(* interleave anything inside it.  Several gateway processes may share the *)
(* table (a restart overlapping its predecessor), so an action of another  *)
(* gateway can fall between two actions of one operation, and a crash can  *)
(* end an operation at any await.  The Hermes terminal is external: a      *)
(* launch or a kill runs in a thread that outlives the 12 s wait of the    *)
(* coroutine that asked for it, so it may take effect late or never.       *)
(***************************************************************************)
EXTENDS Integers, FiniteSets

CONSTANTS
    Job,                 \* receipts; an identifier is random and never reused
    Gateway,             \* gateway processes sharing the database
    Owner,               \* verified caller identities
    Dir,                 \* resolved work directories
    Above,               \* <<p, q>> \in Above: p is a proper ancestor of q
    Key,                 \* client idempotency keys
    None,                \* no owner, no key, no gateway
    Settings,            \* values an operator writes to the admission gate
    MaxActive,           \* max_active
    MaxPerSession,       \* max_per_session
    MaxPrepared,         \* max_prepared
    MaxPreparedPerOwner, \* max_prepared_per_owner
    Kinds,               \* operations clients and the reaper run in an instance
    Exits,               \* ways a process may end by itself in an instance
    MaxOps,              \* bound: operations awaiting Hermes at one time
    MaxCrashes           \* bound: crashes of a gateway in one behaviour

ASSUME JobsAssumption ==
    /\ IsFiniteSet(Job)
    /\ Above \subseteq Dir \X Dir
    /\ None \notin Owner \cup Key \cup Gateway
    /\ {MaxActive, MaxPerSession, MaxPrepared, MaxPreparedPerOwner} \subseteq Nat \ {0}
    /\ Settings \subseteq {"0", "1", "odd"}
    /\ Kinds \subseteq {"status", "cancel", "maintain"}
    /\ Exits \subseteq {"exit0", "exit1", "lost"}
    /\ MaxOps \in Nat
    /\ MaxCrashes \in Nat

VARIABLES
    state,     \* the column `state`; "absent" before the row, "gone" after its deletion
    owner,     \* owner_hash: who prepared the job, then who started it
    workdir,   \* the frozen directory, which stands for the whole frozen request
    key,       \* idempotency_hash
    payload,   \* prepared_command IS NOT NULL
    native,    \* native_id IS NOT NULL
    timeout,   \* timeout_requested
    due,       \* the clock is past prepared_expires (prepared) or deadline (started)
    aged,      \* `updated` is older than 60 s (starting) or RESULT_RETENTION (final)
    gate,      \* the gateway_settings row 'draining'
    starter,   \* per job: the job_start call that committed the row, while it runs
    op,        \* per gateway and job: the holder of the per-job lock
    reap,      \* per gateway: what is left of the reaper's sweep, and its reading of the clock
    proc,      \* external: the job's process in Hermes' registry
    killing,   \* external: termination requests Hermes has not acted on
    launches,  \* terminal calls handed to Hermes for the job
    crashes

rowVars    == <<owner, workdir, key>>
settings   == <<gate, crashes>>
stable     == <<rowVars, native, timeout, due, settings>>
table      == <<state, payload, aged, rowVars, native, timeout, due>>
calls      == <<starter, op, reap>>
hermesVars == <<proc, killing, launches>>
vars       == <<table, settings, calls, hermesVars>>

ACTIVE == {"starting", "running", "unknown"}
FINAL  == {"succeeded", "failed", "cancelled", "timed_out", "expired"}
NoRow  == {"absent", "gone"}
State  == NoRow \cup {"prepared"} \cup ACTIVE \cup FINAL

\* The native process: never asked for, asked for, running, or how it ended.
Killed  == {"killed_user", "killed_timeout"}
Ended   == {"exit0", "exit1", "lost"} \cup Killed
Spawned == {"running"} \cup Ended
Live    == {"requested", "running"}
Proc    == {"none", "dropped"} \cup Live \cup Ended

\* An operation under the per-job lock.  pc names the Hermes call it awaits and
\* ans the answer it has been given; late and stale are maintain's readings of
\* the clock (deadline < now; starting for 60 s).
Op   == [kind : {"status", "cancel", "maintain"}, pc : {"adopt", "poll", "kill", "repoll"},
         ans : {"wait", "found", "running", "odd", "exit0", "exit1", "killed"},
         late : BOOLEAN, stale : BOOLEAN]
NoOp == [kind |-> "idle"]
OpTable == [Gateway -> [Job -> Op \cup {NoOp}]]
Idle == [pc |-> "idle", gw |-> None]
NoSweep == [jobs |-> {}, late |-> {}, aged |-> {}]

\* Mutant: quarantined rows hold no slot.
MutActive    == {j \in Job : state[j] \in {"starting", "running"}}
Active       == {j \in Job : state[j] \in ACTIVE}
ActiveOf(o)  == {j \in Active : owner[j] = o}
Prepared     == {j \in Job : state[j] = "prepared"}
Expired      == {j \in Prepared : due[j]}

\* Mutant: only the ancestors of the new directory are compared.
MutOverlap(p, q) == p = q \/ <<q, p>> \in Above
Overlap(p, q)    == p = q \/ <<p, q>> \in Above \/ <<q, p>> \in Above

TypeOK ==
    /\ state \in [Job -> State]
    /\ owner \in [Job -> Owner \cup {None}]
    /\ workdir \in [Job -> Dir \cup {None}]
    /\ key \in [Job -> Key \cup {None}]
    /\ payload \in [Job -> BOOLEAN]
    /\ native \in [Job -> BOOLEAN]
    /\ timeout \in [Job -> BOOLEAN]
    /\ due \in [Job -> BOOLEAN]
    /\ aged \in [Job -> BOOLEAN]
    /\ gate \in {"unset", "0", "1", "odd"}
    /\ starter \in [Job -> [pc : {"idle", "admitted", "waiting"}, gw : Gateway \cup {None}]]
    /\ op \in OpTable
    /\ reap \in [Gateway -> [jobs : SUBSET Job, late : SUBSET Job, aged : SUBSET Job]]
    /\ proc \in [Job -> Proc]
    /\ killing \in [Job -> SUBSET Killed]
    /\ launches \in [Job -> Nat]
    /\ crashes \in 0..MaxCrashes

Init ==
    /\ state = [j \in Job |-> "absent"]
    /\ owner = [j \in Job |-> None]
    /\ workdir = [j \in Job |-> None]
    /\ key = [j \in Job |-> None]
    /\ payload = [j \in Job |-> FALSE]
    /\ native = [j \in Job |-> FALSE]
    /\ timeout = [j \in Job |-> FALSE]
    /\ due = [j \in Job |-> FALSE]
    /\ aged = [j \in Job |-> FALSE]
    /\ gate = "unset"
    /\ starter = [j \in Job |-> Idle]
    /\ op = [g \in Gateway |-> [j \in Job |-> NoOp]]
    /\ reap = [g \in Gateway |-> NoSweep]
    /\ proc = [j \in Job |-> "none"]
    /\ killing = [j \in Job |-> {}]
    /\ launches = [j \in Job |-> 0]
    /\ crashes = 0

-----------------------------------------------------------------------------
(* Shared steps.                                                           *)

\* The event loop of g is in no synchronous stretch of job_start.
Free(g) == \A j \in Job : ~(starter[j].pc = "admitted" /\ starter[j].gw = g)

InFlight == {p \in Gateway \X Job : op[p[1]][p[2]] # NoOp}

\* _update with expected_states: it changes the row only from one of them.
Update(j, from, to) ==
    IF state[j] \in from
    THEN /\ state' = [state EXCEPT ![j] = to]
         /\ aged' = [aged EXCEPT ![j] = FALSE]
    ELSE UNCHANGED <<state, aged>>

\* DELETE FROM jobs for the rows in S.
Delete(S) ==
    /\ state' = [j \in Job |-> IF j \in S THEN "gone" ELSE state[j]]
    /\ payload' = [j \in Job |-> payload[j] /\ j \notin S]

\* async with self._lock_for(job_id): take the lock and issue a Hermes call.
Await(g, j, kind, pc, late, stale) ==
    /\ kind \in Kinds /\ Cardinality(InFlight) < MaxOps
    /\ op' = [op EXCEPT ![g][j] = [kind |-> kind, pc |-> pc, ans |-> "wait",
                                   late |-> late, stale |-> stale]]

\* A termination request handed to Hermes, where it matters: a process that has
\* ended is not disturbed.
Terminate(j, k) ==
    killing' = IF proc[j] = "running" THEN [killing EXCEPT ![j] = @ \cup {k}] ELSE killing

Then(g, j, pc) == op' = [op EXCEPT ![g][j] = [@ EXCEPT !.pc = pc, !.ans = "wait"]]
Release(g, j)   == op' = [op EXCEPT ![g][j] = NoOp]

-----------------------------------------------------------------------------
(* job_prepare.                                                            *)

HasKey(i, k) == state[i] \notin NoRow /\ i \notin Expired /\ key[i] = k

Room(o) ==
    /\ Cardinality(Prepared \ Expired) < MaxPrepared
    /\ Cardinality({i \in Prepared \ Expired : owner[i] = o}) < MaxPreparedPerOwner

\* A fresh receipt.  An error rolls the whole transaction back, the purge of
\* expired rows included, and is no step.
Prepare(g, j, o, d, k) ==
    /\ Free(g)
    /\ state[j] = "absent"
    /\ k = None \/ \A i \in Job : ~HasKey(i, k)
    /\ Room(o)
    /\ state' = [i \in Job |-> IF i = j THEN "prepared"
                               ELSE IF i \in Expired THEN "gone" ELSE state[i]]
    /\ payload' = [i \in Job |-> i = j \/ (payload[i] /\ i \notin Expired)]
    /\ owner' = [owner EXCEPT ![j] = o]
    /\ workdir' = [workdir EXCEPT ![j] = d]
    /\ key' = [key EXCEPT ![j] = k]
    /\ due' = [due EXCEPT ![j] = FALSE]
    /\ UNCHANGED <<native, timeout, aged, settings, calls, hermesVars>>

\* The key names a stored request: the receipt is reported again, without its
\* token, and the purge commits.
PrepareReplay(g, k) ==
    /\ Free(g)
    /\ \E i \in Job : HasKey(i, k)
    /\ Delete(Expired)
    /\ UNCHANGED <<stable, aged, calls, hermesVars>>

-----------------------------------------------------------------------------
(* job_start.                                                              *)

\* A missing row or a zero accepts; any other text, "odd" too, fails closed.
DrainingValue(v)    == v \notin {"unset", "0"}

StartExpired(g, j) ==
    /\ Free(g)
    /\ state[j] = "prepared" /\ due[j]
    /\ state' = [state EXCEPT ![j] = "expired"]
    /\ payload' = [payload EXCEPT ![j] = FALSE]
    /\ aged' = [aged EXCEPT ![j] = FALSE]
    /\ UNCHANGED <<stable, calls, hermesVars>>

Startable(j) == state[j] = "prepared" /\ ~due[j] /\ payload[j]

\* The admission transaction: drain gate, capacities, workspace, then
\* prepared -> starting.  A directory that no longer resolves is an error that
\* leaves the row prepared.
StartAdmit(g, j, o) ==
    /\ Free(g)
    /\ Startable(j)
    /\ ~DrainingValue(gate)
    /\ Cardinality(Active) < MaxActive
    /\ Cardinality(ActiveOf(o)) < MaxPerSession
    /\ \A i \in Active : ~Overlap(workdir[j], workdir[i])
    /\ state' = [state EXCEPT ![j] = "starting"]
    /\ owner' = [owner EXCEPT ![j] = o]
    /\ payload' = [payload EXCEPT ![j] = FALSE]
    /\ due' = [due EXCEPT ![j] = FALSE]
    /\ aged' = [aged EXCEPT ![j] = FALSE]
    /\ starter' = [starter EXCEPT ![j] = [pc |-> "admitted", gw |-> g]]
    /\ UNCHANGED <<native, timeout, settings, op, reap, hermesVars, key, workdir>>

\* After the commit the directory is resolved again: it fails ...
StartRefused(j) ==
    /\ starter[j].pc = "admitted"
    /\ Update(j, {"starting"}, "failed")
    /\ starter' = [starter EXCEPT ![j] = Idle]
    /\ UNCHANGED <<stable, payload, op, reap, hermesVars>>

\* ... or the one terminal call of this receipt is handed to Hermes.
StartDispatch(j) ==
    /\ starter[j].pc = "admitted"
    /\ starter' = [starter EXCEPT ![j] = [pc |-> "waiting", gw |-> @.gw]]
    /\ proc' = [proc EXCEPT ![j] = "requested"]
    /\ launches' = [launches EXCEPT ![j] = @ + 1]
    /\ UNCHANGED <<table, settings, op, reap, killing>>

\* Hermes returned the process handle.
StartAck(j) ==
    /\ starter[j].pc = "waiting" /\ Free(starter[j].gw)
    /\ proc[j] \in Spawned
    /\ Update(j, {"starting"}, "running")
    /\ native' = [native EXCEPT ![j] = @ \/ state[j] = "starting"]
    /\ starter' = [starter EXCEPT ![j] = Idle]
    /\ UNCHANGED <<rowVars, payload, timeout, due, settings, op, reap, hermesVars>>

\* The call timed out, failed, or was cancelled with its client: ambiguous.
StartUncertain(j) ==
    /\ starter[j].pc = "waiting" /\ Free(starter[j].gw)
    /\ Update(j, {"starting"}, "unknown")
    /\ starter' = [starter EXCEPT ![j] = Idle]
    /\ UNCHANGED <<stable, payload, op, reap, hermesVars>>

-----------------------------------------------------------------------------
(* job_status, job_cancel and the reaper: the first stretch of each, up to *)
(* the Hermes call it awaits.                                              *)

Unlocked(g, j) == Free(g) /\ op[g][j] = NoOp

\* A prepared row is settled at once, its command forgotten.
SettlePrepared(j, to) ==
    /\ Update(j, {"prepared"}, to)
    /\ payload' = [payload EXCEPT ![j] = FALSE]

StatusExpired(g, j) ==
    /\ "status" \in Kinds
    /\ Unlocked(g, j)
    /\ state[j] = "prepared" /\ due[j]
    /\ SettlePrepared(j, "expired")
    /\ UNCHANGED <<stable, calls, hermesVars>>

Status(g, j) ==
    /\ Unlocked(g, j)
    /\ \/ /\ state[j] \in {"starting", "unknown"} /\ ~native[j]
          /\ Await(g, j, "status", "adopt", FALSE, FALSE)
       \/ /\ state[j] \in {"running", "unknown"} /\ native[j]
          /\ Await(g, j, "status", "poll", FALSE, FALSE)
    /\ UNCHANGED <<table, settings, starter, reap, hermesVars>>

CancelPrepared(g, j) ==
    /\ "cancel" \in Kinds
    /\ Unlocked(g, j)
    /\ state[j] = "prepared"
    /\ SettlePrepared(j, "cancelled")
    /\ UNCHANGED <<stable, calls, hermesVars>>

Cancel(g, j) ==
    /\ Unlocked(g, j)
    /\ \/ /\ state[j] \in {"starting", "unknown"} /\ ~native[j]
          /\ Await(g, j, "cancel", "adopt", FALSE, FALSE)
          /\ UNCHANGED killing
       \/ /\ state[j] \in ACTIVE /\ native[j]
          /\ Await(g, j, "cancel", "kill", FALSE, FALSE)
          /\ Terminate(j, "killed_user")
    /\ UNCHANGED <<table, settings, starter, reap, proc, launches>>

\* Mutant: retention looks at the age of a row only.
MutRetired == {j \in Job : state[j] \in ACTIVE \cup FINAL /\ aged[j]}
Retired    == {j \in Job : state[j] \in FINAL /\ aged[j]}

\* maintain(): one reading of the clock, the purge, and the active rows.  The
\* reaper awaits the whole sweep before the next.
MaintainSweep(g) ==
    /\ "maintain" \in Kinds /\ Free(g)
    /\ reap[g].jobs = {} /\ \A j \in Job : op[g][j].kind # "maintain"
    /\ Active \cup Expired \cup Retired # {}
    /\ Delete(Expired \cup Retired)
    /\ reap' = [reap EXCEPT ![g] = [jobs |-> Active,
                                    late |-> {j \in Active : due[j]},
                                    aged |-> {j \in Active : aged[j]}]]
    /\ UNCHANGED <<stable, aged, starter, op, hermesVars>>

\* _maintain_one under the lock: the row is read again, the clock is not.
Turn(g, j) == /\ Unlocked(g, j) /\ j \in reap[g].jobs
              /\ reap' = [reap EXCEPT ![g] = [jobs |-> @.jobs \ {j}, late |-> @.late \ {j},
                                             aged |-> @.aged \ {j}]]
              /\ UNCHANGED <<table, settings, starter, hermesVars>>

MaintainSkip(g, j) ==
    /\ Turn(g, j)
    /\ \/ state[j] \notin ACTIVE
       \/ state[j] = "starting" /\ ~native[j] /\ j \notin reap[g].aged
    /\ UNCHANGED op

MaintainOne(g, j) ==
    /\ Turn(g, j)
    /\ state[j] \in ACTIVE
    /\ \/ /\ ~native[j]
          /\ state[j] = "starting" => j \in reap[g].aged
          /\ Await(g, j, "maintain", "adopt", j \in reap[g].late, state[j] = "starting")
       \/ /\ native[j]
          /\ Await(g, j, "maintain", "poll", j \in reap[g].late, FALSE)

-----------------------------------------------------------------------------
(* The answers, and what each operation does with them.                    *)

\* _adopt: the list of the job's own Hermes owner.  A process found is recorded
\* on an active row; a failure, a timeout or an empty list finds nothing.
Adopt(g, j, found) ==
    /\ Free(g)
    /\ op[g][j] # NoOp /\ op[g][j].pc = "adopt"
    /\ op[g][j].ans = IF found THEN "found" ELSE "wait"

Adopted(g, j) ==
    /\ Adopt(g, j, TRUE)
    /\ state[j] \in ACTIVE
    /\ Update(j, ACTIVE, "running")
    /\ native' = [native EXCEPT ![j] = TRUE]
    /\ IF op[g][j].kind = "cancel"
       THEN /\ Then(g, j, "kill")
            /\ Terminate(j, "killed_user")
       ELSE /\ Then(g, j, "poll")
            /\ UNCHANGED killing
    /\ UNCHANGED <<rowVars, payload, timeout, due, settings, starter, reap, proc, launches>>

\* Nothing adopted: the row may have moved on during the wait, and status and
\* cancel read it again; maintain uses what it read before.
NotAdopted(g, j) ==
    /\ \/ Adopt(g, j, FALSE)
       \/ Adopt(g, j, TRUE) /\ state[j] \notin ACTIVE
    /\ CASE op[g][j].kind = "status" /\ native[j] /\ state[j] \in {"running", "unknown"} ->
              Then(g, j, "poll") /\ UNCHANGED <<state, aged, killing>>
         [] op[g][j].kind = "cancel" /\ native[j] /\ state[j] \in ACTIVE ->
              /\ Then(g, j, "kill")
              /\ Terminate(j, "killed_user")
              /\ UNCHANGED <<state, aged>>
         [] op[g][j].kind = "cancel" /\ ~native[j] ->
              Release(g, j) /\ Update(j, ACTIVE, "unknown") /\ UNCHANGED killing
         [] op[g][j].kind = "maintain" /\ op[g][j].stale ->
              Release(g, j) /\ Update(j, {"starting"}, "unknown") /\ UNCHANGED killing
         [] OTHER -> Release(g, j) /\ UNCHANGED <<state, aged, killing>>
    /\ UNCHANGED <<stable, payload, starter, reap, proc, launches>>

\* Hermes accepted the termination request, which proves nothing yet.
KillAck(g, j) ==
    /\ Free(g)
    /\ op[g][j] # NoOp /\ op[g][j].pc = "kill"
    /\ Then(g, j, "repoll")
    /\ UNCHANGED <<table, settings, starter, reap, hermesVars>>

\* Mutant: the deadline, not the recorded intent, makes it a timeout.
MutOutcomeDeadline(j, ans) ==
    CASE ans = "exit0" -> "succeeded" [] ans = "exit1" -> "failed"
      [] ans = "running" -> "running" [] ans = "odd" -> "unknown"
      [] OTHER -> IF due[j] THEN "timed_out" ELSE "cancelled"

\* Mutant: the native status is stored as it is.
MutOutcomeRaw(j, ans) == ans

\* _poll: the receipt state an answer stands for.
Outcome(j, ans) ==
    CASE ans = "running" -> "running"
      [] ans = "exit0"   -> "succeeded"
      [] ans = "exit1"   -> "failed"
      [] ans = "killed"  -> IF timeout[j] THEN "timed_out" ELSE "cancelled"
      [] OTHER           -> "unknown"

Answered(g, j) ==
    /\ Free(g)
    /\ op[g][j] # NoOp /\ op[g][j].pc \in {"poll", "repoll"} /\ op[g][j].ans # "wait"

\* Mutant: termination is requested once only.
MutOverdue(g, j) ==
    /\ op[g][j].kind = "maintain" /\ op[g][j].pc = "poll" /\ op[g][j].late
    /\ op[g][j].ans = "running" /\ state[j] \in ACTIVE /\ ~timeout[j]

\* The reaper's first poll found an overdue process running.
Overdue(g, j) ==
    /\ op[g][j].kind = "maintain" /\ op[g][j].pc = "poll" /\ op[g][j].late
    /\ op[g][j].ans = "running" /\ state[j] \in ACTIVE

PollDone(g, j) ==
    /\ Answered(g, j) /\ ~Overdue(g, j)
    /\ Update(j, ACTIVE, Outcome(j, op[g][j].ans))
    /\ Release(g, j)
    /\ UNCHANGED <<stable, payload, starter, reap, hermesVars>>

\* _request_timeout persists the intent, then the kill is issued.
PollOverdue(g, j) ==
    /\ Answered(g, j) /\ Overdue(g, j)
    /\ Update(j, ACTIVE, "running")
    /\ timeout' = [timeout EXCEPT ![j] = TRUE]
    /\ Terminate(j, "killed_timeout")
    /\ Then(g, j, "kill")
    /\ UNCHANGED <<rowVars, payload, native, due, settings, starter, reap, proc, launches>>

\* A poll or a kill timed out or failed: the receipt is quarantined.
CallFails(g, j) ==
    /\ Free(g)
    /\ op[g][j] # NoOp /\ op[g][j].pc # "adopt" /\ op[g][j].ans = "wait"
    /\ Update(j, ACTIVE, "unknown")
    /\ Release(g, j)
    /\ UNCHANGED <<stable, payload, starter, reap, hermesVars>>

\* The client is gone: CancelledError leaves status or cancel at its await,
\* past every `except Exception`.
Abandon(g, j) ==
    /\ Free(g)
    /\ op[g][j].kind \in {"status", "cancel"}
    /\ Release(g, j)
    /\ UNCHANGED <<table, settings, starter, reap, hermesVars>>

-----------------------------------------------------------------------------
(* The environment: the clock, the operator, crashes, and Hermes.          *)

ClockPastExpiry(j) ==
    /\ state[j] \in {"prepared"} \cup ACTIVE /\ ~due[j]
    /\ due' = [due EXCEPT ![j] = TRUE]
    /\ UNCHANGED <<state, rowVars, payload, native, timeout, aged, settings, calls, hermesVars>>

ClockPastUpdate(j) ==
    /\ state[j] \in {"starting"} \cup FINAL /\ ~aged[j]
    /\ aged' = [aged EXCEPT ![j] = TRUE]
    /\ UNCHANGED <<stable, state, payload, calls, hermesVars>>

\* job_admission.py writes the gate in its own process (module JobAdmission).
SetGate(v) ==
    /\ gate # v /\ gate' = v
    /\ UNCHANGED <<table, crashes, calls, hermesVars>>

\* The process dies and comes back: locks, waits and the sweep are lost.
Crash(g) ==
    /\ crashes < MaxCrashes
    /\ crashes' = crashes + 1
    /\ starter' = [j \in Job |-> IF starter[j].gw = g THEN Idle ELSE starter[j]]
    /\ op' = [op EXCEPT ![g] = [j \in Job |-> NoOp]]
    /\ reap' = [reap EXCEPT ![g] = NoSweep]
    /\ UNCHANGED <<table, gate, hermesVars>>

HermesStep == UNCHANGED <<table, settings, calls, launches>>

Spawn(j) ==
    /\ proc[j] = "requested"
    /\ proc' = [proc EXCEPT ![j] = "running"]
    /\ HermesStep /\ UNCHANGED killing

LaunchLost(j) ==
    /\ proc[j] = "requested"
    /\ proc' = [proc EXCEPT ![j] = "dropped"]
    /\ HermesStep /\ UNCHANGED killing

\* "lost": the process is over and its exit code is not known.
Exit(j) ==
    /\ proc[j] = "running"
    /\ \E e \in Exits : proc' = [proc EXCEPT ![j] = e]
    /\ killing' = [killing EXCEPT ![j] = {}]
    /\ HermesStep

Kill(j) ==
    /\ proc[j] = "running"
    /\ \E k \in killing[j] : proc' = [proc EXCEPT ![j] = k]
    /\ killing' = [killing EXCEPT ![j] = {}]
    /\ HermesStep

KillLost(j) ==
    /\ killing[j] # {}
    /\ killing' = [killing EXCEPT ![j] = {}]
    /\ HermesStep /\ UNCHANGED proc

\* Hermes reads its registry for a waiting list or poll; the gateway resumes
\* with that answer later.
Answer(g, j) ==
    /\ op[g][j] # NoOp /\ op[g][j].ans = "wait" /\ proc[j] \in Spawned
    /\ op[g][j].pc \in {"adopt", "poll", "repoll"}
    /\ op' = [op EXCEPT ![g][j] = [@ EXCEPT !.ans =
                CASE op[g][j].pc = "adopt"  -> "found"
                  [] proc[j] \in Killed     -> "killed"
                  [] proc[j] = "lost"       -> "odd"
                  [] OTHER                  -> proc[j]]]
    /\ UNCHANGED <<table, settings, starter, reap, hermesVars>>

-----------------------------------------------------------------------------
Calls(g, j) ==
    \/ \E o \in Owner, d \in Dir, k \in Key \cup {None} : Prepare(g, j, o, d, k)
    \/ StartExpired(g, j)
    \/ \E o \in Owner : StartAdmit(g, j, o)
    \/ StatusExpired(g, j) \/ Status(g, j)
    \/ CancelPrepared(g, j) \/ Cancel(g, j)

Starting(j) == StartRefused(j) \/ StartDispatch(j) \/ StartAck(j) \/ StartUncertain(j)

Resume(g, j) ==
    \/ Adopted(g, j) \/ NotAdopted(g, j) \/ KillAck(g, j)
    \/ PollDone(g, j) \/ PollOverdue(g, j) \/ CallFails(g, j)

Hermes(j) == Spawn(j) \/ LaunchLost(j) \/ Exit(j) \/ Kill(j) \/ KillLost(j)

GatewayNext ==
    \/ \E g \in Gateway, j \in Job :
          \/ Calls(g, j) \/ Resume(g, j) \/ Abandon(g, j)
          \/ MaintainSkip(g, j) \/ MaintainOne(g, j) \/ Answer(g, j)
    \/ \E g \in Gateway : MaintainSweep(g) \/ Crash(g) \/ \E k \in Key : PrepareReplay(g, k)
    \/ \E j \in Job : Starting(j) \/ Hermes(j) \/ ClockPastExpiry(j) \/ ClockPastUpdate(j)

Next == GatewayNext \/ \E v \in Settings : SetGate(v)

Spec == Init /\ [][Next]_vars
=============================================================================
