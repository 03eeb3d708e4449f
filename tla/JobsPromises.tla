--------------------------- MODULE JobsPromises ---------------------------
(***************************************************************************)
(* What the job store of module Jobs guarantees: safety, the fairness its  *)
(* scheduling justifies with the liveness that follows, and the abstract   *)
(* receipt it implements.                                                  *)
(***************************************************************************)
EXTENDS Jobs

\* Jobs whose native work may be running, now or as soon as Hermes gets to it,
\* and jobs that hold a slot.
Working == {j \in Job : proc[j] \in Live}
Holding == {j \in Job : state[j] \in ACTIVE \/ proc[j] \in Live}

\* A job is handed to Hermes at most once, and never before job_start committed
\* it: not by a repeated or concurrent job_start, another gateway, a crash
\* between commit and dispatch, or an uncertain launch (start, 349-442).
LaunchOnce ==
    \A j \in Job : /\ launches[j] <= 1
                   /\ state[j] \in {"absent", "prepared", "expired"} => launches[j] = 0

\* While its process runs or may still be spawned, a job keeps an active row:
\* no answer, lost answer, kill or retention ever frees it early.
LiveWorkIsAdmitted == \A j \in Working : state[j] \in ACTIVE

\* The caps of start() bound the work itself, late launches and quarantined
\* jobs included, in total and for each caller that started them.
WorkBounded ==
    /\ Cardinality(Holding) <= MaxActive
    /\ \A o \in Owner : Cardinality({j \in Holding : owner[j] = o}) <= MaxPerSession

\* Two jobs that hold a slot never work in nested directories (391-395).
WorkspacesDisjoint ==
    \A i, j \in Holding : i # j => ~Overlap(workdir[i], workdir[j])

\* A final state says what happened: how the process exited, that a user's kill
\* ended it, that the reaper's persisted intent did, or that nothing ever ran.
ReceiptsTruthful ==
    \A j \in Job :
        /\ state[j] = "succeeded" => proc[j] = "exit0"
        /\ state[j] = "failed"    => proc[j] = "exit1" \/ launches[j] = 0
        /\ state[j] = "cancelled" => proc[j] = "killed_user" \/ launches[j] = 0
        /\ state[j] = "timed_out" => proc[j] \in Killed /\ timeout[j]
        /\ state[j] = "expired"   => launches[j] = 0

\* One idempotency key never names two rows, whatever was purged or concluded
\* meanwhile (290-299).
KeysUnique ==
    \A i, j \in Job : /\ i # j /\ key[i] # None
                      /\ state[i] \notin NoRow /\ state[j] \notin NoRow
                      => key[i] # key[j]

\* The frozen command is in the table exactly while the job is prepared: start
\* always finds it, and nothing else keeps it (321-322).
PayloadPrivate == \A j \in Job : payload[j] <=> state[j] = "prepared"

\* The prepared rows stay within both caps of prepare (300-310).
PreparedBounded ==
    /\ Cardinality(Prepared) <= MaxPrepared
    /\ \A o \in Owner : Cardinality({j \in Prepared : owner[j] = o}) <= MaxPreparedPerOwner

\* What admission checks when a row is prepared or started holds at any time
\* after: late launches, quarantine, purges and other gateways break no limit, and
\* a command leaves the table with the row's admission, refused ones included.
AdmissionKept ==
    /\ LiveWorkIsAdmitted /\ WorkBounded /\ WorkspacesDisjoint
    /\ PreparedBounded /\ KeysUnique /\ PayloadPrivate

\* A final state is never rewritten, by no late answer to any operation of any
\* gateway; retention may only delete the row (175-199).
FinalIsFinal ==
    [][\A j \in Job : state[j] \in FINAL => state'[j] \in {state[j], "gone"}]_vars

-----------------------------------------------------------------------------
(* Fairness.  A coroutine that can run does.  The per-job asyncio.Lock is  *)
(* FIFO, so the reaper's turn at it comes however often clients take it,   *)
(* and the reaper sweeps again after each sweep (every 30 s).  Hermes may  *)
(* fail any call, but one that is asked again and again answers again and  *)
(* again, and acts on a kill it receives again and again.  Time passes.    *)

Maintaining(g, j) == op[g][j].kind = "maintain"

\* Gateways come and go; one of them stays, or is started again.
Steady == CHOOSE g \in Gateway : TRUE

Fairness ==
    /\ WF_vars(MaintainSweep(Steady))
    /\ \A g \in Gateway, j \in Job : WF_vars(Resume(g, j))
    /\ \A j \in Job : /\ SF_vars(MaintainSkip(Steady, j) \/ MaintainOne(Steady, j))
                      /\ SF_vars(Maintaining(Steady, j) /\ Answer(Steady, j))
                      /\ SF_vars(Maintaining(Steady, j) /\ KillAck(Steady, j))
                      /\ WF_vars(Starting(j)) /\ SF_vars(Kill(j)) /\ WF_vars(ClockPastUpdate(j))

FairSpec == Spec /\ Fairness

\* However a process ends, and whatever was lost on the way (the launch
\* acknowledgement, a gateway, any number of polls), its receipt is final in
\* the end; only an unknown exit code leaves it quarantined.
ExitRecorded ==
    \A j \in Job :
        (proc[j] \in Ended \ {"lost"}) ~> (state[j] \in FINAL \cup {"gone"})

\* A job running past its deadline does not run forever: its process ends,
\* and with it the work on the receipt.
OverdueEnds ==
    \A j \in Job : (proc[j] = "running" /\ due[j]) ~> (proc[j] \in Ended)

-----------------------------------------------------------------------------
(* The abstract receipt.                                                   *)

PhaseOf(s) == CASE s = "absent"    -> "none"
                [] s = "prepared"  -> "prepared"
                [] s \in ACTIVE    -> "open"
                [] s \in FINAL     -> "closed"
                [] OTHER           -> "gone"

WorkOf(p) == CASE p = "requested" -> "asked"
               [] p = "dropped"   -> "never"
               [] p = "running"   -> "live"
               [] p = "exit0"     -> "ok"
               [] p = "exit1"     -> "bad"
               [] p \in Killed    -> "stopped"
               [] OTHER           -> p

R == INSTANCE Receipt WITH
        phase   <- [j \in Job |-> PhaseOf(state[j])],
        work    <- [j \in Job |-> WorkOf(proc[j])],
        verdict <- [j \in Job |-> IF state[j] \in FINAL THEN state[j] ELSE "none"]

\* The job store implements the receipt.
ImplementsReceipt == R!RSpec
=============================================================================
