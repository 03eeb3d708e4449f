------------------------------ MODULE Receipt ------------------------------
(***************************************************************************)
(* What a job receipt promises to whoever holds its recovery credential,   *)
(* whatever the gateways, the clock and the Hermes terminal do: work is    *)
(* asked for at most once and only for an admitted receipt, a receipt      *)
(* concludes only when its work is over (or was never asked for), with a   *)
(* verdict that says how the work ended, and a concluded receipt is never  *)
(* changed, only forgotten.  Receipts are independent of each other.       *)
(***************************************************************************)
CONSTANT Job

VARIABLES
    phase,    \* none, prepared, open (admitted), closed, gone
    work,     \* none, asked, never, live, or how it ended
    verdict   \* what a closed receipt says

rvars == <<phase, work, verdict>>

Over      == {"ok", "bad", "lost", "stopped"}
Verdicts(w) == CASE w = "ok"      -> {"succeeded"}
                 [] w = "bad"     -> {"failed"}
                 [] w = "stopped" -> {"cancelled", "timed_out"}
                 [] OTHER         -> {}

RInit == /\ phase = [j \in Job |-> "none"]
         /\ work = [j \in Job |-> "none"]
         /\ verdict = [j \in Job |-> "none"]

Become(j, p, v) == phase'[j] = p /\ verdict'[j] = v /\ work'[j] = work[j]

Prepares(j) == phase[j] = "none" /\ Become(j, "prepared", "none")

\* A receipt that was never admitted is settled or forgotten without work.
Settles(j)  == phase[j] = "prepared" /\ \E v \in {"cancelled", "expired"} : Become(j, "closed", v)
Forgets(j)  == phase[j] \in {"prepared", "closed"} /\ Become(j, "gone", "none")

Admits(j)   == phase[j] = "prepared" /\ Become(j, "open", "none")
Refuses(j)  == phase[j] = "open" /\ work[j] = "none" /\ Become(j, "closed", "failed")
Concludes(j) == phase[j] = "open" /\ \E v \in Verdicts(work[j]) : Become(j, "closed", v)

Works(j, w) == work'[j] = w /\ phase'[j] = phase[j] /\ verdict'[j] = verdict[j]

Asks(j)  == phase[j] = "open" /\ work[j] = "none" /\ Works(j, "asked")
Runs(j)  == phase[j] = "open" /\ work[j] = "asked" /\ \E w \in {"live", "never"} : Works(j, w)
Ends(j)  == phase[j] = "open" /\ work[j] = "live" /\ \E w \in Over : Works(j, w)

Same(j)  == Become(j, phase[j], verdict[j])

RNext ==
    /\ \A S \in {phase', work', verdict'} : DOMAIN S = Job
    /\ \A j \in Job : \/ Prepares(j) \/ Settles(j) \/ Forgets(j) \/ Admits(j)
                      \/ Refuses(j) \/ Concludes(j) \/ Asks(j) \/ Runs(j) \/ Ends(j)
                      \/ Same(j)

RSpec == RInit /\ [][RNext]_rvars
=============================================================================
