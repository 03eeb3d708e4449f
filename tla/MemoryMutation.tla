--------------------------- MODULE MemoryMutation ---------------------------
(***************************************************************************)
(* A conclusion that a client wants in the durable memory once (memory.py, *)
(* memory_conclude).  The write runs in a native thread which nobody can   *)
(* stop: the gateway gives it up after its timeout and answers that the    *)
(* outcome is unknown, a client that disconnects learns nothing.           *)
(*                                                                         *)
(* The client does what README 98-101 asks of it: it repeats the write     *)
(* only if it was refused, or after the first one is over and not there.   *)
(* The memory service is external: it applies a write or not, and reports  *)
(* a failure only of a write that it did not apply.                        *)
(***************************************************************************)
EXTENDS Naturals, FiniteSets

CONSTANT Attempt    \* the requests the client may make

MemoryAssumption == IsFiniteSet(Attempt)

ASSUME MemoryAssumption

VARIABLES
    answer,     \* none, waiting, saved, refused, failed, unknown or lost
    worker,     \* the native thread: none, running, saved, failed or late
    applied     \* the attempts whose write was applied

memVars == <<answer, worker, applied>>

Waiting(a) == answer[a] = "waiting"

MemoryInit ==
    /\ answer = [a \in Attempt |-> "none"]
    /\ worker = [a \in Attempt |-> "none"]
    /\ applied = {}

\* What the client knows of an earlier attempt that allows another one: it was
\* refused or has failed, or its worker is over and the readback finds nothing.
Settled(a) ==
    \/ answer[a] \in {"none", "refused", "failed"}
    \/ answer[a] \in {"unknown", "lost"} /\ worker[a] # "running" /\ applied = {}

Answers(a, what) == answer' = [answer EXCEPT ![a] = what]

MayAsk(a) == answer[a] = "none" /\ \A b \in Attempt : Settled(b)

\* The policy admits the write, and its thread starts.
MemoryStarts(a) ==
    /\ MayAsk(a)
    /\ Answers(a, "waiting")
    /\ worker' = [worker EXCEPT ![a] = "running"]
    /\ UNCHANGED applied

\* The policy refuses it (validate_memory_write).
MemoryRefused(a) ==
    /\ MayAsk(a)
    /\ Answers(a, "refused")
    /\ UNCHANGED <<worker, applied>>

\* The thread ends: saved, not saved, or with a timeout of its own, after which
\* the write may be there or not.
MemoryEnds(a) ==
    /\ worker[a] = "running"
    /\ \E end \in {"saved", "failed", "late"} :
          /\ worker' = [worker EXCEPT ![a] = end]
          /\ \/ end # "failed" /\ applied' = applied \cup {a}
             \/ end # "saved" /\ UNCHANGED applied
    /\ UNCHANGED answer

\* Its result reaches the request, if that still waits.
MemoryAnswers(a) ==
    /\ Waiting(a) /\ worker[a] # "running"
    /\ Answers(a, IF worker[a] = "late" THEN "unknown" ELSE worker[a])
    /\ UNCHANGED <<worker, applied>>

\* Mutant: a write that is given up is answered as an error.
MutGivenUp == "failed"

GivenUp == "unknown"

\* wait_for cancels what awaits the thread, never the thread.
MemoryTimesOut(a) ==
    /\ Waiting(a)
    /\ Answers(a, GivenUp)
    /\ UNCHANGED <<worker, applied>>

MemoryDisconnects(a) ==
    /\ Waiting(a)
    /\ Answers(a, "lost")
    /\ UNCHANGED <<worker, applied>>

MemoryNext == \E a \in Attempt : \/ MemoryStarts(a) \/ MemoryRefused(a) \/ MemoryEnds(a)
                                 \/ MemoryAnswers(a) \/ MemoryTimesOut(a) \/ MemoryDisconnects(a)

MemorySpec == MemoryInit /\ [][MemoryNext]_memVars

MemoryTypeOK ==
    /\ answer \in [Attempt -> {"none", "waiting", "saved", "refused", "failed", "unknown", "lost"}]
    /\ worker \in [Attempt -> {"none", "running", "saved", "failed", "late"}]
    /\ applied \subseteq Attempt

-----------------------------------------------------------------------------
\* The conclusion is never written twice, by no timeout, lost answer or late
\* worker; and an answer says what happened, now and later.
MutationOnce ==
    /\ Cardinality(applied) <= 1
    /\ \A a \in Attempt : /\ answer[a] = "saved" => a \in applied
                          /\ answer[a] \in {"refused", "failed"} => a \notin applied
=============================================================================
