----------------------------- MODULE JsonOutput -----------------------------
(***************************************************************************)
(* The truncation of a JSON result (output.py, json_result): the longest   *)
(* preview whose envelope still fits is found by bisection, because the    *)
(* escaping of the preview makes the envelope longer than the cut.         *)
(***************************************************************************)
EXTENDS Naturals

CONSTANTS
    MaxRendered,    \* bound: the length of a rendered payload
    EnvelopeLengths,\* how long the envelope of each preview is, one function per payload
    OutputLimit     \* max_text_chars

\* Every character takes at least one more, whatever it is escaped to.
Growing(e, n) == \A k \in 0..n : /\ e[k] >= k
                                 /\ \A i \in 0..k : e[i] <= e[k]

OutputAssumption ==
    /\ MaxRendered \in Nat /\ OutputLimit \in Nat
    /\ EnvelopeLengths \subseteq [0..MaxRendered -> Nat]
    /\ \A e \in EnvelopeLengths : Growing(e, MaxRendered)

ASSUME OutputAssumption

VARIABLES
    rendered,   \* the length of the payload as it is rendered
    envelope,   \* the length of the envelope of each preview
    low, high,  \* the previews still in question
    output      \* idle, whole, searching, cut or refused

outputVars == <<rendered, envelope, low, high, output>>

OutputInit ==
    /\ rendered = 0 /\ envelope = [k \in 0..MaxRendered |-> k]
    /\ low = 0 /\ high = 0
    /\ output = "idle"

Shorter(a, b) == IF a < b THEN a ELSE b

\* A payload is rendered; what fits is returned whole, what not even fits empty
\* is refused.
Rendered ==
    /\ output = "idle"
    /\ rendered' \in 0..MaxRendered
    /\ envelope' \in EnvelopeLengths
    /\ output' = IF rendered' <= OutputLimit THEN "whole"
                 ELSE IF envelope'[0] > OutputLimit THEN "refused" ELSE "searching"
    /\ low' = 0
    /\ high' = Shorter(rendered', OutputLimit)

Middle == (low + high + 1) \div 2

\* Mutant: a middle that just fits is given up.
MutFits(k) == envelope[k] < OutputLimit

Fits(k) == envelope[k] <= OutputLimit

Bisect ==
    /\ output = "searching" /\ low < high
    /\ IF Fits(Middle) THEN low' = Middle /\ UNCHANGED high
                       ELSE high' = Middle - 1 /\ UNCHANGED low
    /\ UNCHANGED <<rendered, envelope, output>>

Found ==
    /\ output = "searching" /\ low >= high
    /\ output' = "cut"
    /\ UNCHANGED <<rendered, envelope, low, high>>

OutputNext == Rendered \/ Bisect \/ Found

OutputSpec == OutputInit /\ [][OutputNext]_outputVars

OutputTypeOK ==
    /\ rendered \in 0..MaxRendered /\ low \in 0..rendered /\ high \in 0..rendered
    /\ envelope \in [0..MaxRendered -> Nat]
    /\ output \in {"idle", "whole", "searching", "cut", "refused"}

-----------------------------------------------------------------------------
\* The bisection ends.
SearchEnds == output = "searching" ~> output = "cut"

\* A result that is cut fits its budget and keeps as much as the budget allows:
\* no longer preview would have fitted, at the boundaries neither.
TruncationMaximal ==
    output = "cut" => /\ envelope[low] <= OutputLimit
                      /\ \A k \in 0..rendered : k > low => envelope[k] > OutputLimit
=============================================================================
