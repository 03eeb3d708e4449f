----------------------------- MODULE MCGateway -----------------------------
(***************************************************************************)
(* Instances of Gateway for TLC.                                           *)
(***************************************************************************)
EXTENDS Gateway

\* Fragments that are escaped not at all, a little, and to twice their length.
MCSizes == {[raw |-> 1, json |-> 1], [raw |-> 1, json |-> 2],
            [raw |-> 3, json |-> 3], [raw |-> 3, json |-> 6]}

\* The characters of a preview are escaped to one, two or six; an envelope of 6
\* is too long without a preview.
MCEnvelope(start, width) ==
    [k \in 0..MaxRendered |-> start + FoldSeq(LAMBDA w, sum : w + sum, 0, SubSeq(width, 1, k))]

MCEnvelopeLengths ==
    {MCEnvelope(start, width) : start \in {2, 6}, width \in [1..MaxRendered -> {1, 2, 6}]}
=============================================================================
