----------------------------- MODULE ReadPages -----------------------------
(***************************************************************************)
(* A client that reads a whole file through the gateway's read_file        *)
(* (server.py, _structured_read_file_result): Hermes numbers the lines     *)
(* from the offset asked for, the gateway cuts what does not fit its       *)
(* budget and names the offset to go on from.                              *)
(*                                                                         *)
(* The gateway splits the text with str.splitlines, and so also at a form  *)
(* feed, a lone carriage return and the other characters Python takes for  *)
(* an end of line: a line of the file is one fragment or several, and only *)
(* the first of them carries its number.  A file is the sequence of its    *)
(* fragments.                                                              *)
(***************************************************************************)
EXTENDS Integers, FiniteSets, SequencesExt

CONSTANTS
    MaxFragments,   \* fragments of a file
    Separators,     \* may a line contain a character that Python splits at
    Sizes,          \* characters of a fragment, as {[raw, json]}: json is escaped
    Limit,          \* max_text_chars
    Envelope        \* what the JSON around the text takes; a page's takes one more

ReadAssumption ==
    /\ MaxFragments \in Nat /\ Separators \in BOOLEAN
    /\ Sizes \subseteq [raw : Nat, json : Nat]
    /\ Limit \in Nat /\ Envelope \in Nat /\ Envelope <= Limit

ASSUME ReadAssumption

VARIABLES
    file,       \* a sequence of fragments
    offset,     \* the line the client asks for next
    got,        \* the fragments it has got, by their places in the file
    reads,      \* how often it has asked
    reading     \* idle, reading, whole or refused

readVars == <<file, offset, got, reads, reading>>

\* A client asks at most once for every line and once more.
MaxReads == MaxFragments + 1

Fragment == [numbered : BOOLEAN, size : Sizes]

\* The files: they begin with a line, and a fragment without a number needs a separator.
Contents(n) == {f \in [1..n -> Fragment] :
                \A i \in 1..n : ~f[i].numbered => Separators /\ i > 1}

ReadInit ==
    /\ file = <<>> /\ offset = 1 /\ got = <<>> /\ reads = 0
    /\ reading = "idle"

\* The client asks for a file from its first line on.
ReadBegins ==
    /\ reading = "idle"
    /\ \E n \in 0..MaxFragments : file' \in Contents(n)
    /\ reading' = "reading"
    /\ UNCHANGED <<offset, got, reads>>

\* The line of a fragment, and the fragment a line begins with.
LineOf(i)   == Cardinality({j \in 1..i : file[j].numbered})
Start(line) == 1 + Cardinality({i \in 1..Len(file) : LineOf(i) < line})

\* The text from fragment a to fragment b, its places and its two lengths.
Text(a, b) == SubSeq([i \in 1..Len(file) |-> i], a, b)
Raw(a, b)  == SumFunction([i \in a..b |-> file[i].size.raw])
Json(a, b) == SumFunction([i \in a..b |-> file[i].size.json])

\* Whole answers and pages are measured as they are serialized, the lines kept for a
\* page first as they are.
FitsWhole(a)    == Envelope + Json(a, Len(file)) <= Limit
FitsPage(a, b)  == Envelope + 1 + Json(a, b) <= Limit
FitsLimit(a, b) == Raw(a, b) <= Limit

\* The last fragment kept of the text from a on: the loop breaks at the first one
\* that goes beyond the limit.
Kept(a) == a - 1 + Cardinality({k \in a..Len(file) : \A b \in a..k : FitsLimit(a, b)})

\* From there the last fragment is dropped until the page fits; a last fragment
\* without a number ends the search.
Cuts(a) == {b \in a..Kept(a) : ~file[b].numbered \/ FitsPage(a, b)}
Cut(a)  == CHOOSE b \in Cuts(a) : \A k \in Cuts(a) : k <= b

\* Mutant: the last line of the page is asked for again.
MutNextOffset(b) == LineOf(b)
\* Mutant: the line after the page is skipped.
MutNextSkips(b) == LineOf(b) + 2

NextOffset(b) == LineOf(b) + 1

ReadWhole ==
    /\ reading = "reading" /\ FitsWhole(Start(offset))
    /\ got' = got \o Text(Start(offset), Len(file))
    /\ reading' = "whole"
    /\ UNCHANGED <<file, offset, reads>>

\* A page: the client goes on from the offset it names.
ReadPage ==
    LET a == Start(offset)
    IN  /\ reading = "reading" /\ reads < MaxReads
        /\ ~FitsWhole(a) /\ Cuts(a) # {} /\ file[Cut(a)].numbered
        /\ got' = got \o Text(a, Cut(a))
        /\ offset' = NextOffset(Cut(a))
        /\ reads' = reads + 1
        /\ UNCHANGED <<file, reading>>

\* One line is too long for a page, or the page would not end with a number.
ReadRefused ==
    LET a == Start(offset)
    IN  /\ reading = "reading" /\ ~FitsWhole(a)
        /\ Cuts(a) # {} => ~file[Cut(a)].numbered
        /\ reading' = "refused"
        /\ UNCHANGED <<file, offset, got, reads>>

ReadOn   == ReadWhole \/ ReadPage \/ ReadRefused
ReadNext == ReadBegins \/ ReadOn

ReadSpec == ReadInit /\ [][ReadNext]_readVars

ReadTypeOK ==
    /\ file \in Seq(Fragment) /\ Len(file) <= MaxFragments
    /\ offset \in 1..(Len(file) + 1) /\ reads \in 0..MaxReads
    /\ reading \in {"idle", "reading", "whole", "refused"}
    /\ got \in Seq(1..Len(file))

-----------------------------------------------------------------------------
(* docs/THIN_GATEWAY_AUDIT.md 54-58: "page at Hermes-numbered line          *)
(* boundaries and provide `next_offset`. Do not discard source lines         *)
(* silently. Reject an oversized individual line explicitly."                *)

\* A client that follows next_offset to the end has every fragment of the file,
\* once and in order.
ReadComplete == reading = "whole" => got = Text(1, Len(file))

\* A read is refused only for a line that fits no page by itself.
Oversized(a, b) == ~FitsLimit(a, b) \/ ~FitsPage(a, b)

RefusedOnlyOversized ==
    reading = "refused" =>
        \E l \in 1..LineOf(Len(file)) : Oversized(Start(l), Start(l + 1) - 1)

ReadFaithful == ReadComplete /\ RefusedOnlyOversized

\* Every page brings the client further: it ends, with the file or an error.
ReaderEnds == reading = "reading" ~> reading \in {"whole", "refused"}
=============================================================================
