---------------------------- MODULE Diagnostics ----------------------------
(***************************************************************************)
(* The language server adapter on one file that is edited meanwhile        *)
(* (lsp.py: _unchanged_document, _sync_document, _diagnostics_async,       *)
(* _request_async).  The calls are coroutines of one event loop; only the  *)
(* edits come at any time.                                                 *)
(*                                                                         *)
(* External, as lsp.py and tests/test_lsp.py use it: Hermes' client gives  *)
(* every text it sends a new version; the server pushes diagnostics for    *)
(* newer and newer versions, may skip any of them and never answer; and of *)
(* a server with seed_first_push the first push is no verdict.             *)
(***************************************************************************)
EXTENDS Naturals, Sequences, FiniteSets

CONSTANTS
    Asker,      \* calls of the lsp tools
    Texts,      \* what the file may contain
    MaxEdits    \* bound: edits of a behaviour

DiagnosticsAssumption == IsFiniteSet(Asker) /\ 0 \in Texts /\ MaxEdits \in Nat

ASSUME DiagnosticsAssumption

VARIABLES
    disk,       \* the text of the file
    edits,      \* the edits so far
    server,     \* of the file's language: unknown, plain or seeding
    opened,     \* the texts sent to it: the versions of the document
    analysed,   \* the newest version it has pushed something for
    pushed,     \* the newest version it has given a verdict on
    seeded,     \* seed_seen
    asker,      \* idle, sync, synced, seed, wait, request, told or none
    looked,     \* what a diagnostics call found first: new, changed, unchanged
    awaited,    \* the version a call waits for
    said,       \* the version its answer is about
    held        \* history: the texts the file had during the call

docVars == <<server, opened, analysed, pushed, seeded>>
lspVars == <<disk, edits, docVars, asker, looked, awaited, said, held>>

DiagnosticsInit ==
    /\ disk = 0 /\ edits = 0
    /\ server = "unknown"
    /\ opened = <<>> /\ analysed = 0 /\ pushed = 0 /\ seeded = FALSE
    /\ asker = [a \in Asker |-> "idle"]
    /\ looked = [a \in Asker |-> "new"]
    /\ awaited = [a \in Asker |-> 0]
    /\ said = [a \in Asker |-> 0]
    /\ held = [a \in Asker |-> {}]

Newest == Len(opened)

\* doc.fresh(): the newest version has its verdict.
Current == Newest > 0 /\ pushed = Newest

\* Mutant: an open document is taken for the file.
MutDocUnchanged == opened # <<>>

DocUnchanged == opened # <<>> /\ opened[Newest] = disk

InFlight(a) == asker[a] \notin {"idle", "told", "none"}

\* Between its two looks at the file a call does not give up the event loop.
LoopFree == \A a \in Asker : asker[a] # "sync"

AsksOn(a, where) == asker' = [asker EXCEPT ![a] = where]
Says(a, v)       == AsksOn(a, "told") /\ said' = [said EXCEPT ![a] = v]

-----------------------------------------------------------------------------
(* The calls. *)

Called(a) ==
    /\ LoopFree /\ asker[a] = "idle"
    /\ IF server = "unknown" THEN server' \in {"plain", "seeding"} ELSE UNCHANGED server
    /\ held' = [held EXCEPT ![a] = {disk}]

Asked(a) ==
    /\ Called(a)
    /\ \/ /\ DocUnchanged /\ Current        \* a verdict is reused
          /\ Says(a, Newest)
          /\ UNCHANGED looked
       \/ /\ ~(DocUnchanged /\ Current)
          /\ looked' = [looked EXCEPT ![a] = IF opened = <<>> THEN "new"
                                             ELSE IF DocUnchanged THEN "unchanged" ELSE "changed"]
          /\ AsksOn(a, "sync")
          /\ UNCHANGED said
    /\ UNCHANGED <<disk, edits, opened, analysed, pushed, seeded, awaited>>

\* Hover, definition, references, symbols.
Requested(a) ==
    /\ Called(a)
    /\ looked' = [looked EXCEPT ![a] = "request"]
    /\ AsksOn(a, "sync")
    /\ UNCHANGED <<disk, edits, opened, analysed, pushed, seeded, awaited, said>>

\* open_file reads the file again.
Opens(a) ==
    /\ opened' = Append(opened, disk)
    /\ awaited' = [awaited EXCEPT ![a] = Newest + 1]

Syncs(a) ==
    /\ asker[a] = "sync"
    /\ \/ DocUnchanged /\ awaited' = [awaited EXCEPT ![a] = Newest] /\ UNCHANGED opened
       \/ ~DocUnchanged /\ Opens(a)
    /\ AsksOn(a, IF looked[a] = "request" THEN "request" ELSE "synced")
    /\ UNCHANGED <<disk, edits, server, analysed, pushed, seeded, looked, said, held>>

AwaitsSeed(a) ==
    /\ server = "seeding"
    /\ looked[a] = "new" \/ ~seeded \/ (looked[a] = "unchanged" /\ ~Current)

Synced(a) ==
    /\ LoopFree /\ asker[a] = "synced"
    /\ AsksOn(a, IF AwaitsSeed(a) THEN "seed" ELSE "wait")
    /\ UNCHANGED <<disk, edits, docVars, looked, awaited, said, held>>

\* The seed has been pushed: the text is sent again to get a verdict.
SeedSeen(a) ==
    /\ LoopFree /\ asker[a] = "seed" /\ seeded
    /\ Opens(a) /\ AsksOn(a, "wait")
    /\ UNCHANGED <<disk, edits, server, analysed, pushed, seeded, looked, said, held>>

\* wait_for_diagnostics ends with a verdict on the version or a newer one.
VerdictCame(a) ==
    /\ LoopFree /\ asker[a] = "wait" /\ pushed >= awaited[a]
    /\ Says(a, pushed)
    /\ UNCHANGED <<disk, edits, docVars, looked, awaited, held>>

\* The server answers a request about the newest text it has been sent.
RequestAnswered(a) ==
    /\ LoopFree /\ asker[a] = "request"
    /\ Says(a, Newest)
    /\ UNCHANGED <<disk, edits, docVars, looked, awaited, held>>

\* The deadline: an error, never an empty list.
NoVerdict(a) ==
    /\ LoopFree /\ asker[a] \in {"synced", "seed", "wait", "request"}
    /\ AsksOn(a, "none")
    /\ UNCHANGED <<disk, edits, docVars, looked, awaited, said, held>>

-----------------------------------------------------------------------------
(* The server, and whoever edits the file. *)

Push(v) ==
    /\ LoopFree /\ v > analysed /\ v <= Newest
    /\ analysed' = v
    /\ IF server = "seeding" /\ ~seeded THEN seeded' = TRUE /\ UNCHANGED pushed
                                        ELSE pushed' = v /\ UNCHANGED seeded
    /\ UNCHANGED <<disk, edits, server, opened, asker, looked, awaited, said, held>>

FileEdited ==
    /\ edits < MaxEdits /\ edits' = edits + 1
    /\ disk' \in Texts \ {disk}
    /\ held' = [a \in Asker |-> IF InFlight(a) THEN held[a] \cup {disk'} ELSE held[a]]
    /\ UNCHANGED <<docVars, asker, looked, awaited, said>>

DiagnosticsNext ==
    \/ \E a \in Asker : \/ Asked(a) \/ Requested(a) \/ Syncs(a) \/ Synced(a) \/ SeedSeen(a)
                        \/ VerdictCame(a) \/ RequestAnswered(a) \/ NoVerdict(a)
    \/ \E v \in 1..Newest : Push(v)
    \/ FileEdited

DiagnosticsSpec == DiagnosticsInit /\ [][DiagnosticsNext]_lspVars

DiagnosticsTypeOK ==
    /\ disk \in Texts /\ edits \in 0..MaxEdits
    /\ server \in {"unknown", "plain", "seeding"} /\ seeded \in BOOLEAN
    /\ opened \in Seq(Texts) /\ analysed \in 0..Newest /\ pushed \in 0..analysed
    /\ asker \in [Asker -> {"idle", "sync", "synced", "seed", "wait", "request", "told", "none"}]
    /\ looked \in [Asker -> {"new", "changed", "unchanged", "request"}]
    /\ awaited \in [Asker -> 0..Newest] /\ said \in [Asker -> 0..Newest]
    /\ held \in [Asker -> SUBSET Texts]

-----------------------------------------------------------------------------
\* An answer is about a text that the file had during the call, whether its
\* verdict was reused or awaited, and whatever others edit and open meanwhile.
DiagnosticsFresh == \A a \in Asker : asker[a] = "told" => said[a] > 0 /\ opened[said[a]] \in held[a]
=============================================================================
