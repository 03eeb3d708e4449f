---------------------------- MODULE BrowserCalls ----------------------------
(***************************************************************************)
(* The browser calls of one session owner (upstreams.py, call_browser).    *)
(* Hermes keeps a tab for the owner, the browser may destroy it any time,  *)
(* and the next call is told so.  The gateway then drops the binding and   *)
(* repeats a navigation, once; nothing else is repeated.                   *)
(*                                                                         *)
(* A native thread works on the tab and answers; the handler goes on with  *)
(* that answer later, after other calls of the owner have had theirs.      *)
(* External, as the comment at 729-733 takes it: a call that is told that  *)
(* its tab is gone has not been applied.                                   *)
(***************************************************************************)
EXTENDS Naturals

CONSTANT Visit      \* the calls

VARIABLES
    tab,        \* none, live, or stale: destroyed, but still bound
    does,       \* navigate or act
    handler,    \* idle, waiting, good, bad, stale (how it was answered) or left
    thread,     \* idle, running, or its answer: good, bad, stale
    sends,      \* how often the call was handed to Hermes
    effects     \* how often it took effect

tabVars == <<tab, does, handler, thread, sends, effects>>

BrowserInit ==
    /\ tab = "none"
    /\ does = [v \in Visit |-> "act"]
    /\ handler = [v \in Visit |-> "idle"]
    /\ thread = [v \in Visit |-> "idle"]
    /\ sends = [v \in Visit |-> 0]
    /\ effects = [v \in Visit |-> 0]

Starts(v) ==
    /\ thread' = [thread EXCEPT ![v] = "running"]
    /\ sends' = [sends EXCEPT ![v] = @ + 1]

VisitBegins(v) ==
    /\ handler[v] = "idle"
    /\ handler' = [handler EXCEPT ![v] = "waiting"]
    /\ \E kind \in {"navigate", "act"} : does' = [does EXCEPT ![v] = kind]
    /\ Starts(v)
    /\ UNCHANGED <<tab, effects>>

\* Hermes: a navigation makes a tab if there is none, everything needs one.
TakesEffect(v) ==
    /\ tab = "live" \/ (tab = "none" /\ does[v] = "navigate")
    /\ tab' = "live"
    /\ effects' = [effects EXCEPT ![v] = @ + 1]
    /\ \E said \in {"good", "bad"} : thread' = [thread EXCEPT ![v] = said]

HasNoEffect(v) ==
    /\ \E said \in IF tab = "stale" THEN {"stale"} ELSE {"bad"} : thread' = [thread EXCEPT ![v] = said]
    /\ UNCHANGED <<tab, effects>>

ThreadWorks(v) ==
    /\ thread[v] = "running"
    /\ TakesEffect(v) \/ HasNoEffect(v)
    /\ UNCHANGED <<does, handler, sends>>

Back(v) == handler[v] = "waiting" /\ thread[v] \in {"good", "bad", "stale"}

Repeats(v) == does[v] = "navigate" /\ sends[v] = 1

\* Mutant: an error is taken for a stale tab.
MutIsStale(v) == thread[v] # "good"

IsStale(v) == thread[v] = "stale"

\* The binding is dropped whatever it is bound to by now.
VisitRepeated(v) ==
    /\ Back(v) /\ IsStale(v) /\ Repeats(v)
    /\ tab' = "none"
    /\ Starts(v)
    /\ UNCHANGED <<does, handler, effects>>

\* The second answer to a navigation drops nothing.
VisitAnswered(v) ==
    /\ Back(v) /\ ~(IsStale(v) /\ Repeats(v))
    /\ handler' = [handler EXCEPT ![v] = IF IsStale(v) THEN "stale" ELSE thread[v]]
    /\ tab' = IF IsStale(v) /\ sends[v] = 1 THEN "none" ELSE tab
    /\ UNCHANGED <<does, thread, sends, effects>>

\* The client disconnects: the thread goes on, the handler does not.
VisitLeft(v) ==
    /\ handler[v] = "waiting"
    /\ handler' = [handler EXCEPT ![v] = "left"]
    /\ UNCHANGED <<tab, does, thread, sends, effects>>

\* The browser restarts, the page crashes, or the tab is reaped.
TabDies ==
    /\ tab = "live"
    /\ tab' = "stale"
    /\ UNCHANGED <<does, handler, thread, sends, effects>>

BrowserNext ==
    \/ \E v \in Visit : \/ VisitBegins(v) \/ ThreadWorks(v) \/ VisitRepeated(v)
                        \/ VisitAnswered(v) \/ VisitLeft(v)
    \/ TabDies

BrowserSpec == BrowserInit /\ [][BrowserNext]_tabVars

BrowserTypeOK ==
    /\ tab \in {"none", "live", "stale"}
    /\ does \in [Visit -> {"navigate", "act"}]
    /\ handler \in [Visit -> {"idle", "waiting", "good", "bad", "stale", "left"}]
    /\ thread \in [Visit -> {"idle", "running", "good", "bad", "stale"}]
    /\ sends \in [Visit -> 0..2] /\ effects \in [Visit -> Nat]

-----------------------------------------------------------------------------
\* No call takes effect twice: a repeated navigation repeats one that did not,
\* nothing else is repeated, and what the client is told is true of its own call
\* whatever the other calls of the owner have been told of their tab (729-733).
NavigateOnce ==
    \A v \in Visit : /\ effects[v] <= 1
                     /\ sends[v] <= IF does[v] = "navigate" THEN 2 ELSE 1
                     /\ handler[v] = "good"  => effects[v] = 1
                     /\ handler[v] = "stale" => effects[v] = 0
=============================================================================
