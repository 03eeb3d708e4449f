----------------------------- MODULE Readiness -----------------------------
(***************************************************************************)
(* The verdict on the web provider and the readiness checks that share it  *)
(* (server.py: start, probe_web_tools, refresh_web_tools, health, readyz,  *)
(* and the part of call that retracts the verdict when a web tool fails).  *)
(*                                                                         *)
(* The provider changes under everybody: each call of a probe and each web *)
(* tool call finds it up or down at a moment of its own, and is answered   *)
(* later.  An action is a stretch of the event loop between two awaits.    *)
(***************************************************************************)
EXTENDS FiniteSets

CONSTANTS
    Check,      \* readiness checks that may be in flight at one time
    Call,       \* web tool calls of clients that may be in flight
    Boot,       \* the probe start() runs before anybody is served
    None        \* nobody holds the lock

ReadinessAssumption ==
    /\ IsFiniteSet(Check) /\ IsFiniteSet(Call)
    /\ Boot \notin Check /\ None \notin Check \cup {Boot}

ASSUME ReadinessAssumption

WebTools == {"web_search", "web_extract"}
Prober   == Check \cup {Boot}

VARIABLES
    up,         \* does the provider answer
    ready,      \* web_tools_ready
    fresh,      \* is _web_probe_at within the ttl of the verdict
    missing,    \* missing_final_tools
    lock,       \* who holds _web_probe_lock
    pc,         \* of start() and of the checks
    found,      \* what the calls of a probe found: unread, ok or bad
    told,       \* what hermes_state() will return to health()
    call,       \* web tool calls: idle, sent, ok or bad
    doubt       \* history: a web tool failed and no probe has ended since

verdict == <<ready, fresh, missing>>
readyVars == <<up, ready, fresh, missing, lock, pc, found, told, call, doubt>>

ReadyInit ==
    /\ up \in BOOLEAN
    /\ ready = FALSE /\ fresh = TRUE /\ missing = {}
    /\ lock = None
    /\ pc = [c \in Prober |-> IF c = Boot THEN "off" ELSE "idle"]
    /\ found = [c \in Prober |-> [w \in WebTools |-> "unread"]]
    /\ told = [c \in Check |-> FALSE]
    /\ call = [u \in Call |-> "idle"]
    /\ doubt = FALSE

Goes(c, where) == pc' = [pc EXCEPT ![c] = where]
Serving        == pc[Boot] = "done"

-----------------------------------------------------------------------------
(* The verdict. *)

\* A probe is over: both answers were good, or one was not.

Good(c) == \A w \in WebTools : found[c][w] = "ok"
Bad(c)  == \E w \in WebTools : found[c][w] = "bad"

\* Mutant: the missing tools are those of start().
MutRecord(v) == ready' = v /\ fresh' = TRUE /\ missing' = IF Serving THEN missing ELSE WebTools

Record(v) ==
    /\ ready' = v
    /\ missing' = IF v THEN {} ELSE WebTools
    /\ fresh' = TRUE

\* A web tool failed, by its result, by an exception or by its deadline.

\* Mutant: the old verdict stays fresh.
MutRetract ==
    /\ ready' = FALSE /\ missing' = WebTools
    /\ UNCHANGED fresh

Retract == ready' = FALSE /\ missing' = WebTools /\ fresh' = FALSE

\* Mutant: a good verdict never goes stale.
MutExpires == fresh /\ ~ready

Expires == fresh

\* 300 s after a good verdict, 30 s after a bad one.
Expire ==
    /\ Serving /\ Expires
    /\ fresh' = FALSE
    /\ UNCHANGED <<up, ready, missing, lock, pc, found, told, call, doubt>>

-----------------------------------------------------------------------------
(* Probes. *)

\* One of the two calls reaches the provider; the answer arrives later.
ProbeCall(c, w) ==
    /\ pc[c] = "probe" /\ found[c][w] = "unread"
    /\ found' = [found EXCEPT ![c][w] = IF up THEN "ok" ELSE "bad"]
    /\ UNCHANGED <<up, verdict, lock, pc, told, call, doubt>>

Forgets(c) == found' = [found EXCEPT ![c] = [w \in WebTools |-> "unread"]]

Unlocks(c) == lock' = None

\* The gather() of the two calls returns, or one of them failed or is late.
ProbeEnds(c) ==
    /\ c \in Check /\ pc[c] = "probe" /\ (Good(c) \/ Bad(c))
    /\ Record(Good(c)) /\ doubt' = FALSE
    /\ Unlocks(c) /\ Goes(c, "rest")
    /\ told' = [told EXCEPT ![c] = Good(c)]
    /\ Forgets(c)
    /\ UNCHANGED <<up, call>>

\* start() comes to its probe.
Boots ==
    /\ pc[Boot] = "off"
    /\ Goes(Boot, "probe")
    /\ UNCHANGED <<up, verdict, lock, found, told, call, doubt>>

\* It probes without the lock, unless the schemas of the web tools are
\* missing, and the server begins to serve with whatever verdict it got.
BootEnds ==
    /\ pc[Boot] = "probe" /\ (Good(Boot) \/ Bad(Boot))
    /\ Record(Good(Boot))
    /\ Goes(Boot, "done") /\ Forgets(Boot)
    /\ UNCHANGED <<up, lock, told, call, doubt>>

BootWithoutWeb ==
    /\ pc[Boot] = "probe"
    /\ Record(FALSE)
    /\ Goes(Boot, "done") /\ Forgets(Boot)
    /\ UNCHANGED <<up, lock, told, call, doubt>>

-----------------------------------------------------------------------------
(* Readiness checks: health() gathers three states and then answers. *)

Ask(c) ==
    /\ Serving /\ pc[c] = "idle"
    /\ Goes(c, "discover")
    /\ UNCHANGED <<up, verdict, lock, found, told, call, doubt>>

\* The discovery of Hermes' tools failed, was late or lacks a required tool.
NotDiscovered(c) ==
    /\ pc[c] = "discover"
    /\ Goes(c, "rest") /\ told' = [told EXCEPT ![c] = FALSE]
    /\ UNCHANGED <<up, verdict, lock, found, call, doubt>>

Cached(c) == Goes(c, "rest") /\ told' = [told EXCEPT ![c] = ready] /\ UNCHANGED lock

\* refresh_web_tools: a fresh verdict is returned as it is, a stale one renewed
\* under the lock, by this check if the lock is free.
Refresh(c) ==
    /\ pc[c] = "discover"
    /\ \/ fresh /\ Cached(c)
       \/ ~fresh /\ lock = None /\ lock' = c /\ Goes(c, "probe") /\ UNCHANGED told
       \/ ~fresh /\ lock # None /\ Goes(c, "queued") /\ UNCHANGED <<lock, told>>
    /\ UNCHANGED <<up, verdict, found, call, doubt>>

\* Mutant: a check that was queued does not look at the lock.
MutFree == TRUE

Free == lock = None

\* The lock is free again: the verdict may have been renewed meanwhile.
Resume(c) ==
    /\ pc[c] = "queued" /\ Free
    /\ \/ fresh /\ Cached(c)
       \/ ~fresh /\ lock' = c /\ Goes(c, "probe") /\ UNCHANGED told
    /\ UNCHANGED <<up, verdict, found, call, doubt>>

\* The other components have been asked too: 200 if all is well, else 503, with
\* the missing tools as they are by now.
Respond(c) ==
    /\ pc[c] = "rest"
    /\ Goes(c, "idle") /\ told' = [told EXCEPT ![c] = FALSE]
    /\ UNCHANGED <<up, verdict, lock, found, call, doubt>>

-----------------------------------------------------------------------------
(* Web tool calls of clients. *)

Send(u) ==
    /\ Serving /\ call[u] = "idle"
    /\ call' = [call EXCEPT ![u] = "sent"]
    /\ UNCHANGED <<up, verdict, lock, pc, found, told, doubt>>

\* It reaches the provider; what the client asked for may itself be in error.
Reach(u) ==
    /\ call[u] = "sent"
    /\ \E seen \in IF up THEN {"ok", "bad"} ELSE {"bad"} : call' = [call EXCEPT ![u] = seen]
    /\ UNCHANGED <<up, verdict, lock, pc, found, told, doubt>>

\* Its answer was good, or its client went away.
Succeed(u) ==
    /\ call[u] # "idle"
    /\ call' = [call EXCEPT ![u] = "idle"]
    /\ UNCHANGED <<up, verdict, lock, pc, found, told, doubt>>

Fail(u) ==
    /\ call[u] = "bad"
    /\ call' = [call EXCEPT ![u] = "idle"]
    /\ Retract /\ doubt' = TRUE
    /\ UNCHANGED <<up, lock, pc, found, told>>

\* The provider goes down or comes back.
Change == up' = ~up /\ UNCHANGED <<verdict, lock, pc, found, told, call, doubt>>

ReadyNext ==
    \/ Boots
    \/ \E c \in Prober, w \in WebTools : ProbeCall(c, w)
    \/ BootEnds \/ BootWithoutWeb
    \/ \E c \in Check : \/ Ask(c) \/ NotDiscovered(c) \/ Refresh(c) \/ Resume(c)
                        \/ ProbeEnds(c) \/ Respond(c)
    \/ \E u \in Call : Send(u) \/ Reach(u) \/ Succeed(u) \/ Fail(u)
    \/ Expire \/ Change

ReadySpec == ReadyInit /\ [][ReadyNext]_readyVars
=============================================================================
