------------------------- MODULE ReadinessPromises -------------------------
(***************************************************************************)
(* What the readiness of the web tools guarantees, and the fairness under  *)
(* which its verdict follows the provider.                                 *)
(***************************************************************************)
EXTENDS Readiness

\* The variables stay in their types, and the missing tools follow the verdict.
ReadyTypeOK ==
    /\ up \in BOOLEAN /\ ready \in BOOLEAN /\ fresh \in BOOLEAN /\ doubt \in BOOLEAN
    /\ missing \in {{}, WebTools}
    /\ lock \in Check \cup {None}
    /\ pc \in [Prober -> {"off", "idle", "discover", "queued", "probe", "rest", "done"}]
    /\ found \in [Prober -> [WebTools -> {"unread", "ok", "bad"}]]
    /\ told \in [Check -> BOOLEAN]
    /\ call \in [Call -> {"idle", "sent", "ok", "bad"}]
    /\ Serving => (ready <=> missing = {})

\* However many checks find the verdict stale at once, one of them probes, and
\* nobody does while start() still probes.
OneProbe ==
    /\ \A c \in Check : pc[c] = "probe" <=> lock = c
    /\ ~Serving => \A c \in Check : pc[c] = "idle"

\* Once a web tool has failed, no check is answered from the cache, with a good
\* verdict or a bad one, until a probe has ended after the failure.  The probe may
\* have begun, and asked the provider, before it: then it hides the failure for as
\* long as its verdict lasts, and only VerdictCatchesUp speaks of that.
FailureRetracts == doubt => ~ready /\ ~fresh

\* The cached verdict under overlapping checks and calls: one check renews it, and
\* what a failing tool took back no check is told without another probe.
VerdictKept == OneProbe /\ FailureRetracts

-----------------------------------------------------------------------------
(* Liveness.  The checks keep coming (a monitor polls /readyz), a call of a  *)
(* web tool is answered or runs into its deadline, time passes, the lock is  *)
(* handed on in order, and the discovery does not fail for ever.             *)

ReadyFairness ==
    /\ \A c \in Prober, w \in WebTools : WF_readyVars(ProbeCall(c, w))
    /\ WF_readyVars(BootEnds \/ BootWithoutWeb)
    /\ \A c \in Check : /\ WF_readyVars(Ask(c)) /\ SF_readyVars(Refresh(c)) /\ SF_readyVars(Resume(c))
                        /\ WF_readyVars(ProbeEnds(c)) /\ WF_readyVars(Respond(c))
    /\ \A u \in Call : WF_readyVars(Reach(u)) /\ WF_readyVars(Succeed(u) \/ Fail(u))
    /\ WF_readyVars(Expire)

SomeFail == \E u \in Call : Fail(u)

\* The verdict follows the provider: when it stays down the gateway stops being
\* ready, and when it stays up and no call fails any more the gateway becomes
\* ready, also when a probe in flight had hidden a failure or the reverse.  That
\* needs no restart: refresh_web_tools renews a bad verdict after 30 s, although
\* README 230 has the process stay degraded (see "Divergences").
VerdictCatchesUp ==
    /\ <>[]~up => <>[]~ready
    /\ <>Serving /\ <>[]up /\ <>[][~SomeFail]_readyVars => <>[]ready

\* Every check is answered, those that queue behind a probe included.
ChecksAnswered == \A c \in Check : pc[c] = "queued" ~> pc[c] = "idle"
=============================================================================
