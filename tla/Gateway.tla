------------------------------ MODULE Gateway ------------------------------
(***************************************************************************)
(* The smaller parts of one gateway process, each with its own state: the  *)
(* readiness of the web tools, the paging of files, the startup context,   *)
(* the durable memory, the browser calls, the truncation of JSON and the   *)
(* language servers.  They share no variable, so their interleavings show  *)
(* nothing that one of them at work alone does not; a behaviour exercises  *)
(* one of them.                                                            *)
(***************************************************************************)
EXTENDS ReadinessPromises, ReadPages, StartupContext, MemoryMutation, BrowserCalls, JsonOutput, Diagnostics

CONSTANT Parts      \* the parts an instance exercises

PartsAssumption ==
    Parts \subseteq {"readiness", "pages", "startup", "memory", "browser", "output", "lsp"}

ASSUME PartsAssumption

VARIABLE part

gatewayVars == <<part, readyVars, readVars, startupVars, memVars, tabVars, outputVars, lspVars>>

GatewayInit ==
    /\ part \in Parts
    /\ ReadyInit /\ ReadInit /\ StartupInit /\ MemoryInit /\ BrowserInit /\ OutputInit
    /\ DiagnosticsInit

Readies ==
    /\ part = "readiness" /\ ReadyNext
    /\ UNCHANGED <<part, readVars, startupVars, memVars, tabVars, outputVars, lspVars>>

Reads ==
    /\ part = "pages" /\ ReadNext
    /\ UNCHANGED <<part, readyVars, startupVars, memVars, tabVars, outputVars, lspVars>>

StartsUp ==
    /\ part = "startup" /\ StartupNext
    /\ UNCHANGED <<part, readyVars, readVars, memVars, tabVars, outputVars, lspVars>>

Remembers ==
    /\ part = "memory" /\ MemoryNext
    /\ UNCHANGED <<part, readyVars, readVars, startupVars, tabVars, outputVars, lspVars>>

Browses ==
    /\ part = "browser" /\ BrowserNext
    /\ UNCHANGED <<part, readyVars, readVars, startupVars, memVars, outputVars, lspVars>>

Truncates ==
    /\ part = "output" /\ OutputNext
    /\ UNCHANGED <<part, readyVars, readVars, startupVars, memVars, tabVars, lspVars>>

Diagnoses ==
    /\ part = "lsp" /\ DiagnosticsNext
    /\ UNCHANGED <<part, readyVars, readVars, startupVars, memVars, tabVars, outputVars>>

GatewayNext == Readies \/ Reads \/ StartsUp \/ Remembers \/ Browses \/ Truncates \/ Diagnoses

GatewaySpec == GatewayInit /\ [][GatewayNext]_gatewayVars

-----------------------------------------------------------------------------
\* The variables of every part stay in their types.
TypeOK ==
    /\ part \in Parts
    /\ ReadyTypeOK /\ ReadTypeOK /\ StartupTypeOK /\ MemoryTypeOK /\ BrowserTypeOK /\ OutputTypeOK
    /\ DiagnosticsTypeOK

\* Nothing that a client wants done once is done twice, in its memory or in its
\* browser, and every answer to it is true, although no thread can be stopped.
EffectsOnce == MutationOnce /\ NavigateOnce

\* The loops of the pages and of the truncation go on by themselves.
GatewayFairSpec ==
    /\ GatewaySpec /\ ReadyFairness
    /\ WF_readVars(ReadOn) /\ WF_outputVars(Bisect \/ Found)

\* Nothing that was asked stays unanswered for ever: no readiness check behind
\* the probes of others, no reader between its pages, no search for a cut.
AnswersCome == ChecksAnswered /\ ReaderEnds /\ SearchEnds
=============================================================================
