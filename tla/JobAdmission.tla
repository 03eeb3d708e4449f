--------------------------- MODULE JobAdmission ---------------------------
(***************************************************************************)
(* The operator's drain gate, scripts/job_admission.py, composed with the  *)
(* job store whose table it shares.  An operator (one owner token) runs    *)
(* its commands one after another; `drain` closes the gate and then polls  *)
(* until no row is active, or until its timeout.  Every command opens the  *)
(* database in a process of its own, so any gateway step may fall between  *)
(* two of its transactions.                                                *)
(***************************************************************************)
EXTENDS JobsPromises

CONSTANT Operator    \* hashes of drain owner tokens

ASSUME AdmissionAssumption == Settings = {"0", "1"} /\ None \notin Operator

VARIABLES
    drainOwner,   \* the gateway_settings row 'drain_owner'
    operator      \* per operator: how its last drain ended, or that it polls

drainVars == <<drainOwner, operator>>
allVars   == <<vars, drainVars>>

Paused == gate \notin {"unset", "0"}

AdmissionTypeOK ==
    /\ drainOwner \in Operator \cup {None}
    /\ operator \in [Operator -> {"away", "polling", "quiet", "blocked"}]

AdmissionInit == /\ Init
                 /\ drainOwner = None
                 /\ operator = [o \in Operator |-> "away"]

\* set_draining(enabled): the gate is taken by one owner; anybody else's
\* request is an error.
MayPause(o)    == Paused => drainOwner = o

Drain(o) ==
    /\ operator[o] # "polling"
    /\ MayPause(o)
    /\ gate' = "1" /\ drainOwner' = o
    /\ operator' = [operator EXCEPT ![o] = "polling"]
    /\ UNCHANGED <<table, crashes, calls, hermesVars>>

\* status() in the polling loop counts the active rows in one transaction.
\* Mutant: quarantined rows are not counted.
MutActiveCount == Cardinality({j \in Job : state[j] \in {"starting", "running"}})
ActiveCount    == Cardinality(Active)

DrainQuiet(o) ==
    /\ operator[o] = "polling" /\ ActiveCount = 0
    /\ operator' = [operator EXCEPT ![o] = "quiet"]
    /\ UNCHANGED <<drainOwner, vars>>

\* Exit 3: the timeout passed; admission stays paused.
DrainBlocked(o) ==
    /\ operator[o] = "polling" /\ ActiveCount # 0
    /\ operator' = [operator EXCEPT ![o] = "blocked"]
    /\ UNCHANGED <<drainOwner, vars>>

\* set_draining(not enabled) on a paused gate; on an open one it does nothing.
\* Mutant: anybody opens a paused gate.
MutMayResume(o) == Paused
MayResume(o)    == Paused /\ drainOwner = o

ResumeAdmission(o) ==
    /\ operator[o] # "polling"
    /\ MayResume(o)
    /\ gate' = "0" /\ drainOwner' = None
    /\ operator' = [operator EXCEPT ![o] = "away"]
    /\ UNCHANGED <<table, crashes, calls, hermesVars>>

OperatorNext ==
    \E o \in Operator : Drain(o) \/ DrainQuiet(o) \/ DrainBlocked(o) \/ ResumeAdmission(o)

AdmissionNext == (GatewayNext /\ UNCHANGED drainVars) \/ OperatorNext

AdmissionSpec == AdmissionInit /\ [][AdmissionNext]_allVars

-----------------------------------------------------------------------------
\* From the moment `drain` reports no active job until its owner resumes, no
\* job is active and no process runs or can still appear: not from a start that
\* read the gate earlier, an acknowledgement that came late, or a restart.
QuietHolds ==
    \A o \in Operator : operator[o] = "quiet" =>
        \A j \in Job : /\ state[j] \notin ACTIVE
                       /\ proc[j] \notin Live
                       /\ starter[j].pc # "admitted"

\* A pause belongs to the operator that took it, while its drain polls and
\* after it ended, timed out or not: nobody else opens the gate or takes it.
PauseKept ==
    \A o \in Operator : operator[o] # "away" => Paused /\ drainOwner = o

\* Under a pause no row becomes active: the set of active rows only shrinks.
NothingAdmitted ==
    Paused => \A j \in Job : state'[j] \in ACTIVE => state[j] \in ACTIVE

\* A deployment that was told its pause is on can rely on it: nothing is admitted
\* and nobody else ends it, whatever gateways and operators do meanwhile.
PauseRespected == [][NothingAdmitted /\ PauseKept']_allVars
=============================================================================
