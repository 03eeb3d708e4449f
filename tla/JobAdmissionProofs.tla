------------------------ MODULE JobAdmissionProofs ------------------------
(***************************************************************************)
(* Proofs about the drain gate: the composition is a behaviour of the job  *)
(* store, so its invariants carry over, and a drain that reported an idle  *)
(* gateway can rely on it until its owner resumes.                         *)
(***************************************************************************)
EXTENDS JobAdmission, JobsProofs

USE DEF vars, table, stable, rowVars, settings, calls, hermesVars, drainVars, allVars

\* The composition implements the job store under a gate set at any time.
THEOREM AdmissionIsJobs == AdmissionSpec => Spec
<1>1. AdmissionInit => Init
  BY DEF AdmissionInit
<1>2. [AdmissionNext]_allVars => [Next]_vars
  <2> SUFFICES ASSUME [AdmissionNext]_allVars PROVE [Next]_vars
    OBVIOUS
  <2>1. CASE GatewayNext
    BY <2>1 DEF Next
  <2>2. ASSUME NEW o \in Operator, Drain(o) PROVE [Next]_vars
    <3>1. CASE gate = "1"
      BY <2>2, <3>1 DEF Drain
    <3>2. CASE gate # "1"
      <4>1. SetGate("1") /\ "1" \in Settings
        BY <2>2, <3>2, AdmissionAssumption DEF Drain, SetGate
      <4> QED BY <4>1 DEF Next
    <3> QED BY <3>1, <3>2
  <2>3. ASSUME NEW o \in Operator, ResumeAdmission(o) PROVE [Next]_vars
    <3>1. SetGate("0") /\ "0" \in Settings
      BY <2>3, AdmissionAssumption DEF ResumeAdmission, MayResume, Paused, SetGate
    <3> QED BY <3>1 DEF Next
  <2>4. ASSUME NEW o \in Operator, DrainQuiet(o) \/ DrainBlocked(o) PROVE [Next]_vars
    BY <2>4 DEF DrainQuiet, DrainBlocked
  <2>5. CASE UNCHANGED allVars
    BY <2>5
  <2> QED
    BY <2>1, <2>2, <2>3, <2>4, <2>5 DEF AdmissionNext, OperatorNext
<1> QED
  BY <1>1, <1>2, PTL DEF AdmissionSpec, Spec

\* Every invariant of the job store holds of the composition.
LEMMA StoreInvariants == AdmissionSpec => [](TypeOK /\ JobInv)
  BY AdmissionIsJobs, JobInvariant, PTL

\* No gateway step changes the gate.
LEMMA GatewayKeepsGate ==
  ASSUME GatewayNext
  PROVE  UNCHANGED gate
<1>1. ASSUME NEW g \in Gateway, NEW j \in Job, Calls(g, j) PROVE UNCHANGED gate
  BY <1>1 DEF Calls, Prepare, StartExpired, StartAdmit, StatusExpired, Status,
              CancelPrepared, Cancel
<1>2. ASSUME NEW g \in Gateway, NEW j \in Job, Resume(g, j) PROVE UNCHANGED gate
  BY <1>2 DEF Resume, Adopted, NotAdopted, KillAck, PollDone, PollOverdue, CallFails
<1>3. ASSUME NEW g \in Gateway, NEW j \in Job,
             Abandon(g, j) \/ MaintainSkip(g, j) \/ MaintainOne(g, j) \/ Answer(g, j)
      PROVE UNCHANGED gate
  BY <1>3 DEF Abandon, MaintainSkip, MaintainOne, Turn, Answer
<1>4. ASSUME NEW g \in Gateway, MaintainSweep(g) \/ Crash(g) \/ \E k \in Key : PrepareReplay(g, k)
      PROVE UNCHANGED gate
  BY <1>4 DEF MaintainSweep, Crash, PrepareReplay
<1>5. ASSUME NEW j \in Job, Starting(j) PROVE UNCHANGED gate
  BY <1>5 DEF Starting, StartRefused, StartDispatch, StartAck, StartUncertain
<1>6. ASSUME NEW j \in Job, Hermes(j) \/ ClockPastExpiry(j) \/ ClockPastUpdate(j)
      PROVE UNCHANGED gate
  BY <1>6 DEF Hermes, Spawn, LaunchLost, Exit, Kill, KillLost, HermesStep, ClockPastExpiry,
              ClockPastUpdate
<1> QED BY <1>1, <1>2, <1>3, <1>4, <1>5, <1>6 DEF GatewayNext

\* Under a closed gate no row becomes active.
LEMMA ClosedGate ==
  ASSUME TypeOK, JobInv, [Next]_vars, DrainingValue(gate)
  PROVE  Active' \subseteq Active
<1>1. ASSUME NEW g \in Gateway, NEW j \in Job, NEW o \in Owner, NEW d \in Dir,
             NEW k \in Key \cup {None}, Prepare(g, j, o, d, k)
      PROVE  Active' \subseteq Active
  BY <1>1 DEF Prepare, Active, ACTIVE
<1>2. ~ \E g \in Gateway, j \in Job, o \in Owner : StartAdmit(g, j, o)
  BY DEF StartAdmit
<1>3. CASE Settling
  BY <1>3 DEF Settling, Edge, Active, ACTIVE, FINAL
<1> QED BY <1>1, <1>2, <1>3, Steps

-----------------------------------------------------------------------------
\* The operator's side: its pause stands, and what it saw idle stays idle.
DrainInv ==
    /\ AdmissionTypeOK
    /\ PauseKept
    /\ \A o \in Operator : operator[o] = "quiet" => Active = {}

\* A pause has an owner, and a quiet drain means an empty set of active rows.
LEMMA DrainInvariant == AdmissionSpec => []DrainInv
<1>1. AdmissionInit => DrainInv
  BY DEF AdmissionInit, DrainInv, AdmissionTypeOK, PauseKept
<1>2. TypeOK /\ JobInv /\ DrainInv /\ [AdmissionNext]_allVars => DrainInv'
  <2> SUFFICES ASSUME TypeOK, JobInv, DrainInv, [AdmissionNext]_allVars PROVE DrainInv'
    OBVIOUS
  <2> USE DEF DrainInv, AdmissionTypeOK, PauseKept, Paused
  <2>1. CASE GatewayNext /\ UNCHANGED drainVars
    <3>1. UNCHANGED gate
      BY <2>1, GatewayKeepsGate
    <3>2. ASSUME NEW o \in Operator, operator[o] = "quiet" PROVE Active' = {}
      <4>1. DrainingValue(gate)
        BY <3>2 DEF DrainingValue, TypeOK
      <4>2. [Next]_vars
        BY <2>1 DEF Next
      <4> QED BY <3>2, <4>1, <4>2, ClosedGate
    <3> QED BY <2>1, <3>1, <3>2
  <2>2. ASSUME NEW o \in Operator, Drain(o) PROVE DrainInv'
    BY <2>2, AdmissionAssumption DEF Drain, MayPause, Active
  <2>3. ASSUME NEW o \in Operator, DrainQuiet(o) PROVE DrainInv'
    <3>1. Active = {}
      <4>1. IsFiniteSet(Active)
        BY Counting DEF Active
      <4> QED BY <2>3, <4>1, FS_EmptySet DEF DrainQuiet, ActiveCount
    <3> QED BY <2>3, <3>1 DEF DrainQuiet, Active
  <2>4. ASSUME NEW o \in Operator, DrainBlocked(o) PROVE DrainInv'
    BY <2>4 DEF DrainBlocked, Active
  <2>5. ASSUME NEW o \in Operator, ResumeAdmission(o) PROVE DrainInv'
    BY <2>5, AdmissionAssumption DEF ResumeAdmission, MayResume, Active
  <2>6. CASE UNCHANGED allVars
    BY <2>6 DEF Active
  <2> QED
    BY <2>1, <2>2, <2>3, <2>4, <2>5, <2>6 DEF AdmissionNext, OperatorNext
<1> QED
  BY <1>1, <1>2, StoreInvariants, PTL DEF AdmissionSpec

\* From a drain that reported no active job until its owner resumes, nothing
\* is active, running, or about to be.
THEOREM QuietUntilResumed == AdmissionSpec => []QuietHolds
<1>1. DrainInv /\ JobInv => QuietHolds
  BY DEF DrainInv, JobInv, RowInv, QuietHolds, Active
<1> QED
  BY <1>1, DrainInvariant, StoreInvariants, PTL

\* A pause is its operator's until that operator resumes.
THEOREM PauseStays == AdmissionSpec => []PauseKept
<1>1. DrainInv => PauseKept
  BY DEF DrainInv
<1> QED
  BY <1>1, DrainInvariant, PTL

\* No row becomes active under a pause.
THEOREM NothingAdmittedWhilePaused == AdmissionSpec => [][NothingAdmitted]_allVars
<1>1. TypeOK /\ JobInv /\ [AdmissionNext]_allVars
        => [NothingAdmitted]_allVars
  <2> SUFFICES ASSUME TypeOK, JobInv, AdmissionNext, Paused, NEW j \in Job,
                      state'[j] \in ACTIVE
               PROVE  state[j] \in ACTIVE
    BY DEF NothingAdmitted
  <2>1. CASE GatewayNext
    <3>1. Active' \subseteq Active
      BY <2>1, ClosedGate DEF Next, Paused, DrainingValue
    <3> QED BY <3>1 DEF Active
  <2>2. CASE OperatorNext
    BY <2>2 DEF OperatorNext, Drain, DrainQuiet, DrainBlocked, ResumeAdmission
  <2> QED BY <2>1, <2>2 DEF AdmissionNext
<1> QED
  BY <1>1, StoreInvariants, PTL DEF AdmissionSpec

\* A pause is its operator's and nothing is admitted under it.
COROLLARY PauseIsRespected == AdmissionSpec => PauseRespected
<1>1. PauseKept' /\ [NothingAdmitted]_allVars => [NothingAdmitted /\ PauseKept']_allVars
  OBVIOUS
<1> QED
  BY <1>1, PauseStays, NothingAdmittedWhilePaused, PTL DEF PauseRespected
=============================================================================
