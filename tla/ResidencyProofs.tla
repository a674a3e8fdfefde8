-------------------------- MODULE ResidencyProofs ---------------------------
(***************************************************************************)
(* Machine-checked theorems about Residency: for any number of workers,    *)
(* requests and GPU sets, plans of any size, and any interleaving of the   *)
(* scheduler, the validator, the administrator, failures and restarts.     *)
(***************************************************************************)
EXTENDS Residency, TLAPS

(* The inductive invariant.  That the probe is alone is not inductive: a     *)
(* parked worker nobody wakes could still hold requests (QuietUnlessOpen),   *)
(* be parked again after a drain (ParkingDrains), or be named by a plan made *)
(* before its GPUs were taken (PlannedToSleep).                              *)

(* Only a worker that is or was open to requests has any.                    *)
QuietUnlessOpen ==
  \A w \in Worker : serving[w] # {} => phase[w] \in {"READY", "DRAINING", "STOPPING"}

(* _drain_to_sleep holds draining workers only, and none without the cache.  *)
ParkingDrains == \A w \in toPark : phase[w] = "DRAINING" /\ weightCache

PlannedToSleep == \A w \in plan.sleeps : phase[w] # "ABSENT" /\ weightCache

(* A validator that is idle holds nothing.                                   *)
IdleHoldsNothing == valPc = "idle" => valGpus = {}

(* On the GPUs of a probe nobody serves, and nobody is to be parked there.   *)
ProbeUndisturbed ==
  valPc \in ProbeStage =>
    \A w \in On(valGpus) :
      /\ phase[w] \in {"SLEEPING", "DRAINING", "STOPPING"} /\ serving[w] = {}
      /\ w \notin toPark /\ w \notin plan.sleeps

(* What _reconcile saw before it writes the mode is still so when it does.   *)
ColdWhenMarked == mode = "MAINTENANCE_READY" \/ recPc = "mark" => AllCold

ResidencyInv ==
  /\ TypeOK
  /\ QuietUnlessOpen
  /\ ParkingDrains
  /\ PlannedToSleep
  /\ IdleHoldsNothing
  /\ ProbeUndisturbed
  /\ ColdWhenMarked

(* The service starts with no worker, no plan and no loan.                   *)
LEMMA ResidencyInvInit == ResidencyInit => ResidencyInv
<1> SUFFICES ASSUME ResidencyInit PROVE ResidencyInv
  OBVIOUS
<1>1. plan \in [sleeps : SUBSET Worker, drains : SUBSET Worker,
                wakes : SUBSET Worker, starts : SUBSET GpuSets] /\ plan.sleeps = {}
  BY DEF ResidencyInit, NoPlan
<1> QED
  BY <1>1 DEF ResidencyInit, Init, ResidencyInv, TypeOK, QuietUnlessOpen, ParkingDrains,
   PlannedToSleep, IdleHoldsNothing, ProbeUndisturbed, ColdWhenMarked, Phase, LivePhase,
   ServiceMode, AllCold, Gone, On, Gpu, ProbeStage

(* Every step keeps the inductive invariant.                                 *)
LEMMA ResidencyInvStep == ResidencyInv /\ [ResidencyNext]_vars => ResidencyInv'
<1> SUFFICES ASSUME ResidencyInv, [ResidencyNext]_vars PROVE ResidencyInv'
  OBVIOUS
<1> USE DEF ResidencyInv, TypeOK, QuietUnlessOpen, ParkingDrains, PlannedToSleep,
    IdleHoldsNothing, ProbeUndisturbed, ColdWhenMarked, Phase, LivePhase, ServiceMode,
    AllCold, Gone, On, ProbeStage, contractVars, transitionVars, workerVars, leaseVars,
    schedulerVars, validatorVars, modeVars, Move, Recorded, Raised
<1>1. CASE ReadMode
  BY <1>1 DEF ReadMode
<1>2. CASE DecideDraining
  BY <1>2 DEF DecideDraining
<1>3. CASE MarkReady
  BY <1>3 DEF MarkReady
<1>4. CASE MakePlan
  <2>1. PICK kind \in {"sleeps", "drains", "wakes", "starts"} :
          \E chosen \in SUBSET Plannable[kind] : plan' = [NoPlan EXCEPT ![kind] = chosen]
    BY <1>4 DEF MakePlan
  <2>2. PICK chosen \in SUBSET Plannable[kind] : plan' = [NoPlan EXCEPT ![kind] = chosen]
    BY <2>1
  <2>3. /\ plan' \in [sleeps : SUBSET Worker, drains : SUBSET Worker,
                      wakes : SUBSET Worker, starts : SUBSET GpuSets]
        /\ \A w \in plan'.sleeps : weightCache /\ phase[w] = "READY"
    <3>1. CASE kind = "sleeps"
      BY <2>2, <3>1 DEF NoPlan, Plannable
    <3>2. CASE kind = "drains"
      BY <2>2, <3>2 DEF NoPlan, Plannable
    <3>3. CASE kind = "wakes"
      BY <2>2, <3>3 DEF NoPlan, Plannable
    <3>4. CASE kind = "starts"
      BY <2>2, <3>4 DEF NoPlan, Plannable
    <3> QED
      BY <3>1, <3>2, <3>3, <3>4
  <2> QED
    BY <1>4, <2>3 DEF MakePlan
<1>5. CASE PlanEnds
  BY <1>5 DEF PlanEnds, NoPlan
<1>6. ASSUME NEW w \in Worker, NEW r \in Request, Route(w, r) PROVE ResidencyInv'
  BY <1>6 DEF Route, Admit
<1>7. ASSUME NEW w \in Worker, SleepOrDrain(w) PROVE ResidencyInv'
  <2>1. CASE w \in plan.sleeps /\ Sleep(w) /\ Done("sleeps", w)
    BY <1>7, <2>1 DEF SleepOrDrain, Sleep, Done, BeginPark, BeginDrain
  <2>2. CASE w \in plan.drains /\ Drain(w) /\ Done("drains", w)
    BY <1>7, <2>2 DEF SleepOrDrain, Drain, BeginsDrain, Done, BeginDrain
  <2>3. CASE DrainRaises(w) /\ plan' = NoPlan /\ recPc' = "idle"
    BY <1>7, <2>3 DEF SleepOrDrain, DrainRaises, BeginsDrain, BeginDrain, NoPlan
  <2> QED
    BY <1>7, <2>1, <2>2, <2>3 DEF SleepOrDrain
<1>8. ASSUME NEW w \in Worker, WakeIfActive(w) PROVE ResidencyInv'
  BY <1>8 DEF WakeIfActive, StillActive, Done, BeginWake
<1>9. ASSUME NEW G \in GpuSets, LaunchIfActive(G) PROVE ResidencyInv'
  BY <1>9 DEF LaunchIfActive, StillActive, Done, Register
<1>10. ASSUME NEW G \in GpuSets, Borrow(G) PROVE ResidencyInv'
  BY <1>10 DEF Borrow, MayBorrow, Gpu
<1>11. ASSUME NEW w \in Worker, ClearWorker(w) PROVE ResidencyInv'
  <2>1. CASE weightCache
    BY <1>11, <2>1 DEF ClearWorker, Sleep, BeginPark, BeginDrain
  <2>2. CASE ~weightCache
    BY <1>11, <2>2 DEF ClearWorker, Stop, Stops, BeginStop
  <2> QED
    BY <2>1, <2>2
<1>12. CASE Recheck
  BY <1>12 DEF Recheck, Cleared, Return, Leak
<1>13. CASE WaitForHealth \/ GenerationContract \/ SleepWakeContract \/ ProbeEnds
  <2>1. CASE WaitForHealth
    BY <2>1 DEF WaitForHealth, ProbeOnly
  <2>2. CASE GenerationContract
    BY <2>2 DEF GenerationContract, ProbeOnly
  <2>3. CASE SleepWakeContract
    BY <2>3 DEF SleepWakeContract, ProbeOnly
  <2>4. CASE ProbeEnds
    BY <2>4 DEF ProbeEnds, Return
  <2> QED
    BY ONLY <1>13, <2>1, <2>2, <2>3, <2>4
<1>14. CASE EnterMaintenance
  BY <1>14, ZenonT(30) DEF EnterMaintenance
<1>15. CASE Resume
  BY <1>15, ZenonT(30) DEF Resume
<1>16. CASE Restart
  BY <1>16, ZenonT(30) DEF Restart, NoPlanYet, NoPlan
<1>17. ASSUME NEW w \in Worker, WorkerStep(w) PROVE ResidencyInv'
  BY <1>17 DEF WorkerStep, BecomeReady, BeginPark, Stops, BeginStop, Parked, Retire
<1>18. ASSUME NEW w \in Worker, WorkerFails(w) PROVE ResidencyInv'
  BY <1>18 DEF WorkerFails, Retire, BeginStop
<1>19. ASSUME NEW w \in Worker, DrainForMaintenance(w) PROVE ResidencyInv'
  BY <1>19 DEF DrainForMaintenance, Drain, BeginsDrain, BeginDrain
<1>20. ASSUME NEW r \in Request, Enqueue(r) \/ Abandon(r) PROVE ResidencyInv'
  BY <1>20 DEF Enqueue, Abandon
<1>21. ASSUME NEW w \in Worker, NEW r \in Request, Finish(w, r) PROVE ResidencyInv'
  BY <1>21 DEF Finish, Release
<1>22. CASE MaintenanceRaises
  BY <1>22 DEF MaintenanceRaises, DrainRaises, BeginsDrain, BeginDrain
<1>23. CASE UNCHANGED vars
  BY <1>23 DEF vars
<1> QED
  BY <1>1, <1>2, <1>3, <1>4, <1>5, <1>6, <1>7, <1>8, <1>9, <1>10, <1>11, <1>12, <1>13,
     <1>14, <1>15, <1>16, <1>17, <1>18, <1>19, <1>20, <1>21, <1>22, <1>23
  DEF ResidencyNext, Reconcile, Validate

(* The inductive invariant holds in every reachable state.                   *)
LEMMA ResidencyInvHolds == ResidencySpec => []ResidencyInv
BY ResidencyInvInit, ResidencyInvStep, PTL DEF ResidencySpec

(* The types of the scheduler's state, and that the GPUs on loan are those   *)
(* the validator holds: none is given back twice, and none leaks but by the  *)
(* refused write of VALIDATION_GPUS_ACQUIRED.                                *)
THEOREM ResidencyTypeCorrect == ResidencySpec => []TypeOK
<1>1. ResidencyInv => TypeOK
  BY DEF ResidencyInv
<1> QED
  BY <1>1, ResidencyInvHolds, PTL

(* No engine of the scheduler computes on the GPUs of a running probe.       *)
THEOREM ProbesAreAlone == ResidencySpec => []ProbeIsAlone
<1>1. ResidencyInv => ProbeIsAlone
  BY DEF ResidencyInv, TypeOK, ProbeUndisturbed, ProbeIsAlone
<1> QED
  BY <1>1, ResidencyInvHolds, PTL

(* A service that says maintenance may begin has no worker and gets none.    *)
THEOREM MaintenanceIsCold == ResidencySpec => []ReadyIsCold
<1>1. ResidencyInv => ReadyIsCold
  BY DEF ResidencyInv, ColdWhenMarked, ReadyIsCold
<1> QED
  BY <1>1, ResidencyInvHolds, PTL
=============================================================================
