----------------------------- MODULE Residency ------------------------------
(***************************************************************************)
(* Maintenance, validation and the carrying out of plans (runtime.py,      *)
(* validation.py): three tasks that share the GPUs.  The scheduler's       *)
(* _reconcile loop reads the service mode, plans on a snapshot and acts on *)
(* the plan some awaits later; the validator borrows GPUs for a probe      *)
(* engine of its own; the administrator drains the service and resumes it. *)
(* Workers obey WorkerContract, which WorkerSupervisor implements.         *)
(*                                                                         *)
(* A section under the scheduler's _state_lock is one action.  _reconcile  *)
(* reads and writes the mode outside the lock, in actions of their own.    *)
(* What a plan is good for is the planner's business: here it is any set   *)
(* of actions the snapshot admits.                                         *)
(*                                                                         *)
(* The database may refuse any write.  What that leaves behind is kept in  *)
(* stuck, undrained and leaked.                                            *)
(***************************************************************************)
EXTENDS WorkerContract, Naturals, FiniteSets

CONSTANTS
  GpuSets,   \* the GPU sets of validated profiles, also the ones to validate
  MaxPlan    \* bound: actions of one plan

VARIABLES
  gpus,         \* worker.gpu_uuids
  toPark,       \* _drain_to_sleep: draining workers that sleep() asked for
  stops,        \* workers with a stop() on its way that ends their drain
  stuck,        \* workers in a transition whose write raised: no call goes on
  weightCache,  \* supervisor.ram_weight_cache_enabled, fixed at start
  mode,         \* service_state.mode, in the database
  requested,    \* _maintenance_requested
  queued,       \* requests in the admission queues
  leases,       \* _validation_gpu_uuids
  leaked,       \* those of them that no validation holds any more
  recPc,        \* where _reconcile is
  recMode,      \* the mode _reconcile has read, until it has decided
  plan,         \* actions of the plan not yet carried out
  draining,     \* workers enter_maintenance() has still to drain
  undrained,    \* history: it left a worker out that will not be stopped
  valPc,        \* where validate_vllm is
  valGpus,      \* the GPU set it holds or tries to get
  valTodo       \* overlapping workers it has still to park or stop

vars == <<phase, serving, gpus, toPark, stops, stuck, weightCache, mode, requested,
          queued, leases, leaked, recPc, recMode, plan, draining, undrained, valPc, valGpus,
          valTodo>>

schedulerVars == <<recPc, recMode, plan>>
validatorVars == <<valPc, valGpus, valTodo>>
transitionVars == <<toPark, stops, stuck>>
workerVars == <<contractVars, gpus, transitionVars>>
leaseVars == <<leases, leaked>>
modeVars == <<mode, requested, draining, undrained>>

NoPlan == [sleeps |-> {}, drains |-> {}, wakes |-> {}, starts |-> {}]

ServiceMode == {"ACTIVE", "DRAINING", "MAINTENANCE_READY"}

Gpu == UNION GpuSets

Gone(w) == phase[w] \in {"ABSENT", "COLD"}

AllCold == \A w \in Worker : Gone(w)

On(G) == {w \in Worker : ~Gone(w) /\ gpus[w] \cap G # {}}

----------------------------------------------------------------------------
(* Calls on the supervisor *)

(* The write that follows a change of state raised: an idle worker stays in  *)
(* the state it has, unless a stop is on its way.                            *)
Raised(w) ==
  stuck' = IF serving[w] = {} /\ w \notin stops THEN stuck \cup {w} ELSE stuck

Recorded(w) == stuck' = stuck \ {w}

BeginsDrain(w) ==
  /\ phase[w] \notin {"DRAINING", "STOPPING"} /\ ~Gone(w)
  /\ BeginDrain(w)
  /\ toPark' = toPark \ {w}

(* drain(): nothing for a worker that drains, stops or is gone; an idle one  *)
(* is stopped.                                                               *)
Drain(w) ==
  \/ phase[w] \in {"DRAINING", "STOPPING"} /\ UNCHANGED <<contractVars,
                                                          transitionVars>>
  \/ Gone(w) /\ UNCHANGED <<contractVars, transitionVars>>
  \/ /\ BeginsDrain(w) /\ Recorded(w)
     /\ stops' = IF serving[w] = {} THEN stops \cup {w} ELSE stops

(* The idle worker loses its stop, and its caller gets the error.            *)
DrainRaises(w) == BeginsDrain(w) /\ Raised(w) /\ UNCHANGED stops

(* sleep(): an idle worker is offloaded, a busy one drains first, and any    *)
(* other is left alone.  Only the offload may be lost.                       *)
Sleep(w) ==
  /\ UNCHANGED stops
  /\ \/ /\ phase[w] \notin {"READY", "DRAINING"}
        /\ UNCHANGED <<contractVars, toPark, stuck>>
     \/ BeginPark(w) /\ toPark' = toPark \ {w} /\ (Recorded(w) \/ Raised(w))
     \/ /\ phase[w] \in {"READY", "DRAINING"} /\ serving[w] # {}
        /\ toPark' = toPark \cup {w}
        /\ UNCHANGED stuck
        /\ IF phase[w] = "READY" THEN BeginDrain(w) ELSE UNCHANGED contractVars

(* A stop that begins is whatever was to come of the transition.             *)
Stops(w) == BeginStop(w) /\ stops' = stops \ {w} /\ Recorded(w)

(* stop(force=False): requests hold it off.                                  *)
Stop(w) ==
  /\ UNCHANGED toPark
  /\ IF serving[w] = {} /\ phase[w] \in LivePhase \ {"STOPPING"}
       THEN Stops(w) ELSE UNCHANGED <<contractVars, stops, stuck>>

(* The supervisor's own coroutines.  A drain that has nothing left to serve  *)
(* ends in the stop that is on its way, or in a parking when sleep() asked   *)
(* for it; a stop that finds the worker parked meanwhile is made all the     *)
(* same.                                                                     *)
WorkerStep(w) ==
  /\ w \notin stuck
  /\ \/ BecomeReady(w) /\ UNCHANGED <<transitionVars, undrained>>
     \/ /\ phase[w] = "DRAINING" /\ w \in toPark
        /\ BeginPark(w) /\ toPark' = toPark \ {w}
        /\ Recorded(w) \/ Raised(w)
        /\ undrained' = (undrained \/ (mode = "DRAINING" /\ w \notin draining))
        /\ UNCHANGED stops
     \/ /\ w \in stops /\ phase[w] \in {"DRAINING", "OFFLOADING", "SLEEPING"}
        /\ serving[w] = {}
        /\ Stops(w) /\ toPark' = toPark \ {w}
        /\ UNCHANGED undrained
     \/ Parked(w) /\ UNCHANGED <<transitionVars, undrained>>
     \/ phase[w] = "STOPPING" /\ Retire(w) /\ UNCHANGED <<transitionVars,
                                                          undrained>>
  /\ UNCHANGED <<gpus, weightCache, mode, requested, draining, queued,
                 leaseVars, schedulerVars, validatorVars>>

(* The engine of a worker fails at any time; the drain watchdog may force a  *)
(* draining worker out.                                                      *)
WorkerFails(w) ==
  /\ Retire(w) \/ (phase[w] = "DRAINING" /\ BeginStop(w))
  /\ toPark' = toPark \ {w} /\ stops' = stops \ {w}
  /\ Recorded(w)
  /\ UNCHANGED <<gpus, weightCache, modeVars, queued, leaseVars,
                 schedulerVars, validatorVars>>

----------------------------------------------------------------------------
(* Requests *)

(* enqueue() refuses unless the service is ACTIVE.                           *)
Enqueue(r) ==
  /\ mode = "ACTIVE"
  /\ r \notin queued /\ \A w \in Worker : r \notin serving[w]
  /\ queued' = queued \cup {r}
  /\ UNCHANGED <<workerVars, weightCache, modeVars, leaseVars, schedulerVars,
                 validatorVars>>

(* The client of a waiting request goes away.                                *)
Abandon(r) ==
  /\ r \in queued
  /\ queued' = queued \ {r}
  /\ UNCHANGED <<workerVars, weightCache, modeVars, leaseVars, schedulerVars,
                 validatorVars>>

(* The last one of a draining worker has it stopped, or parked (WorkerStep). *)
Finish(w, r) ==
  /\ Release(w, r)
  /\ stops' = IF phase[w] = "DRAINING" /\ serving[w] = {r} /\ w \notin toPark
                THEN stops \cup {w} ELSE stops
  /\ UNCHANGED <<gpus, toPark, stuck, weightCache, modeVars, queued,
                 leaseVars, schedulerVars, validatorVars>>

----------------------------------------------------------------------------
(* The scheduler's loop *)

(* _reconcile starts, and its read of the mode returns.                      *)
ReadMode ==
  /\ recPc = "idle"
  /\ recMode' = mode
  /\ recPc' = "decide"
  /\ UNCHANGED <<workerVars, weightCache, modeVars, queued, leaseVars, plan,
                 validatorVars>>

(* Mutant: GPUs on loan to the validator do not hold the mode back, and      *)
(* neither do parked workers.                                                *)
MutDecideDraining ==
  /\ recPc = "decide" /\ recMode # "ACTIVE"
  /\ recPc' = IF recMode = "DRAINING" /\ \A w \in Worker : Gone(w) \/ phase[w] = "SLEEPING"
                THEN "mark" ELSE "idle"
  /\ recMode' = "ACTIVE"
  /\ UNCHANGED <<workerVars, weightCache, modeVars, queued, leaseVars, plan,
                 validatorVars>>

(* A draining service is looked over; in maintenance there is nothing to do. *)
DecideDraining ==
  /\ recPc = "decide" /\ recMode # "ACTIVE"
  /\ recPc' = IF recMode = "DRAINING" /\ leases = {} /\ AllCold
                THEN "mark" ELSE "idle"
  /\ recMode' = "ACTIVE"
  /\ UNCHANGED <<workerVars, weightCache, modeVars, queued, leaseVars, plan,
                 validatorVars>>

(* The write of the mode commits, whatever was committed since the read.     *)
MarkReady ==
  /\ recPc = "mark"
  /\ mode' = "MAINTENANCE_READY"
  /\ recPc' = "idle"
  /\ UNCHANGED <<workerVars, weightCache, requested, draining, undrained,
                 queued, leaseVars, recMode, plan, validatorVars>>

(* _route_ready_work gives a waiting request to a READY worker.              *)
Route(w, r) ==
  /\ recPc = "decide" /\ recMode = "ACTIVE"
  /\ r \in queued
  /\ Admit(w, r)
  /\ queued' = queued \ {r}
  /\ UNCHANGED <<gpus, transitionVars, weightCache, modeVars, leaseVars,
                 schedulerVars, validatorVars>>

(* What a plan may contain, given the workers and the GPUs not on loan: idle *)
(* workers to park, with the weight cache, or any worker to drain without    *)
(* it; parked ones to evict or to wake; new ones to start.                   *)
Plannable ==
  [sleeps |-> {w \in Worker : weightCache /\ phase[w] = "READY" /\ serving[w] = {}},
   drains |-> {w \in Worker : IF weightCache THEN phase[w] = "SLEEPING"
                              ELSE phase[w] \in {"LOADING", "READY", "DRAINING"}},
   wakes  |-> {w \in Worker : phase[w] = "SLEEPING" /\ gpus[w] \cap leases = {}},
   starts |-> {G \in GpuSets : G \cap leases = {}}]

(* The plan is made on a snapshot, when no READY worker is left to route to. *)
MakePlan ==
  /\ recPc = "decide" /\ recMode = "ACTIVE"
  /\ (\E w \in Worker : phase[w] = "READY") => queued = {}
  /\ \E kind \in {"sleeps", "drains", "wakes", "starts"} :
       \E chosen \in SUBSET Plannable[kind] :
         /\ Cardinality(chosen) <= MaxPlan
         /\ plan' = [NoPlan EXCEPT ![kind] = chosen]
  /\ recPc' = "act"
  /\ UNCHANGED <<workerVars, weightCache, modeVars, queued, leaseVars,
                 recMode, validatorVars>>

Done(kind, x) == plan' = [plan EXCEPT ![kind] = @ \ {x}]

(* Mutant: the plan is carried out as it was made. *)
MutStillActive(G) == ~requested

(* _launch_if_active and _wake_if_active look again, under the lock.         *)
StillActive(G) == ~requested /\ mode = "ACTIVE" /\ G \cap leases = {}

(* supervisor.launch() raises for GPUs that are taken, unless engines share. *)
LaunchIfActive(G) ==
  /\ recPc = "act" /\ G \in plan.starts
  /\ IF StillActive(G) /\ (weightCache \/ On(G) = {})
       THEN \E w \in Worker : Register(w) /\ gpus' = [gpus EXCEPT ![w] = G]
       ELSE UNCHANGED <<contractVars, gpus>>
  /\ Done("starts", G)
  /\ UNCHANGED <<transitionVars, weightCache, modeVars, queued, leaseVars,
                 recPc, recMode, validatorVars>>

WakeIfActive(w) ==
  /\ recPc = "act" /\ w \in plan.wakes
  /\ IF StillActive(gpus[w]) /\ phase[w] = "SLEEPING" /\ w \notin stops
       THEN BeginWake(w) /\ (Recorded(w) \/ Raised(w))
       ELSE UNCHANGED <<contractVars, stuck>>
  /\ Done("wakes", w)
  /\ UNCHANGED <<gpus, toPark, stops, weightCache, modeVars, queued,
                 leaseVars, recPc, recMode, validatorVars>>

SleepOrDrain(w) ==
  /\ recPc = "act"
  /\ \/ w \in plan.sleeps /\ Sleep(w) /\ Done("sleeps", w) /\ UNCHANGED recPc
     \/ w \in plan.drains /\ Drain(w) /\ Done("drains", w) /\ UNCHANGED recPc
     \/ w \in plan.drains /\ DrainRaises(w) /\ plan' = NoPlan /\ recPc' = "idle"
  /\ UNCHANGED <<gpus, weightCache, modeVars, queued, leaseVars, recMode,
                 validatorVars>>

(* All is done, or an action raised and _run waits for the next tick.        *)
PlanEnds ==
  /\ recPc = "act"
  /\ plan' = NoPlan
  /\ recPc' = "idle"
  /\ UNCHANGED <<workerVars, weightCache, modeVars, queued, leaseVars,
                 recMode, validatorVars>>

----------------------------------------------------------------------------
(* The administrator *)

(* Mutant: a worker that is loading is not drained. *)
MutEnterMaintenance ==
  /\ requested' = TRUE
  /\ mode' = "DRAINING"
  /\ queued' = {}
  /\ draining' = {w \in Worker : phase[w] = "READY"}
  /\ undrained' = FALSE
  /\ UNCHANGED <<workerVars, weightCache, leaseVars, schedulerVars,
                 validatorVars>>

(* enter_maintenance(), up to the end of its locked section; the waiting     *)
(* requests are rejected and each worker there is gets drained in turn.      *)
EnterMaintenance ==
  /\ requested' = TRUE
  /\ mode' = "DRAINING"
  /\ queued' = {}
  /\ draining' = {w \in Worker : phase[w] # "ABSENT"}
  /\ undrained' = FALSE
  /\ UNCHANGED <<workerVars, weightCache, leaseVars, schedulerVars,
                 validatorVars>>

(* A worker that drains already is passed over, also if it has lost its stop *)
(* or is to be parked.                                                       *)
DrainForMaintenance(w) ==
  /\ w \in draining
  /\ Drain(w)
  /\ draining' = draining \ {w}
  /\ undrained' = (undrained \/ (phase[w] = "DRAINING" /\ w \in stuck))
  /\ UNCHANGED <<gpus, weightCache, mode, requested, queued, leaseVars,
                 schedulerVars, validatorVars>>

(* The drain of a worker raises, or the refund of a rejected request before  *)
(* any drain: the call is over, and the workers it has not come to are left  *)
(* as they are, unless a second call is under way.                           *)
MaintenanceRaises ==
  /\ draining # {}
  /\ \/ \E w \in draining : DrainRaises(w) /\ draining' \in SUBSET (draining \ {w})
     \/ /\ draining' \in SUBSET draining \ {draining}
        /\ UNCHANGED <<contractVars, transitionVars>>
  /\ undrained' = TRUE
  /\ UNCHANGED <<gpus, weightCache, mode, requested, queued, leaseVars,
                 schedulerVars, validatorVars>>

(* resume() is refused (409) while a worker is not COLD.                     *)
Resume ==
  /\ AllCold
  /\ mode' = "ACTIVE"
  /\ requested' = FALSE
  /\ UNCHANGED <<workerVars, weightCache, draining, undrained, queued,
                 leaseVars, schedulerVars, validatorVars>>

----------------------------------------------------------------------------
(* The validator: one probe at a time, by the lock of the job manager *)

(* The conditions of acquire_validation_gpus(), whose idle window passes     *)
(* sooner or later.                                                          *)
MayBorrow(G) ==
  /\ mode = "ACTIVE" /\ ~requested /\ queued = {}
  /\ G \cap leases = {}
  /\ \A w \in On(G) : serving[w] = {} /\ phase[w] \in {"READY", "SLEEPING"}

(* The GPUs are taken before the workers on them are parked or stopped.      *)
Borrow(G) ==
  /\ valPc = "idle"
  /\ MayBorrow(G)
  /\ leases' = leases \cup G
  /\ UNCHANGED leaked
  /\ valPc' = "clearing"
  /\ valGpus' = G
  /\ valTodo' = {w \in On(G) : weightCache => phase[w] = "READY"}
  /\ UNCHANGED <<workerVars, weightCache, modeVars, queued, schedulerVars>>

ClearWorker(w) ==
  /\ valPc = "clearing" /\ w \in valTodo
  /\ IF weightCache THEN Sleep(w) ELSE Stop(w)
  /\ valTodo' = valTodo \ {w}
  /\ UNCHANGED <<gpus, weightCache, modeVars, queued, leaseVars,
                 schedulerVars, valPc, valGpus>>

(* The workers seen at the start are parked or gone; a worker that is not,   *)
(* a transition that raised or new demand gives the GPUs back.  The sleeps   *)
(* of a plan are called in the loop's next round, long before this.          *)
Cleared == \A w \in On(valGpus) : phase[w] = "SLEEPING"

(* Mutant: the validator forgets to give the GPUs back. *)
MutReturn ==
  /\ UNCHANGED leaseVars
  /\ valPc' = "idle"
  /\ valGpus' = {}

(* release_validation_gpus() *)
Return ==
  /\ leases' = leases \ valGpus
  /\ UNCHANGED leaked
  /\ valPc' = "idle"
  /\ valGpus' = {}

(* The event of the success could not be recorded: the caller gets the error *)
(* in place of the GPUs, which it therefore never gives back.                *)
Leak ==
  /\ leaked' = leaked \cup valGpus
  /\ UNCHANGED leases
  /\ valPc' = "idle"
  /\ valGpus' = {}

Recheck ==
  /\ valPc = "clearing" /\ valTodo = {} /\ plan.sleeps = {}
  /\ \/ /\ Cleared /\ queued = {}
        /\ \/ valPc' = "starting" /\ UNCHANGED <<leaseVars, valGpus>>
           \/ Leak
     \/ Return
  /\ UNCHANGED <<workerVars, weightCache, modeVars, queued, schedulerVars,
                 valTodo>>

(* _probe_vllm(): the probe engine is started, generates, and with the       *)
(* weight cache is parked, woken and generates again.  Each stage may fail,  *)
(* and looks whether it is to yield: in the loop that polls the engine's     *)
(* health, at each line of an answer, before and after the parking.          *)
ProbeStage == {"starting", "generating", "parking", "regenerating", "terminating"}

(* Mutant: waiting requests are no reason to yield. *)
MutShouldYield == requested

ShouldYield == queued # {} \/ requested

ProbeOnly == UNCHANGED <<workerVars, weightCache, modeVars, queued, leaseVars,
                         schedulerVars, valGpus, valTodo>>

(* A healthy answer may be on its way when requests arrive.                  *)
WaitForHealth ==
  /\ valPc = "starting"
  /\ valPc' \in {"generating", "terminating"}
  /\ ProbeOnly

GenerationContract ==
  /\ \/ valPc = "generating" /\ weightCache /\ ~ShouldYield /\ valPc' = "parking"
     \/ valPc \in {"generating", "regenerating"} /\ valPc' = "terminating"
  /\ ProbeOnly

SleepWakeContract ==
  /\ valPc = "parking"
  /\ \/ ~ShouldYield /\ valPc' = "regenerating"
     \/ valPc' = "terminating"
  /\ ProbeOnly

(* The process group is gone, or there never was one: release follows.       *)
ProbeEnds ==
  /\ valPc \in {"starting", "terminating"}
  /\ Return
  /\ UNCHANGED <<workerVars, weightCache, modeVars, queued, schedulerVars,
                 valTodo>>

----------------------------------------------------------------------------
(* The service dies and is started again: recover_orphaned_state() and the   *)
(* constructors leave only the mode of before.                               *)
NoPlanYet == plan' = NoPlan /\ recPc' = "idle" /\ recMode' = "ACTIVE"

Restart ==
  /\ phase' = [w \in Worker |-> IF phase[w] = "ABSENT" THEN "ABSENT" ELSE "COLD"]
  /\ serving' = [w \in Worker |-> {}] 
  /\ toPark' = {} /\ stops' = {} /\ stuck' = {}
  /\ requested' = FALSE /\ queued' = {} /\ leases' = {} /\ leaked' = {}
  /\ draining' = {} /\ undrained' = FALSE
  /\ NoPlanYet
  /\ valPc' = "idle" /\ valGpus' = {} /\ valTodo' = {}
  /\ UNCHANGED <<gpus, weightCache, mode>>

ResidencyInit ==
  /\ Init
  /\ gpus = [w \in Worker |-> {}] 
  /\ toPark = {} /\ stops = {} /\ stuck = {}
  /\ weightCache \in BOOLEAN
  /\ mode = "ACTIVE" /\ requested = FALSE
  /\ queued = {} /\ leases = {} /\ leaked = {}
  /\ draining = {} /\ undrained = FALSE
  /\ plan = NoPlan /\ recPc = "idle" /\ recMode = "ACTIVE"
  /\ valPc = "idle" /\ valGpus = {} /\ valTodo = {}

Reconcile ==
  \/ ReadMode \/ DecideDraining \/ MarkReady \/ MakePlan \/ PlanEnds
  \/ \E w \in Worker, r \in Request : Route(w, r)
  \/ \E w \in Worker : SleepOrDrain(w) \/ WakeIfActive(w)
  \/ \E G \in GpuSets : LaunchIfActive(G)

Validate ==
  \/ \E G \in GpuSets : Borrow(G)
  \/ \E w \in Worker : ClearWorker(w)
  \/ Recheck
  \/ WaitForHealth \/ GenerationContract \/ SleepWakeContract \/ ProbeEnds

ResidencyNext ==
  \/ Reconcile
  \/ Validate
  \/ EnterMaintenance \/ MaintenanceRaises \/ Resume \/ Restart
  \/ \E w \in Worker : WorkerStep(w) \/ WorkerFails(w) \/ DrainForMaintenance(w)
  \/ \E r \in Request : Enqueue(r) \/ Abandon(r)
  \/ \E w \in Worker, r \in Request : Finish(w, r)

ResidencySpec == ResidencyInit /\ [][ResidencyNext]_vars

(* The steps the validator's task does not put off for ever: a probe engine  *)
(* may be starting for ever, except that its loop looks whether to yield.    *)
ValidatorProceeds ==
  \/ \E w \in Worker : ClearWorker(w)
  \/ Recheck
  \/ WaitForHealth /\ ShouldYield
  \/ GenerationContract \/ SleepWakeContract
  \/ ProbeEnds /\ valPc = "terminating"

(* The event loop runs every task that can go on; engines load, stop and     *)
(* answer within their time-outs, and requests end; the service dies         *)
(* finitely often.  Nothing is assumed of clients, of the administrator, or  *)
(* of what a plan contains.                                                  *)
Fairness ==
  /\ WF_vars(Reconcile)
  /\ WF_vars(ValidatorProceeds)
  /\ \A w \in Worker : WF_vars(WorkerStep(w)) /\ WF_vars(DrainForMaintenance(w))
  /\ \A w \in Worker, r \in Request : WF_vars(Finish(w, r))
  /\ <>[][~Restart]_vars

FairResidencySpec == ResidencySpec /\ Fairness

----------------------------------------------------------------------------
(* Properties *)

(* The GPUs on loan are those the validator holds and those it has lost.     *)
TypeOK ==
  /\ phase \in [Worker -> Phase]
  /\ serving \in [Worker -> SUBSET Request]
  /\ gpus \in [Worker -> GpuSets \cup {{}}]
  /\ toPark \subseteq Worker
  /\ weightCache \in BOOLEAN
  /\ mode \in ServiceMode /\ recMode \in ServiceMode
  /\ requested \in BOOLEAN
  /\ queued \subseteq Request
  /\ leases \subseteq Gpu
  /\ stops \cup stuck \subseteq Worker
  /\ undrained \in BOOLEAN
  /\ recPc \in {"idle", "decide", "mark", "act"}
  /\ plan \in [sleeps : SUBSET Worker, drains : SUBSET Worker,
               wakes : SUBSET Worker, starts : SUBSET GpuSets]
  /\ draining \subseteq Worker
  /\ valPc \in {"idle", "clearing"} \cup ProbeStage
  /\ valGpus \in GpuSets \cup {{}}
  /\ valTodo \subseteq Worker
  /\ leases = valGpus \cup leaked /\ valGpus \cap leaked = {}

(* While the probe engine runs, its GPUs are on loan and no engine of the    *)
(* scheduler computes on them or is about to: whatever plan was under way    *)
(* when the GPUs were taken, and whoever wakes, drains or resumes meanwhile. *)
ProbeIsAlone ==
  valPc \in ProbeStage =>
    /\ valGpus \subseteq leases
    /\ \A w \in On(valGpus) :
         phase[w] \in {"SLEEPING", "DRAINING", "STOPPING"} /\ serving[w] = {}

(* The service says that maintenance may begin only when no worker is left,  *)
(* and from then on none appears, late actions of old plans included.        *)
ReadyIsCold == mode = "MAINTENANCE_READY" => AllCold

(* Validation yields: waiting requests get the GPUs back, except those whose *)
(* loan a failed write has made permanent.                                   *)
ValidationYields == queued # {} ~> leases = leaked \/ queued = {}

(* A drain of the service comes to its end, unless it is resumed or asked    *)
(* for again.  Three things stand in its way: a loan that a failed write has *)
(* made permanent, a drain or a refund that was refused by the database, and *)
(* a draining worker that is parked, because drain() leaves the intent of an *)
(* earlier sleep() in place, or because _offload comes late.                 *)
MaintenanceCompletes ==
  mode = "DRAINING" ~> mode # "DRAINING" \/ undrained \/ leaked # {}
=============================================================================
