-------------------------- MODULE WorkerSupervisor --------------------------
(***************************************************************************)
(* The worker supervisor of LLM-RIO (workers.py): the owner of every       *)
(* inference engine process.  Each worker is launched once on a validated  *)
(* GPU set, becomes READY, serves admitted requests, may be parked in host *)
(* RAM (OFFLOADING, SLEEPING) and woken (WAKING), and ends COLD.           *)
(*                                                                         *)
(* The service is one asyncio event loop, so the code between two awaits   *)
(* is one action here.  Two kinds of lock order the actions: the           *)
(* supervisor lock, which only launch() keeps across an await (LockFree),  *)
(* and one transition lock per worker, held by _offload, wake and stop     *)
(* (holder); coroutines blocked on the latter are the members of waiting.  *)
(* Two blocked calls of one kind are one member: the later one finds all   *)
(* that the earlier one was called for, or does again what it failed to do.*)
(*                                                                         *)
(* The database may refuse any write.  Where the code goes on as if it had *)
(* not, nothing is modelled; where the exception ends a coroutine that had *)
(* something left to do (drain, _offload, wake), the step is a choice.     *)
(***************************************************************************)
EXTENDS Naturals, FiniteSets

CONSTANTS
  Worker,       \* worker ids; launch() draws a fresh one
  Request,      \* request ids
  GpuSets,      \* the validated GPU sets a profile may be placed on
  Sharing,      \* TRUE iff kvcached engines may share GPUs
  MaxResident,  \* prism_max_workers_per_gpu
  MaxCached     \* prism_max_cached_workers_per_gpu

ASSUME SupervisorAssumption ==
  /\ IsFiniteSet(Worker)
  /\ Sharing \in BOOLEAN
  /\ MaxResident \in Nat \ {0}
  /\ MaxCached \in Nat \ {0}

VARIABLES
  state,        \* worker.state, "ABSENT" before launch() registers the id
  gpus,         \* worker.gpu_uuids
  admitted,     \* worker.admitted_request_ids
  drainToSleep, \* _drain_to_sleep
  engine,       \* the engine's process group, as the operating system has it
  launching,    \* the worker whose launch() holds the supervisor lock
  starting,     \* workers whose _await_ready task is polling
  monitored,    \* workers whose _monitor task awaits the process
  waiting,      \* calls blocked on the worker's transition lock
  holder,       \* the call that holds the transition lock, and how far it is
  closed,       \* scheduler.close() has reached stop_all(force=True)
  writing,      \* idle workers whose drain() writes its row and stops them next
  unrecorded    \* history: workers that a failed write has left in the middle
                \* of a drain, an offload or a wake, and nobody has gone on with

vars == <<state, gpus, admitted, drainToSleep, engine, launching, starting,
          monitored, waiting, holder, closed, writing, unrecorded>>

RuntimeState == {"COLD", "LOADING", "READY", "DRAINING", "OFFLOADING",
                 "SLEEPING", "WAKING", "STOPPING"}

(* "terminating": SIGTERM was sent.  "parentless": the API parent exited and *)
(* engine descendants may survive in its group.  "dead": the group is gone   *)
(* or SIGKILL was delivered to all of it.                                    *)
EngineState == {"none", "running", "terminating", "parentless", "dead"}

Call == {"offload", "wake", "stop", "forceStop"}

(* Each keeps the lock over two awaits: writing the row, and then the call   *)
(* to the engine or the exit of the signalled process.                       *)
Holder == {"none", "offload", "offloadCall", "wake", "wakeCall",
           "stop", "stopWait", "forceStop", "forceStopWait"}

Live(w) == state[w] \notin {"ABSENT", "COLD"}

LockFree == launching = {}

(* A call is on its way that ends the worker's drain or offload.             *)
HandedOver(w) == waiting[w] \cap {"offload", "stop", "forceStop"} # {}

(* The worker is somebody's concern again, or nobody's.                      *)
Resumed(w) == unrecorded' = unrecorded \ {w}

GpuResidentState == RuntimeState \ {"COLD", "SLEEPING"}

----------------------------------------------------------------------------
(* Launch *)

(* Mutant: a sleeping worker no longer owns its GPUs. *)
MutOverlapping(G) ==
  {w \in Worker : state[w] \in GpuResidentState /\ gpus[w] \cap G # {}}

Overlapping(G) == {w \in Worker : Live(w) /\ gpus[w] \cap G # {}}

(* _can_share_gpus: both pools are bounded on every requested GPU.           *)
CanShare(G) ==
  /\ Sharing
  /\ \A g \in G :
       LET colocated == {w \in Overlapping(G) : g \in gpus[w]} IN
         /\ Cardinality({w \in colocated : state[w] \in GpuResidentState})
              < MaxResident
         /\ Cardinality(colocated) < MaxCached

PlacementAllowed(G) == Overlapping(G) = {} \/ CanShare(G)

(* Mutant: launch() does not hold the supervisor lock. *)
MutLaunch(w, G) ==
  /\ ~closed
  /\ state[w] = "ABSENT"
  /\ PlacementAllowed(G)
  /\ state' = [state EXCEPT ![w] = "LOADING"]
  /\ gpus' = [gpus EXCEPT ![w] = G]
  /\ launching' = launching \cup {w}
  /\ UNCHANGED <<admitted, drainToSleep, engine, starting, monitored, waiting,
                 holder, closed, writing, unrecorded>>

(* launch(), up to its first await: the worker is registered as LOADING and  *)
(* the supervisor lock stays taken until the subprocess is recorded.         *)
Launch(w, G) ==
  /\ LockFree /\ ~closed
  /\ state[w] = "ABSENT"
  /\ PlacementAllowed(G)
  /\ state' = [state EXCEPT ![w] = "LOADING"]
  /\ gpus' = [gpus EXCEPT ![w] = G]
  /\ launching' = {w}
  /\ UNCHANGED <<admitted, drainToSleep, engine, starting, monitored, waiting,
                 holder, closed, writing, unrecorded>>

Spawn(w) ==
  /\ w \in launching /\ engine[w] = "none"
  /\ engine' = [engine EXCEPT ![w] = "running"]
  /\ UNCHANGED <<state, gpus, admitted, drainToSleep, launching, starting,
                 monitored, waiting, holder, closed, writing, unrecorded>>

(* The row and the event are written; the two tasks of the worker start.     *)
LaunchRecorded(w) ==
  /\ w \in launching /\ engine[w] # "none"
  /\ launching' = {}
  /\ starting' = starting \cup {w}
  /\ monitored' = monitored \cup {w}
  /\ UNCHANGED <<state, gpus, admitted, drainToSleep, engine, waiting, holder,
                 closed, writing, unrecorded>>

(* create_subprocess_exec or the first _persist raised: kill the process if  *)
(* there is one and forget the worker, whose id nobody has seen.             *)
LaunchFailed(w) ==
  /\ w \in launching
  /\ state' = [state EXCEPT ![w] = "ABSENT"]
  /\ gpus' = [gpus EXCEPT ![w] = {}]
  /\ engine' = [engine EXCEPT ![w] = "none"]
  /\ launching' = {}
  /\ UNCHANGED <<admitted, drainToSleep, starting, monitored, waiting, holder,
                 closed, writing, unrecorded>>

----------------------------------------------------------------------------
(* Failure *)

(* _fail, up to its first await: the worker is COLD and the SIGKILL to the   *)
(* process group leaves in the same step (_terminate_worker_process_tree     *)
(* does not suspend).  A COLD worker is left alone.                          *)
Fail(w) ==
  /\ LockFree
  /\ IF state[w] = "COLD"
       THEN UNCHANGED <<state, admitted, drainToSleep, engine, unrecorded>>
       ELSE /\ state' = [state EXCEPT ![w] = "COLD"]
            /\ admitted' = [admitted EXCEPT ![w] = {}]
            /\ drainToSleep' = drainToSleep \ {w}
            /\ engine' = [engine EXCEPT ![w] = "dead"]
            /\ Resumed(w)

(* The API parent exits by itself or obeys SIGTERM; its tensor-parallel      *)
(* children may outlive it.                                                  *)
EngineExits(w) ==
  /\ engine[w] \in {"running", "terminating"}
  /\ \E left \in {"parentless", "dead"} :
       engine' = [engine EXCEPT ![w] = left]
  /\ UNCHANGED <<state, gpus, admitted, drainToSleep, launching, starting,
                 monitored, waiting, holder, closed, writing, unrecorded>>

(* Mutant: an exit while a drain is under way is taken for the stop's. *)
MutMonitorReports(w) ==
  /\ w \in monitored
  /\ engine[w] \in {"parentless", "dead"}
  /\ monitored' = monitored \ {w}
  /\ IF state[w] \in {"STOPPING", "COLD", "DRAINING"}
       THEN UNCHANGED <<state, admitted, drainToSleep, engine, unrecorded>>
       ELSE Fail(w)
  /\ UNCHANGED <<gpus, launching, starting, waiting, holder, closed, writing>>

(* _monitor: the API parent was reaped by the event loop.                    *)
MonitorReports(w) ==
  /\ w \in monitored
  /\ engine[w] \in {"parentless", "dead"}
  /\ monitored' = monitored \ {w}
  /\ IF state[w] \in {"STOPPING", "COLD"}
       THEN UNCHANGED <<state, admitted, drainToSleep, engine, unrecorded>>
       ELSE Fail(w)
  /\ UNCHANGED <<gpus, launching, starting, waiting, holder, closed, writing>>

(* _await_ready sees a healthy engine.                                       *)
EngineHealthy(w) ==
  /\ w \in starting /\ engine[w] = "running" /\ LockFree
  /\ starting' = starting \ {w}
  /\ state' = IF state[w] = "LOADING" THEN [state EXCEPT ![w] = "READY"]
                                      ELSE state
  /\ UNCHANGED <<gpus, admitted, drainToSleep, engine, launching, monitored,
                 waiting, holder, closed, writing, unrecorded>>

(* _await_ready finds the process gone, or worker_startup_timeout_seconds    *)
(* has passed; it does so in any state.                                      *)
StartupFails(w) ==
  /\ w \in starting
  /\ starting' = starting \ {w}
  /\ Fail(w)
  /\ UNCHANGED <<gpus, launching, monitored, waiting, holder, closed, writing>>

----------------------------------------------------------------------------
(* Requests *)

(* admit: only a READY worker is routable.                                   *)
Admit(w, r) ==
  /\ LockFree /\ ~closed
  /\ state[w] = "READY"
  /\ \A v \in Worker : r \notin admitted[v]
  /\ admitted' = [admitted EXCEPT ![w] = @ \cup {r}]
  /\ UNCHANGED <<state, gpus, drainToSleep, engine, launching, starting,
                 monitored, waiting, holder, closed, writing, unrecorded>>

Drained(w) == state[w] = "DRAINING" /\ admitted'[w] = {}

(* Mutant: the last release of a worker that drains to sleep starts nothing. *)
MutRelease(w, r) ==
  /\ LockFree
  /\ r \in admitted[w]
  /\ admitted' = [admitted EXCEPT ![w] = @ \ {r}]
  /\ waiting' = IF Drained(w) /\ w \notin drainToSleep
                  THEN [waiting EXCEPT ![w] = @ \cup {"stop"}]
                  ELSE waiting
  /\ UNCHANGED <<state, gpus, drainToSleep, engine, launching, starting,
                 monitored, holder, closed, writing, unrecorded>>

(* release: the last request of a draining worker parks it or stops it.      *)
Release(w, r) ==
  /\ LockFree
  /\ r \in admitted[w]
  /\ admitted' = [admitted EXCEPT ![w] = @ \ {r}]
  /\ waiting' = IF Drained(w)
                  THEN [waiting EXCEPT ![w] = @ \cup
                         {IF w \in drainToSleep THEN "offload" ELSE "stop"}]
                  ELSE waiting
  /\ UNCHANGED <<state, gpus, drainToSleep, engine, launching, starting,
                 monitored, holder, closed, writing, unrecorded>>

----------------------------------------------------------------------------
(* Commands of the scheduler, the validator and the administrator *)

(* sleep.  The READY worker that still serves goes to DRAINING; the idle one *)
(* goes on to _offload at once.  A DRAINING worker is accepted too, and a    *)
(* stop it was draining for becomes a parking.                               *)
Sleep(w) ==
  /\ LockFree /\ ~closed
  /\ state[w] \in {"READY", "DRAINING"}
  /\ drainToSleep' = drainToSleep \cup {w}
  /\ IF admitted[w] # {}
       THEN /\ state' = [state EXCEPT ![w] = "DRAINING"]
            /\ UNCHANGED waiting
       ELSE /\ waiting' = [waiting EXCEPT ![w] = @ \cup {"offload"}]
            /\ UNCHANGED state
  /\ Resumed(w)
  /\ UNCHANGED <<gpus, admitted, engine, launching, starting, monitored,
                 holder, closed, writing>>

(* drain, up to its first await.  The idle worker is stopped by the same     *)
(* coroutine, after the row and the event are written.                       *)
Drain(w) ==
  /\ LockFree /\ ~closed
  /\ Live(w) /\ state[w] \notin {"DRAINING", "STOPPING"}
  /\ drainToSleep' = drainToSleep \ {w}
  /\ state' = [state EXCEPT ![w] = "DRAINING"]
  /\ writing' = IF admitted[w] = {} THEN writing \cup {w} ELSE writing
  /\ Resumed(w)
  /\ UNCHANGED <<gpus, admitted, engine, launching, starting, monitored,
                 waiting, holder, closed>>

DrainRecorded(w) ==
  /\ w \in writing
  /\ writing' = writing \ {w}
  /\ waiting' = [waiting EXCEPT ![w] = @ \cup {"stop"}]
  /\ Resumed(w)
  /\ UNCHANGED <<state, gpus, admitted, drainToSleep, engine, launching,
                 starting, monitored, holder, closed>>

(* The write raised: the worker is not stopped, and drain() returns at once  *)
(* for a worker that is DRAINING already.                                    *)
DrainUnrecorded(w) ==
  /\ w \in writing
  /\ writing' = writing \ {w}
  /\ unrecorded' = IF state[w] = "DRAINING" /\ admitted[w] = {} /\ ~HandedOver(w)
                     THEN unrecorded \cup {w} ELSE unrecorded
  /\ UNCHANGED <<state, gpus, admitted, drainToSleep, engine, launching,
                 starting, monitored, waiting, holder, closed>>

(* wake, and the stop of validation or of the drain watchdog, first queue    *)
(* for the transition lock; the watchdog forces only a DRAINING worker.      *)
Command(w, call) ==
  /\ LockFree /\ ~closed
  /\ \/ call = "wake" /\ state[w] = "SLEEPING"
     \/ call = "stop" /\ state[w] \in {"READY", "SLEEPING"} /\ admitted[w] = {}
     \/ call = "forceStop" /\ state[w] = "DRAINING"
  /\ waiting' = [waiting EXCEPT ![w] = @ \cup {call}]
  /\ Resumed(w)
  /\ UNCHANGED <<state, gpus, admitted, drainToSleep, engine, launching,
                 starting, monitored, holder, closed, writing>>

----------------------------------------------------------------------------
(* Transitions under the worker's transition lock *)

Granted(w, call) ==
  /\ LockFree
  /\ holder[w] = "none"
  /\ call \in waiting[w]
  /\ waiting' = [waiting EXCEPT ![w] = @ \ {call}]

Hold(w, h) == holder' = [holder EXCEPT ![w] = h]

(* Mutant: _offload trusts the idleness its caller saw. *)
MutBeginOffload(w) ==
  /\ Granted(w, "offload")
  /\ \/ /\ state[w] \in {"COLD", "SLEEPING", "STOPPING"}
        /\ UNCHANGED <<state, drainToSleep, holder>>
     \/ /\ state[w] \notin {"COLD", "SLEEPING", "STOPPING"}
        /\ drainToSleep' = drainToSleep \ {w}
        /\ state' = [state EXCEPT ![w] = "OFFLOADING"]
        /\ Hold(w, "offload")
  /\ UNCHANGED <<gpus, admitted, engine, launching, starting, monitored,
                 closed, writing, unrecorded>>

(* _offload re-reads the worker once it holds both locks: it gives up on a   *)
(* worker that is gone, asleep or stopping, waits again for one that was     *)
(* given a request meanwhile, and otherwise starts the offload.              *)
BeginOffload(w) ==
  /\ Granted(w, "offload")
  /\ \/ /\ state[w] \in {"COLD", "SLEEPING", "STOPPING"}
        /\ UNCHANGED <<state, drainToSleep, holder>>
     \/ /\ state[w] \notin {"COLD", "SLEEPING", "STOPPING"}
        /\ admitted[w] # {}
        /\ drainToSleep' = drainToSleep \cup {w}
        /\ state' = [state EXCEPT ![w] = "DRAINING"]
        /\ UNCHANGED holder
     \/ /\ state[w] \notin {"COLD", "SLEEPING", "STOPPING"}
        /\ admitted[w] = {}
        /\ drainToSleep' = drainToSleep \ {w}
        /\ state' = [state EXCEPT ![w] = "OFFLOADING"]
        /\ Hold(w, "offload")
  /\ UNCHANGED <<gpus, admitted, engine, launching, starting, monitored,
                 closed, writing, unrecorded>>

(* The row and the event of the transition are written; the engine is called *)
(* next.                                                                     *)
CallEngine(w) ==
  /\ holder[w] \in {"offload", "wake"}
  /\ Hold(w, IF holder[w] = "offload" THEN "offloadCall" ELSE "wakeCall")
  /\ UNCHANGED <<state, gpus, admitted, drainToSleep, engine, launching,
                 starting, monitored, waiting, closed, writing, unrecorded>>

(* The write raised, outside the `try` of the engine call: the lock is let   *)
(* go and the worker stays OFFLOADING or WAKING.                             *)
TransitionUnrecorded(w) ==
  /\ holder[w] \in {"offload", "wake"}
  /\ Hold(w, "none")
  /\ unrecorded' = IF state[w] \in {"OFFLOADING", "WAKING"} /\ ~HandedOver(w)
                     THEN unrecorded \cup {w} ELSE unrecorded
  /\ UNCHANGED <<state, gpus, admitted, drainToSleep, engine, launching,
                 starting, monitored, waiting, closed, writing>>

(* The engine confirmed POST /sleep.  A drain or a failure during the call   *)
(* has moved the worker on, and its state is then left alone.                *)
OffloadDone(w) ==
  /\ holder[w] = "offloadCall" /\ LockFree
  /\ Hold(w, "none")
  /\ state' = IF state[w] = "OFFLOADING" THEN [state EXCEPT ![w] = "SLEEPING"]
                                         ELSE state
  /\ UNCHANGED <<gpus, admitted, drainToSleep, engine, launching, starting,
                 monitored, waiting, closed, writing, unrecorded>>

BeginWake(w) ==
  /\ Granted(w, "wake")
  /\ IF state[w] = "SLEEPING"
       THEN state' = [state EXCEPT ![w] = "WAKING"] /\ Hold(w, "wake")
       ELSE UNCHANGED <<state, holder>>
  /\ UNCHANGED <<gpus, admitted, drainToSleep, engine, launching, starting,
                 monitored, closed, writing, unrecorded>>

(* Mutant: the state is not checked again after the engine call. *)
MutWakeDone(w) ==
  /\ holder[w] = "wakeCall" /\ LockFree
  /\ Hold(w, "none")
  /\ state' = [state EXCEPT ![w] = "READY"]
  /\ UNCHANGED <<gpus, admitted, drainToSleep, engine, launching, starting,
                 monitored, waiting, closed, writing, unrecorded>>

WakeDone(w) ==
  /\ holder[w] = "wakeCall" /\ LockFree
  /\ Hold(w, "none")
  /\ state' = IF state[w] = "WAKING" THEN [state EXCEPT ![w] = "READY"]
                                     ELSE state
  /\ UNCHANGED <<gpus, admitted, drainToSleep, engine, launching, starting,
                 monitored, waiting, closed, writing, unrecorded>>

(* The engine call raised, or prism_transition_timeout_seconds passed.       *)
EngineCallFails(w) ==
  /\ holder[w] \in {"offloadCall", "wakeCall"}
  /\ Hold(w, "none")
  /\ Fail(w)
  /\ UNCHANGED <<gpus, launching, starting, monitored, waiting, closed, writing>>

(* Mutant: requests hold a forced stop off, too. *)
MutBeginStop(w, call) ==
  /\ call \in {"stop", "forceStop"}
  /\ Granted(w, call)
  /\ IF state[w] = "COLD" \/ admitted[w] # {}
       THEN UNCHANGED <<state, holder>>
       ELSE state' = [state EXCEPT ![w] = "STOPPING"] /\ Hold(w, call)
  /\ UNCHANGED <<gpus, admitted, drainToSleep, engine, launching, starting,
                 monitored, closed, writing, unrecorded>>

(* _stop: requests hold an unforced stop off; a COLD worker needs none.      *)
BeginStop(w, call) ==
  /\ call \in {"stop", "forceStop"}
  /\ Granted(w, call)
  /\ IF state[w] = "COLD" \/ (admitted[w] # {} /\ call = "stop")
       THEN UNCHANGED <<state, holder>>
       ELSE state' = [state EXCEPT ![w] = "STOPPING"] /\ Hold(w, call)
  /\ UNCHANGED <<gpus, admitted, drainToSleep, engine, launching, starting,
                 monitored, closed, writing, unrecorded>>

(* The STOPPING row is written, or its failure logged.  The group of a       *)
(* process that still runs gets SIGTERM, or SIGKILL if forced, and its exit  *)
(* is awaited.                                                               *)
SignalStop(w) ==
  /\ holder[w] \in {"stop", "forceStop"}
  /\ engine[w] \in {"running", "terminating"}
  /\ Hold(w, IF holder[w] = "stop" THEN "stopWait" ELSE "forceStopWait")
  /\ engine' = [engine EXCEPT ![w] =
                  IF holder[w] = "stop" THEN "terminating" ELSE "dead"]
  /\ UNCHANGED <<state, gpus, admitted, drainToSleep, launching, starting,
                 monitored, waiting, closed, writing, unrecorded>>

(* Mutant: the parking intent of a worker stopped by force is kept. *)
MutDeclareCold(w) ==
  /\ LockFree
  /\ state' = [state EXCEPT ![w] = "COLD"]
  /\ admitted' = [admitted EXCEPT ![w] = {}]
  /\ drainToSleep' = drainToSleep
  /\ Hold(w, "none")

(* The `finally` of _stop.                                                   *)
DeclareCold(w) ==
  /\ LockFree
  /\ state' = [state EXCEPT ![w] = "COLD"]
  /\ admitted' = [admitted EXCEPT ![w] = {}]
  /\ drainToSleep' = drainToSleep \ {w}
  /\ Hold(w, "none")

(* Mutant: no last SIGKILL to the group of the exited parent. *)
MutFinishStop(w) ==
  /\ \/ holder[w] \in {"stopWait", "forceStopWait"}
     \/ holder[w] \in {"stop", "forceStop"} /\ engine[w] \in {"parentless", "dead"}
  /\ DeclareCold(w)
  /\ UNCHANGED <<gpus, engine, launching, starting, monitored, waiting,
                 closed, writing, unrecorded>>

(* The process exited, or the wait timed out and SIGKILL was sent; a last    *)
(* SIGKILL reaps what is left of the group before the worker is COLD.  When  *)
(* the exit had been collected before the signal, nothing is awaited.        *)
FinishStop(w) ==
  /\ \/ holder[w] \in {"stopWait", "forceStopWait"}
     \/ holder[w] \in {"stop", "forceStop"} /\ engine[w] \in {"parentless", "dead"}
  /\ engine' = [engine EXCEPT ![w] = "dead"]
  /\ DeclareCold(w)
  /\ UNCHANGED <<gpus, launching, starting, monitored, waiting, closed,
                 writing, unrecorded>>

----------------------------------------------------------------------------
(* Shutdown *)

(* The scheduler's task was cancelled: a drain() loses the stop it was to    *)
(* make; the sleeps of one plan, which run side by side, or a single wake or *)
(* stop that writes its row just let their locks go; a stop in its wait runs *)
(* its `finally` and nothing before it.                                      *)
Cancelled ==
  \/ /\ \E w \in Worker : writing' = writing \ {w}
     /\ UNCHANGED <<state, admitted, drainToSleep, holder>>
  \/ /\ \E S \in SUBSET Worker :
          /\ \A w \in S : \/ holder[w] \in {"offload", "offloadCall"}
                          \/ S = {w} /\ holder[w] \notin {"stopWait", "forceStopWait"}
          /\ holder' = [w \in Worker |-> IF w \in S THEN "none" ELSE holder[w]]
     /\ UNCHANGED <<state, admitted, drainToSleep, writing>>
  \/ /\ \E w \in Worker : holder[w] \in {"stopWait", "forceStopWait"} /\ DeclareCold(w)
     /\ UNCHANGED writing

(* scheduler.close() cancels its task and then calls stop_all(force=True).   *)
(* Calls of the task that are still queued go with it; they are left in      *)
(* waiting, where the forced stop makes them void.                           *)
Close ==
  /\ LockFree /\ ~closed
  /\ closed' = TRUE
  /\ waiting' = [w \in Worker |->
                   IF state[w] = "ABSENT" THEN waiting[w]
                                          ELSE waiting[w] \cup {"forceStop"}]
  /\ Cancelled
  /\ unrecorded' = {}
  /\ UNCHANGED <<gpus, engine, launching, starting, monitored>>

----------------------------------------------------------------------------
Init ==
  /\ state = [w \in Worker |-> "ABSENT"]
  /\ gpus = [w \in Worker |-> {}]
  /\ admitted = [w \in Worker |-> {}]
  /\ drainToSleep = {}
  /\ engine = [w \in Worker |-> "none"]
  /\ launching = {} /\ starting = {} /\ monitored = {}
  /\ waiting = [w \in Worker |-> {}]
  /\ holder = [w \in Worker |-> "none"]
  /\ closed = FALSE
  /\ writing = {} /\ unrecorded = {}

(* What the callers of the supervisor may do at any time, or never.          *)
Environment(w) ==
  \/ \E G \in GpuSets : Launch(w, G)
  \/ \E r \in Request : Admit(w, r)
  \/ Sleep(w)
  \/ Drain(w)
  \/ \E call \in Call : Command(w, call)
  \/ LaunchFailed(w)
  \/ EngineExits(w)

(* What the supervisor's own coroutines do next.                             *)
Coroutine(w) ==
  \/ Spawn(w)
  \/ LaunchRecorded(w)
  \/ MonitorReports(w)
  \/ EngineHealthy(w)
  \/ StartupFails(w)
  \/ DrainRecorded(w)
  \/ DrainUnrecorded(w)
  \/ BeginOffload(w)
  \/ CallEngine(w)
  \/ TransitionUnrecorded(w)
  \/ OffloadDone(w)
  \/ BeginWake(w)
  \/ WakeDone(w)
  \/ EngineCallFails(w)
  \/ \E call \in Call : BeginStop(w, call)
  \/ SignalStop(w)
  \/ FinishStop(w)

Next ==
  \/ \E w \in Worker : Environment(w) \/ Coroutine(w)
  \/ \E w \in Worker, r \in Request : Release(w, r)
  \/ Close

Spec == Init /\ [][Next]_vars

(* The event loop runs every ready coroutine, engine calls and waits are     *)
(* bounded by time-outs, and each admitted request ends (its own time-outs   *)
(* or the client), so the gateway releases it.  Nothing is assumed of the    *)
(* callers, and no one call of several that race is preferred.  Any write    *)
(* may fail, but of drains called again for ever one is recorded.            *)
Fairness ==
  \A w \in Worker :
    /\ WF_vars(Spawn(w) \/ LaunchRecorded(w))
    /\ WF_vars(EngineHealthy(w) \/ StartupFails(w))
    /\ WF_vars(MonitorReports(w))
    /\ WF_vars(DrainRecorded(w) \/ DrainUnrecorded(w)) /\ SF_vars(DrainRecorded(w))
    /\ WF_vars(CallEngine(w) \/ TransitionUnrecorded(w))
    /\ SF_vars(BeginOffload(w))
    /\ WF_vars(OffloadDone(w) \/ WakeDone(w) \/ EngineCallFails(w))
    /\ SF_vars(BeginWake(w))
    /\ SF_vars(BeginStop(w, "stop"))
    /\ SF_vars(BeginStop(w, "forceStop"))
    /\ WF_vars(SignalStop(w) \/ FinishStop(w))
    /\ \A r \in Request : WF_vars(Release(w, r))

FairSpec == Spec /\ Fairness

----------------------------------------------------------------------------
(* Properties *)

TypeOK ==
  /\ state \in [Worker -> RuntimeState \cup {"ABSENT"}]
  /\ gpus \in [Worker -> GpuSets \cup {{}}]
  /\ admitted \in [Worker -> SUBSET Request]
  /\ drainToSleep \subseteq Worker
  /\ engine \in [Worker -> EngineState]
  /\ launching \in {{}} \cup {{w} : w \in Worker}
  /\ starting \subseteq Worker
  /\ monitored \subseteq Worker
  /\ waiting \in [Worker -> SUBSET Call]
  /\ holder \in [Worker -> Holder]
  /\ closed \in BOOLEAN
  /\ writing \subseteq Worker
  /\ unrecorded \subseteq Worker

(* A worker with an admitted request is being served or drained; only a      *)
(* forced stop (watchdog, shutdown) ever takes it away.  This is the promise *)
(* of the README that no worker with an admitted request is offloaded, for   *)
(* all that races with _offload, wake, stop and drain.                       *)
AdmittedIsServed ==
  \A w \in Worker : admitted[w] # {} =>
    \/ state[w] \in {"READY", "DRAINING"}
    \/ state[w] = "STOPPING" /\ (closed \/ holder[w] \in {"forceStop", "forceStopWait"})

(* Whatever path leads to COLD, the whole process group has been sent        *)
(* SIGKILL or is gone, so its GPUs are about to be free.                     *)
ColdIsReaped ==
  ~closed => \A w \in Worker : state[w] = "COLD" => engine[w] = "dead"

(* No zombies: a live worker whose API parent is gone is still watched by    *)
(* its launch(), by _monitor or by a stop, so it cannot stay routable for    *)
(* ever.                                                                     *)
ExitIsNoticed ==
  \A w \in Worker :
    Live(w) /\ engine[w] \in {"none", "parentless", "dead"} =>
      \/ w \in launching \cup monitored
      \/ state[w] = "STOPPING" /\ (closed \/ holder[w] # "none")

(* A draining worker without requests always has a call on its way that ends *)
(* the drain, or the drain() that is to make it: release, drain and sleep    *)
(* hand over to a transition and none of the races between them drops the    *)
(* hand-over.  Only the failed write of drain() itself does.                 *)
NoStrandedDrain ==
  \A w \in Worker :
    state[w] = "DRAINING" /\ admitted[w] = {} =>
      HandedOver(w) \/ w \in writing \cup unrecorded

(* The parking intent of a worker never outlives the transitions that can    *)
(* honour or drop it, until stop_all() ends every worker anyway.             *)
ParkingIntent ==
  ~closed => \A w \in drainToSleep :
    \/ state[w] = "READY" /\ "offload" \in waiting[w]
    \/ state[w] \in {"DRAINING", "STOPPING"}

(* A GPU never holds more live engines than the RAM-cached pool allows, and  *)
(* one at most when engines cannot share.                                    *)
GpuPoolBound ==
  \A w \in Worker : \A g \in gpus[w] :
    Live(w) =>
      Cardinality({v \in Worker : Live(v) /\ g \in gpus[v]})
        <= (IF Sharing THEN MaxCached ELSE 1)

(* Every step of every coroutine moves a worker along the lifecycle of       *)
(* domain.py: what _offload, wake, _await_ready or _stop read before an      *)
(* await is checked again after it, and COLD is final.                       *)
Successor ==
  [ABSENT     |-> {"LOADING"},
   LOADING    |-> {"ABSENT", "READY", "DRAINING", "STOPPING", "COLD"},
   READY      |-> {"DRAINING", "OFFLOADING", "STOPPING", "COLD"},
   DRAINING   |-> {"OFFLOADING", "STOPPING", "COLD"},
   OFFLOADING |-> {"SLEEPING", "DRAINING", "STOPPING", "COLD"},
   SLEEPING   |-> {"WAKING", "DRAINING", "STOPPING", "COLD"},
   WAKING     |-> {"READY", "DRAINING", "STOPPING", "COLD"},
   STOPPING   |-> {"COLD"},
   COLD       |-> {}]

LifecycleOrder ==
  [][\A w \in Worker :
       state'[w] # state[w] => state'[w] \in Successor[state[w]]]_vars

(* The supervisor, with all its coroutines, locks and engine calls, keeps    *)
(* the contract the scheduler is written against: no interleaving parks or   *)
(* wakes a worker that serves, admits to one that is not READY, brings back  *)
(* one that is COLD, or loses a request other than by its end.               *)
Contract == INSTANCE WorkerContract WITH phase <- state, serving <- admitted

ImplementsContract == Contract!Spec

(* A drain ends: the worker is parked or stopped, unless the database has    *)
(* refused the row of the drain, the offload or the wake itself.             *)
DrainCompletes ==
  \A w \in Worker :
    state[w] = "DRAINING" ~> state[w] \in {"SLEEPING", "COLD"} \/ w \in unrecorded

(* stop_all() ends whatever transition each worker is in and whatever it is  *)
(* serving.                                                                  *)
ShutdownEnds ==
  closed ~> \A w \in Worker : state[w] \in {"ABSENT", "COLD"}

(* Once close() has nothing left to wait for, no engine is left running and  *)
(* no descendant of an exited API parent is left in its group: runtime.py    *)
(* says that worker teardown cannot depend on the scheduler's cleanup.       *)
ShutdownReapsEngines ==
  closed /\ (\A w \in Worker : waiting[w] = {} /\ holder[w] = "none")
    => \A w \in Worker : engine[w] \notin {"running", "parentless"}
=============================================================================
