----------------------- MODULE WorkerSupervisorProofs -----------------------
(***************************************************************************)
(* Machine-checked theorems about WorkerSupervisor: what TLC checks for    *)
(* two workers holds for every finite set of workers, any requests and any *)
(* placement, and whatever the interleaving of the coroutines.             *)
(***************************************************************************)
EXTENDS WorkerSupervisor, FiniteSetTheorems, TLAPS

(* Every step of the system keeps every variable in its type.              *)
LEMMA TypeStep == TypeOK /\ [Next]_vars => TypeOK'
<1> SUFFICES ASSUME TypeOK, [Next]_vars PROVE TypeOK'
  OBVIOUS
<1> USE DEF TypeOK, RuntimeState, EngineState, Call, Holder, Resumed
<1>1. ASSUME NEW w \in Worker, Environment(w) PROVE TypeOK'
  <2>1. ASSUME NEW G \in GpuSets, Launch(w, G) PROVE TypeOK'
    BY <2>1 DEF Launch
  <2>2. ASSUME NEW r \in Request, Admit(w, r) PROVE TypeOK'
    BY <2>2 DEF Admit
  <2>3. CASE Sleep(w)
    BY <2>3 DEF Sleep
  <2>4. CASE Drain(w)
    BY <2>4 DEF Drain
  <2>5. ASSUME NEW call \in Call, Command(w, call) PROVE TypeOK'
    BY <2>5 DEF Command
  <2>6. CASE LaunchFailed(w)
    BY <2>6 DEF LaunchFailed
  <2>7. CASE EngineExits(w)
    BY <2>7 DEF EngineExits
  <2> QED
    BY <1>1, <2>1, <2>2, <2>3, <2>4, <2>5, <2>6, <2>7 DEF Environment
<1>2. ASSUME NEW w \in Worker, Coroutine(w) PROVE TypeOK'
  <2>1. CASE Spawn(w)
    BY <2>1 DEF Spawn
  <2>2. CASE LaunchRecorded(w)
    BY <2>2 DEF LaunchRecorded
  <2>3. CASE MonitorReports(w)
    BY <2>3 DEF MonitorReports, Fail
  <2>4. CASE EngineHealthy(w)
    BY <2>4 DEF EngineHealthy
  <2>5. CASE StartupFails(w)
    BY <2>5 DEF StartupFails, Fail
  <2>6. CASE BeginOffload(w)
    BY <2>6 DEF BeginOffload, Granted, Hold
  <2>7. CASE OffloadDone(w)
    BY <2>7 DEF OffloadDone, Hold
  <2>8. CASE BeginWake(w)
    BY <2>8 DEF BeginWake, Granted, Hold
  <2>9. CASE WakeDone(w)
    BY <2>9 DEF WakeDone, Hold
  <2>10. CASE EngineCallFails(w)
    BY <2>10 DEF EngineCallFails, Fail, Hold
  <2>11. ASSUME NEW call \in Call, BeginStop(w, call) PROVE TypeOK'
    BY <2>11 DEF BeginStop, Granted, Hold
  <2>12. CASE SignalStop(w)
    BY <2>12 DEF SignalStop, Hold
  <2>13. CASE FinishStop(w)
    BY <2>13 DEF FinishStop, DeclareCold, Hold
  <2>14. CASE DrainRecorded(w) \/ DrainUnrecorded(w)
    BY <2>14 DEF DrainRecorded, DrainUnrecorded
  <2>15. CASE CallEngine(w) \/ TransitionUnrecorded(w)
    BY <2>15 DEF CallEngine, TransitionUnrecorded, Hold
  <2> QED
    BY <1>2, <2>1, <2>2, <2>3, <2>4, <2>5, <2>6, <2>7, <2>8, <2>9, <2>10,
       <2>11, <2>12, <2>13, <2>14, <2>15 DEF Coroutine
<1>3. ASSUME NEW w \in Worker, NEW r \in Request, Release(w, r)
      PROVE TypeOK'
  BY <1>3 DEF Release
<1>4. CASE Close
  <2>1. CASE \E w \in Worker : writing' = writing \ {w}
    BY <1>4, <2>1 DEF Close, Cancelled, DeclareCold, Hold
  <2>2. CASE UNCHANGED writing
    BY <1>4, <2>2 DEF Close, Cancelled, DeclareCold, Hold
  <2> QED
    BY <1>4, <2>1, <2>2 DEF Close, Cancelled
<1>5. CASE UNCHANGED vars
  BY <1>5 DEF vars
<1> QED
  BY <1>1, <1>2, <1>3, <1>4, <1>5 DEF Next

(* The type invariant of the worker supervisor.                            *)
THEOREM TypeCorrect == Spec => []TypeOK
<1>1. Init => TypeOK
  BY DEF Init, TypeOK, RuntimeState, EngineState, Call, Holder
<1> QED
  BY <1>1, TypeStep, PTL DEF Spec

----------------------------------------------------------------------------
(* The inductive invariant.  The properties are not inductive by themselves: *)
(* that a launch fails cleanly needs LaunchIsPrivate, that a coroutine never *)
(* meets an id it does not know needs KnownWorker, that an exit during a     *)
(* stop is noticed needs StoppingIsHeld and Watched, and that _offload never *)
(* meets a loading or waking worker needs OffloadWaits.                      *)

(* Nobody but launch() knows a worker that is being launched.                *)
LaunchIsPrivate ==
  \A w \in launching :
    /\ state[w] = "LOADING"
    /\ w \notin starting \cup monitored
    /\ waiting[w] = {} /\ holder[w] = "none" /\ w \notin writing

(* Every task and call belongs to a worker that has been launched.           *)
KnownWorker ==
  \A w \in Worker :
    (w \in starting \cup monitored \cup writing \/ waiting[w] # {} \/ holder[w] # "none")
      => state[w] # "ABSENT"

StopHolder == {"stop", "forceStop", "stopWait", "forceStopWait"}

(* Before shutdown a STOPPING worker is in the hands of a _stop.             *)
StoppingIsHeld ==
  \A w \in Worker :
    state[w] = "STOPPING" => closed \/ holder[w] \in StopHolder

(* An _offload is only ever queued for a worker that serves, drains or ends. *)
OffloadWaits ==
  \A w \in Worker :
    "offload" \in waiting[w]
      => state[w] \in {"READY", "DRAINING", "STOPPING", "COLD"}

(* A live worker is watched by launch(), _monitor or a stop.                 *)
Watched ==
  \A w \in Worker :
    Live(w) => \/ w \in launching \cup monitored
               \/ state[w] = "STOPPING" /\ (closed \/ holder[w] # "none")

IInv ==
  /\ TypeOK
  /\ LaunchIsPrivate
  /\ KnownWorker
  /\ StoppingIsHeld
  /\ OffloadWaits
  /\ Watched
  /\ AdmittedIsServed
  /\ ColdIsReaped
  /\ NoStrandedDrain
  /\ ParkingIntent

(* Every step keeps the inductive invariant.                                 *)
LEMMA InductiveStep == IInv /\ [Next]_vars => IInv'
<1> SUFFICES ASSUME IInv, [Next]_vars PROVE IInv'
  OBVIOUS
<1>0. TypeOK'
  BY TypeStep DEF IInv
<1> USE <1>0 DEF IInv, TypeOK, RuntimeState, EngineState, Call, Holder,
    LaunchIsPrivate, KnownWorker, StoppingIsHeld, StopHolder, OffloadWaits,
    Watched, Live, LockFree, AdmittedIsServed, ColdIsReaped, NoStrandedDrain,
    ParkingIntent, HandedOver, Resumed
<1>1. ASSUME NEW w \in Worker, Environment(w) PROVE IInv'
  <2>1. ASSUME NEW G \in GpuSets, Launch(w, G) PROVE IInv'
    BY <2>1 DEF Launch
  <2>2. ASSUME NEW r \in Request, Admit(w, r) PROVE IInv'
    BY <2>2 DEF Admit
  <2>3. CASE Sleep(w)
    BY <2>3 DEF Sleep
  <2>4. CASE Drain(w)
    BY <2>4 DEF Drain
  <2>5. ASSUME NEW call \in Call, Command(w, call) PROVE IInv'
    BY <2>5 DEF Command
  <2>6. CASE LaunchFailed(w)
    BY <2>6 DEF LaunchFailed
  <2>7. CASE EngineExits(w)
    BY <2>7 DEF EngineExits
  <2> QED
    BY <1>1, <2>1, <2>2, <2>3, <2>4, <2>5, <2>6, <2>7 DEF Environment
<1>2. ASSUME NEW w \in Worker, Coroutine(w) PROVE IInv'
  <2>1. CASE Spawn(w)
    BY <2>1 DEF Spawn
  <2>2. CASE LaunchRecorded(w)
    BY <2>2 DEF LaunchRecorded
  <2>3. CASE MonitorReports(w)
    BY <2>3 DEF MonitorReports, Fail
  <2>4. CASE EngineHealthy(w)
    BY <2>4 DEF EngineHealthy
  <2>5. CASE StartupFails(w)
    BY <2>5 DEF StartupFails, Fail
  <2>6. CASE BeginOffload(w)
    BY <2>6 DEF BeginOffload, Granted, Hold
  <2>7. CASE OffloadDone(w)
    BY <2>7 DEF OffloadDone, Hold
  <2>8. CASE BeginWake(w)
    BY <2>8 DEF BeginWake, Granted, Hold
  <2>9. CASE WakeDone(w)
    BY <2>9 DEF WakeDone, Hold
  <2>10. CASE EngineCallFails(w)
    BY <2>10 DEF EngineCallFails, Fail, Hold
  <2>11. CASE SignalStop(w)
    BY <2>11 DEF SignalStop, Hold
  <2>12. CASE FinishStop(w)
    BY <2>12 DEF FinishStop, DeclareCold, Hold
  <2>13. ASSUME NEW call \in Call, BeginStop(w, call) PROVE IInv'
    BY <2>13 DEF BeginStop, Granted, Hold
  <2>14. CASE DrainRecorded(w)
    BY <2>14 DEF DrainRecorded
  <2>15. CASE DrainUnrecorded(w)
    BY <2>15 DEF DrainUnrecorded
  <2>16. CASE CallEngine(w)
    BY <2>16 DEF CallEngine, Hold
  <2>17. CASE TransitionUnrecorded(w)
    BY <2>17 DEF TransitionUnrecorded, Hold
  <2> QED
    BY <1>2, <2>1, <2>2, <2>3, <2>4, <2>5, <2>6, <2>7, <2>8, <2>9, <2>10,
       <2>11, <2>12, <2>13, <2>14, <2>15, <2>16, <2>17 DEF Coroutine
<1>3. ASSUME NEW w \in Worker, NEW r \in Request, Release(w, r) PROVE IInv'
  BY <1>3 DEF Release, Drained
<1>4. CASE Close
  BY <1>4 DEF Close, Cancelled, DeclareCold, Hold
<1>5. CASE UNCHANGED vars
  BY <1>5 DEF vars
<1> QED
  BY <1>1, <1>2, <1>3, <1>4, <1>5 DEF Next

LEMMA InductiveInvariant == Spec => []IInv
<1>1. Init => IInv
  <2> SUFFICES ASSUME Init PROVE IInv
    OBVIOUS
  <2>1. TypeOK
    BY DEF Init, TypeOK, RuntimeState, EngineState, Call, Holder
  <2>2. \A w \in Worker :
          /\ state[w] = "ABSENT" /\ admitted[w] = {} /\ engine[w] = "none"
          /\ waiting[w] = {} /\ holder[w] = "none"
    BY DEF Init
  <2>3. /\ drainToSleep = {} /\ launching = {} /\ starting = {} /\ monitored = {}
        /\ ~closed /\ writing = {}
    BY DEF Init
  <2> QED
    BY ONLY <2>1, <2>2, <2>3
    DEF IInv, LaunchIsPrivate, KnownWorker, StoppingIsHeld, OffloadWaits, Watched,
        Live, AdmittedIsServed, ColdIsReaped, NoStrandedDrain, ParkingIntent
<1> QED
  BY <1>1, InductiveStep, PTL DEF Spec

(* No admitted request is ever on a worker that sleeps, loads or has ended:  *)
(* whatever races with _offload, wake and stop, only a forced stop takes a   *)
(* request's worker away.                                                    *)
THEOREM ServedWhileAdmitted == Spec => []AdmittedIsServed
BY InductiveInvariant, PTL DEF IInv

(* A worker is COLD only after its whole process group was killed or gone,   *)
(* on every path of _fail and _stop.                                         *)
THEOREM NoOrphanEngine == Spec => []ColdIsReaped
BY InductiveInvariant, PTL DEF IInv

(* The exit of a live worker's process is always still awaited by somebody.  *)
THEOREM NoZombieWorker == Spec => []ExitIsNoticed
<1>1. IInv => ExitIsNoticed
  BY DEF IInv, Watched, ExitIsNoticed
<1> QED
  BY <1>1, InductiveInvariant, PTL

(* A drained worker always has the call on its way that parks or stops it,   *)
(* or the drain() whose write comes first; a worker that has neither was     *)
(* left by a write that the database refused.                                *)
THEOREM DrainIsHandedOver == Spec => []NoStrandedDrain
BY InductiveInvariant, PTL DEF IInv

(* _drain_to_sleep never names a worker that can no longer honour it.        *)
THEOREM ParkingIntentIsCurrent == Spec => []ParkingIntent
BY InductiveInvariant, PTL DEF IInv

----------------------------------------------------------------------------
(* Every step respects the lifecycle.                                        *)
LEMMA LifecycleStep ==
  IInv /\ [Next]_vars =>
    \A w \in Worker :
      state'[w] # state[w] => state'[w] \in Successor[state[w]]
<1> SUFFICES ASSUME IInv, [Next]_vars, NEW v \in Worker, state'[v] # state[v]
             PROVE state'[v] \in Successor[state[v]]
  OBVIOUS
<1> USE DEF IInv, TypeOK, RuntimeState, Holder, LaunchIsPrivate, KnownWorker,
    OffloadWaits, Live, LockFree, Successor
<1>1. ASSUME NEW w \in Worker, Environment(w)
      PROVE state'[v] \in Successor[state[v]]
  <2>1. ASSUME NEW G \in GpuSets, Launch(w, G)
        PROVE state'[v] \in Successor[state[v]]
    BY <2>1 DEF Launch
  <2>2. CASE Sleep(w)
    BY <2>2 DEF Sleep
  <2>3. CASE Drain(w)
    BY <2>3 DEF Drain
  <2>4. CASE LaunchFailed(w)
    BY <2>4 DEF LaunchFailed
  <2>5. CASE (\E r \in Request : Admit(w, r)) \/ EngineExits(w)
             \/ (\E call \in Call : Command(w, call))
    BY <2>5 DEF Admit, EngineExits, Command
  <2> QED
    BY <1>1, <2>1, <2>2, <2>3, <2>4, <2>5 DEF Environment
<1>2. ASSUME NEW w \in Worker, Coroutine(w)
      PROVE state'[v] \in Successor[state[v]]
  <2>1. CASE MonitorReports(w)
    BY <2>1 DEF MonitorReports, Fail
  <2>2. CASE EngineHealthy(w)
    BY <2>2 DEF EngineHealthy
  <2>3. CASE StartupFails(w)
    BY <2>3 DEF StartupFails, Fail
  <2>4. CASE BeginOffload(w)
    BY <2>4 DEF BeginOffload, Granted, Hold
  <2>5. CASE OffloadDone(w)
    BY <2>5 DEF OffloadDone, Hold
  <2>6. CASE BeginWake(w)
    BY <2>6 DEF BeginWake, Granted, Hold
  <2>7. CASE WakeDone(w)
    BY <2>7 DEF WakeDone, Hold
  <2>8. CASE EngineCallFails(w)
    BY <2>8 DEF EngineCallFails, Fail, Hold
  <2>9. CASE FinishStop(w)
    BY <2>9 DEF FinishStop, DeclareCold, Hold
  <2>10. ASSUME NEW call \in Call, BeginStop(w, call)
        PROVE state'[v] \in Successor[state[v]]
    BY <2>10 DEF BeginStop, Granted, Hold
  <2>11. CASE \/ Spawn(w) \/ LaunchRecorded(w) \/ SignalStop(w)
              \/ DrainRecorded(w) \/ DrainUnrecorded(w)
              \/ CallEngine(w) \/ TransitionUnrecorded(w)
    BY <2>11 DEF Spawn, LaunchRecorded, SignalStop, DrainRecorded,
       DrainUnrecorded, CallEngine, TransitionUnrecorded
  <2> QED
    BY <1>2, <2>1, <2>2, <2>3, <2>4, <2>5, <2>6, <2>7,
       <2>8, <2>9, <2>10, <2>11 DEF Coroutine
<1>3. CASE \E w \in Worker, r \in Request : Release(w, r)
  BY <1>3 DEF Release
<1>4. CASE Close
  BY <1>4 DEF Close, Cancelled, DeclareCold, Hold
<1>5. CASE UNCHANGED vars
  BY <1>5 DEF vars
<1> QED
  BY <1>1, <1>2, <1>3, <1>4, <1>5 DEF Next

(* Whatever each coroutine read before an await, no step moves a worker off  *)
(* the lifecycle, and COLD is final.                                         *)
THEOREM LifecycleIsOrdered == Spec => LifecycleOrder
<1>1. IInv /\ [Next]_vars =>
        [\A w \in Worker :
           state'[w] # state[w] => state'[w] \in Successor[state[w]]]_vars
  BY LifecycleStep
<1> QED
  BY <1>1, InductiveInvariant, PTL DEF Spec, LifecycleOrder

----------------------------------------------------------------------------
(* The pools of a GPU *)

Users(g) == {v \in Worker : Live(v) /\ g \in gpus[v]}

PoolSize == IF Sharing THEN MaxCached ELSE 1

(* Only launch() adds a worker to a GPU.                                     *)
LEMMA OnlyLaunchAddsUsers ==
  ASSUME IInv, [Next]_vars,
         ~ \E w \in Worker, G \in GpuSets : Launch(w, G),
         NEW g
  PROVE  Users(g)' \subseteq Users(g)
<1> USE DEF IInv, TypeOK, RuntimeState, Holder, LaunchIsPrivate, KnownWorker,
    Live, LockFree, Users
<1>1. ASSUME NEW w \in Worker, Environment(w)
      PROVE Users(g)' \subseteq Users(g)
  <2>1. CASE Sleep(w)
    BY <2>1 DEF Sleep
  <2>2. CASE Drain(w)
    BY <2>2 DEF Drain
  <2>3. CASE LaunchFailed(w)
    BY <2>3 DEF LaunchFailed
  <2>4. CASE (\E r \in Request : Admit(w, r)) \/ EngineExits(w)
             \/ (\E call \in Call : Command(w, call))
    BY <2>4 DEF Admit, EngineExits, Command
  <2> QED
    BY <1>1, <2>1, <2>2, <2>3, <2>4 DEF Environment
<1>2. ASSUME NEW w \in Worker, Coroutine(w)
      PROVE Users(g)' \subseteq Users(g)
  <2>1. CASE MonitorReports(w)
    BY <2>1 DEF MonitorReports, Fail
  <2>2. CASE EngineHealthy(w)
    BY <2>2 DEF EngineHealthy
  <2>3. CASE StartupFails(w)
    BY <2>3 DEF StartupFails, Fail
  <2>4. CASE BeginOffload(w)
    BY <2>4 DEF BeginOffload, Granted, Hold, OffloadWaits
  <2>5. CASE OffloadDone(w)
    BY <2>5 DEF OffloadDone, Hold
  <2>6. CASE BeginWake(w)
    BY <2>6 DEF BeginWake, Granted, Hold
  <2>7. CASE WakeDone(w)
    BY <2>7 DEF WakeDone, Hold
  <2>8. CASE EngineCallFails(w)
    BY <2>8 DEF EngineCallFails, Fail, Hold
  <2>9. CASE FinishStop(w)
    BY <2>9 DEF FinishStop, DeclareCold, Hold
  <2>10. ASSUME NEW call \in Call, BeginStop(w, call)
        PROVE Users(g)' \subseteq Users(g)
    BY <2>10 DEF BeginStop, Granted, Hold
  <2>11. CASE \/ Spawn(w) \/ LaunchRecorded(w) \/ SignalStop(w)
              \/ DrainRecorded(w) \/ DrainUnrecorded(w)
              \/ CallEngine(w) \/ TransitionUnrecorded(w)
    BY <2>11 DEF Spawn, LaunchRecorded, SignalStop, DrainRecorded,
       DrainUnrecorded, CallEngine, TransitionUnrecorded
  <2> QED
    BY <1>2, <2>1, <2>2, <2>3, <2>4, <2>5, <2>6, <2>7,
       <2>8, <2>9, <2>10, <2>11 DEF Coroutine
<1>3. CASE \E w \in Worker, r \in Request : Release(w, r)
  BY <1>3 DEF Release
<1>4. CASE Close
  BY <1>4 DEF Close, Cancelled, DeclareCold, Hold
<1>5. CASE UNCHANGED vars
  BY <1>5 DEF vars
<1> QED
  BY <1>1, <1>2, <1>3, <1>4, <1>5 DEF Next

(* _can_share_gpus counts before the new worker is registered, and the       *)
(* supervisor lock keeps every other launch out meanwhile.                   *)
LEMMA LaunchKeepsPool ==
  ASSUME IInv, NEW w \in Worker, NEW G \in GpuSets, Launch(w, G), NEW g,
         Cardinality(Users(g)) <= PoolSize
  PROVE  Cardinality(Users(g)') <= PoolSize
<1> USE SupervisorAssumption DEF PoolSize
<1>1. IsFiniteSet(Users(g)) /\ Cardinality(Users(g)) \in Nat
  BY FS_Subset, FS_CardinalityType DEF Users
<1>2. state[w] = "ABSENT" /\ w \notin Users(g)
  BY DEF Launch, Users, Live
<1>3. CASE g \notin G
  <2>1. Users(g)' = Users(g)
    BY <1>2, <1>3 DEF Launch, Users, Live, IInv, TypeOK
  <2> QED
    BY <2>1
<1>4. CASE g \in G
  <2>1. Users(g)' = Users(g) \cup {w}
    BY <1>4 DEF Launch, Users, Live, IInv, TypeOK
  <2>2. Cardinality(Users(g)') = Cardinality(Users(g)) + 1
    BY <1>1, <1>2, <2>1, FS_AddElement
  <2>3. CASE Overlapping(G) = {}
    <3>1. Users(g) = {}
      BY <1>4, <2>3 DEF Overlapping, Users, Live
    <3> QED
      BY <2>2, <3>1, FS_EmptySet
  <2>4. CASE CanShare(G)
    <3>1. {v \in Overlapping(G) : g \in gpus[v]} = Users(g)
      BY <1>4 DEF Overlapping, Users
    <3>2. Sharing /\ Cardinality(Users(g)) < MaxCached
      BY <1>4, <2>4, <3>1 DEF CanShare
    <3> QED
      BY <1>1, <2>2, <3>2
  <2> QED
    BY <2>3, <2>4 DEF Launch, PlacementAllowed
<1> QED
  BY <1>3, <1>4

(* On every GPU the live workers never exceed the cached pool, and there is  *)
(* one at most unless kvcached engines share, for any placement.             *)
THEOREM GpuPoolsAreBounded == Spec => []GpuPoolBound
<1> DEFINE Bounded == \A g \in UNION GpuSets : Cardinality(Users(g)) <= PoolSize
<1>1. Init => Bounded
  <2> SUFFICES ASSUME Init, NEW g \in UNION GpuSets
               PROVE Cardinality(Users(g)) <= PoolSize
    OBVIOUS
  <2>1. Users(g) = {}
    BY DEF Init, Users, Live
  <2> QED
    BY <2>1, FS_EmptySet, SupervisorAssumption DEF PoolSize
<1>2. Bounded /\ IInv /\ [Next]_vars => Bounded'
  <2> SUFFICES ASSUME Bounded, IInv, [Next]_vars, NEW g \in UNION GpuSets
               PROVE Cardinality(Users(g)') <= PoolSize
    BY DEF PoolSize
  <2>1. CASE \E w \in Worker, G \in GpuSets : Launch(w, G)
    BY <2>1, LaunchKeepsPool
  <2>2. CASE ~ \E w \in Worker, G \in GpuSets : Launch(w, G)
    <3>1. Users(g)' \subseteq Users(g)
      BY <2>2, OnlyLaunchAddsUsers
    <3>2. IsFiniteSet(Users(g))
      BY FS_Subset, SupervisorAssumption DEF Users
    <3>3. /\ Cardinality(Users(g)') <= Cardinality(Users(g))
          /\ Cardinality(Users(g)) \in Nat /\ Cardinality(Users(g)') \in Nat
      BY <3>1, <3>2, FS_Subset, FS_CardinalityType
    <3> QED
      BY <3>3, SupervisorAssumption DEF PoolSize
  <2> QED
    BY <2>1, <2>2
<1>3. Bounded /\ IInv => GpuPoolBound
  BY DEF IInv, TypeOK, GpuPoolBound, Users, PoolSize
<1> QED
  BY <1>1, <1>2, <1>3, InductiveInvariant, PTL DEF Spec
----------------------------------------------------------------------------
(* The supervisor implements the contract *)

(* Every step of every coroutine is a step of the contract or leaves what    *)
(* the contract speaks of alone.                                             *)
LEMMA ContractStep == IInv /\ [Next]_vars => [Contract!Next]_(Contract!contractVars)
<1> SUFFICES ASSUME IInv, [Next]_vars
             PROVE  Contract!Next \/ UNCHANGED <<state, admitted>>
  BY DEF Contract!contractVars
<1> DEFINE Goal == Contract!Next \/ UNCHANGED <<state, admitted>>
<1> USE DEF IInv, TypeOK, RuntimeState, Holder, LaunchIsPrivate, KnownWorker,
    OffloadWaits, AdmittedIsServed, Live, LockFree,
    Contract!LivePhase, Contract!Move
<1>0. ASSUME NEW w \in Worker, state[w] \in RuntimeState \ {"COLD"},
             state' = [state EXCEPT ![w] = "COLD"],
             admitted' = [admitted EXCEPT ![w] = {}]
      PROVE  Goal
  BY <1>0 DEF Contract!Next, Contract!Retire
<1>1. ASSUME NEW w \in Worker, Environment(w) PROVE Goal
  <2>1. ASSUME NEW G \in GpuSets, Launch(w, G) PROVE Goal
    BY <2>1 DEF Launch, Contract!Next, Contract!Register
  <2>2. ASSUME NEW r \in Request, Admit(w, r) PROVE Goal
    BY <2>2 DEF Admit, Contract!Next, Contract!Admit
  <2>3. CASE Sleep(w)
    BY <2>3 DEF Sleep, Contract!Next, Contract!BeginDrain
  <2>4. CASE Drain(w)
    BY <2>4 DEF Drain, Contract!Next, Contract!BeginDrain
  <2>5. CASE LaunchFailed(w)
    BY <2>5 DEF LaunchFailed, Contract!Next, Contract!Forget
  <2>6. CASE EngineExits(w) \/ (\E call \in Call : Command(w, call))
    BY <2>6 DEF EngineExits, Command
  <2> QED
    BY <1>1, <2>1, <2>2, <2>3, <2>4, <2>5, <2>6 DEF Environment
<1>2. ASSUME NEW w \in Worker, Coroutine(w) PROVE Goal
  <2>0. ASSUME Fail(w), state[w] # "ABSENT" PROVE Goal
    BY <1>0, <2>0 DEF Fail
  <2>1. CASE MonitorReports(w)
    BY <2>0, <2>1 DEF MonitorReports
  <2>2. CASE EngineHealthy(w)
    BY <2>2 DEF EngineHealthy, Contract!Next, Contract!BecomeReady
  <2>3. CASE StartupFails(w)
    BY <2>0, <2>3 DEF StartupFails
  <2>4. CASE BeginOffload(w)
    <3>1. CASE UNCHANGED state
      BY <2>4, <3>1 DEF BeginOffload
    <3>2. CASE admitted[w] # {} /\ state' = [state EXCEPT ![w] = "DRAINING"]
      <4>1. state[w] \in {"READY", "DRAINING"} \/ state[w] = "STOPPING"
        BY <3>2
      <4> QED
        BY <2>4, <3>2, <4>1 DEF BeginOffload, Contract!Next, Contract!BeginDrain
    <3>3. CASE /\ admitted[w] = {} /\ state' = [state EXCEPT ![w] = "OFFLOADING"]
               /\ state[w] \in {"READY", "DRAINING"}
      BY <2>4, <3>3 DEF BeginOffload, Contract!Next, Contract!BeginPark
    <3> QED
      BY <2>4, <3>1, <3>2, <3>3 DEF BeginOffload, Granted
  <2>5. CASE OffloadDone(w)
    BY <2>5 DEF OffloadDone, Contract!Next, Contract!Parked
  <2>6. CASE BeginWake(w)
    BY <2>6 DEF BeginWake, Contract!Next, Contract!BeginWake
  <2>7. CASE WakeDone(w)
    BY <2>7 DEF WakeDone, Contract!Next, Contract!BecomeReady
  <2>8. CASE EngineCallFails(w)
    BY <2>0, <2>8 DEF EngineCallFails
  <2>9. CASE FinishStop(w)
    BY <1>0, <2>9 DEF FinishStop, DeclareCold
  <2>10. ASSUME NEW call \in Call, BeginStop(w, call) PROVE Goal
    <3>1. state[w] # "ABSENT"
      BY <2>10 DEF BeginStop, Granted
    <3> QED
      BY <2>10, <3>1 DEF BeginStop, Contract!Next, Contract!BeginStop
  <2>11. CASE \/ Spawn(w) \/ LaunchRecorded(w) \/ SignalStop(w)
              \/ DrainRecorded(w) \/ DrainUnrecorded(w)
              \/ CallEngine(w) \/ TransitionUnrecorded(w)
    BY <2>11 DEF Spawn, LaunchRecorded, SignalStop, DrainRecorded,
       DrainUnrecorded, CallEngine, TransitionUnrecorded
  <2> QED
    BY <1>2, <2>1, <2>2, <2>3, <2>4, <2>5, <2>6, <2>7,
       <2>8, <2>9, <2>10, <2>11 DEF Coroutine
<1>3. ASSUME NEW w \in Worker, NEW r \in Request, Release(w, r) PROVE Goal
  BY <1>3 DEF Release, Contract!Next, Contract!Release
<1>4. CASE Close
  <2>1. ASSUME NEW w \in Worker, holder[w] \in {"stopWait", "forceStopWait"},
               DeclareCold(w)
        PROVE  Goal
    <3>1. CASE UNCHANGED <<state, admitted>>
      BY <3>1
    <3>2. CASE DeclareCold(w) /\ state[w] = "COLD"
      <4>1. admitted[w] = {}
        BY <3>2
      <4> QED
        BY <3>2, <4>1 DEF DeclareCold
    <3>3. CASE DeclareCold(w) /\ state[w] # "COLD"
      <4>1. state[w] \in RuntimeState \ {"COLD"}
        BY <2>1, <3>3
      <4> QED
        BY <1>0, <3>3, <4>1 DEF DeclareCold
    <3> QED
      BY <2>1, <3>1, <3>2, <3>3
  <2> QED
    BY <1>4, <2>1 DEF Close, Cancelled
<1>5. CASE UNCHANGED vars
  BY <1>5 DEF vars
<1> QED
  BY <1>1, <1>2, <1>3, <1>4, <1>5 DEF Next

(* What the scheduler, the validator and the administrator rely on about     *)
(* workers is what the supervisor does, for any number of workers and of     *)
(* requests: it implements WorkerContract.                                   *)
THEOREM SupervisorImplementsContract == Spec => ImplementsContract
<1>1. Init => Contract!Init
  BY DEF Init, Contract!Init
<1> QED
  BY <1>1, ContractStep, InductiveInvariant, PTL
     DEF Spec, ImplementsContract, Contract!Spec
=============================================================================
