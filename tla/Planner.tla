------------------------------ MODULE Planner -------------------------------
(***************************************************************************)
(* Placement (planner.py) in the loop that drives it (runtime.py): route   *)
(* what can be routed, measure the pressure of each model, decide, act.    *)
(* There are three planners: "native" gives engines GPUs of their own,     *)
(* "prism" shares GPUs by measured footprints, and "cache" also parks      *)
(* engines in host RAM.                                                    *)
(*                                                                         *)
(* A decision is a pure function of workers, pressures, profiles and the   *)
(* clock.  Here it is the set of results it may have: orders the code      *)
(* takes from time stamps or from a stored list are left open, and what    *)
(* the clock says is a parameter.  Carrying out a decision is one step:    *)
(* only this loop starts, parks and wakes engines, and Residency has the   *)
(* races of its awaits.                                                    *)
(***************************************************************************)
EXTENDS Integers, Sequences, FiniteSets, FiniteSetsExt, Functions

CONSTANTS
  Worker,            \* bound: engines at a time
  Gpu, Model,
  Profile,           \* measured placements, see ProfileOK
  Planners,          \* which planners are configured
  Preload,           \* copies of a model that prism_preload_models asks for
  Vram, Reserved,    \* memory of a GPU, and what nobody may use
  SleepReserve,      \* prism_sleep_gpu_reserve_mib
  MaxWorkers,        \* prism_max_workers_per_gpu
  MaxCached,         \* prism_max_cached_workers_per_gpu
  ScaleWindow,       \* tokens a request needs per window of one rate unit
  MarginInverse,     \* 1 / minimum_marginal_efficiency
  MaxRequests        \* bound: requests of one model at a time

VARIABLES
  planner,  \* configured at start
  worker,   \* supervisor.workers: a placement, or None
  queue,    \* number of waiting requests of a model
  once,     \* _prism_one_time_warm_model_ids
  measured, \* requests of a model when _pressures() ran; 0 is no pressure
  warming,  \* models under preload pressure then
  recPc     \* where _reconcile is

vars == <<planner, worker, queue, once, measured, warming, recPc>>

None == [state |-> "COLD"]

(* A profile fits each of its GPU sets alike: the vectors per GPU are equal. *)
ProfileOK(p) ==
  /\ p.model \in Model /\ p.sets \subseteq SUBSET Gpu
  /\ \A G \in p.sets : Cardinality(G) = p.count
  /\ p.kvcached \in BOOLEAN   \* a vLLM engine with the kvcached backend
  /\ {p.rate, p.idle, p.peak, p.headroom, p.residual, p.ceiling} \subseteq Nat

ASSUME ProfileAssumption == \A p \in Profile : ProfileOK(p)

ASSUME PlannerAssumption ==
  /\ IsFiniteSet(Worker) /\ IsFiniteSet(Gpu)
  /\ Planners \subseteq {"native", "prism", "cache"}
  /\ Preload \in [Model -> Nat]
  /\ {Vram, Reserved, SleepReserve, MaxWorkers, MaxCached, MaxRequests} \subseteq Nat
  /\ {ScaleWindow, MarginInverse} \subseteq Nat

WorkerPlacement ==
  [state : {"LOADING", "READY", "OFFLOADING", "SLEEPING", "WAKING", "DRAINING", "STOPPING"},
   profile : Profile, gpus : SUBSET Gpu, load : 0 .. MaxRequests, parked : BOOLEAN]

Is(w, states) == worker[w].state \in states

Live == {w \in Worker : ~Is(w, {"COLD", "STOPPING"})}

With(w, state) == [worker[w] EXCEPT !.state = state]

OfModel(W, m) == {w \in W : worker[w].profile.model = m}

Footprint(p) == Max({p.idle, p.peak}) + p.headroom

Residual(p) == Max({SleepReserve, p.residual})

(* The strictest gpu_memory_utilization on a GPU counts.                     *)
Budget(ps) == Min({Vram - Reserved} \cup {p.ceiling : p \in ps})

----------------------------------------------------------------------------
(* Does a placement fit?  `view' is what the planner sees of the workers. *)

On(view, g) == {w \in DOMAIN view : g \in view[w].gpus}

Occupied(view, W) == SumFunctionOnSet([w \in W |-> Footprint(view[w].profile)], W)

Parked(view, W) == SumFunctionOnSet([w \in W |-> Residual(view[w].profile)], W)

Twin(view, W, p, G) == \E w \in W : view[w].profile.model = p.model /\ view[w].gpus = G

BudgetWith(view, W, p) == Budget({p} \cup {view[w].profile : w \in W})

PrismFits(view, p, G) ==
  /\ ~Twin(view, DOMAIN view, p, G)
  /\ \A g \in G :
       LET there == On(view, g)
       IN /\ Cardinality(there) < MaxWorkers
          /\ \A w \in there : view[w].profile.kvcached
          /\ Occupied(view, there) + Footprint(p) <= BudgetWith(view, there, p)

(* Mutant: parked engines are thought to leave nothing on the GPU. *)
MutCachedFits(view, p, G, self, parking) ==
  /\ ~Twin(view, DOMAIN view \ self, p, G)
  /\ \A g \in G :
       LET there == On(view, g)
           asleep == {w \in there \ self : view[w].state = "SLEEPING" \/ w \in parking}
           active == there \ (self \cup asleep)
       IN /\ \A w \in there : view[w].profile.kvcached
          /\ Cardinality(there) + (1 - Cardinality(self)) <= MaxCached
          /\ Cardinality(active) + 1 <= MaxWorkers
          /\ Occupied(view, active) + Footprint(p) <= BudgetWith(view, there, p)

(* `self' is the parked worker the placement is for, if there is one;        *)
(* `parking' are workers that would be put to sleep for it.                  *)
CachedFits(view, p, G, self, parking) ==
  /\ ~Twin(view, DOMAIN view \ self, p, G)
  /\ \A g \in G :
       LET there == On(view, g)
           asleep == {w \in there \ self : view[w].state = "SLEEPING" \/ w \in parking}
           active == there \ (self \cup asleep)
       IN /\ \A w \in there : view[w].profile.kvcached
          /\ Cardinality(there) + (1 - Cardinality(self)) <= MaxCached
          /\ Cardinality(active) + 1 <= MaxWorkers
          /\ Occupied(view, active) + Parked(view, asleep) + Footprint(p)
               <= BudgetWith(view, there, p)

(* The first fitting placement of the profiles in their order: any of those  *)
(* no other comes before.                                                    *)
Placement(p, G) == [profile |-> p, gpus |-> G]

First(fitting, Better(_, _)) ==
  {x \in fitting : \A y \in fitting : ~Better(y.profile, x.profile)}

Candidates(ps) == UNION {{Placement(p, G) : G \in p.sets} : p \in ps}

Fitting(ps, Fits(_, _)) == {x \in Candidates(ps) : Fits(x.profile, x.gpus)}

FasterFirst(p, q) ==
  p.count < q.count \/ (p.count = q.count /\ p.rate > q.rate)

LeanerFirst(p, q) ==
  \/ p.count < q.count
  \/ p.count = q.count /\ p.idle < q.idle
  \/ p.count = q.count /\ p.idle = q.idle /\ p.rate > q.rate

(* Free GPUs are filled with independent instances of the smallest shape.    *)
SmallestShape(ps) == {p \in ps : \A q \in ps : p.count <= q.count}

SmallestFitting(ps, free) == First(Fitting(ps, LAMBDA p, G : G \subseteq free), FasterFirst)

Fill(ps, free) ==
  LET left(s, n) == free \ UNION {s[i].gpus : i \in 1 .. n}
  IN {s \in UNION {[1 .. n -> Candidates(ps)] : n \in 0 .. Cardinality(free)} :
        /\ \A i \in DOMAIN s : s[i] \in SmallestFitting(ps, left(s, i - 1))
        /\ SmallestFitting(ps, left(s, Len(s))) = {}}

MaximumSmallestPlacements(ps, free) == Fill(SmallestShape(ps), free)

----------------------------------------------------------------------------
(* How many workers a backlog deserves *)

RateOf(W) == SumFunctionOnSet([w \in W |-> worker[w].profile.rate], W)

Desired(requests, rate) ==
  LET capacity == Max({rate * ScaleWindow, 1})
  IN Min({Max({requests, 1}), Max({1, (requests + capacity - 1) \div capacity})})

UsefulMargin(p, ready) == RateOf(ready) = 0 \/ p.rate * MarginInverse >= RateOf(ready)

(* What the clock says: workers past their minimum residency, workers        *)
(* without demand for the idle time, workers resident for a fair share, and  *)
(* models whose oldest request has waited for one; workers it makes no       *)
(* difference for are left out.  With no minimum residency all are settled;  *)
(* a loading worker has no ready_at.                                         *)
Spare == {w \in Worker : Is(w, {"READY"}) /\ worker[w].load = 0}

Ready == {w \in Worker : Is(w, {"READY"})}

Clock ==
  [settled : {Worker} \cup SUBSET (IF planner = "native" THEN Ready ELSE Spare),
   quiet   : SUBSET {w \in Spare : measured[worker[w].profile.model] = 0},
   veteran : SUBSET (IF planner = "native" THEN Ready ELSE {}),
   starved : SUBSET {m \in Model : measured[m] > 0}]

Idle(clock) ==
  {w \in Worker : /\ Is(w, {"READY"}) /\ worker[w].load = 0
                  /\ measured[worker[w].profile.model] = 0
                  /\ w \in clock.quiet \cap clock.settled}

(* A model under pressure keeps its last worker, unless the newcomer starves.*)
Displaceable(counted, m, clock) ==
  {w \in Worker :
     LET other == worker[w].profile.model
     IN /\ Is(w, {"READY"}) /\ worker[w].load = 0
        /\ other # m /\ w \in clock.settled
        /\ \/ measured[other] = 0
           \/ Cardinality(OfModel(counted, other)) > 1
           \/ m \in clock.starved}

(* Of the sets of workers that make room, the smallest, then the slowest.    *)
Cheapest(options) ==
  {S \in options : \A T \in options :
     \/ Cardinality(S) < Cardinality(T)
     \/ Cardinality(S) = Cardinality(T) /\ RateOf(S) <= RateOf(T)}

Overlapping(W, G) == {w \in W : worker[w].gpus \cap G # {}}

Nothing == [sleeps |-> {}, drains |-> {}, wakes |-> {}, starts |-> {}]
Sleeps(options) == {[Nothing EXCEPT !.sleeps = S] : S \in options}
Drains(options) == {[Nothing EXCEPT !.drains = S] : S \in options}
Wakes(options) == {[Nothing EXCEPT !.wakes = S] : S \in options}
Starts(options) == {[Nothing EXCEPT !.starts = S] : S \in options}

Or(first, second) == IF first # {} THEN first ELSE second

ProfilesOf(m) == {p \in Profile : p.model = m}
OneGpu(ps) == {p \in ps : p.count = 1}

----------------------------------------------------------------------------
(* The native planner *)

Active == {w \in Worker : Is(w, {"LOADING", "READY", "DRAINING"})}

ActiveView == [w \in Active |-> worker[w]]

(* Idle workers go first, all of them; otherwise a whole GPU set must come   *)
(* free, from models that keep a worker or that have had their fair share.   *)
ChoosePreemption(m, ps, clock) ==
  LET compatible == UNION UNION {p.sets : p \in SmallestShape(ps)}
      idle == {w \in Overlapping(Active, compatible) :
                 /\ measured[worker[w].profile.model] = 0
                 /\ worker[w].load = 0 /\ w \in clock.settled}
      override(w) == m \in clock.starved /\ w \in clock.veteran
      resident == {w \in Active : Is(w, {"LOADING", "READY"})}
      drainable(G) ==
        LET blockers == Overlapping(Active, G)
            taken == {w \in blockers : ~override(w)}
        IN /\ blockers # {}
           /\ \A w \in blockers :
                LET other == worker[w].profile.model
                IN other # m /\ measured[other] > 0 /\ ~Is(w, {"DRAINING"})
           /\ \A w \in taken :
                LET other == worker[w].profile.model
                IN /\ w \in clock.settled
                   /\ Cardinality(OfModel(resident, other))
                        > Cardinality(OfModel(taken, other))
      sets == First(Fitting(ps, LAMBDA p, G : drainable(G)),
                    LAMBDA p, q : p.count < q.count)
  IN IF idle # {} THEN {idle} ELSE {Overlapping(Active, x.gpus) : x \in sets}

NativeFor(m, clock) ==
  LET ps == ProfilesOf(m)
      mine == {w \in OfModel(Active, m) : Is(w, {"LOADING", "READY"})}
      ready == {w \in mine : Is(w, {"READY"})}
      free == Gpu \ UNION {worker[w].gpus : w \in Active}
      lacking == Desired(measured[m], RateOf(ready)) - Cardinality(mine)
      useful(s) == {s[i] : i \in {j \in DOMAIN s :
                                    j <= lacking /\ UsefulMargin(s[j].profile, ready)}}
      fill == MaximumSmallestPlacements(IF mine = {} THEN ps ELSE OneGpu(ps), free)
      drain == Drains(ChoosePreemption(m, ps, clock))
  IN IF ps = {} THEN {}
     ELSE IF mine = {}
       THEN IF fill = {<<>>} THEN drain
            ELSE Starts({{s[i] : i \in DOMAIN s} : s \in fill})
     ELSE IF ready = {} \/ OneGpu(ps) = {} \/ lacking <= 0 THEN {}
     ELSE IF fill = {<<>>} THEN drain
     ELSE Starts({useful(s) : s \in fill} \ {{}})

----------------------------------------------------------------------------
(* The prism planner without the weight cache *)

Compatible(m) == {p \in ProfilesOf(m) : p.kvcached}

ChoosePrismEviction(m, ps, clock) ==
  LET counted == {w \in Active : Is(w, {"LOADING", "READY"})}
      blockers(G) == Overlapping(Displaceable(counted, m, clock), G)
      frees(S, p, G) == PrismFits([w \in Active \ S |-> worker[w]], p, G)
  IN Cheapest(UNION {{S \in SUBSET blockers(x.gpus) \ {{}} : frees(S, x.profile, x.gpus)} :
                       x \in Fitting(ps, LAMBDA p, G : TRUE)})

SmallestPrismFitting(ps) ==
  First(Fitting(ps, LAMBDA p, G : PrismFits(ActiveView, p, G)), LeanerFirst)

PrismFor(m, clock) ==
  LET ps == Compatible(m)
      mine == {w \in OfModel(Active, m) : Is(w, {"LOADING", "READY"})}
      start == SmallestPrismFitting(ps)
      useful == {x \in start : UsefulMargin(x.profile, mine)}
  IN IF ps = {} THEN {}
     ELSE IF mine = {}
       THEN IF start # {} THEN Starts({{x} : x \in start})
            ELSE IF m \in warming THEN {}
            ELSE Drains(ChoosePrismEviction(m, ps, clock))
     ELSE IF m \in warming \/ (\E w \in mine : Is(w, {"LOADING"}))
          \/ Desired(measured[m], RateOf(mine)) <= Cardinality(mine) THEN {}
     ELSE Starts({{x} : x \in useful})

----------------------------------------------------------------------------
(* The prism planner with the weight cache *)

LiveView == [w \in Live |-> worker[w]]

SmallestCachedFitting(ps) ==
  First(Fitting(ps, LAMBDA p, G : CachedFits(LiveView, p, G, {}, {})), LeanerFirst)

(* Wakes are tried one after the other, each in view of those before it.     *)
FirstCachedWake(sleeping, woken) ==
  LET projected == [w \in Live |-> IF w \in woken THEN With(w, "WAKING") ELSE worker[w]]
  IN {w \in sleeping \ woken :
        CachedFits(projected, worker[w].profile, worker[w].gpus, {w}, {})}

Before(s, i) == {s[j] : j \in 1 .. i - 1}

CachedWakes(sleeping, limit) ==
  {Range(s) : s \in
     {s \in UNION {[1 .. n -> sleeping] : n \in 0 .. Min({limit, Cardinality(sleeping)})} :
        /\ \A i \in DOMAIN s : s[i] \in FirstCachedWake(sleeping, Before(s, i))
        /\ Len(s) = limit \/ FirstCachedWake(sleeping, Range(s)) = {}}}

(* What to park so that a new placement, or the wake of an `existing' one,   *)
(* fits.                                                                     *)
ChoosePrismSleep(m, ps, existing, clock) ==
  LET ready == {w \in Live : Is(w, {"READY"})}
      blockers(G) == Overlapping(Displaceable(ready, m, clock), G)
      room(p, G, self) == {S \in SUBSET blockers(G) \ {{}} :
                             CachedFits(LiveView, p, G, self, S)}
  IN Cheapest(IF existing # {}
                THEN UNION {room(worker[w].profile, worker[w].gpus, {w}) : w \in existing}
                ELSE UNION {room(x.profile, x.gpus, {}) :
                              x \in Fitting(ps, LAMBDA p, G : TRUE)})

(* Parked workers nobody asks for give up their place in host RAM.           *)
ChooseCacheEviction(m, ps) ==
  LET evictable(G) == {w \in Overlapping(Live, G) :
                         /\ Is(w, {"SLEEPING"})
                         /\ measured[worker[w].profile.model] = 0
                         /\ worker[w].profile.model # m}
      options == UNION {{S \in SUBSET evictable(x.gpus) \ {{}} :
                           CachedFits([w \in Live \ S |-> worker[w]], x.profile, x.gpus, {}, {})} :
                          x \in Fitting(ps, LAMBDA p, G : TRUE)}
  IN {S \in options : \A T \in options : Cardinality(S) <= Cardinality(T)}

StartOrPark(m, ps, clock) ==
  Or(Starts({{x} : x \in SmallestCachedFitting(ps)}),
     Sleeps(ChoosePrismSleep(m, ps, {}, clock)))

(* Mutant: a cold start is tried before the parked workers are looked at. *)
MutServeFirst(m, ps, sleeping, clock) ==
  Or(StartOrPark(m, ps, clock), Drains(ChooseCacheEviction(m, ps)))

(* No worker of the model is READY: a parked one is woken, or waits until it *)
(* can be; only without one a new engine is started.                         *)
ServeFirst(m, ps, sleeping, clock) ==
  LET fastest == Max({worker[w].profile.rate : w \in sleeping})
      wakes == CachedWakes(sleeping, Desired(measured[m], fastest))
  IN IF sleeping # {}
       THEN IF {} \in wakes THEN Sleeps(ChoosePrismSleep(m, ps, sleeping, clock))
            ELSE Wakes(wakes)
       ELSE Or(StartOrPark(m, ps, clock), Drains(ChooseCacheEviction(m, ps)))

(* Replicas use one GPU each.                                                *)
AddReplica(m, ps, sleeping, ready, clock) ==
  LET small == {w \in sleeping : worker[w].profile.count = 1}
      wake == FirstCachedWake(small, {})
      start == {x \in SmallestCachedFitting(OneGpu(ps)) : UsefulMargin(x.profile, ready)}
  IN IF \/ Desired(measured[m], RateOf(ready)) <= Cardinality(ready)
        \/ OneGpu(ps) = {}
       THEN {}
     ELSE IF wake # {} THEN Wakes({{w} : w \in wake})
     ELSE Or(Starts({{x} : x \in start}),
             Sleeps(ChoosePrismSleep(m, OneGpu(ps), {}, clock)))

CachedFor(m, clock) ==
  LET ps == Compatible(m)
      mine == OfModel(Live, m)
      ready == {w \in mine : Is(w, {"READY"})}
      sleeping == {w \in mine : Is(w, {"SLEEPING"}) /\ worker[w].profile \in ps}
      copies == Max({Preload[m], 1})
      small == IF copies > 1 THEN OneGpu(ps) ELSE ps
  IN IF \/ ps = {}
        \/ \E w \in mine : Is(w, {"LOADING", "DRAINING", "OFFLOADING", "WAKING"})
       THEN {}
     ELSE IF m \in warming
       THEN IF Cardinality(mine) >= copies THEN {} ELSE StartOrPark(m, small, clock)
     ELSE IF ready = {} THEN ServeFirst(m, ps, sleeping, clock)
     ELSE AddReplica(m, ps, sleeping, ready, clock)

----------------------------------------------------------------------------
(* plan() *)

DecisionsFor(m, clock) ==
  CASE planner = "native" -> NativeFor(m, clock)
    [] planner = "prism" -> PrismFor(m, clock)
    [] planner = "cache" -> CachedFor(m, clock)

(* Pressures are looked at from the oldest on, real ones before preloads,    *)
(* until one leads to a decision.                                            *)
Deciding(clock) ==
  LET real == {m \in Model : measured[m] > 0 /\ DecisionsFor(m, clock) # {}}
      preload == {m \in warming : DecisionsFor(m, clock) # {}}
  IN IF real = {} THEN preload
     ELSE Or(real \cap clock.starved, real)

Decisions(clock) ==
  LET idle == Idle(clock)
  IN IF idle # {} /\ planner = "cache" THEN Sleeps({idle})
     ELSE IF idle # {} /\ planner = "native" THEN Drains({idle})
     ELSE Or(UNION {DecisionsFor(m, clock) : m \in Deciding(clock)}, {Nothing})

----------------------------------------------------------------------------
(* Carrying it out *)

Engines == {w \in Worker : ~Is(w, {"COLD"})}

(* launch() refuses GPUs that are taken, or shared to their limits, counting *)
(* engines that are stopping.                                                *)
LaunchAllowed(x) ==
  \A g \in x.gpus :
    LET there == {w \in Engines : g \in worker[w].gpus}
    IN \/ there = {}
       \/ /\ planner # "native"
          /\ Cardinality({w \in there : ~Is(w, {"SLEEPING"})}) < MaxWorkers
          /\ Cardinality(there) < MaxCached

Loading(x) == [state |-> "LOADING", profile |-> x.profile, gpus |-> x.gpus, load |-> 0,
               parked |-> FALSE]

(* A refused launch raises, and what is left of the plan is not done.        *)
CarryOut(d) ==
  \E done \in SUBSET {x \in d.starts : LaunchAllowed(x)} :
    /\ (\A x \in d.starts : LaunchAllowed(x)) => done = d.starts
    /\ \E slot \in [done -> Worker \ Engines] :
         /\ \A x, y \in done : x # y => slot[x] # slot[y]
         /\ worker' = [w \in Worker |->
              IF \E x \in done : slot[x] = w
                THEN Loading(CHOOSE x \in done : slot[x] = w)
              ELSE IF w \in d.sleeps THEN With(w, "OFFLOADING")
              ELSE IF w \in d.drains THEN With(w, "DRAINING")
              ELSE IF w \in d.wakes THEN [With(w, "WAKING") EXCEPT !.parked = FALSE]
              ELSE worker[w]]

Reconcile(clock) ==
  /\ recPc = "plan"
  /\ \E d \in Decisions(clock) : CarryOut(d)
  /\ recPc' = "route"
  /\ measured' = [m \in Model |-> 0] /\ warming' = {}
  /\ UNCHANGED <<planner, queue, once>>

(* _route_ready_work: to the READY worker with the least to do.              *)
ReadyFor(m) == {w \in OfModel(Live, m) : Is(w, {"READY"})}

Route(m) ==
  /\ recPc = "route" /\ queue[m] > 0
  /\ \E w \in ReadyFor(m) :
       /\ \A v \in ReadyFor(m) : worker[w].load <= worker[v].load
       /\ worker' = [worker EXCEPT ![w].load = @ + 1]
  /\ queue' = [queue EXCEPT ![m] = @ - 1]
  /\ UNCHANGED <<planner, once, measured, warming, recPc>>

Load == [w \in Engines |-> worker[w].load]

(* Mutant: requests in service count for every model. *)
MutRequests(m) == queue[m] + SumFunctionOnSet(Load, Engines)

(* _pressures(), and the preloads that are wanting.                          *)
Requests(m) == queue[m] + SumFunctionOnSet(Load, OfModel(Engines, m))

Wanted(m) == IF m \in once' /\ Preload[m] = 0 THEN 1 ELSE Preload[m]

Measure ==
  /\ recPc = "route"
  /\ \A m \in Model : queue[m] = 0 \/ ReadyFor(m) = {}
  /\ once' = {m \in once : \A w \in OfModel(Live, m) : ~Is(w, {"READY", "SLEEPING"})}
  /\ measured' = [m \in Model |-> Requests(m)]
  /\ warming' = {m \in Model : Requests(m) = 0 /\ planner # "native"
                               /\ Cardinality(OfModel(Live, m)) < Wanted(m)}
  /\ recPc' = "plan"
  /\ UNCHANGED <<planner, worker, queue>>

----------------------------------------------------------------------------
(* Around the loop: clients, engines, registration *)

Enqueue(m) ==
  /\ Requests(m) < MaxRequests
  /\ queue' = [queue EXCEPT ![m] = @ + 1]
  /\ UNCHANGED <<planner, worker, once, measured, warming, recPc>>

Abandon(m) ==
  /\ queue[m] > 0
  /\ queue' = [queue EXCEPT ![m] = @ - 1]
  /\ UNCHANGED <<planner, worker, once, measured, warming, recPc>>

Finish(w) ==
  /\ ~Is(w, {"COLD"}) /\ worker[w].load > 0
  /\ worker' = [worker EXCEPT ![w].load = @ - 1]
  /\ UNCHANGED <<planner, queue, once, measured, warming, recPc>>

(* The supervisor ends what was begun.                                       *)
Proceed(w) ==
  /\ \/ Is(w, {"LOADING", "WAKING"}) /\ worker' = [worker EXCEPT ![w] = With(w, "READY")]
     \/ /\ Is(w, {"OFFLOADING"})
        /\ worker' = [worker EXCEPT ![w] = [With(w, "SLEEPING") EXCEPT !.parked = TRUE]]
     \/ /\ Is(w, {"DRAINING"}) /\ worker[w].load = 0
        /\ worker' = [worker EXCEPT ![w] = With(w, "STOPPING")]
     \/ Is(w, {"STOPPING"}) /\ worker' = [worker EXCEPT ![w] = None]
  /\ UNCHANGED <<planner, queue, once, measured, warming, recPc>>

Fail(w) ==
  /\ w \in Live
  /\ worker' = [worker EXCEPT ![w] = None]
  /\ UNCHANGED <<planner, queue, once, measured, warming, recPc>>

WarmModelOnce(m) ==
  /\ planner = "cache"
  /\ once' = once \cup {m}
  /\ UNCHANGED <<planner, worker, queue, measured, warming, recPc>>

Init ==
  /\ planner \in Planners
  /\ worker = [w \in Worker |-> None]
  /\ queue = [m \in Model |-> 0] /\ once = {}
  /\ measured = [m \in Model |-> 0] /\ warming = {}
  /\ recPc = "route"

Next ==
  \/ \E clock \in Clock : Reconcile(clock)
  \/ Measure
  \/ \E m \in Model : Route(m) \/ Enqueue(m) \/ Abandon(m) \/ WarmModelOnce(m)
  \/ \E w \in Worker : Proceed(w) \/ Fail(w) \/ Finish(w)

Spec == Init /\ [][Next]_vars

(* No engine fails, no client gives up, and every clock has run out when it  *)
(* is read, as with the least values of the settings; then every request     *)
(* ends, every transition is finished, and the loop goes on.                 *)
Expired ==
  [settled |-> Worker, quiet |-> Spare, veteran |-> Ready, starved |-> Model]

UndisturbedNext ==
  \/ Reconcile(Expired) \/ Measure
  \/ \E m \in Model : Route(m) \/ Enqueue(m)
  \/ \E w \in Worker : Proceed(w) \/ Finish(w)

FairSpec ==
  /\ Init /\ [][UndisturbedNext]_vars
  /\ WF_vars(Reconcile(Expired)) /\ WF_vars(Measure)
  /\ \A m \in Model : WF_vars(Route(m))
  /\ \A w \in Worker : WF_vars(Proceed(w)) /\ WF_vars(Finish(w))

----------------------------------------------------------------------------
(* Properties *)

(* Engines sit on GPU sets of their profiles, no model has more requests     *)
(* than were made, and exactly the engines that sleep, or are taken out of   *)
(* the cache, are parked.                                                    *)
TypeOK ==
  /\ planner \in {"native", "prism", "cache"}
  /\ worker \in [Worker -> WorkerPlacement \cup {None}]
  /\ \A w \in Engines :
       /\ worker[w].gpus \in worker[w].profile.sets
       /\ Is(w, {"SLEEPING"}) => worker[w].parked
       /\ Is(w, {"LOADING", "READY", "OFFLOADING", "WAKING"}) => ~worker[w].parked
  /\ queue \in [Model -> 0 .. MaxRequests] /\ measured \in [Model -> 0 .. MaxRequests]
  /\ once \subseteq Model /\ warming \subseteq Model
  /\ recPc \in {"route", "plan"}

(* On every GPU, what the engines there hold fits the strictest of their     *)
(* ceilings: the larger footprint of each engine on the GPU, and what each   *)
(* parked one keeps, also when it is being evicted.  Engines that are        *)
(* stopping are not counted, as the planner does not see them.               *)
EnginesFit(kept) ==
  planner # "native" =>
  \A g \in Gpu :
    LET there == {w \in Live : g \in worker[w].gpus}
        held == [w \in there |-> IF worker[w].parked THEN kept[worker[w].profile]
                                 ELSE Footprint(worker[w].profile)]
    IN there # {} =>
         SumFunctionOnSet(held, there) <= Budget({worker[w].profile : w \in there})

(* A parked engine counts with its residual, but with no more than it had    *)
(* awake.  That parking makes room is taken for granted: an engine is parked *)
(* without a look at what it keeps (planner.py:220-234, 690-695).            *)
MemoryFits == EnginesFit([p \in Profile |-> Min({Residual(p), Footprint(p)})])

(* "The planner accounts for [...] each sleeping worker's measured residual  *)
(* allocation, against the strictest colocated gpu_memory_utilization        *)
(* ceiling" (README.md:75-77), whatever the residual is.                     *)
ResidualsFit == EnginesFit([p \in Profile |-> Residual(p)])

(* A model with a parked worker and none that is READY gets no second engine *)
(* for its requests: the parked one is woken.                                *)
WarmBeforeCold ==
  [][\A m \in Model :
       (\E w \in Worker : Is(w, {"COLD"}) /\ worker'[w].state = "LOADING"
                          /\ worker'[w].profile.model = m)
       /\ measured[m] > 0 /\ ReadyFor(m) = {}
       => \A w \in OfModel(Live, m) : ~Is(w, {"SLEEPING"})]_vars

(* A model that is asked for while nobody asks for another one gets its      *)
(* worker, at the cost of engines awake or parked.                           *)
DemandIsServed ==
  \A m \in Model : []<>(queue[m] = 0 \/ \E n \in Model \ {m} : Requests(n) > 0)
=============================================================================
