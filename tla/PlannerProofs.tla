--------------------------- MODULE PlannerProofs ----------------------------
(***************************************************************************)
(* Theorems about Planner for any engines, GPUs, models, profiles and      *)
(* limits.  Memory and requests are counted by functions on all worker     *)
(* slots, in which a slot that does not count contributes nothing: so a    *)
(* step changes the function at the slots it moves and the set is fixed.   *)
(***************************************************************************)
EXTENDS Planner, SetTheorems

Slots == [Worker -> WorkerPlacement \cup {None}]

(* The requests of m in service at each slot.                                *)
Share(f, m) ==
  [w \in Worker |-> IF f[w].state # "COLD" /\ f[w].profile.model = m THEN f[w].load ELSE 0]

(* What each slot holds of the memory of g.                                  *)
IsOn(x, g) == x.state \notin {"COLD", "STOPPING"} /\ g \in x.gpus

Resting(p) == Min({Residual(p), Footprint(p)})

Held(f, g) ==
  [w \in Worker |-> IF ~IsOn(f[w], g) THEN 0
                    ELSE IF f[w].parked THEN Resting(f[w].profile)
                    ELSE Footprint(f[w].profile)]

Room(f, g) ==
  \A w \in Worker : IsOn(f[w], g) =>
    /\ SumFunctionOnSet(Held(f, g), Worker) <= Vram - Reserved
    /\ SumFunctionOnSet(Held(f, g), Worker) <= f[w].profile.ceiling

RequestsBounded == \A m \in Model : Requests(m) <= MaxRequests

RoomOnGpus == planner # "native" => \A g \in Gpu : Room(worker, g)

(* Only the weight cache parks engines, and only those that it can share.    *)
OnlyCacheParks ==
  /\ planner # "cache" =>
       \A w \in Engines : ~Is(w, {"OFFLOADING", "SLEEPING", "WAKING"}) /\ ~worker[w].parked
  /\ planner = "cache" => \A w \in Engines : worker[w].profile.kvcached

WarmingIsUnasked == \A m \in warming : measured[m] = 0

IInv == TypeOK /\ RequestsBounded /\ RoomOnGpus /\ OnlyCacheParks /\ WarmingIsUnasked

----------------------------------------------------------------------------
(* Arithmetic of profiles *)

(* The larger of two numbers.                                                *)
LEMMA MaxOfTwo ==
  ASSUME NEW m \in Nat, NEW n \in Nat
  PROVE  Max({m, n}) \in {m, n} /\ m <= Max({m, n}) /\ n <= Max({m, n})
<1>1. \E x \in {m, n} : \A y \in {m, n} : x >= y
  OBVIOUS
<1>2. Max({m, n}) \in {m, n} /\ \A y \in {m, n} : Max({m, n}) >= y
  BY <1>1 DEF Max
<1> QED
  BY <1>2

(* A parked engine counts for no more than one that may become active, and   *)
(* for no more than the planner takes into account.                          *)
LEMMA Footprints ==
  ASSUME NEW p \in Profile
  PROVE  /\ Footprint(p) \in Nat /\ Residual(p) \in Nat /\ Resting(p) \in Nat
         /\ Resting(p) <= Footprint(p) /\ Resting(p) <= Residual(p)
         /\ p.ceiling \in Nat
<1>1. /\ p.idle \in Nat /\ p.peak \in Nat /\ p.headroom \in Nat /\ p.residual \in Nat
      /\ p.ceiling \in Nat
  BY ProfileAssumption DEF ProfileOK
<1>2. Footprint(p) \in Nat
  <2>1. Max({p.idle, p.peak}) \in {p.idle, p.peak}
    BY <1>1, MaxOfTwo
  <2>2. Max({p.idle, p.peak}) \in Nat
    BY <1>1, <2>1
  <2> QED
    BY <1>1, <2>2 DEF Footprint
<1>3. SleepReserve \in Nat
  BY PlannerAssumption
<1>4. Residual(p) \in {SleepReserve, p.residual}
  BY <1>1, <1>3, MaxOfTwo DEF Residual
<1>5. Residual(p) \in Nat
  BY <1>1, <1>3, <1>4
<1>6. /\ Resting(p) \in {Residual(p), Footprint(p)}
      /\ Resting(p) <= Residual(p) /\ Resting(p) <= Footprint(p)
  <2>1. PICK T : T = {Residual(p), Footprint(p)}
    OBVIOUS
  <2>2. Min(T) \in T /\ \A y \in T : Min(T) <= y
    BY <1>2, <1>5, <2>1, MinIsLeast
  <2> QED
    BY <2>1, <2>2 DEF Resting
<1> QED
  BY <1>1, <1>2, <1>5, <1>6

(* A sum fits a budget if it fits what may be used of the GPU and every      *)
(* ceiling.                                                                  *)
LEMMA BudgetIsLeast ==
  ASSUME NEW ps, \A p \in ps : p.ceiling \in Nat, NEW n \in Nat
  PROVE  n <= Budget(ps) <=> n <= Vram - Reserved /\ \A p \in ps : n <= p.ceiling
<1> DEFINE T == {Vram - Reserved} \cup {p.ceiling : p \in ps}
           S == {x + Reserved : x \in T}
<1>1. Vram \in Nat /\ Reserved \in Nat
  BY PlannerAssumption
<1>2. T \subseteq Int /\ \A x \in T : x + Reserved \in Nat
  BY <1>1
<1>3. S \subseteq Nat /\ S # {}
  BY <1>2
<1>4. PICK y \in T : \A x \in T : y + Reserved <= x + Reserved
  <2>1. Min(S) \in S /\ \A x \in S : Min(S) <= x
    BY <1>3, MinIsLeast
  <2> QED
    BY <2>1
<1>5. y \in T /\ \A x \in T : y <= x
  BY <1>1, <1>2, <1>4
<1>6. Min(T) \in T /\ \A x \in T : Min(T) <= x
  BY <1>5 DEF Min
<1>7. Budget(ps) = Min(T)
  BY DEF Budget
<1>8. n <= Min(T) <=> \A x \in T : n <= x
  <2> HIDE DEF T
  <2>1. Min(T) \in Int /\ \A x \in T : x \in Int
    BY ONLY <1>2, <1>6
  <2>2. ASSUME n <= Min(T), NEW x \in T PROVE n <= x
    BY ONLY <1>6, <2>1, <2>2, n \in Nat, x \in T
  <2> QED
    BY <1>6, <2>2
<1>9. (\A x \in T : n <= x) <=> n <= Vram - Reserved /\ \A p \in ps : n <= p.ceiling
  OBVIOUS
<1> QED
  BY <1>7, <1>8, <1>9

(* A sum over some elements is one over all to which the others add nothing. *)
LEMMA SumExtended ==
  ASSUME NEW S, IsFiniteSet(S), NEW T, T \subseteq S, NEW h, \A x \in T : h[x] \in Int,
         NEW k, \A x \in T : k[x] = h[x], \A x \in S \ T : k[x] = 0
  PROVE  SumFunctionOnSet(k, S) = SumFunctionOnSet(h, T)
<1>1. IsFiniteSet(T) /\ IsFiniteSet(S \ T) /\ T \cap (S \ T) = {} /\ S = T \cup (S \ T)
  BY FS_Subset
<1>2. SumFunctionOnSet(k, T) = SumFunctionOnSet(h, T)
  BY <1>1, SumSame
<1>3. SumFunctionOnSet(k, S \ T) = 0
  BY <1>1, SumZero
<1>4. SumFunctionOnSet(k, T \cup (S \ T)) = SumFunctionOnSet(k, T) + SumFunctionOnSet(k, S \ T)
  <2> DEFINE U == S \ T
  <2>1. \A x \in T \cup U : k[x] \in Int
    OBVIOUS
  <2> HIDE DEF U
  <2>2. IsFiniteSet(U) /\ T \cap U = {}
    BY <1>1 DEF U
  <2>3. SumFunctionOnSet(k, T \cup U) = SumFunctionOnSet(k, T) + SumFunctionOnSet(k, U)
    BY <1>1, <2>1, <2>2, SumUnion
  <2> QED
    BY <2>3 DEF U
<1>5. SumFunctionOnSet(k, T \cup (S \ T)) = SumFunctionOnSet(k, S)
  BY <1>1, Zenon
<1>6. SumFunctionOnSet(h, T) \in Int
  BY <1>1, SumInt
<1> QED
  BY ONLY <1>2, <1>3, <1>4, <1>5, <1>6

----------------------------------------------------------------------------
(* Slots, as functions that may be those of this or of the next state *)

(* What a slot is.                                                           *)
LEMMA SlotKinds ==
  ASSUME NEW f \in Slots, NEW w \in Worker
  PROVE  /\ f[w].state = "COLD" => f[w] = None
         /\ f[w].state # "COLD" =>
              /\ f[w] \in WorkerPlacement
              /\ f[w].profile \in Profile /\ f[w].gpus \in SUBSET Gpu
              /\ f[w].load \in Nat /\ f[w].parked \in BOOLEAN
<1>1. f[w] \in WorkerPlacement \cup {None}
  BY DEF Slots
<1>2. CASE f[w] \in WorkerPlacement
  BY <1>2, PlannerAssumption DEF WorkerPlacement
<1>3. CASE f[w] = None
  BY <1>3 DEF None
<1> QED
  BY <1>1, <1>2, <1>3

(* Shares and what is held are natural numbers.                              *)
LEMMA SlotSums ==
  ASSUME NEW f \in Slots
  PROVE  /\ IsFiniteSet(Worker)
         /\ \A m : /\ \A w \in Worker : Share(f, m)[w] \in Nat
                   /\ SumFunctionOnSet(Share(f, m), Worker) \in Nat
         /\ \A g : /\ \A w \in Worker : Held(f, g)[w] \in Nat
                   /\ SumFunctionOnSet(Held(f, g), Worker) \in Nat
<1>1. IsFiniteSet(Worker)
  BY PlannerAssumption
<1>2. ASSUME NEW m, NEW w \in Worker PROVE Share(f, m)[w] \in Nat
  BY SlotKinds DEF Share
<1>3. ASSUME NEW g, NEW w \in Worker PROVE Held(f, g)[w] \in Nat
  <2>1. IsOn(f[w], g) => f[w].profile \in Profile
    BY SlotKinds DEF IsOn
  <2>2. CASE IsOn(f[w], g)
    <3>1. Resting(f[w].profile) \in Nat /\ Footprint(f[w].profile) \in Nat
      BY <2>1, <2>2, Footprints
    <3> QED
      BY <2>2, <3>1 DEF Held
  <2>3. CASE ~IsOn(f[w], g)
    BY <2>3 DEF Held
  <2> QED
    BY <2>2, <2>3
<1>4. ASSUME NEW m PROVE SumFunctionOnSet(Share(f, m), Worker) \in Nat
  BY <1>1, <1>2, SumNat
<1>5. ASSUME NEW g PROVE SumFunctionOnSet(Held(f, g), Worker) \in Nat
  BY <1>1, <1>3, SumNat
<1> QED
  BY <1>1, <1>2, <1>3, <1>4, <1>5

(* The requests in service, as _pressures() counts them, are the shares.     *)
LEMMA SharesAreLoads ==
  ASSUME NEW f \in Slots, NEW m, NEW E, E = {w \in Worker : f[w].state # "COLD"}
  PROVE  SumFunctionOnSet([w \in E |-> f[w].load], {w \in E : f[w].profile.model = m})
           = SumFunctionOnSet(Share(f, m), Worker)
<1> DEFINE T == {w \in E : f[w].profile.model = m}
           h == [w \in E |-> f[w].load]
<1>1. T \subseteq Worker /\ IsFiniteSet(Worker)
  BY PlannerAssumption
<1>2. \A w \in T : h[w] \in Int /\ Share(f, m)[w] = h[w]
  BY SlotKinds DEF Share
<1>3. \A w \in Worker \ T : Share(f, m)[w] = 0
  BY DEF Share
<1> HIDE DEF T, h
<1>4. SumFunctionOnSet(Share(f, m), Worker) = SumFunctionOnSet(h, T)
  BY ONLY <1>1, <1>2, <1>3, SumExtended
<1> QED
  BY <1>4 DEF T, h

(* Requests are those in a queue and those in service.                       *)
LEMMA RequestsAreShares ==
  ASSUME worker \in Slots, NEW m
  PROVE  Requests(m) = queue[m] + SumFunctionOnSet(Share(worker, m), Worker)
<1>1. PICK f \in Slots : f = worker
  OBVIOUS
<1>2. PICK E : E = {w \in Worker : f[w].state # "COLD"}
  OBVIOUS
<1>3. E = Engines
  BY <1>1, <1>2 DEF Engines, Is
<1>4. Load = [w \in E |-> f[w].load] /\ OfModel(Engines, m) = {w \in E : f[w].profile.model = m}
  BY <1>1, <1>3 DEF Load, OfModel
<1>5. SumFunctionOnSet([w \in E |-> f[w].load], {w \in E : f[w].profile.model = m})
        = SumFunctionOnSet(Share(f, m), Worker)
  BY <1>2, SharesAreLoads
<1>6. SumFunctionOnSet(Load, OfModel(Engines, m)) = SumFunctionOnSet(Share(worker, m), Worker)
  BY ONLY <1>1, <1>4, <1>5, Zenon
<1> QED
  BY <1>6 DEF Requests

LEMMA RequestsAreSharesNext ==
  ASSUME worker' \in Slots, NEW m
  PROVE  Requests(m)' = queue'[m] + SumFunctionOnSet(Share(worker', m), Worker)
<1>1. PICK f \in Slots : f = worker'
  OBVIOUS
<1>2. PICK E : E = {w \in Worker : f[w].state # "COLD"}
  OBVIOUS
<1>3. E = Engines'
  BY <1>1, <1>2 DEF Engines, Is
<1>4. /\ Load' = [w \in E |-> f[w].load]
      /\ OfModel(Engines, m)' = {w \in E : f[w].profile.model = m}
  BY <1>1, <1>3 DEF Load, OfModel
<1>5. SumFunctionOnSet([w \in E |-> f[w].load], {w \in E : f[w].profile.model = m})
        = SumFunctionOnSet(Share(f, m), Worker)
  BY <1>2, SharesAreLoads
<1>6. SumFunctionOnSet(Load', OfModel(Engines, m)')
        = SumFunctionOnSet(Share(worker', m), Worker)
  BY ONLY <1>1, <1>4, <1>5, Zenon
<1> QED
  BY <1>6 DEF Requests

(* Room on every GPU is what MemoryFits says.                                *)
LEMMA RoomIsFit ==
  ASSUME worker \in Slots, RoomOnGpus
  PROVE  MemoryFits
<1> DEFINE kept == [p \in Profile |-> Resting(p)]
<1>0. MemoryFits = EnginesFit(kept)
  BY DEF MemoryFits, Resting
<1> HIDE DEF kept
<1> SUFFICES EnginesFit(kept)
  BY <1>0
<1> SUFFICES ASSUME planner # "native", NEW g \in Gpu,
                    NEW there, there = {w \in Live : g \in worker[w].gpus}, there # {},
                    NEW held, held = [w \in there |-> IF worker[w].parked
                                                     THEN kept[worker[w].profile]
                                                     ELSE Footprint(worker[w].profile)]
             PROVE  SumFunctionOnSet(held, there) <= Budget({worker[w].profile : w \in there})
  BY DEF EnginesFit
<1>1. PICK f \in Slots : f = worker
  OBVIOUS
<1>2. \A w \in Worker : w \in there <=> IsOn(f[w], g)
  BY <1>1 DEF Live, Is, IsOn
<1>3. there \subseteq Worker
  BY DEF Live
<1>4. ASSUME NEW w \in there PROVE held[w] = Held(f, g)[w]
  <2>1. kept[f[w].profile] = Resting(f[w].profile)
    BY <1>2, <1>3, SlotKinds DEF IsOn, kept
  <2> QED
    BY <1>1, <1>2, <1>3, <2>1 DEF Held
<1>5. \A w \in Worker \ there : Held(f, g)[w] = 0
  BY <1>2 DEF Held
<1>6. /\ IsFiniteSet(Worker) /\ \A w \in Worker : Held(f, g)[w] \in Nat
      /\ SumFunctionOnSet(Held(f, g), Worker) \in Nat
  BY SlotSums
<1>7. SumFunctionOnSet(Held(f, g), Worker) = SumFunctionOnSet(held, there)
  <2>1. \A w \in there : held[w] \in Int
    <3> SUFFICES ASSUME NEW w \in there PROVE held[w] \in Int
      OBVIOUS
    <3>1. held[w] = Held(f, g)[w]
      BY <1>4
    <3> QED
      BY <1>3, <1>6, <3>1
  <2> QED
    BY ONLY <1>3, <1>4, <1>5, <1>6, <2>1, SumExtended
<1>8. PICK ps : ps = {worker[w].profile : w \in there}
  OBVIOUS
<1>9. PICK n \in Nat : n = SumFunctionOnSet(held, there)
  BY <1>6, <1>7
<1>10. /\ \A p \in ps : p.ceiling \in Nat /\ n <= p.ceiling
       /\ n <= Vram - Reserved
  <2>1. \A w \in there : /\ n <= Vram - Reserved /\ n <= worker[w].profile.ceiling
                          /\ worker[w].profile \in Profile
    <3>1. Room(f, g)
      BY <1>1 DEF RoomOnGpus
    <3>2. ASSUME NEW w \in there PROVE worker[w].profile \in Profile
      BY <1>1, <1>2, <1>3, SlotKinds DEF IsOn
    <3> QED
      BY <1>1, <1>2, <1>3, <1>7, <1>9, <3>1, <3>2 DEF Room
  <2> QED
    BY <1>8, <2>1, Footprints
<1>11. n <= Budget(ps)
  BY <1>10, BudgetIsLeast
<1> QED
  BY <1>8, <1>9, <1>11

(* There is still room where engines leave and nobody holds more.            *)
LEMMA RoomShrinks ==
  ASSUME NEW f \in Slots, NEW k \in Slots, NEW g, Room(f, g),
         \A w \in Worker : /\ IsOn(k[w], g) => IsOn(f[w], g) /\ k[w].profile = f[w].profile
                           /\ Held(k, g)[w] <= Held(f, g)[w]
  PROVE  Room(k, g)
<1>1. /\ IsFiniteSet(Worker)
      /\ \A w \in Worker : Held(k, g)[w] \in Nat /\ Held(f, g)[w] \in Nat
      /\ SumFunctionOnSet(Held(k, g), Worker) \in Nat
      /\ SumFunctionOnSet(Held(f, g), Worker) \in Nat
  BY SlotSums
<1>2. SumFunctionOnSet(Held(k, g), Worker) <= SumFunctionOnSet(Held(f, g), Worker)
  BY <1>1, SumMonotone
<1>3. Vram \in Nat /\ Reserved \in Nat
  BY PlannerAssumption
<1>4. ASSUME NEW w \in Worker, IsOn(k[w], g)
      PROVE  /\ SumFunctionOnSet(Held(k, g), Worker) <= Vram - Reserved
             /\ SumFunctionOnSet(Held(k, g), Worker) <= k[w].profile.ceiling
  <2>1. IsOn(f[w], g) /\ k[w].profile = f[w].profile
    BY <1>4
  <2>2. f[w].profile.ceiling \in Nat
    BY <2>1, SlotKinds, Footprints DEF IsOn
  <2>3. /\ SumFunctionOnSet(Held(f, g), Worker) <= Vram - Reserved
        /\ SumFunctionOnSet(Held(f, g), Worker) <= f[w].profile.ceiling
    BY <2>1 DEF Room
  <2> QED
    BY ONLY <1>1, <1>2, <1>3, <2>1, <2>2, <2>3
<1> QED
  BY <1>4 DEF Room

(* There is room where the active A, the parked B and a newcomer n of        *)
(* profile p fit the budget of C: the planner's count is an upper bound of   *)
(* what is held.                                                             *)
LEMMA RoomFor ==
  ASSUME NEW k \in Slots, NEW g, NEW p \in Profile, NEW view,
         NEW A \in SUBSET Worker, NEW B \in SUBSET Worker, A \cap B = {},
         NEW n \in Worker, n \notin A, n \notin B,
         NEW C, A \cup B \subseteq C, \A w \in C : view[w].profile \in Profile,
         Occupied(view, A) + Parked(view, B) + Footprint(p) <= BudgetWith(view, C, p),
         \A w \in Worker : IsOn(k[w], g) =>
           \/ w = n /\ k[w].profile = p
           \/ w \in A /\ k[w].profile = view[w].profile
           \/ w \in B /\ k[w].profile = view[w].profile /\ k[w].parked
  PROVE  Room(k, g)
<1> DEFINE K == [w \in Worker |-> IF w = n THEN Footprint(p)
                                  ELSE IF w \in A THEN Footprint(view[w].profile)
                                  ELSE IF w \in B THEN Residual(view[w].profile) ELSE 0]
           T == A \cup B
           a == [w \in A |-> Footprint(view[w].profile)]
           b == [w \in B |-> Residual(view[w].profile)]
<1>1. /\ IsFiniteSet(Worker)
      /\ \A w \in Worker : Held(k, g)[w] \in Nat
      /\ SumFunctionOnSet(Held(k, g), Worker) \in Nat
  BY SlotSums
<1>2. IsFiniteSet(A) /\ IsFiniteSet(B) /\ IsFiniteSet(T) /\ IsFiniteSet(T \cup {n})
  BY <1>1, FS_Subset
<1>3. /\ \A w \in T : Footprint(view[w].profile) \in Nat /\ Residual(view[w].profile) \in Nat
      /\ Footprint(p) \in Nat
  BY Footprints
<1>4. /\ \A w \in Worker : K[w] \in Nat
      /\ \A w \in Worker \ (T \cup {n}) : K[w] = 0
      /\ K[n] = Footprint(p)
      /\ \A w \in A : a[w] = K[w] /\ a[w] \in Int
      /\ \A w \in B : b[w] = K[w] /\ b[w] \in Int
  BY <1>3
<1>5. \A w \in Worker : Held(k, g)[w] <= K[w]
  <2> SUFFICES ASSUME NEW w \in Worker PROVE Held(k, g)[w] <= K[w]
    OBVIOUS
  <2>1. CASE ~IsOn(k[w], g)
    BY <1>4, <2>1 DEF Held
  <2>2. CASE IsOn(k[w], g)
    <3>1. k[w].profile \in Profile
      BY <2>2, SlotKinds DEF IsOn
    <3>2. /\ Footprint(k[w].profile) \in Nat /\ Residual(k[w].profile) \in Nat
          /\ Resting(k[w].profile) \in Nat
          /\ Resting(k[w].profile) <= Footprint(k[w].profile)
          /\ Resting(k[w].profile) <= Residual(k[w].profile)
      BY <3>1, Footprints
    <3>3. Held(k, g)[w] = IF k[w].parked THEN Resting(k[w].profile)
                          ELSE Footprint(k[w].profile)
      BY <2>2 DEF Held
    <3> QED
      BY <2>2, <3>2, <3>3
  <2> QED
    BY <2>1, <2>2
<1>6. Occupied(view, A) = SumFunctionOnSet(a, A) /\ Parked(view, B) = SumFunctionOnSet(b, B)
  BY DEF Occupied, Parked
<1>7. T \subseteq Worker /\ T \cup {n} \subseteq Worker /\ n \notin T
  OBVIOUS
<1>8. SumFunctionOnSet(K, Worker) = SumFunctionOnSet(K, T \cup {n})
  <2> DEFINE U == T \cup {n}
  <2>1. U \subseteq Worker /\ (\A w \in U : K[w] \in Int) /\ \A w \in Worker \ U : K[w] = 0
    BY <1>4, <1>7
  <2> HIDE DEF U, K
  <2>2. SumFunctionOnSet(K, Worker) = SumFunctionOnSet(K, U)
    BY ONLY <1>1, <2>1, SumExtended
  <2> QED
    BY <2>2 DEF U
<1> HIDE DEF K, a, b
<1>9. SumFunctionOnSet(K, T \cup {n}) = K[n] + SumFunctionOnSet(K, T)
  <2>1. \A w \in T \cup {n} : K[w] \in Int
    BY <1>4, <1>7
  <2> HIDE DEF T
  <2> QED
    BY ONLY <1>2, <1>7, <2>1, SumAdd
<1>10. SumFunctionOnSet(K, T) = SumFunctionOnSet(K, A) + SumFunctionOnSet(K, B)
  <2>1. \A w \in A \cup B : K[w] \in Int
    BY <1>4
  <2> QED
    BY <1>2, <2>1, SumUnion
<1>11. SumFunctionOnSet(a, A) = SumFunctionOnSet(K, A)
  BY ONLY <1>2, <1>4, SumSame
<1>12. SumFunctionOnSet(b, B) = SumFunctionOnSet(K, B)
  BY ONLY <1>2, <1>4, SumSame
<1>13. SumFunctionOnSet(Held(k, g), Worker) <= SumFunctionOnSet(K, Worker)
  BY <1>1, <1>4, <1>5, SumMonotone
<1>14. PICK ps : ps = {p} \cup {view[w].profile : w \in C}
  OBVIOUS
<1>15. PICK s \in Nat : s = SumFunctionOnSet(K, Worker)
  BY <1>1, <1>4, SumNat
<1>16. s <= Budget(ps)
  <2>1. BudgetWith(view, C, p) = Budget(ps)
    BY <1>14, Zenon DEF BudgetWith
  <2>2. /\ SumFunctionOnSet(K, A) \in Int /\ SumFunctionOnSet(K, B) \in Int
    BY <1>2, <1>4, SumInt
  <2>3. s = Occupied(view, A) + Parked(view, B) + Footprint(p)
    BY ONLY <1>3, <1>4, <1>6, <1>8, <1>9, <1>10, <1>11, <1>12, <1>15, <2>2
  <2> QED
    BY <2>1, <2>3
<1>17. (\A q \in ps : q.ceiling \in Nat /\ s <= q.ceiling) /\ s <= Vram - Reserved
  <2>1. \A q \in ps : q.ceiling \in Nat
    BY <1>14, Footprints
  <2> QED
    BY <1>16, <2>1, BudgetIsLeast
<1>18. \A w \in Worker : IsOn(k[w], g) => k[w].profile \in ps
  BY <1>14
<1>19. PICK h \in Nat : h = SumFunctionOnSet(Held(k, g), Worker)
  BY <1>1
<1>20. Vram \in Nat /\ Reserved \in Nat
  BY PlannerAssumption
<1>21. h <= Vram - Reserved /\ \A q \in ps : h <= q.ceiling
  BY ONLY <1>13, <1>15, <1>17, <1>19, <1>20
<1> QED
  BY <1>18, <1>19, <1>21 DEF Room

----------------------------------------------------------------------------
(* What may be in a slot, and what a step may do to it *)

States == {"LOADING", "READY", "OFFLOADING", "SLEEPING", "WAKING", "DRAINING", "STOPPING"}

Sound(x) ==
  /\ x \in WorkerPlacement \cup {None}
  /\ x.state # "COLD" =>
       /\ x.gpus \in x.profile.sets
       /\ x.state = "SLEEPING" => x.parked
       /\ x.state \in {"LOADING", "READY", "OFFLOADING", "WAKING"} => ~x.parked
       /\ planner # "cache" => x.state \notin {"OFFLOADING", "SLEEPING", "WAKING"} /\ ~x.parked
       /\ planner = "cache" => x.profile.kvcached

(* An engine goes, or holds no more memory than before.                      *)
Lighter(x, y) ==
  \/ y.state \in {"COLD", "STOPPING"}
  \/ /\ x.state \notin {"COLD", "STOPPING"}
     /\ y.profile = x.profile /\ y.gpus = x.gpus /\ (x.parked => y.parked)

(* An engine goes, or has no more requests than before.                      *)
NoBusier(x, y) ==
  \/ y.state = "COLD" \/ y.load = 0
  \/ x.state # "COLD" /\ y.profile = x.profile /\ y.load <= x.load

(* One field of a placement is assigned.                                     *)
LEMMA Edited ==
  ASSUME NEW x \in WorkerPlacement
  PROVE  /\ \A s \in States :
              LET y == [x EXCEPT !.state = s]
              IN /\ y \in WorkerPlacement /\ y.state = s /\ y.profile = x.profile
                 /\ y.gpus = x.gpus /\ y.load = x.load /\ y.parked = x.parked
         /\ \A b \in BOOLEAN :
              LET y == [x EXCEPT !.parked = b]
              IN /\ y \in WorkerPlacement /\ y.state = x.state /\ y.profile = x.profile
                 /\ y.gpus = x.gpus /\ y.load = x.load /\ y.parked = b
         /\ \A n \in 0 .. MaxRequests :
              LET y == [x EXCEPT !.load = n]
              IN /\ y \in WorkerPlacement /\ y.state = x.state /\ y.profile = x.profile
                 /\ y.gpus = x.gpus /\ y.load = n /\ y.parked = x.parked
         /\ x.state \in States
<1>1. /\ x.state \in States /\ x.profile \in Profile /\ x.gpus \in SUBSET Gpu
      /\ x.load \in 0 .. MaxRequests /\ x.parked \in BOOLEAN
  BY DEF WorkerPlacement, States
<1>2. ASSUME NEW s \in States
      PROVE  LET y == [x EXCEPT !.state = s]
             IN /\ y \in WorkerPlacement /\ y.state = s /\ y.profile = x.profile
                /\ y.gpus = x.gpus /\ y.load = x.load /\ y.parked = x.parked
  BY DEF WorkerPlacement, States
<1>3. ASSUME NEW b \in BOOLEAN
      PROVE  LET y == [x EXCEPT !.parked = b]
             IN /\ y \in WorkerPlacement /\ y.state = x.state /\ y.profile = x.profile
                /\ y.gpus = x.gpus /\ y.load = x.load /\ y.parked = b
  BY DEF WorkerPlacement
<1>4. ASSUME NEW n \in 0 .. MaxRequests
      PROVE  LET y == [x EXCEPT !.load = n]
             IN /\ y \in WorkerPlacement /\ y.state = x.state /\ y.profile = x.profile
                /\ y.gpus = x.gpus /\ y.load = n /\ y.parked = x.parked
  BY DEF WorkerPlacement
<1> QED
  BY <1>1, <1>2, <1>3, <1>4

(* The same for an engine that enters a state.                               *)
LEMMA StateEdited ==
  \A x \in WorkerPlacement : \A y :
    \A s \in {"READY", "OFFLOADING", "SLEEPING", "WAKING", "DRAINING", "STOPPING"} :
      y = [x EXCEPT !.state = s] =>
        /\ y \in WorkerPlacement /\ y.state = s /\ y.profile = x.profile
        /\ y.gpus = x.gpus /\ y.load = x.load /\ y.parked = x.parked
<1> SUFFICES ASSUME NEW x \in WorkerPlacement, NEW y,
                    NEW s \in {"READY", "OFFLOADING", "SLEEPING", "WAKING", "DRAINING", "STOPPING"},
                    y = [x EXCEPT !.state = s]
             PROVE  /\ y \in WorkerPlacement /\ y.state = s /\ y.profile = x.profile
                    /\ y.gpus = x.gpus /\ y.load = x.load /\ y.parked = x.parked
  OBVIOUS
<1>1. s \in States
  BY DEF States
<1> QED
  BY ONLY <1>1, x \in WorkerPlacement, y = [x EXCEPT !.state = s], Edited

(* Where every engine goes or gets lighter, there is still room.             *)
LEMMA RoomKept ==
  ASSUME NEW f \in Slots, NEW k \in Slots, NEW g, Room(f, g),
         \A w \in Worker : Lighter(f[w], k[w])
  PROVE  Room(k, g)
<1>1. ASSUME NEW w \in Worker
      PROVE  /\ IsOn(k[w], g) => IsOn(f[w], g) /\ k[w].profile = f[w].profile
             /\ Held(k, g)[w] <= Held(f, g)[w]
  <2>1. Held(f, g)[w] \in Nat
    BY SlotSums
  <2>2. CASE ~IsOn(k[w], g)
    <3>1. Held(k, g)[w] = 0
      BY <2>2 DEF Held
    <3> QED
      BY <2>1, <2>2, <3>1
  <2>3. CASE IsOn(k[w], g)
    <3>1. /\ IsOn(f[w], g) /\ k[w].profile = f[w].profile
          /\ f[w].parked => k[w].parked
      BY <2>3 DEF Lighter, IsOn
    <3>2. f[w].profile \in Profile
      BY <3>1, SlotKinds DEF IsOn
    <3>3. /\ Footprint(f[w].profile) \in Nat /\ Resting(f[w].profile) \in Nat
          /\ Resting(f[w].profile) <= Footprint(f[w].profile)
      BY <3>2, Footprints
    <3>4. /\ Held(k, g)[w] = IF k[w].parked THEN Resting(f[w].profile)
                             ELSE Footprint(f[w].profile)
          /\ Held(f, g)[w] = IF f[w].parked THEN Resting(f[w].profile)
                             ELSE Footprint(f[w].profile)
      BY <2>3, <3>1 DEF Held
    <3> QED
      BY <3>1, <3>3, <3>4
  <2> QED
    BY <2>2, <2>3
<1> QED
  BY <1>1, RoomShrinks

(* Where no engine gets busier, no model has more requests in service.       *)
LEMMA SharesKept ==
  ASSUME NEW f \in Slots, NEW k \in Slots, NEW m,
         \A w \in Worker : NoBusier(f[w], k[w])
  PROVE  SumFunctionOnSet(Share(k, m), Worker) <= SumFunctionOnSet(Share(f, m), Worker)
<1>1. ASSUME NEW w \in Worker
      PROVE  /\ Share(k, m)[w] \in Int /\ Share(f, m)[w] \in Int
             /\ Share(k, m)[w] <= Share(f, m)[w]
  <2>1. Share(k, m)[w] \in Nat /\ Share(f, m)[w] \in Nat
    BY SlotSums
  <2>2. Share(k, m)[w] <= Share(f, m)[w]
    BY <2>1 DEF Share, NoBusier
  <2> QED
    BY <2>1, <2>2
<1>2. IsFiniteSet(Worker)
  BY SlotSums
<1> QED
  BY <1>1, <1>2, SumMonotone

(* An engine has at most the requests of its model.                          *)
LEMMA LoadIsShared ==
  ASSUME NEW f \in Slots, NEW w \in Worker, f[w].state # "COLD"
  PROVE  f[w].load <= SumFunctionOnSet(Share(f, f[w].profile.model), Worker)
<1> DEFINE h == Share(f, f[w].profile.model)
<1>1. IsFiniteSet(Worker) /\ \A v \in Worker : h[v] \in Nat
  BY SlotSums
<1>2. h[w] = f[w].load
  BY DEF Share
<1> HIDE DEF h
<1>3. SumFunctionOnSet(h, {w}) <= SumFunctionOnSet(h, Worker)
  BY <1>1, SumSubset
<1>4. SumFunctionOnSet(h, {w}) = h[w]
  <2>1. SumFunctionOnSet(h, {w}) = h[w] + SumFunctionOnSet(h, {w} \ {w})
    <3>1. IsFiniteSet({w}) /\ w \in {w} /\ \A v \in {w} : h[v] \in Int
      BY <1>1, FS_Subset
    <3> QED
      BY ONLY <3>1, SumRemove
  <2>2. {w} \ {w} = {}
    OBVIOUS
  <2>3. SumFunctionOnSet(h, {w} \ {w}) = 0
    BY <2>2, SumEmpty, Zenon
  <2> QED
    BY <1>1, <2>1, <2>3
<1> QED
  BY <1>2, <1>3, <1>4 DEF h

----------------------------------------------------------------------------
(* The invariant, slot by slot *)

LEMMA SlotsAreSound ==
  ASSUME TypeOK, OnlyCacheParks
  PROVE  worker \in Slots /\ \A w \in Worker : Sound(worker[w])
<1>1. worker \in Slots
  BY DEF TypeOK, Slots
<1>2. ASSUME NEW w \in Worker PROVE Sound(worker[w])
  <2>1. worker[w] \in WorkerPlacement \cup {None}
    BY DEF TypeOK
  <2>2. worker[w].state # "COLD" => w \in Engines
    BY DEF Engines, Is
  <2> QED
    BY <2>1, <2>2 DEF Sound, TypeOK, OnlyCacheParks, Is
<1> QED
  BY <1>1, <1>2

LEMMA SoundSlotsNext ==
  ASSUME worker' \in Slots, planner' = planner, \A w \in Worker : Sound(worker'[w]),
         planner \in {"native", "prism", "cache"},
         queue' \in [Model -> 0 .. MaxRequests], measured' \in [Model -> 0 .. MaxRequests],
         once' \subseteq Model, warming' \subseteq Model, recPc' \in {"route", "plan"}
  PROVE  TypeOK' /\ OnlyCacheParks'
<1>1. ASSUME NEW w \in Engines'
      PROVE  /\ worker'[w].gpus \in worker'[w].profile.sets
             /\ Is(w, {"SLEEPING"})' => worker'[w].parked
             /\ Is(w, {"LOADING", "READY", "OFFLOADING", "WAKING"})' => ~worker'[w].parked
             /\ planner' # "cache" => /\ ~Is(w, {"OFFLOADING", "SLEEPING", "WAKING"})'
                                      /\ ~worker'[w].parked
             /\ planner' = "cache" => worker'[w].profile.kvcached
  <2>1. w \in Worker /\ worker'[w].state # "COLD"
    BY DEF Engines, Is
  <2>2. Sound(worker'[w])
    BY <2>1
  <2> QED
    BY <2>1, <2>2 DEF Sound, Is
<1>2. TypeOK'
  BY <1>1 DEF TypeOK, Slots
<1>3. OnlyCacheParks'
  BY <1>1 DEF OnlyCacheParks
<1> QED
  BY <1>2, <1>3

(* What a step has to keep.                                                  *)
LEMMA Kept ==
  ASSUME IInv, planner' = planner, worker' \in Slots,
         \A w \in Worker : Sound(worker'[w]),
         queue' \in [Model -> 0 .. MaxRequests], measured' \in [Model -> 0 .. MaxRequests],
         \A m \in Model :
           queue'[m] + SumFunctionOnSet(Share(worker', m), Worker) <= MaxRequests,
         once' \subseteq Model, warming' \subseteq Model, \A m \in warming' : measured'[m] = 0,
         recPc' \in {"route", "plan"},
         planner # "native" => \A g \in Gpu : Room(worker', g)
  PROVE  IInv'
<1>1. TypeOK' /\ OnlyCacheParks'
  BY SoundSlotsNext DEF IInv, TypeOK
<1>2. RequestsBounded'
  BY RequestsAreSharesNext DEF RequestsBounded
<1>3. RoomOnGpus' /\ WarmingIsUnasked'
  BY DEF RoomOnGpus, WarmingIsUnasked
<1> QED
  BY <1>1, <1>2, <1>3 DEF IInv

(* The invariant in terms of slots.                                          *)
LEMMA Known ==
  ASSUME IInv
  PROVE  /\ worker \in Slots /\ \A w \in Worker : Sound(worker[w])
         /\ queue \in [Model -> 0 .. MaxRequests] /\ MaxRequests \in Nat
         /\ \A m \in Model :
              /\ SumFunctionOnSet(Share(worker, m), Worker) \in Nat
              /\ Requests(m) = queue[m] + SumFunctionOnSet(Share(worker, m), Worker)
              /\ queue[m] + SumFunctionOnSet(Share(worker, m), Worker) <= MaxRequests
<1>1. worker \in Slots /\ \A w \in Worker : Sound(worker[w])
  BY SlotsAreSound DEF IInv
<1>2. queue \in [Model -> 0 .. MaxRequests] /\ MaxRequests \in Nat
  BY PlannerAssumption DEF IInv, TypeOK
<1>3. ASSUME NEW m \in Model
      PROVE  /\ SumFunctionOnSet(Share(worker, m), Worker) \in Nat
             /\ Requests(m) = queue[m] + SumFunctionOnSet(Share(worker, m), Worker)
             /\ queue[m] + SumFunctionOnSet(Share(worker, m), Worker) <= MaxRequests
  <2>1. SumFunctionOnSet(Share(worker, m), Worker) \in Nat
    BY <1>1, SlotSums
  <2>2. Requests(m) = queue[m] + SumFunctionOnSet(Share(worker, m), Worker)
    BY <1>1, RequestsAreShares
  <2>3. Requests(m) <= MaxRequests
    BY DEF IInv, RequestsBounded
  <2> QED
    BY <2>1, <2>2, <2>3
<1> QED
  BY <1>1, <1>2, <1>3

(* A step of engines alone, in which each goes, or gets neither heavier nor  *)
(* busier.                                                                   *)
LEMMA EnginesEase ==
  ASSUME IInv, UNCHANGED <<planner, queue, once, measured, warming, recPc>>,
         worker' \in Slots,
         \A w \in Worker : /\ Sound(worker'[w]) /\ Lighter(worker[w], worker'[w])
                           /\ NoBusier(worker[w], worker'[w])
  PROVE  IInv'
<1>1. PICK f \in Slots : f = worker'
  OBVIOUS
<1>2. /\ worker \in Slots /\ queue \in [Model -> 0 .. MaxRequests] /\ MaxRequests \in Nat
      /\ \A m \in Model :
           /\ SumFunctionOnSet(Share(worker, m), Worker) \in Nat
           /\ queue[m] + SumFunctionOnSet(Share(worker, m), Worker) <= MaxRequests
  BY Known
<1>3. \A m \in Model :
        /\ SumFunctionOnSet(Share(f, m), Worker) <= SumFunctionOnSet(Share(worker, m), Worker)
        /\ SumFunctionOnSet(Share(f, m), Worker) \in Nat
  BY <1>1, <1>2, SharesKept, SlotSums
<1>4. \A m \in Model : queue'[m] + SumFunctionOnSet(Share(worker', m), Worker) <= MaxRequests
  <2> SUFFICES ASSUME NEW m \in Model
               PROVE  queue[m] + SumFunctionOnSet(Share(f, m), Worker) <= MaxRequests
    BY <1>1
  <2>1. queue[m] \in Nat
    BY <1>2
  <2> QED
    BY ONLY <1>2, <1>3, <2>1, m \in Model
<1>5. planner # "native" => \A g \in Gpu : Room(f, g)
  <2> SUFFICES ASSUME planner # "native", NEW g \in Gpu PROVE Room(f, g)
    OBVIOUS
  <2>1. Room(worker, g)
    BY DEF IInv, RoomOnGpus
  <2>2. \A w \in Worker : Lighter(worker[w], f[w])
    BY <1>1
  <2> QED
    BY <1>2, <2>1, <2>2, RoomKept
<1> QED
  BY <1>1, <1>4, <1>5, Kept DEF IInv, TypeOK, WarmingIsUnasked

LEMMA OneEngineEases ==
  ASSUME IInv, UNCHANGED <<planner, queue, once, measured, warming, recPc>>,
         NEW w \in Worker, NEW y, worker' = [worker EXCEPT ![w] = y],
         Sound(y), Lighter(worker[w], y), NoBusier(worker[w], y)
  PROVE  IInv'
<1>1. worker \in Slots /\ \A v \in Worker : Sound(worker[v])
  BY Known
<1>2. worker' \in Slots /\ worker'[w] = y /\ \A v \in Worker \ {w} : worker'[v] = worker[v]
  <2>1. y \in WorkerPlacement \cup {None}
    BY DEF Sound
  <2> QED
    BY <1>1, <2>1 DEF Slots
<1>3. \A v \in Worker : Lighter(worker[v], worker[v]) /\ NoBusier(worker[v], worker[v])
  <2> SUFFICES ASSUME NEW v \in Worker
               PROVE  Lighter(worker[v], worker[v]) /\ NoBusier(worker[v], worker[v])
    OBVIOUS
  <2>1. worker[v].state # "COLD" => worker[v].load \in Nat
    BY <1>1, SlotKinds
  <2> QED
    BY <2>1 DEF Lighter, NoBusier
<1>4. \A v \in Worker : /\ Sound(worker'[v]) /\ Lighter(worker[v], worker'[v])
                        /\ NoBusier(worker[v], worker'[v])
  <2> SUFFICES ASSUME NEW v \in Worker
               PROVE  /\ Sound(worker'[v]) /\ Lighter(worker[v], worker'[v])
                      /\ NoBusier(worker[v], worker'[v])
    OBVIOUS
  <2>1. CASE v = w
    BY <1>2, <2>1
  <2>2. CASE v # w
    BY <1>1, <1>2, <1>3, <2>2
  <2> QED
    BY <2>1, <2>2
<1> QED
  BY <1>2, <1>4, EnginesEase

----------------------------------------------------------------------------
(* Engines and clients *)

LEMMA FinishKeeps ==
  ASSUME IInv, NEW w \in Worker, Finish(w)
  PROVE  IInv'
<1>1. worker \in Slots /\ Sound(worker[w])
  BY Known
<1>2. PICK x \in WorkerPlacement : x = worker[w] /\ x.load > 0 /\ x.state # "COLD"
  BY <1>1 DEF Finish, Is, Slots, None
<1>3. x.load - 1 \in 0 .. MaxRequests /\ x.load \in Nat
  BY <1>2, PlannerAssumption DEF WorkerPlacement
<1>4. PICK y : y = [x EXCEPT !.load = x.load - 1]
  OBVIOUS
<1>5. /\ y \in WorkerPlacement /\ y.state = x.state /\ y.profile = x.profile
      /\ y.gpus = x.gpus /\ y.load = x.load - 1 /\ y.parked = x.parked
  BY <1>3, <1>4, Edited
<1>6. worker' = [worker EXCEPT ![w] = y]
  BY <1>2, <1>4 DEF Finish
<1>7. Sound(y) /\ Lighter(x, y) /\ NoBusier(x, y)
  BY <1>1, <1>2, <1>3, <1>5 DEF Sound, Lighter, NoBusier
<1>8. UNCHANGED <<planner, queue, once, measured, warming, recPc>>
  BY DEF Finish
<1> QED
  BY <1>2, <1>6, <1>7, <1>8, OneEngineEases

LEMMA FailKeeps ==
  ASSUME IInv, NEW w \in Worker, Fail(w)
  PROVE  IInv'
<1>1. Sound(None) /\ Lighter(worker[w], None) /\ NoBusier(worker[w], None)
  BY DEF Sound, Lighter, NoBusier, None
<1>2. /\ UNCHANGED <<planner, queue, once, measured, warming, recPc>>
      /\ worker' = [worker EXCEPT ![w] = None]
  BY DEF Fail
<1> QED
  BY <1>1, <1>2, OneEngineEases

LEMMA ProceedKeeps ==
  ASSUME IInv, NEW w \in Worker, Proceed(w)
  PROVE  IInv'
<1>1. worker \in Slots /\ Sound(worker[w])
  BY Known
<1>2. UNCHANGED <<planner, queue, once, measured, warming, recPc>>
  BY DEF Proceed
<1>3. CASE Is(w, {"STOPPING"}) /\ worker' = [worker EXCEPT ![w] = None]
  <2>1. Sound(None) /\ Lighter(worker[w], None) /\ NoBusier(worker[w], None)
    BY DEF Sound, Lighter, NoBusier, None
  <2> QED
    BY <1>2, <1>3, <2>1, OneEngineEases
<1>4. CASE ~(Is(w, {"STOPPING"}) /\ worker' = [worker EXCEPT ![w] = None])
  <2>1. PICK x \in WorkerPlacement : x = worker[w]
    BY <1>1, <1>4 DEF Proceed, Is, Slots, None
  <2>2. x.load \in Nat /\ x.state \in States
    BY <2>1, PlannerAssumption DEF WorkerPlacement, States
  <2>3. CASE Is(w, {"LOADING", "WAKING"}) /\ worker' = [worker EXCEPT ![w] = With(w, "READY")]
    <3>1. PICK y : y = [x EXCEPT !.state = "READY"]
      OBVIOUS
    <3>2. /\ y \in WorkerPlacement /\ y.state = "READY" /\ y.profile = x.profile
          /\ y.gpus = x.gpus /\ y.load = x.load /\ y.parked = x.parked
      BY <3>1, StateEdited
    <3>3. worker' = [worker EXCEPT ![w] = y]
      BY <2>1, <2>3, <3>1 DEF With
    <3>4. x.state \in {"LOADING", "WAKING"}
      BY <2>1, <2>3 DEF Is
    <3>5. Sound(y) /\ Lighter(x, y) /\ NoBusier(x, y)
      BY <1>1, <2>1, <2>2, <3>2, <3>4 DEF Sound, Lighter, NoBusier
    <3> QED
      BY <1>2, <2>1, <3>3, <3>5, OneEngineEases
  <2>4. CASE /\ Is(w, {"OFFLOADING"})
             /\ worker' = [worker EXCEPT ![w] = [With(w, "SLEEPING") EXCEPT !.parked = TRUE]]
    <3>1. PICK u : u = [x EXCEPT !.state = "SLEEPING"]
      OBVIOUS
    <3>2. PICK y : y = [u EXCEPT !.parked = TRUE]
      OBVIOUS
    <3>3. /\ u \in WorkerPlacement /\ u.state = "SLEEPING" /\ u.profile = x.profile
          /\ u.gpus = x.gpus /\ u.load = x.load
      BY <3>1, StateEdited
    <3>4. /\ y \in WorkerPlacement /\ y.state = "SLEEPING" /\ y.profile = x.profile
          /\ y.gpus = x.gpus /\ y.load = x.load /\ y.parked = TRUE
      BY <3>2, <3>3, Edited
    <3>5. worker' = [worker EXCEPT ![w] = y]
      BY <2>1, <2>4, <3>1, <3>2 DEF With
    <3>6. x.state = "OFFLOADING"
      BY <2>1, <2>4 DEF Is
    <3>7. Sound(y) /\ Lighter(x, y) /\ NoBusier(x, y)
      BY <1>1, <2>1, <2>2, <3>4, <3>6 DEF Sound, Lighter, NoBusier
    <3> QED
      BY <1>2, <2>1, <3>5, <3>7, OneEngineEases
  <2>5. CASE /\ Is(w, {"DRAINING"}) /\ worker[w].load = 0
             /\ worker' = [worker EXCEPT ![w] = With(w, "STOPPING")]
    <3>1. PICK y : y = [x EXCEPT !.state = "STOPPING"]
      OBVIOUS
    <3>2. /\ y \in WorkerPlacement /\ y.state = "STOPPING" /\ y.profile = x.profile
          /\ y.gpus = x.gpus /\ y.load = x.load /\ y.parked = x.parked
      BY <3>1, StateEdited
    <3>3. worker' = [worker EXCEPT ![w] = y]
      BY <2>1, <2>5, <3>1 DEF With
    <3>4. x.state = "DRAINING" /\ x.load = 0
      BY <2>1, <2>5 DEF Is
    <3>5. Sound(y) /\ Lighter(x, y) /\ NoBusier(x, y)
      BY <1>1, <2>1, <2>2, <3>2, <3>4 DEF Sound, Lighter, NoBusier
    <3> QED
      BY <1>2, <2>1, <3>3, <3>5, OneEngineEases
  <2> QED
    BY <1>4, <2>3, <2>4, <2>5 DEF Proceed
<1> QED
  BY <1>3, <1>4

(* Nothing happens to the engines.                                           *)
LEMMA QueueKeeps ==
  ASSUME IInv, UNCHANGED <<planner, worker>>,
         queue' \in [Model -> 0 .. MaxRequests],
         \A m \in Model :
           queue'[m] + SumFunctionOnSet(Share(worker, m), Worker) <= MaxRequests,
         once' \subseteq Model, warming' \subseteq Model,
         measured' \in [Model -> 0 .. MaxRequests], \A m \in warming' : measured'[m] = 0,
         recPc' \in {"route", "plan"}
  PROVE  IInv'
<1>1. worker \in Slots /\ \A w \in Worker : Sound(worker[w])
  BY Known
<1>2. planner # "native" => \A g \in Gpu : Room(worker, g)
  BY DEF IInv, RoomOnGpus
<1>3. worker' = worker /\ planner' = planner
  OBVIOUS
<1>4. \A m \in Model :
        queue'[m] + SumFunctionOnSet(Share(worker', m), Worker) <= MaxRequests
  BY <1>3
<1> QED
  BY <1>1, <1>2, <1>3, <1>4, Kept

LEMMA ClientsKeep ==
  ASSUME IInv, NEW m \in Model, Enqueue(m) \/ Abandon(m) \/ WarmModelOnce(m)
  PROVE  IInv'
<1>1. /\ queue \in [Model -> 0 .. MaxRequests] /\ MaxRequests \in Nat
      /\ \A n \in Model :
           /\ SumFunctionOnSet(Share(worker, n), Worker) \in Nat
           /\ Requests(n) = queue[n] + SumFunctionOnSet(Share(worker, n), Worker)
           /\ queue[n] + SumFunctionOnSet(Share(worker, n), Worker) <= MaxRequests
  BY Known
<1>2. /\ UNCHANGED <<planner, worker, measured, warming, recPc>>
      /\ once' \subseteq Model
  BY DEF Enqueue, Abandon, WarmModelOnce, IInv, TypeOK
<1>3. /\ queue' \in [Model -> 0 .. MaxRequests]
      /\ \A n \in Model :
           queue'[n] + SumFunctionOnSet(Share(worker, n), Worker) <= MaxRequests
  <2>1. CASE Enqueue(m)
    <3>1. queue' = [queue EXCEPT ![m] = queue[m] + 1] /\ Requests(m) < MaxRequests
      BY <2>1 DEF Enqueue
    <3>2. queue[m] + 1 \in 0 .. MaxRequests
      BY <1>1, <3>1
    <3>3. queue' \in [Model -> 0 .. MaxRequests]
      BY <1>1, <3>1, <3>2
    <3>4. ASSUME NEW n \in Model
          PROVE  queue'[n] + SumFunctionOnSet(Share(worker, n), Worker) <= MaxRequests
      <4>1. PICK s \in Nat : /\ s = SumFunctionOnSet(Share(worker, n), Worker)
                             /\ Requests(n) = queue[n] + s /\ queue[n] + s <= MaxRequests
        BY <1>1
      <4>2. queue[n] \in Nat /\ queue'[n] = IF n = m THEN queue[n] + 1 ELSE queue[n]
        BY <1>1, <3>1
      <4>3. queue'[n] + s <= MaxRequests
        BY <1>1, <3>1, <4>1, <4>2
      <4> QED
        BY <4>1, <4>3
    <3> QED
      BY <3>3, <3>4
  <2>2. CASE Abandon(m)
    <3>1. queue' = [queue EXCEPT ![m] = queue[m] - 1] /\ queue[m] > 0
      BY <2>2 DEF Abandon
    <3>2. queue[m] - 1 \in 0 .. MaxRequests
      BY <1>1, <3>1
    <3>3. queue' \in [Model -> 0 .. MaxRequests]
      BY <1>1, <3>1, <3>2
    <3>4. ASSUME NEW n \in Model
          PROVE  queue'[n] + SumFunctionOnSet(Share(worker, n), Worker) <= MaxRequests
      <4>1. PICK s \in Nat : /\ s = SumFunctionOnSet(Share(worker, n), Worker)
                             /\ queue[n] + s <= MaxRequests
        BY <1>1
      <4>2. queue[n] \in Nat /\ queue'[n] = IF n = m THEN queue[n] - 1 ELSE queue[n]
        BY <1>1, <3>1
      <4>3. queue'[n] + s <= MaxRequests
        BY <1>1, <3>1, <4>1, <4>2
      <4> QED
        BY <4>1, <4>3
    <3> QED
      BY <3>3, <3>4
  <2>3. CASE WarmModelOnce(m)
    BY <1>1, <2>3 DEF WarmModelOnce
  <2> QED
    BY <2>1, <2>2, <2>3
<1> QED
  BY <1>2, <1>3, QueueKeeps DEF IInv, TypeOK, WarmingIsUnasked

(* A request moves from the queue to an engine.                              *)
LEMMA RouteKeeps ==
  ASSUME IInv, NEW m \in Model, Route(m)
  PROVE  IInv'
<1>1. /\ worker \in Slots /\ \A v \in Worker : Sound(worker[v])
      /\ queue \in [Model -> 0 .. MaxRequests] /\ MaxRequests \in Nat
      /\ \A n \in Model :
           /\ SumFunctionOnSet(Share(worker, n), Worker) \in Nat
           /\ queue[n] + SumFunctionOnSet(Share(worker, n), Worker) <= MaxRequests
  BY Known
<1>2. PICK w \in ReadyFor(m) : worker' = [worker EXCEPT ![w] = [worker[w] EXCEPT !.load = @ + 1]]
  BY DEF Route
<1>3. w \in Worker /\ worker[w].state = "READY" /\ worker[w].profile.model = m
  BY <1>2 DEF ReadyFor, OfModel, Live, Is
<1>4. PICK x \in WorkerPlacement : x = worker[w]
  BY <1>1, <1>3 DEF Slots, None
<1>5. /\ queue[m] > 0 /\ queue' = [queue EXCEPT ![m] = queue[m] - 1]
      /\ UNCHANGED <<planner, once, measured, warming, recPc>>
  BY DEF Route
<1>6. x.load \in Nat /\ queue[m] \in Nat
  BY <1>1, <1>4, PlannerAssumption DEF WorkerPlacement
<1>7. x.load + 1 \in 0 .. MaxRequests
  <2>1. x.load <= SumFunctionOnSet(Share(worker, m), Worker)
    BY <1>1, <1>3, <1>4, LoadIsShared
  <2>2. PICK s \in Nat : /\ s = SumFunctionOnSet(Share(worker, m), Worker)
                         /\ queue[m] + s <= MaxRequests
    BY <1>1
  <2> QED
    BY ONLY <1>1, <1>5, <1>6, <2>1, <2>2
<1>8. PICK y : y = [x EXCEPT !.load = x.load + 1]
  OBVIOUS
<1>9. /\ y \in WorkerPlacement /\ y.state = x.state /\ y.profile = x.profile
      /\ y.gpus = x.gpus /\ y.load = x.load + 1 /\ y.parked = x.parked
  BY <1>7, <1>8, Edited
<1>10. worker' = [worker EXCEPT ![w] = y]
  BY <1>2, <1>4, <1>8
<1>11. PICK f : f = worker'
  OBVIOUS
<1>12. f \in Slots /\ f[w] = y /\ \A v \in Worker \ {w} : f[v] = worker[v]
  BY <1>1, <1>3, <1>9, <1>10, <1>11 DEF Slots
<1>13. \A v \in Worker : Sound(f[v]) /\ Lighter(worker[v], f[v])
  <2> SUFFICES ASSUME NEW v \in Worker PROVE Sound(f[v]) /\ Lighter(worker[v], f[v])
    OBVIOUS
  <2>1. CASE v = w
    BY <1>1, <1>3, <1>4, <1>9, <1>12, <2>1 DEF Sound, Lighter
  <2>2. CASE v # w
    BY <1>1, <1>12, <2>2 DEF Lighter
  <2> QED
    BY <2>1, <2>2
<1>14. \A n \in Model : /\ SumFunctionOnSet(Share(f, n), Worker) \in Nat
                        /\ queue'[n] + SumFunctionOnSet(Share(f, n), Worker) <= MaxRequests
  <2> SUFFICES ASSUME NEW n \in Model
               PROVE  /\ SumFunctionOnSet(Share(f, n), Worker) \in Nat
                      /\ queue'[n] + SumFunctionOnSet(Share(f, n), Worker) <= MaxRequests
    OBVIOUS
  <2>1. /\ IsFiniteSet(Worker) /\ SumFunctionOnSet(Share(f, n), Worker) \in Nat
        /\ \A v \in Worker : Share(worker, n)[v] \in Nat /\ Share(f, n)[v] \in Nat
    BY <1>1, <1>12, SlotSums
  <2>2. \A v \in Worker \ {w} : Share(worker, n)[v] = Share(f, n)[v]
    BY <1>12 DEF Share
  <2>3. SumFunctionOnSet(Share(f, n), Worker)
          = SumFunctionOnSet(Share(worker, n), Worker) + Share(f, n)[w] - Share(worker, n)[w]
    BY <1>3, <2>1, <2>2, SumChange
  <2>4. Share(f, n)[w] - Share(worker, n)[w] = IF n = m THEN 1 ELSE 0
    BY <1>3, <1>4, <1>6, <1>9, <1>12 DEF Share
  <2>5. queue'[n] = (IF n = m THEN queue[n] - 1 ELSE queue[n]) /\ queue[n] \in Nat
    BY <1>1, <1>5
  <2>6. PICK s \in Nat, t \in Nat, i \in Nat, j \in Nat :
          /\ s = SumFunctionOnSet(Share(worker, n), Worker)
          /\ t = SumFunctionOnSet(Share(f, n), Worker)
          /\ i = Share(f, n)[w] /\ j = Share(worker, n)[w]
    BY <1>1, <1>3, <2>1
  <2>7. t = s + i - j /\ i - j = (IF n = m THEN 1 ELSE 0) /\ queue[n] + s <= MaxRequests
    BY <1>1, <2>3, <2>4, <2>6
  <2>8. queue'[n] + t <= MaxRequests
    BY ONLY <1>1, <2>5, <2>6, <2>7, s \in Nat, t \in Nat, i \in Nat, j \in Nat
  <2> QED
    BY <2>1, <2>6, <2>8
<1>15. queue' \in [Model -> 0 .. MaxRequests]
  BY <1>1, <1>5, <1>6
<1>16. planner # "native" => \A g \in Gpu : Room(f, g)
  <2> SUFFICES ASSUME planner # "native", NEW g \in Gpu PROVE Room(f, g)
    OBVIOUS
  <2>1. Room(worker, g)
    BY DEF IInv, RoomOnGpus
  <2> QED
    BY <1>1, <1>12, <1>13, <2>1, RoomKept
<1> QED
  BY <1>5, <1>11, <1>12, <1>13, <1>14, <1>15, <1>16, Kept DEF IInv, TypeOK, WarmingIsUnasked

LEMMA MeasureKeeps ==
  ASSUME IInv, Measure
  PROVE  IInv'
<1>1. /\ queue \in [Model -> 0 .. MaxRequests] /\ MaxRequests \in Nat
      /\ \A n \in Model :
           /\ SumFunctionOnSet(Share(worker, n), Worker) \in Nat
           /\ Requests(n) = queue[n] + SumFunctionOnSet(Share(worker, n), Worker)
           /\ queue[n] + SumFunctionOnSet(Share(worker, n), Worker) <= MaxRequests
  BY Known
<1>2. \A n \in Model : Requests(n) \in 0 .. MaxRequests
  <2> SUFFICES ASSUME NEW n \in Model PROVE Requests(n) \in 0 .. MaxRequests
    OBVIOUS
  <2>1. PICK s \in Nat : /\ s = SumFunctionOnSet(Share(worker, n), Worker)
                         /\ Requests(n) = queue[n] + s /\ queue[n] + s <= MaxRequests
    BY <1>1
  <2>2. queue[n] \in Nat
    BY <1>1
  <2> QED
    BY <1>1, <2>1, <2>2
<1>3. /\ UNCHANGED <<planner, worker, queue>> /\ once' \subseteq once /\ recPc' = "plan"
      /\ measured' = [n \in Model |-> Requests(n)]
      /\ \A n \in warming' : n \in Model /\ Requests(n) = 0
  BY DEF Measure
<1>4. /\ measured' \in [Model -> 0 .. MaxRequests] /\ warming' \subseteq Model
      /\ \A n \in warming' : measured'[n] = 0
  BY <1>2, <1>3
<1>5. once' \subseteq Model
  BY <1>3 DEF IInv, TypeOK
<1>6. queue' \in [Model -> 0 .. MaxRequests] /\ \A n \in Model :
        queue'[n] + SumFunctionOnSet(Share(worker, n), Worker) <= MaxRequests
  BY <1>1, <1>3
<1> QED
  BY <1>3, <1>4, <1>5, <1>6, QueueKeeps

LEMMA InitIsSound ==
  ASSUME Init
  PROVE  IInv
<1>1. MaxRequests \in Nat
  BY PlannerAssumption
<1>2. \A w \in Worker : worker[w] = None
  BY DEF Init
<1>3. Engines = {}
  BY <1>2 DEF Engines, Is, None
<1>4. TypeOK
  <2>1. planner \in {"native", "prism", "cache"}
    BY PlannerAssumption DEF Init
  <2>2. worker \in [Worker -> WorkerPlacement \cup {None}]
    BY DEF Init
  <2>3. queue \in [Model -> 0 .. MaxRequests] /\ measured \in [Model -> 0 .. MaxRequests]
    BY <1>1 DEF Init
  <2> QED
    BY <1>3, <2>1, <2>2, <2>3 DEF TypeOK, Init
<1>5. OnlyCacheParks
  BY <1>3 DEF OnlyCacheParks
<1>6. worker \in Slots
  BY <1>4 DEF TypeOK, Slots
<1>7. ASSUME NEW m \in Model PROVE Requests(m) <= MaxRequests
  <2>1. \A w \in Worker : Share(worker, m)[w] = 0
    BY <1>2 DEF Share, None
  <2>2. IsFiniteSet(Worker)
    BY PlannerAssumption
  <2>3. SumFunctionOnSet(Share(worker, m), Worker) = 0
    BY <2>1, <2>2, SumZero
  <2>4. queue[m] = 0
    BY DEF Init
  <2>5. Requests(m) = queue[m] + SumFunctionOnSet(Share(worker, m), Worker)
    BY <1>6, RequestsAreShares
  <2> QED
    BY <1>1, <2>3, <2>4, <2>5
<1>8. RoomOnGpus
  BY <1>2 DEF RoomOnGpus, Room, IsOn, None
<1>9. WarmingIsUnasked
  BY DEF Init, WarmingIsUnasked
<1> QED
  BY <1>4, <1>5, <1>7, <1>8, <1>9 DEF IInv, RequestsBounded

----------------------------------------------------------------------------
(* What the planners may decide *)

(* Workers that are woken one after the other, each where it fits.           *)
Wakeable(S) ==
  \E Z \in SUBSET {w \in Worker : Is(w, {"SLEEPING"})} :
    \E n \in Nat : \E s \in [1 .. n -> Z] :
      S = Range(s) /\ \A i \in DOMAIN s : s[i] \in FirstCachedWake(Z, Before(s, i))

(* An engine that is started alone, where it fits.                           *)
Startable(x) ==
  /\ x.profile.kvcached
  /\ planner = "prism" => PrismFits(ActiveView, x.profile, x.gpus)
  /\ planner = "cache" =>
       /\ CachedFits(LiveView, x.profile, x.gpus, {}, {})
       /\ measured[x.profile.model] > 0 /\ ReadyFor(x.profile.model) = {} =>
            \A w \in OfModel(Live, x.profile.model) : ~Is(w, {"SLEEPING"})

Decided(d) ==
  \/ d = Nothing
  \/ planner = "cache" /\ \E S \in SUBSET Ready : d = [Nothing EXCEPT !.sleeps = S]
  \/ \E S \in SUBSET Live : d = [Nothing EXCEPT !.drains = S]
  \/ planner = "cache" /\ \E S : Wakeable(S) /\ d = [Nothing EXCEPT !.wakes = S]
  \/ planner = "native" /\ \E S \in SUBSET Candidates(Profile) :
       d = [Nothing EXCEPT !.starts = S]
  \/ planner # "native" /\ \E x \in Candidates(Profile) :
       Startable(x) /\ d = [Nothing EXCEPT !.starts = {x}]

(* What fits are candidates.                                                 *)
LEMMA CandidatesGrow ==
  ASSUME NEW ps \in SUBSET Profile
  PROVE  /\ Candidates(ps) \subseteq Candidates(Profile)
         /\ \A x \in Candidates(ps) : x.profile \in ps /\ x.gpus \in x.profile.sets
         /\ Candidates(SmallestShape(ps)) \subseteq Candidates(ps)
<1>1. \A x \in Candidates(ps) : \E p \in ps : \E G \in p.sets : x = Placement(p, G)
  BY DEF Candidates
<1>2. \A x \in Candidates(ps) : x.profile \in ps /\ x.gpus \in x.profile.sets
  BY <1>1 DEF Placement
<1> QED
  BY <1>2 DEF Candidates, SmallestShape

(* Engines that are preempted are live.                                      *)
LEMMA PreemptedAreLive ==
  ASSUME NEW m, NEW ps, NEW clock
  PROVE  ChoosePreemption(m, ps, clock) \subseteq SUBSET Live
<1>1. Active \subseteq Live
  BY DEF Active, Live, Is
<1>2. \A G : Overlapping(Active, G) \subseteq Live
  BY <1>1 DEF Overlapping
<1> QED
  BY <1>2 DEF ChoosePreemption

(* Every fill is of candidates.                                              *)
LEMMA FillsAreCandidates ==
  ASSUME NEW ps \in SUBSET Profile, NEW free, NEW s \in MaximumSmallestPlacements(ps, free)
  PROVE  \E n \in Nat : s \in [1 .. n -> Candidates(Profile)]
<1>1. IsFiniteSet(Gpu)
  BY PlannerAssumption
<1>2. PICK n \in 0 .. Cardinality(free) : s \in [1 .. n -> Candidates(SmallestShape(ps))]
  BY DEF MaximumSmallestPlacements, Fill
<1>3. Candidates(SmallestShape(ps)) \subseteq Candidates(Profile)
  BY CandidatesGrow
<1> QED
  BY <1>2, <1>3

LEMMA NativeDecides ==
  ASSUME planner = "native", NEW m \in Model, NEW clock, NEW d \in NativeFor(m, clock)
  PROVE  Decided(d)
<1> DEFINE ps == ProfilesOf(m)
           free == Gpu \ UNION {worker[w].gpus : w \in Active}
           mine == {w \in OfModel(Active, m) : Is(w, {"LOADING", "READY"})}
           fill == MaximumSmallestPlacements(IF mine = {} THEN ps ELSE OneGpu(ps), free)
<1>1. ps \in SUBSET Profile /\ OneGpu(ps) \in SUBSET Profile
  BY DEF ProfilesOf, OneGpu
<1>2. \A s \in fill : \E n \in Nat : s \in [1 .. n -> Candidates(Profile)]
  BY <1>1, FillsAreCandidates
<1>3. CASE d \in Drains(ChoosePreemption(m, ps, clock))
  <2>1. PICK S \in SUBSET Live : d = [Nothing EXCEPT !.drains = S]
    BY <1>3, PreemptedAreLive DEF Drains
  <2> QED
    BY <2>1 DEF Decided
<1>4. ASSUME NEW s \in fill, NEW S \in SUBSET {s[i] : i \in DOMAIN s},
             d = [Nothing EXCEPT !.starts = S]
      PROVE  Decided(d)
  <2>1. PICK n \in Nat : s \in [1 .. n -> Candidates(Profile)]
    BY <1>2
  <2>2. S \in SUBSET Candidates(Profile)
    BY <2>1
  <2> QED
    BY <1>4, <2>2 DEF Decided
<1>5. \/ d \in Drains(ChoosePreemption(m, ps, clock))
      \/ \E s \in fill : \E S \in SUBSET {s[i] : i \in DOMAIN s} :
           d = [Nothing EXCEPT !.starts = S]
  <2> DEFINE ready == {w \in mine : Is(w, {"READY"})}
             lacking == Desired(measured[m], RateOf(ready)) - Cardinality(mine)
             useful(s) == {s[i] : i \in {j \in DOMAIN s :
                                           j <= lacking /\ UsefulMargin(s[j].profile, ready)}}
             drain == Drains(ChoosePreemption(m, ps, clock))
  <2>1. \/ d \in drain
        \/ d \in Starts({{s[i] : i \in DOMAIN s} : s \in fill})
        \/ d \in Starts({useful(s) : s \in fill} \ {{}})
    BY DEF NativeFor
  <2>2. \A s : useful(s) \subseteq {s[i] : i \in DOMAIN s}
    OBVIOUS
  <2> HIDE DEF fill, drain, useful
  <2>3. CASE d \in Starts({{s[i] : i \in DOMAIN s} : s \in fill})
    BY <2>3 DEF Starts
  <2>4. CASE d \in Starts({useful(s) : s \in fill} \ {{}})
    <3>1. PICK s \in fill : d = [Nothing EXCEPT !.starts = useful(s)]
      BY <2>4 DEF Starts
    <3> QED
      BY <2>2, <3>1
  <2> QED
    BY <2>1, <2>3, <2>4 DEF drain
<1> QED
  BY <1>3, <1>4, <1>5

(* What is moved out of the way is idle and ready.                           *)
LEMMA DisplacedAreReady ==
  ASSUME NEW counted, NEW m, NEW clock
  PROVE  Displaceable(counted, m, clock) \subseteq Ready /\ Ready \subseteq Live
BY DEF Displaceable, Ready, Live, Is

LEMMA EvictedAreLive ==
  ASSUME NEW m, NEW ps, NEW clock
  PROVE  ChoosePrismEviction(m, ps, clock) \subseteq SUBSET Live
<1> DEFINE counted == {w \in Active : Is(w, {"LOADING", "READY"})}
           blockers(G) == Overlapping(Displaceable(counted, m, clock), G)
<1>1. \A G : blockers(G) \subseteq Live
  BY DisplacedAreReady DEF Overlapping
<1> QED
  BY <1>1 DEF ChoosePrismEviction, Cheapest

LEMMA ParkedAreReady ==
  ASSUME NEW m, NEW ps, NEW existing, NEW clock
  PROVE  ChoosePrismSleep(m, ps, existing, clock) \subseteq SUBSET Ready
<1> DEFINE ready == {w \in Live : Is(w, {"READY"})}
           blockers(G) == Overlapping(Displaceable(ready, m, clock), G)
<1>1. \A G : blockers(G) \subseteq Ready
  BY DisplacedAreReady DEF Overlapping
<1> QED
  BY <1>1 DEF ChoosePrismSleep, Cheapest

LEMMA UncachedAreLive ==
  ASSUME NEW m, NEW ps
  PROVE  ChooseCacheEviction(m, ps) \subseteq SUBSET Live
<1>1. \A G : {w \in Overlapping(Live, G) :
               /\ Is(w, {"SLEEPING"}) /\ measured[worker[w].profile.model] = 0
               /\ worker[w].profile.model # m} \subseteq Live
  BY DEF Overlapping, Live
<1> QED
  BY <1>1 DEF ChooseCacheEviction

LEMMA PrismDecides ==
  ASSUME planner = "prism", NEW m \in Model, NEW clock, NEW d \in PrismFor(m, clock)
  PROVE  Decided(d)
<1> DEFINE ps == Compatible(m)
           mine == {w \in OfModel(Active, m) : Is(w, {"LOADING", "READY"})}
           start == SmallestPrismFitting(ps)
           useful == {x \in start : UsefulMargin(x.profile, mine)}
<1>1. ps \in SUBSET Profile /\ \A p \in ps : p.kvcached
  BY DEF Compatible, ProfilesOf
<1>2. \A x \in start : x \in Candidates(Profile) /\ Startable(x)
  <2>1. \A x \in start : x \in Candidates(ps) /\ PrismFits(ActiveView, x.profile, x.gpus)
    BY DEF SmallestPrismFitting, First, Fitting
  <2> QED
    BY <1>1, <2>1, CandidatesGrow DEF Startable
<1>3. \/ d \in Starts({{x} : x \in start}) \/ d \in Starts({{x} : x \in useful})
      \/ d \in Drains(ChoosePrismEviction(m, ps, clock))
  BY DEF PrismFor
<1>4. CASE d \in Drains(ChoosePrismEviction(m, ps, clock))
  <2>1. PICK S \in SUBSET Live : d = [Nothing EXCEPT !.drains = S]
    BY <1>4, EvictedAreLive DEF Drains
  <2> QED
    BY <2>1 DEF Decided
<1>5. CASE d \in Starts({{x} : x \in start}) \/ d \in Starts({{x} : x \in useful})
  <2>1. PICK x \in start : d = [Nothing EXCEPT !.starts = {x}]
    <3> HIDE DEF start
    <3> QED
      BY <1>5 DEF Starts
  <2>2. x \in Candidates(Profile) /\ Startable(x)
    BY <1>2
  <2> HIDE DEF start
  <2> QED
    BY <2>1, <2>2 DEF Decided
<1> QED
  BY <1>3, <1>4, <1>5

(* What fits in the weight cache may be started, unless one that sleeps is   *)
(* to be woken.                                                              *)
LEMMA CachedStarts ==
  ASSUME planner = "cache", NEW m \in Model, NEW ps \in SUBSET Compatible(m),
         measured[m] > 0 /\ ReadyFor(m) = {} =>
           \A w \in OfModel(Live, m) : ~Is(w, {"SLEEPING"}),
         NEW d, \E x \in SmallestCachedFitting(ps) : d = [Nothing EXCEPT !.starts = {x}]
  PROVE  Decided(d)
<1>1. \A p \in ps : p.kvcached /\ p \in Profile /\ p.model = m
  BY DEF Compatible, ProfilesOf
<1>2. PICK x : /\ x \in Candidates(ps) /\ CachedFits(LiveView, x.profile, x.gpus, {}, {})
               /\ d = [Nothing EXCEPT !.starts = {x}]
  BY DEF SmallestCachedFitting, First, Fitting
<1>3. x \in Candidates(Profile) /\ x.profile \in ps
  BY <1>1, <1>2, CandidatesGrow
<1>4. Startable(x)
  BY <1>1, <1>2, <1>3 DEF Startable
<1> QED
  BY <1>2, <1>3, <1>4 DEF Decided

LEMMA CachedParks ==
  ASSUME planner = "cache", NEW m, NEW ps, NEW existing, NEW clock,
         NEW d \in Sleeps(ChoosePrismSleep(m, ps, existing, clock))
  PROVE  Decided(d)
<1>1. PICK S \in SUBSET Ready : d = [Nothing EXCEPT !.sleeps = S]
  BY ParkedAreReady DEF Sleeps
<1> QED
  BY <1>1 DEF Decided

LEMMA StartOrParkDecides ==
  ASSUME planner = "cache", NEW m \in Model, NEW ps \in SUBSET Compatible(m),
         measured[m] > 0 /\ ReadyFor(m) = {} =>
           \A w \in OfModel(Live, m) : ~Is(w, {"SLEEPING"}),
         NEW clock, NEW d \in StartOrPark(m, ps, clock)
  PROVE  Decided(d)
<1>1. \/ d \in Starts({{x} : x \in SmallestCachedFitting(ps)})
      \/ d \in Sleeps(ChoosePrismSleep(m, ps, {}, clock))
  BY DEF StartOrPark, Or
<1>2. CASE d \in Starts({{x} : x \in SmallestCachedFitting(ps)})
  <2>1. \E x \in SmallestCachedFitting(ps) : d = [Nothing EXCEPT !.starts = {x}]
    BY <1>2 DEF Starts
  <2> QED
    BY <2>1, CachedStarts
<1> QED
  BY <1>1, <1>2, CachedParks

(* Wakes are of parked workers, one after the other.                         *)
LEMMA WakesDecide ==
  ASSUME planner = "cache", NEW Z, Z \subseteq {w \in Worker : Is(w, {"SLEEPING"})},
         NEW limit, NEW d,
         \/ d \in Wakes(CachedWakes(Z, limit))
         \/ \E Y \in SUBSET Z : d \in Wakes({{w} : w \in FirstCachedWake(Y, {})})
  PROVE  Decided(d)
<1>1. CASE d \in Wakes(CachedWakes(Z, limit))
  <2>1. PICK n \in 0 .. Min({limit, Cardinality(Z)}) : \E s \in [1 .. n -> Z] :
          /\ d = [Nothing EXCEPT !.wakes = Range(s)]
          /\ \A i \in DOMAIN s : s[i] \in FirstCachedWake(Z, Before(s, i))
    <3>1. PICK S \in CachedWakes(Z, limit) : d = [Nothing EXCEPT !.wakes = S]
      BY <1>1 DEF Wakes
    <3>2. \E n \in 0 .. Min({limit, Cardinality(Z)}) : \E s \in [1 .. n -> Z] :
            /\ S = Range(s)
            /\ \A i \in DOMAIN s : s[i] \in FirstCachedWake(Z, Before(s, i))
      BY Zenon DEF CachedWakes
    <3> QED
      BY <3>1, <3>2, Zenon
  <2>2. PICK s \in [1 .. n -> Z] :
          /\ d = [Nothing EXCEPT !.wakes = Range(s)]
          /\ \A i \in DOMAIN s : s[i] \in FirstCachedWake(Z, Before(s, i))
    BY <2>1
  <2>3. n \in Nat
    OBVIOUS
  <2>4. Wakeable(Range(s))
    BY <2>2, <2>3, Zenon DEF Wakeable
  <2> QED
    BY <2>2, <2>4 DEF Decided
<1>2. CASE \E Y \in SUBSET Z : d \in Wakes({{w} : w \in FirstCachedWake(Y, {})})
  <2>1. PICK Y \in SUBSET Z : \E v \in FirstCachedWake(Y, {}) :
          d = [Nothing EXCEPT !.wakes = {v}]
    BY <1>2 DEF Wakes
  <2>2. PICK v \in FirstCachedWake(Y, {}) : d = [Nothing EXCEPT !.wakes = {v}]
    BY <2>1
  <2>3. v \in Y
    BY <2>2 DEF FirstCachedWake
  <2>4. PICK s : s = [i \in 1 .. 1 |-> v]
    OBVIOUS
  <2>5. /\ s \in [1 .. 1 -> Y] /\ {v} = Range(s) /\ DOMAIN s = 1 .. 1
        /\ \A i \in 1 .. 1 : s[i] = v /\ Before(s, i) = {}
    BY <2>3, <2>4 DEF Range, Before
  <2>6. \A i \in DOMAIN s : s[i] \in FirstCachedWake(Y, Before(s, i))
    <3> SUFFICES ASSUME NEW i \in DOMAIN s
                 PROVE  s[i] \in FirstCachedWake(Y, Before(s, i))
      OBVIOUS
    <3>1. s[i] = v /\ Before(s, i) = {}
      BY <2>5
    <3> QED
      BY <2>2, <3>1, Zenon
  <2>7. Wakeable({v})
    <3>1. 1 \in Nat /\ Y \in SUBSET {w \in Worker : Is(w, {"SLEEPING"})}
      OBVIOUS
    <3> QED
      BY <2>5, <2>6, <3>1, Zenon DEF Wakeable
  <2> QED
    BY <2>2, <2>7 DEF Decided
<1> QED
  BY <1>1, <1>2

LEMMA CachedDecides ==
  ASSUME IInv, planner = "cache", NEW m \in Model, NEW clock, NEW d \in CachedFor(m, clock)
  PROVE  Decided(d)
<1> DEFINE ps == Compatible(m)
           mine == OfModel(Live, m)
           ready == {w \in mine : Is(w, {"READY"})}
           sleeping == {w \in mine : Is(w, {"SLEEPING"}) /\ worker[w].profile \in ps}
           copies == Max({Preload[m], 1})
           small == IF copies > 1 THEN OneGpu(ps) ELSE ps
           askedFirst == measured[m] > 0 /\ ReadyFor(m) = {}
           noneSleeps == \A w \in OfModel(Live, m) : ~Is(w, {"SLEEPING"})
<1>1. small \subseteq ps /\ OneGpu(ps) \subseteq ps
  BY DEF OneGpu
<1>2. sleeping \subseteq {w \in Worker : Is(w, {"SLEEPING"})}
  BY DEF OfModel, Live
<1>3. ready = ReadyFor(m)
  BY DEF ReadyFor
<1>4. sleeping = {} => noneSleeps
  <2> SUFFICES ASSUME sleeping = {}, NEW w \in OfModel(Live, m), Is(w, {"SLEEPING"})
               PROVE  FALSE
    OBVIOUS
  <2>1. w \in Worker /\ worker[w].profile.model = m /\ worker[w].state = "SLEEPING"
    BY DEF OfModel, Live, Is
  <2>2. worker \in Slots /\ Sound(worker[w])
    BY <2>1, Known
  <2>3. worker[w].profile \in Profile /\ worker[w].profile.kvcached
    BY <2>1, <2>2, SlotKinds DEF Sound
  <2> QED
    BY <2>1, <2>3 DEF Compatible, ProfilesOf
<1>5. m \in warming => ~askedFirst
  BY DEF IInv, WarmingIsUnasked
<1>6. \/ m \in warming /\ d \in StartOrPark(m, small, clock)
      \/ ready = {} /\ d \in ServeFirst(m, ps, sleeping, clock)
      \/ ready # {} /\ d \in AddReplica(m, ps, sleeping, ready, clock)
  BY DEF CachedFor
<1> HIDE DEF ps, mine, ready, sleeping, copies, small
<1>7. CASE m \in warming /\ d \in StartOrPark(m, small, clock)
  <2>1. small \in SUBSET Compatible(m) /\ (askedFirst => noneSleeps)
    BY <1>1, <1>5, <1>7 DEF ps
  <2> QED
    BY <1>7, <2>1, StartOrParkDecides
<1>8. CASE ready = {} /\ d \in ServeFirst(m, ps, sleeping, clock)
  <2>1. CASE sleeping # {}
    <3>1. PICK limit : \/ d \in Sleeps(ChoosePrismSleep(m, ps, sleeping, clock))
                       \/ d \in Wakes(CachedWakes(sleeping, limit))
      BY <1>8, <2>1 DEF ServeFirst
    <3> QED
      BY <1>2, <3>1, CachedParks, WakesDecide
  <2>2. CASE sleeping = {}
    <3>1. \/ d \in StartOrPark(m, ps, clock) \/ d \in Drains(ChooseCacheEviction(m, ps))
      BY <1>8, <2>2 DEF ServeFirst, Or
    <3>2. CASE d \in StartOrPark(m, ps, clock)
      <4>1. ps \in SUBSET Compatible(m) /\ (askedFirst => noneSleeps)
        BY <1>4, <2>2 DEF ps
      <4> QED
        BY <3>2, <4>1, StartOrParkDecides
    <3>3. CASE d \in Drains(ChooseCacheEviction(m, ps))
      <4>1. PICK S \in SUBSET Live : d = [Nothing EXCEPT !.drains = S]
        BY <3>3, UncachedAreLive DEF Drains
      <4> QED
        BY <4>1 DEF Decided
    <3> QED
      BY <3>1, <3>2, <3>3
  <2> QED
    BY <2>1, <2>2
<1>9. CASE ready # {} /\ d \in AddReplica(m, ps, sleeping, ready, clock)
  <2> DEFINE one == {w \in sleeping : worker[w].profile.count = 1}
             start == {x \in SmallestCachedFitting(OneGpu(ps)) : UsefulMargin(x.profile, ready)}
  <2>1. \/ d \in Wakes({{w} : w \in FirstCachedWake(one, {})})
        \/ d \in Starts({{x} : x \in start})
        \/ d \in Sleeps(ChoosePrismSleep(m, OneGpu(ps), {}, clock))
    BY <1>9 DEF AddReplica, Or
  <2>2. CASE d \in Wakes({{w} : w \in FirstCachedWake(one, {})})
    <3>1. one \in SUBSET sleeping
      OBVIOUS
    <3> HIDE DEF one
    <3> QED
      BY <1>2, <2>2, <3>1, WakesDecide
  <2>3. CASE d \in Starts({{x} : x \in start})
    <3>1. \E x \in SmallestCachedFitting(OneGpu(ps)) : d = [Nothing EXCEPT !.starts = {x}]
      BY <2>3 DEF Starts
    <3>2. OneGpu(ps) \in SUBSET Compatible(m) /\ (askedFirst => noneSleeps)
      BY <1>1, <1>3, <1>9 DEF ps
    <3> QED
      BY <3>1, <3>2, CachedStarts
  <2> QED
    BY <2>1, <2>2, <2>3, CachedParks
<1> QED
  BY <1>6, <1>7, <1>8, <1>9

(* plan() decides nothing else.                                              *)
LEMMA PlanDecides ==
  ASSUME IInv, NEW clock, NEW d \in Decisions(clock)
  PROVE  Decided(d)
<1>1. Idle(clock) \subseteq Ready /\ Ready \subseteq Live
  BY DEF Idle, Ready, Live, Is
<1>2. CASE planner = "cache" /\ d \in Sleeps({Idle(clock)})
  <2>1. d = [Nothing EXCEPT !.sleeps = Idle(clock)]
    BY <1>2 DEF Sleeps
  <2> QED
    BY <1>1, <1>2, <2>1 DEF Decided
<1>3. CASE d \in Drains({Idle(clock)})
  <2>1. d = [Nothing EXCEPT !.drains = Idle(clock)] /\ Idle(clock) \in SUBSET Live
    BY <1>1, <1>3 DEF Drains
  <2> QED
    BY <2>1 DEF Decided
<1>4. CASE \E m \in Deciding(clock) : d \in DecisionsFor(m, clock)
  <2>1. Deciding(clock) \subseteq Model
    BY DEF Deciding, Or, IInv, TypeOK
  <2>2. PICK m \in Model : d \in DecisionsFor(m, clock)
    BY <1>4, <2>1
  <2>3. planner \in {"native", "prism", "cache"}
    BY DEF IInv, TypeOK
  <2>4. \/ planner = "native" /\ d \in NativeFor(m, clock)
        \/ planner = "prism" /\ d \in PrismFor(m, clock)
        \/ planner = "cache" /\ d \in CachedFor(m, clock)
    BY <2>2, <2>3 DEF DecisionsFor
  <2> QED
    BY <2>4, NativeDecides, PrismDecides, CachedDecides
<1>5. \/ planner = "cache" /\ d \in Sleeps({Idle(clock)})
      \/ d \in Drains({Idle(clock)})
      \/ \E m \in Deciding(clock) : d \in DecisionsFor(m, clock)
      \/ d = Nothing
  BY DEF Decisions, Or
<1> QED
  BY <1>2, <1>3, <1>4, <1>5 DEF Decided

----------------------------------------------------------------------------
(* What a decision does to the memory *)

(* Where nothing of an engine comes to the GPU.                              *)
LEMMA RoomElsewhere ==
  ASSUME NEW f \in Slots, NEW k \in Slots, NEW g, Room(f, g),
         \A w \in Worker : k[w] = f[w] \/ ~IsOn(k[w], g)
  PROVE  Room(k, g)
<1>1. \A w \in Worker : /\ IsOn(k[w], g) => IsOn(f[w], g) /\ k[w].profile = f[w].profile
                        /\ Held(k, g)[w] <= Held(f, g)[w]
  <2> SUFFICES ASSUME NEW w \in Worker
               PROVE  /\ IsOn(k[w], g) => IsOn(f[w], g) /\ k[w].profile = f[w].profile
                      /\ Held(k, g)[w] <= Held(f, g)[w]
    OBVIOUS
  <2>1. Held(f, g)[w] \in Nat
    BY SlotSums
  <2>2. CASE k[w] = f[w]
    <3>1. Held(k, g)[w] = Held(f, g)[w]
      BY <2>2 DEF Held
    <3> QED
      BY <2>1, <2>2, <3>1
  <2>3. CASE ~IsOn(k[w], g)
    <3>1. Held(k, g)[w] = 0
      BY <2>3 DEF Held
    <3> QED
      BY <2>1, <2>3, <3>1
  <2> QED
    BY <2>2, <2>3
<1> QED
  BY <1>1, RoomShrinks

LEMMA RoomToStart ==
  ASSUME IInv, planner # "native", NEW x \in Candidates(Profile), Startable(x),
         NEW n \in Worker, n \notin Engines, NEW k \in Slots, k[n] = Loading(x),
         \A w \in Worker \ {n} : k[w] = worker[w], NEW g \in Gpu
  PROVE  Room(k, g)
<1>1. worker \in Slots /\ \A w \in Worker : Sound(worker[w])
  BY Known
<1>2. /\ k[n].gpus = x.gpus /\ k[n].profile = x.profile /\ k[n].state = "LOADING"
      /\ worker[n].state = "COLD"
  BY DEF Loading, Engines, Is
<1>3. Room(worker, g)
  BY DEF IInv, RoomOnGpus
<1>4. x.profile \in Profile
  BY CandidatesGrow
<1>5. CASE g \notin x.gpus
  <2>1. \A w \in Worker : k[w] = worker[w] \/ ~IsOn(k[w], g)
    BY <1>2, <1>5 DEF IsOn
  <2> QED
    BY <1>1, <1>3, <2>1, RoomElsewhere
<1>6. CASE g \in x.gpus /\ planner = "prism"
  <2>1. PICK view : view = ActiveView
    OBVIOUS
  <2>2. DOMAIN view = Active /\ \A w \in Active : view[w] = worker[w]
    BY <2>1 DEF ActiveView
  <2>3. PrismFits(view, x.profile, x.gpus)
    BY <1>6, <2>1 DEF Startable
  <2>4. PICK there : there = On(view, g)
    OBVIOUS
  <2>5. Occupied(view, there) + Footprint(x.profile) <= BudgetWith(view, there, x.profile)
    BY <1>6, <2>3, <2>4 DEF PrismFits
  <2>6. \A w \in Worker : w \in there <=> w \in Active /\ g \in worker[w].gpus
    BY <2>2, <2>4 DEF On
  <2>7. there \subseteq Worker /\ Active \subseteq Worker
    BY <2>2, <2>4 DEF On, Active
  <2>8. n \notin there
    BY <1>2, <2>6 DEF Active, Is
  <2>9. \A w \in there : view[w].profile \in Profile /\ view[w] = worker[w]
    <3> SUFFICES ASSUME NEW w \in there
                 PROVE  view[w].profile \in Profile /\ view[w] = worker[w]
      OBVIOUS
    <3>1. w \in Worker /\ w \in Active
      BY <2>6, <2>7
    <3>2. worker[w].state # "COLD"
      BY <3>1 DEF Active, Is
    <3> QED
      BY <1>1, <2>2, <3>1, <3>2, SlotKinds
  <2>10. ASSUME NEW w \in Worker, IsOn(k[w], g)
         PROVE  \/ w = n /\ k[w].profile = x.profile
                \/ w \in there /\ k[w].profile = view[w].profile
    <3>1. CASE w = n
      BY <1>2, <3>1
    <3>2. CASE w # n
      <4>1. k[w] = worker[w] /\ worker[w].state \notin {"COLD", "STOPPING"} /\ g \in worker[w].gpus
        BY <2>10, <3>2 DEF IsOn
      <4>2. Sound(worker[w]) /\ worker[w] \in WorkerPlacement
        BY <1>1, <4>1 DEF Slots, None
      <4>3. worker[w].state \in {"LOADING", "READY", "DRAINING"}
        BY <1>6, <4>1, <4>2 DEF Sound, WorkerPlacement
      <4>4. w \in there
        BY <2>6, <4>1, <4>3 DEF Active, Is
      <4> QED
        BY <2>9, <4>1, <4>4
    <3> QED
      BY <3>1, <3>2
  <2>11. Parked(view, {}) = 0
    BY SumEmpty DEF Parked
  <2>12. Occupied(view, there) \in Int /\ Footprint(x.profile) \in Nat
    <3>1. PICK h : h = [w \in there |-> Footprint(view[w].profile)]
      OBVIOUS
    <3>2. \A w \in there : h[w] \in Int
      BY <2>9, <3>1, Footprints
    <3>3. IsFiniteSet(there)
      BY <2>7, FS_Subset, PlannerAssumption
    <3>4. SumFunctionOnSet(h, there) \in Int
      BY <3>2, <3>3, SumInt
    <3> QED
      BY <1>4, <3>1, <3>4, Footprints DEF Occupied
  <2>13. Occupied(view, there) + Parked(view, {}) + Footprint(x.profile)
           <= BudgetWith(view, there, x.profile)
    BY <2>5, <2>11, <2>12
  <2>14. /\ there \cup {} \subseteq there /\ there \cap {} = {} /\ there \in SUBSET Worker
         /\ {} \in SUBSET Worker /\ n \notin {}
    BY <2>7
  <2> QED
    BY <1>4, <2>8, <2>9, <2>10, <2>13, <2>14, RoomFor
<1>7. CASE g \in x.gpus /\ planner = "cache"
  <2>1. PICK view : view = LiveView
    OBVIOUS
  <2>2. DOMAIN view = Live /\ \A w \in Live : view[w] = worker[w]
    BY <2>1 DEF LiveView
  <2>3. CachedFits(view, x.profile, x.gpus, {}, {})
    BY <1>7, <2>1 DEF Startable
  <2>4. PICK there : there = On(view, g)
    OBVIOUS
  <2>5. PICK B : B = {w \in there \ {} : view[w].state = "SLEEPING" \/ w \in {}}
    OBVIOUS
  <2>6. PICK A : A = there \ ({} \cup B)
    OBVIOUS
  <2>7. Occupied(view, A) + Parked(view, B) + Footprint(x.profile)
          <= BudgetWith(view, there, x.profile)
    BY <1>7, <2>3, <2>4, <2>5, <2>6 DEF CachedFits
  <2>8. \A w \in Worker : w \in there <=> w \in Live /\ g \in worker[w].gpus
    BY <2>2, <2>4 DEF On
  <2>9. there \subseteq Worker
    BY <2>2, <2>4 DEF On, Live
  <2>10. n \notin there
    BY <1>2, <2>8 DEF Live, Is
  <2>11. \A w \in there : view[w].profile \in Profile /\ view[w] = worker[w]
    <3> SUFFICES ASSUME NEW w \in there
                 PROVE  view[w].profile \in Profile /\ view[w] = worker[w]
      OBVIOUS
    <3>1. w \in Worker /\ w \in Live
      BY <2>8, <2>9
    <3>2. worker[w].state # "COLD"
      BY <3>1 DEF Live, Is
    <3> QED
      BY <1>1, <2>2, <3>1, <3>2, SlotKinds
  <2>12. ASSUME NEW w \in Worker, IsOn(k[w], g)
         PROVE  \/ w = n /\ k[w].profile = x.profile
                \/ w \in A /\ k[w].profile = view[w].profile
                \/ w \in B /\ k[w].profile = view[w].profile /\ k[w].parked
    <3>1. CASE w = n
      BY <1>2, <3>1
    <3>2. CASE w # n
      <4>1. k[w] = worker[w] /\ worker[w].state \notin {"COLD", "STOPPING"} /\ g \in worker[w].gpus
        BY <2>12, <3>2 DEF IsOn
      <4>2. w \in there /\ view[w] = worker[w]
        BY <2>8, <2>11, <4>1 DEF Live, Is
      <4>3. worker[w].state = "SLEEPING" => worker[w].parked
        BY <1>1 DEF Sound
      <4> QED
        BY <2>5, <2>6, <4>1, <4>2, <4>3
    <3> QED
      BY <3>1, <3>2
  <2>13. /\ A \cup B \subseteq there /\ A \cap B = {} /\ A \in SUBSET Worker
         /\ B \in SUBSET Worker /\ n \notin A /\ n \notin B
    BY <2>5, <2>6, <2>9, <2>10
  <2> QED
    BY <1>4, <2>7, <2>11, <2>12, <2>13, RoomFor
<1> QED
  BY <1>5, <1>6, <1>7 DEF IInv, TypeOK

(* Of the workers woken on a GPU, the last one was seen to fit among all     *)
(* that hold memory there.                                                   *)
LEMMA RoomToWake ==
  ASSUME IInv, planner = "cache", NEW S, Wakeable(S), NEW k \in Slots,
         \A w \in S : /\ k[w].profile = worker[w].profile /\ k[w].gpus = worker[w].gpus
                      /\ k[w].state = "WAKING",
         \A w \in Worker \ S : k[w] = worker[w], NEW g \in Gpu
  PROVE  Room(k, g)
<1>1. worker \in Slots /\ \A w \in Worker : Sound(worker[w])
  BY Known
<1>2. Room(worker, g)
  BY DEF IInv, RoomOnGpus
<1>3. PICK Z \in SUBSET {w \in Worker : Is(w, {"SLEEPING"})}, m \in Nat :
        \E s \in [1 .. m -> Z] :
          S = Range(s) /\ \A i \in DOMAIN s : s[i] \in FirstCachedWake(Z, Before(s, i))
  BY DEF Wakeable
<1>4. PICK s \in [1 .. m -> Z] :
          S = Range(s) /\ \A i \in DOMAIN s : s[i] \in FirstCachedWake(Z, Before(s, i))
  BY <1>3
<1>5. /\ \A w \in S : \E i \in 1 .. m : s[i] = w
      /\ \A i \in 1 .. m : s[i] \in S
  BY <1>4 DEF Range
<1>6. \A w \in S : w \in Worker /\ worker[w].state = "SLEEPING"
  BY <1>3, <1>4, <1>5 DEF Is
<1>7. CASE \A w \in S : g \notin worker[w].gpus
  <2>1. \A w \in Worker : k[w] = worker[w] \/ ~IsOn(k[w], g)
    BY <1>7 DEF IsOn
  <2> QED
    BY <1>1, <1>2, <2>1, RoomElsewhere
<1>8. CASE \E w \in S : g \in worker[w].gpus
  <2>1. PICK i \in 1 .. m : /\ g \in worker[s[i]].gpus
                            /\ \A j \in 1 .. m : g \in worker[s[j]].gpus => j <= i
    <3> DEFINE T == {m - j : j \in {j \in 1 .. m : g \in worker[s[j]].gpus}}
    <3>1. T \subseteq Nat /\ T # {}
      BY <1>5, <1>8
    <3>2. PICK t \in T : \A u \in T : t <= u
      <4> HIDE DEF T
      <4> QED
        BY <3>1, MinIsLeast
    <3>3. PICK i \in 1 .. m : g \in worker[s[i]].gpus /\ t = m - i
      BY <3>2
    <3>4. ASSUME NEW j \in 1 .. m, g \in worker[s[j]].gpus PROVE j <= i
      <4>1. m - j \in T
        BY <3>4
      <4>2. m - i <= m - j
        BY <3>2, <3>3, <4>1
      <4> QED
        BY ONLY <4>2, m \in Nat, i \in 1 .. m, j \in 1 .. m
    <3> QED
      BY <3>3, <3>4
  <2>2. PICK n, woken : n = s[i] /\ woken = Before(s, i)
    OBVIOUS
  <2>3. n \in S /\ n \in Worker /\ woken \subseteq S
    BY <1>5, <1>6, <2>2 DEF Before
  <2>4. PICK view : view = [w \in Live |-> IF w \in woken THEN With(w, "WAKING") ELSE worker[w]]
    OBVIOUS
  <2>5. CachedFits(view, worker[n].profile, worker[n].gpus, {n}, {})
    <3>1. n \in FirstCachedWake(Z, woken)
      <4>1. s[i] \in FirstCachedWake(Z, Before(s, i))
        BY <1>4
      <4> QED
        BY <2>2, <4>1, Zenon
    <3> QED
      BY <2>4, <3>1 DEF FirstCachedWake
  <2>6. PICK p : p = worker[n].profile
    OBVIOUS
  <2>7. p \in Profile
    BY <1>1, <1>6, <2>3, <2>6, SlotKinds
  <2>8. DOMAIN view = Live
    BY <2>4
  <2>9. ASSUME NEW w \in Live
        PROVE  /\ w \in Worker /\ worker[w] \in WorkerPlacement
               /\ worker[w].profile \in Profile
               /\ view[w].profile = worker[w].profile /\ view[w].gpus = worker[w].gpus
               /\ view[w].state = IF w \in woken THEN "WAKING" ELSE worker[w].state
    <3>1. w \in Worker /\ worker[w].state # "COLD"
      BY DEF Live, Is
    <3>2. worker[w] \in WorkerPlacement /\ worker[w].profile \in Profile
      BY <1>1, <3>1, SlotKinds
    <3>3. PICK x \in WorkerPlacement : x = worker[w]
      BY <3>2
    <3>4. PICK y : y = [x EXCEPT !.state = "WAKING"]
      OBVIOUS
    <3>5. y.state = "WAKING" /\ y.profile = x.profile /\ y.gpus = x.gpus
      BY <3>4, StateEdited
    <3>6. view[w] = IF w \in woken THEN y ELSE x
      BY <2>4, <3>3, <3>4 DEF With
    <3> QED
      BY <3>1, <3>2, <3>3, <3>5, <3>6
  <2>10. PICK there : there = On(view, g)
    OBVIOUS
  <2>11. \A w \in Worker : w \in there <=> w \in Live /\ g \in worker[w].gpus
    BY <2>8, <2>9, <2>10 DEF On
  <2>12. there \subseteq Worker /\ there \subseteq Live
    BY <2>8, <2>10 DEF On, Live
  <2>13. PICK B : B = {w \in there \ {n} : view[w].state = "SLEEPING" \/ w \in {}}
    OBVIOUS
  <2>14. PICK A : A = there \ ({n} \cup B)
    OBVIOUS
  <2>15. Occupied(view, A) + Parked(view, B) + Footprint(p) <= BudgetWith(view, there, p)
    BY <2>1, <2>2, <2>5, <2>6, <2>10, <2>13, <2>14 DEF CachedFits
  <2>16. \A w \in there : view[w].profile \in Profile
    BY <2>9, <2>12
  <2>17. ASSUME NEW w \in Worker, IsOn(k[w], g)
         PROVE  \/ w = n /\ k[w].profile = p
                \/ w \in A /\ k[w].profile = view[w].profile
                \/ w \in B /\ k[w].profile = view[w].profile /\ k[w].parked
    <3>1. CASE w = n
      BY <2>3, <2>6, <3>1
    <3>2. CASE w # n /\ w \in S
      <4>1. g \in worker[w].gpus /\ worker[w].state = "SLEEPING"
        BY <1>6, <2>17, <3>2 DEF IsOn
      <4>2. w \in Live /\ w \in there
        BY <2>11, <4>1 DEF Live, Is
      <4>3. PICK j \in 1 .. m : s[j] = w
        BY <1>5, <3>2
      <4>4. j <= i /\ j # i
        BY <2>1, <2>2, <3>2, <4>1, <4>3
      <4>5. j \in 1 .. i - 1
        BY ONLY <4>4, m \in Nat, i \in 1 .. m, j \in 1 .. m
      <4>6. w \in woken
        BY <2>2, <4>3, <4>5 DEF Before
      <4>7. view[w].state = "WAKING" /\ view[w].profile = worker[w].profile
        BY <2>9, <4>2, <4>6
      <4>8. w \in A
        BY <2>13, <2>14, <3>2, <4>2, <4>7
      <4> QED
        BY <3>2, <4>7, <4>8
    <3>3. CASE w \notin S
      <4>1. k[w] = worker[w] /\ worker[w].state \notin {"COLD", "STOPPING"} /\ g \in worker[w].gpus
        BY <2>17, <3>3 DEF IsOn
      <4>2. w \in Live /\ w \in there
        BY <2>11, <4>1 DEF Live, Is
      <4>3. view[w].state = worker[w].state /\ view[w].profile = worker[w].profile
        BY <2>3, <2>9, <3>3, <4>2
      <4>4. worker[w].state = "SLEEPING" => worker[w].parked
        BY <1>1 DEF Sound
      <4> QED
        BY <2>3, <2>13, <2>14, <3>3, <4>1, <4>2, <4>3, <4>4
    <3> QED
      BY <3>1, <3>2, <3>3
  <2>18. /\ A \cup B \subseteq there /\ A \cap B = {} /\ A \in SUBSET Worker
         /\ B \in SUBSET Worker /\ n \notin A /\ n \notin B
    BY <2>12, <2>13, <2>14
  <2> QED
    BY <2>3, <2>7, <2>15, <2>16, <2>17, <2>18, RoomFor
<1> QED
  BY <1>7, <1>8

----------------------------------------------------------------------------
(* Carrying out a decision *)

LEMMA Carried ==
  ASSUME NEW d, Decided(d), CarryOut(d)
  PROVE  /\ worker' = [w \in Worker |-> worker'[w]]
         /\ \/ \A w \in Worker : worker'[w] = worker[w]
            \/ planner = "cache" /\ \E S \in SUBSET Ready : \A w \in Worker :
                 worker'[w] = IF w \in S THEN With(w, "OFFLOADING") ELSE worker[w]
            \/ \E S \in SUBSET Live : \A w \in Worker :
                 worker'[w] = IF w \in S THEN With(w, "DRAINING") ELSE worker[w]
            \/ planner = "cache" /\ \E S : Wakeable(S) /\ \A w \in Worker :
                 worker'[w] = IF w \in S THEN [With(w, "WAKING") EXCEPT !.parked = FALSE]
                              ELSE worker[w]
            \/ planner = "native" /\ \A w \in Worker :
                 \/ worker'[w] = worker[w]
                 \/ w \notin Engines /\ \E x \in Candidates(Profile) : worker'[w] = Loading(x)
            \/ planner # "native" /\ \E x \in Candidates(Profile) : \E n \in Worker \ Engines :
                 /\ Startable(x) /\ worker'[n] = Loading(x)
                 /\ \A w \in Worker \ {n} : worker'[w] = worker[w]
<1>1. PICK done \in SUBSET d.starts : \E slot \in [done -> Worker \ Engines] :
        /\ \A x, y \in done : x # y => slot[x] # slot[y]
        /\ worker' = [w \in Worker |->
             IF \E x \in done : slot[x] = w
               THEN Loading(CHOOSE x \in done : slot[x] = w)
             ELSE IF w \in d.sleeps THEN With(w, "OFFLOADING")
             ELSE IF w \in d.drains THEN With(w, "DRAINING")
             ELSE IF w \in d.wakes THEN [With(w, "WAKING") EXCEPT !.parked = FALSE]
             ELSE worker[w]]
  BY Zenon DEF CarryOut
<1>2. PICK slot \in [done -> Worker \ Engines] :
        /\ \A x, y \in done : x # y => slot[x] # slot[y]
        /\ worker' = [w \in Worker |->
             IF \E x \in done : slot[x] = w
               THEN Loading(CHOOSE x \in done : slot[x] = w)
             ELSE IF w \in d.sleeps THEN With(w, "OFFLOADING")
             ELSE IF w \in d.drains THEN With(w, "DRAINING")
             ELSE IF w \in d.wakes THEN [With(w, "WAKING") EXCEPT !.parked = FALSE]
             ELSE worker[w]]
  BY <1>1
<1>3. worker' = [w \in Worker |-> worker'[w]]
  BY <1>2
<1>4. ASSUME NEW x \in done PROVE worker'[slot[x]] = Loading(x)
  <2>1. slot[x] \in Worker /\ \E y \in done : slot[y] = slot[x]
    BY <1>2
  <2>2. (CHOOSE y \in done : slot[y] = slot[x]) = x
    BY <1>2
  <2>3. worker'[slot[x]] = Loading(CHOOSE y \in done : slot[y] = slot[x])
    BY <1>2, <2>1
  <2> QED
    BY <2>2, <2>3
<1>5. ASSUME NEW w \in Worker, \A x \in done : slot[x] # w
      PROVE  worker'[w] = IF w \in d.sleeps THEN With(w, "OFFLOADING")
                          ELSE IF w \in d.drains THEN With(w, "DRAINING")
                          ELSE IF w \in d.wakes THEN [With(w, "WAKING") EXCEPT !.parked = FALSE]
                          ELSE worker[w]
  BY <1>2, <1>5
<1>6. CASE d = Nothing
  <2>1. d.starts = {} /\ d.sleeps = {} /\ d.drains = {} /\ d.wakes = {}
    BY <1>6 DEF Nothing
  <2> QED
    BY <1>1, <1>3, <1>5, <2>1
<1>7. CASE planner = "cache" /\ \E S \in SUBSET Ready : d = [Nothing EXCEPT !.sleeps = S]
  <2>1. PICK S \in SUBSET Ready : d = [Nothing EXCEPT !.sleeps = S]
    BY <1>7
  <2>2. d.starts = {} /\ d.sleeps = S /\ d.drains = {} /\ d.wakes = {}
    BY <2>1 DEF Nothing
  <2>3. \A w \in Worker : worker'[w] = IF w \in S THEN With(w, "OFFLOADING") ELSE worker[w]
    BY <1>1, <1>5, <2>2
  <2> QED
    BY <1>3, <1>7, <2>3
<1>8. CASE \E S \in SUBSET Live : d = [Nothing EXCEPT !.drains = S]
  <2>1. PICK S \in SUBSET Live : d = [Nothing EXCEPT !.drains = S]
    BY <1>8
  <2>2. d.starts = {} /\ d.sleeps = {} /\ d.drains = S /\ d.wakes = {}
    BY <2>1 DEF Nothing
  <2>3. \A w \in Worker : worker'[w] = IF w \in S THEN With(w, "DRAINING") ELSE worker[w]
    BY <1>1, <1>5, <2>2
  <2> QED
    BY <1>3, <2>3
<1>9. CASE planner = "cache" /\ \E S : Wakeable(S) /\ d = [Nothing EXCEPT !.wakes = S]
  <2>1. PICK S : Wakeable(S) /\ d = [Nothing EXCEPT !.wakes = S]
    BY <1>9
  <2>2. d.starts = {} /\ d.sleeps = {} /\ d.drains = {} /\ d.wakes = S
    BY <2>1 DEF Nothing
  <2>3. \A w \in Worker :
          worker'[w] = IF w \in S THEN [With(w, "WAKING") EXCEPT !.parked = FALSE] ELSE worker[w]
    BY <1>1, <1>5, <2>2
  <2> QED
    BY <1>3, <1>9, <2>1, <2>3
<1>10. CASE planner = "native" /\ \E S \in SUBSET Candidates(Profile) :
              d = [Nothing EXCEPT !.starts = S]
  <2>1. PICK S \in SUBSET Candidates(Profile) : d = [Nothing EXCEPT !.starts = S]
    BY <1>10
  <2>2. d.starts = S /\ d.sleeps = {} /\ d.drains = {} /\ d.wakes = {}
    BY <2>1 DEF Nothing
  <2>3. ASSUME NEW w \in Worker
        PROVE  \/ worker'[w] = worker[w]
               \/ w \notin Engines /\ \E x \in Candidates(Profile) : worker'[w] = Loading(x)
    <3>1. CASE \E x \in done : slot[x] = w
      BY <1>1, <1>2, <1>4, <2>2, <3>1
    <3>2. CASE \A x \in done : slot[x] # w
      BY <1>5, <2>2, <3>2
    <3> QED
      BY <3>1, <3>2
  <2> QED
    BY <1>3, <1>10, <2>3
<1>11. CASE planner # "native" /\ \E x \in Candidates(Profile) :
              Startable(x) /\ d = [Nothing EXCEPT !.starts = {x}]
  <2>1. PICK x \in Candidates(Profile) : Startable(x) /\ d = [Nothing EXCEPT !.starts = {x}]
    BY <1>11
  <2>2. d.starts = {x} /\ d.sleeps = {} /\ d.drains = {} /\ d.wakes = {}
    BY <2>1 DEF Nothing
  <2>3. CASE done = {}
    <3>1. \A w \in Worker : worker'[w] = worker[w]
      BY <1>5, <2>2, <2>3
    <3> QED
      BY <1>3, <3>1
  <2>4. CASE done = {x}
    <3>1. PICK n : n = slot[x]
      OBVIOUS
    <3>2. n \in Worker \ Engines /\ worker'[n] = Loading(x)
      BY <1>2, <1>4, <2>4, <3>1
    <3>3. \A w \in Worker \ {n} : worker'[w] = worker[w]
      BY <1>5, <2>2, <2>4, <3>1
    <3> QED
      BY <1>3, <1>11, <2>1, <3>2, <3>3
  <2>5. done \subseteq {x}
    BY <2>2
  <2>6. done = {} \/ done = {x}
    BY ONLY <2>5
  <2> QED
    BY <2>3, <2>4, <2>6
<1> QED
  BY <1>6, <1>7, <1>8, <1>9, <1>10, <1>11 DEF Decided

(* A started engine is sound, and so is one whose state is assigned.         *)
LEMMA Started ==
  ASSUME NEW x \in Candidates(Profile), planner = "cache" => x.profile.kvcached
  PROVE  /\ Sound(Loading(x)) /\ Loading(x) \in WorkerPlacement
         /\ Loading(x).state = "LOADING" /\ Loading(x).load = 0
         /\ Loading(x).profile = x.profile
<1>1. x.profile \in Profile /\ x.gpus \in x.profile.sets
  BY CandidatesGrow
<1>2. x.gpus \in SUBSET Gpu
  BY <1>1, ProfileAssumption DEF ProfileOK
<1>3. 0 \in 0 .. MaxRequests
  BY PlannerAssumption
<1>4. /\ Loading(x).state = "LOADING" /\ Loading(x).load = 0 /\ Loading(x).parked = FALSE
      /\ Loading(x).profile = x.profile /\ Loading(x).gpus = x.gpus
  BY DEF Loading
<1>5. Loading(x) \in WorkerPlacement
  BY <1>1, <1>2, <1>3 DEF Loading, WorkerPlacement
<1> QED
  BY <1>1, <1>4, <1>5 DEF Sound

LEMMA Moved ==
  ASSUME IInv, NEW w \in Live
  PROVE  /\ w \in Worker
         /\ Sound(With(w, "DRAINING")) /\ Lighter(worker[w], With(w, "DRAINING"))
         /\ NoBusier(worker[w], With(w, "DRAINING"))
         /\ planner = "cache" /\ worker[w].state = "READY" =>
              /\ Sound(With(w, "OFFLOADING")) /\ Lighter(worker[w], With(w, "OFFLOADING"))
              /\ NoBusier(worker[w], With(w, "OFFLOADING"))
         /\ planner = "cache" /\ worker[w].state = "SLEEPING" =>
              LET y == [With(w, "WAKING") EXCEPT !.parked = FALSE]
              IN /\ Sound(y) /\ NoBusier(worker[w], y) /\ y.profile = worker[w].profile
                 /\ y.gpus = worker[w].gpus /\ y.state = "WAKING"
<1>1. w \in Worker /\ worker[w].state \notin {"COLD", "STOPPING"}
  BY DEF Live, Is
<1>2. PICK x \in WorkerPlacement : x = worker[w]
  BY <1>1, Known, SlotKinds
<1>3. Sound(x) /\ x.state \notin {"COLD", "STOPPING"} /\ x.load \in Nat
  BY <1>1, <1>2, Known, SlotKinds
<1>4. PICK y : y = [x EXCEPT !.state = "DRAINING"]
  OBVIOUS
<1>5. /\ y \in WorkerPlacement /\ y.state = "DRAINING" /\ y.profile = x.profile
      /\ y.gpus = x.gpus /\ y.load = x.load /\ y.parked = x.parked
  BY <1>4, StateEdited
<1>6. Sound(y) /\ Lighter(x, y) /\ NoBusier(x, y)
  BY <1>3, <1>5 DEF Sound, Lighter, NoBusier
<1>7. PICK z : z = [x EXCEPT !.state = "OFFLOADING"]
  OBVIOUS
<1>8. /\ z \in WorkerPlacement /\ z.state = "OFFLOADING" /\ z.profile = x.profile
      /\ z.gpus = x.gpus /\ z.load = x.load /\ z.parked = x.parked
  BY <1>7, StateEdited
<1>9. planner = "cache" /\ x.state = "READY" => Sound(z) /\ Lighter(x, z) /\ NoBusier(x, z)
  BY <1>3, <1>8 DEF Sound, Lighter, NoBusier
<1>10. PICK u : u = [x EXCEPT !.state = "WAKING"]
  OBVIOUS
<1>11. /\ u \in WorkerPlacement /\ u.state = "WAKING" /\ u.profile = x.profile
       /\ u.gpus = x.gpus /\ u.load = x.load
  BY <1>10, StateEdited
<1>12. PICK v : v = [u EXCEPT !.parked = FALSE]
  OBVIOUS
<1>13. /\ v \in WorkerPlacement /\ v.state = "WAKING" /\ v.profile = x.profile
       /\ v.gpus = x.gpus /\ v.load = x.load /\ v.parked = FALSE
  BY <1>11, <1>12, Edited
<1>14. planner = "cache" => Sound(v) /\ NoBusier(x, v)
  BY <1>3, <1>13 DEF Sound, NoBusier
<1>15. /\ With(w, "DRAINING") = y /\ With(w, "OFFLOADING") = z
       /\ [With(w, "WAKING") EXCEPT !.parked = FALSE] = v
  BY <1>2, <1>4, <1>7, <1>10, <1>12 DEF With
<1> QED
  BY <1>1, <1>2, <1>6, <1>9, <1>13, <1>14, <1>15

LEMMA ReconcileKeeps ==
  ASSUME IInv, NEW clock, Reconcile(clock)
  PROVE  IInv'
<1>1. PICK d \in Decisions(clock) : CarryOut(d)
  BY DEF Reconcile
<1>2. Decided(d)
  BY <1>1, PlanDecides
<1>3. /\ recPc' = "route" /\ measured' = [m \in Model |-> 0] /\ warming' = {}
      /\ planner' = planner /\ queue' = queue /\ once' = once
  BY DEF Reconcile
<1>4. /\ worker \in Slots /\ \A w \in Worker : Sound(worker[w])
      /\ queue \in [Model -> 0 .. MaxRequests] /\ MaxRequests \in Nat
      /\ \A m \in Model :
           /\ SumFunctionOnSet(Share(worker, m), Worker) \in Nat
           /\ queue[m] + SumFunctionOnSet(Share(worker, m), Worker) <= MaxRequests
  BY Known
<1>5. PICK k : k = worker'
  OBVIOUS
<1>6. k = [w \in Worker |-> k[w]]
  BY <1>1, <1>2, <1>5, Carried
<1>7. \A w \in Worker : /\ worker[w].state # "COLD" => worker[w].load \in Nat
                        /\ NoBusier(worker[w], worker[w]) /\ Lighter(worker[w], worker[w])
  <2> SUFFICES ASSUME NEW w \in Worker
               PROVE  /\ worker[w].state # "COLD" => worker[w].load \in Nat
                      /\ NoBusier(worker[w], worker[w]) /\ Lighter(worker[w], worker[w])
    OBVIOUS
  <2>1. worker[w].state # "COLD" => worker[w].load \in Nat
    BY <1>4, SlotKinds
  <2> QED
    BY <2>1 DEF NoBusier, Lighter
<1>8. ASSUME \A w \in Worker : Sound(k[w]) /\ NoBusier(worker[w], k[w]),
             k \in Slots => (planner # "native" => \A g \in Gpu : Room(k, g))
      PROVE  IInv'
  <2>1. k \in Slots
    <3>1. \A w \in Worker : k[w] \in WorkerPlacement \cup {None}
      BY <1>8 DEF Sound
    <3> QED
      BY <1>6, <3>1 DEF Slots
  <2>2. \A m \in Model :
          /\ SumFunctionOnSet(Share(k, m), Worker) <= SumFunctionOnSet(Share(worker, m), Worker)
          /\ SumFunctionOnSet(Share(k, m), Worker) \in Nat
    BY <1>4, <1>8, <2>1, SharesKept, SlotSums
  <2>3. \A m \in Model : queue'[m] + SumFunctionOnSet(Share(worker', m), Worker) <= MaxRequests
    <3> SUFFICES ASSUME NEW m \in Model
                 PROVE  queue[m] + SumFunctionOnSet(Share(k, m), Worker) <= MaxRequests
      BY <1>3, <1>5
    <3>1. queue[m] \in Nat
      BY <1>4
    <3> QED
      BY ONLY <1>4, <2>2, <3>1, m \in Model
  <2>4. measured' \in [Model -> 0 .. MaxRequests] /\ queue' \in [Model -> 0 .. MaxRequests]
    BY <1>3, <1>4
  <2>5. once' \subseteq Model /\ warming' \subseteq Model /\ recPc' \in {"route", "plan"}
        /\ \A m \in warming' : measured'[m] = 0
    BY <1>3 DEF IInv, TypeOK
  <2> QED
    BY <1>3, <1>5, <1>8, <2>1, <2>3, <2>4, <2>5, Kept
<1>9. ASSUME \A w \in Worker : Lighter(worker[w], k[w]), k \in Slots, planner # "native",
             NEW g \in Gpu
      PROVE  Room(k, g)
  <2>1. Room(worker, g)
    BY <1>9 DEF IInv, RoomOnGpus
  <2> QED
    BY <1>4, <1>9, <2>1, RoomKept
<1>10. CASE \A w \in Worker : k[w] = worker[w]
  BY <1>4, <1>7, <1>8, <1>9, <1>10
<1>11. CASE planner = "cache" /\ \E S \in SUBSET Ready : \A w \in Worker :
              k[w] = IF w \in S THEN With(w, "OFFLOADING") ELSE worker[w]
  <2>1. PICK S \in SUBSET Ready : \A w \in Worker :
          k[w] = IF w \in S THEN With(w, "OFFLOADING") ELSE worker[w]
    BY <1>11
  <2>2. ASSUME NEW w \in Worker
        PROVE  Sound(k[w]) /\ NoBusier(worker[w], k[w]) /\ Lighter(worker[w], k[w])
    <3>1. CASE w \in S
      <4>1. w \in Live /\ worker[w].state = "READY"
        BY <3>1 DEF Ready, Live, Is
      <4>2. k[w] = With(w, "OFFLOADING")
        BY <2>1, <3>1
      <4> QED
        BY <1>11, <4>1, <4>2, Moved
    <3>2. CASE w \notin S
      BY <1>4, <1>7, <2>1, <3>2
    <3> QED
      BY <3>1, <3>2
  <2> QED
    BY <1>8, <1>9, <2>2
<1>12. CASE \E S \in SUBSET Live : \A w \in Worker :
              k[w] = IF w \in S THEN With(w, "DRAINING") ELSE worker[w]
  <2>1. PICK S \in SUBSET Live : \A w \in Worker :
          k[w] = IF w \in S THEN With(w, "DRAINING") ELSE worker[w]
    BY <1>12
  <2>2. ASSUME NEW w \in Worker
        PROVE  Sound(k[w]) /\ NoBusier(worker[w], k[w]) /\ Lighter(worker[w], k[w])
    <3>1. CASE w \in S
      <4>1. k[w] = With(w, "DRAINING") /\ w \in Live
        BY <2>1, <3>1
      <4> QED
        BY <4>1, Moved
    <3>2. CASE w \notin S
      BY <1>4, <1>7, <2>1, <3>2
    <3> QED
      BY <3>1, <3>2
  <2> QED
    BY <1>8, <1>9, <2>2
<1>13. CASE planner = "cache" /\ \E S : Wakeable(S) /\ \A w \in Worker :
              k[w] = IF w \in S THEN [With(w, "WAKING") EXCEPT !.parked = FALSE] ELSE worker[w]
  <2>1. PICK S : Wakeable(S) /\ \A w \in Worker :
          k[w] = IF w \in S THEN [With(w, "WAKING") EXCEPT !.parked = FALSE] ELSE worker[w]
    BY <1>13
  <2>2. \A w \in S : w \in Live /\ worker[w].state = "SLEEPING"
    BY <2>1 DEF Wakeable, Range, Live, Is
  <2>3. ASSUME NEW w \in S
        PROVE  /\ w \in Worker /\ Sound(k[w]) /\ NoBusier(worker[w], k[w])
               /\ k[w].profile = worker[w].profile /\ k[w].gpus = worker[w].gpus
               /\ k[w].state = "WAKING"
    <3>1. w \in Live /\ worker[w].state = "SLEEPING" /\ w \in Worker
      BY <2>2 DEF Live
    <3>2. PICK y : y = [With(w, "WAKING") EXCEPT !.parked = FALSE]
      OBVIOUS
    <3>3. k[w] = y
      BY <2>1, <3>1, <3>2
    <3>4. /\ Sound(y) /\ NoBusier(worker[w], y) /\ y.profile = worker[w].profile
          /\ y.gpus = worker[w].gpus /\ y.state = "WAKING"
      BY <1>13, <3>1, <3>2, Moved
    <3> QED
      BY <3>1, <3>3, <3>4
  <2>4. ASSUME NEW w \in Worker \ S
        PROVE  k[w] = worker[w] /\ Sound(k[w]) /\ NoBusier(worker[w], k[w])
    BY <1>4, <1>7, <2>1
  <2>5. \A w \in Worker : Sound(k[w]) /\ NoBusier(worker[w], k[w])
    BY <2>3, <2>4
  <2>6. ASSUME k \in Slots, NEW g \in Gpu PROVE Room(k, g)
    BY <1>13, <2>1, <2>3, <2>4, <2>6, RoomToWake
  <2> QED
    BY <1>8, <2>5, <2>6
<1>14. CASE planner = "native" /\ \A w \in Worker :
              \/ k[w] = worker[w]
              \/ w \notin Engines /\ \E x \in Candidates(Profile) : k[w] = Loading(x)
  <2>1. ASSUME NEW w \in Worker PROVE Sound(k[w]) /\ NoBusier(worker[w], k[w])
    <3>1. CASE k[w] = worker[w]
      BY <1>4, <1>7, <3>1
    <3>2. CASE \E x \in Candidates(Profile) : k[w] = Loading(x)
      BY <1>14, <3>2, Started DEF NoBusier
    <3> QED
      BY <1>14, <3>1, <3>2
  <2> QED
    BY <1>8, <1>14, <2>1
<1>15. CASE planner # "native" /\ \E x \in Candidates(Profile) : \E n \in Worker \ Engines :
              /\ Startable(x) /\ k[n] = Loading(x)
              /\ \A w \in Worker \ {n} : k[w] = worker[w]
  <2>1. PICK x \in Candidates(Profile) : \E n \in Worker \ Engines :
          /\ Startable(x) /\ k[n] = Loading(x)
          /\ \A w \in Worker \ {n} : k[w] = worker[w]
    BY <1>15
  <2>2. PICK n \in Worker \ Engines : /\ Startable(x) /\ k[n] = Loading(x)
                                      /\ \A w \in Worker \ {n} : k[w] = worker[w]
    BY <2>1
  <2>3. ASSUME NEW w \in Worker PROVE Sound(k[w]) /\ NoBusier(worker[w], k[w])
    <3>1. CASE w = n
      <4>1. x.profile.kvcached
        BY <2>2 DEF Startable
      <4> QED
        BY <2>2, <3>1, <4>1, Started DEF NoBusier
    <3>2. CASE w # n
      BY <1>4, <1>7, <2>2, <3>2
    <3> QED
      BY <3>1, <3>2
  <2>4. ASSUME k \in Slots, NEW g \in Gpu PROVE Room(k, g)
    BY <1>15, <2>2, <2>4, RoomToStart
  <2> QED
    BY <1>8, <2>3, <2>4
<1>16. \/ \A w \in Worker : k[w] = worker[w]
       \/ planner = "cache" /\ \E S \in SUBSET Ready : \A w \in Worker :
            k[w] = IF w \in S THEN With(w, "OFFLOADING") ELSE worker[w]
       \/ \E S \in SUBSET Live : \A w \in Worker :
            k[w] = IF w \in S THEN With(w, "DRAINING") ELSE worker[w]
       \/ planner = "cache" /\ \E S : Wakeable(S) /\ \A w \in Worker :
            k[w] = IF w \in S THEN [With(w, "WAKING") EXCEPT !.parked = FALSE] ELSE worker[w]
       \/ planner = "native" /\ \A w \in Worker :
            \/ k[w] = worker[w]
            \/ w \notin Engines /\ \E x \in Candidates(Profile) : k[w] = Loading(x)
       \/ planner # "native" /\ \E x \in Candidates(Profile) : \E n \in Worker \ Engines :
            /\ Startable(x) /\ k[n] = Loading(x)
            /\ \A w \in Worker \ {n} : k[w] = worker[w]
  BY <1>1, <1>2, <1>5, Carried, Zenon
<1> QED
  BY <1>10, <1>11, <1>12, <1>13, <1>14, <1>15, <1>16

----------------------------------------------------------------------------
(* Theorems *)

LEMMA Inductive ==
  /\ Init => IInv
  /\ IInv /\ [Next]_vars => IInv'
<1>1. ASSUME IInv, Next PROVE IInv'
  <2>1. CASE \E clock \in Clock : Reconcile(clock)
    BY <1>1, <2>1, ReconcileKeeps
  <2>2. CASE Measure
    BY <1>1, <2>2, MeasureKeeps
  <2>3. CASE \E m \in Model : Route(m) \/ Enqueue(m) \/ Abandon(m) \/ WarmModelOnce(m)
    BY <1>1, <2>3, RouteKeeps, ClientsKeep
  <2>4. CASE \E w \in Worker : Proceed(w) \/ Fail(w) \/ Finish(w)
    BY <1>1, <2>4, ProceedKeeps, FailKeeps, FinishKeeps
  <2> QED
    BY <1>1, <2>1, <2>2, <2>3, <2>4 DEF Next
<1>2. ASSUME IInv, UNCHANGED vars PROVE IInv'
  BY <1>2 DEF vars, IInv, TypeOK, RequestsBounded, RoomOnGpus, OnlyCacheParks,
     WarmingIsUnasked, Requests, Load, Engines, Live, OfModel, Is
<1> QED
  BY <1>1, <1>2, InitIsSound

(* Every slot of the worker table holds an engine of one of the profiles, on *)
(* one of its GPU sets; no model is charged with more requests than there    *)
(* are; and the `offloaded' mark of an engine agrees with its state, also    *)
(* when its wake or its eviction was decided in between (runtime.py's loop). *)
THEOREM TypeCorrect == Spec => []TypeOK
<1>1. IInv => TypeOK
  BY DEF IInv
<1> QED
  BY <1>1, Inductive, PTL DEF Spec

(* Under both planners that share GPUs, for any profiles, reserve and        *)
(* limits: what the engines on a GPU may hold together never exceeds the     *)
(* strictest of their ceilings, although each placement is checked against a *)
(* view of the others that the following wakes, parks and failures change.   *)
(* A parked engine counts with no more than it had awake: nothing is assumed *)
(* of residuals, and nothing said of what one keeps beyond that.             *)
THEOREM MemoryIsEnough == Spec => []MemoryFits
<1>1. IInv => MemoryFits
  <2> SUFFICES ASSUME IInv PROVE MemoryFits
    OBVIOUS
  <2>1. worker \in Slots /\ RoomOnGpus
    BY Known DEF IInv
  <2> QED
    BY <2>1, RoomIsFit
<1> QED
  BY <1>1, Inductive, PTL DEF Spec

(* What WarmBeforeCold says of a step.                                       *)
LEMMA StartedIsColdest ==
  ASSUME IInv, Next, NEW m \in Model, NEW w \in Worker,
         Is(w, {"COLD"}), worker'[w].state = "LOADING", worker'[w].profile.model = m,
         measured[m] > 0, ReadyFor(m) = {}, NEW v \in OfModel(Live, m)
  PROVE  ~Is(v, {"SLEEPING"})
<1>1. worker \in Slots /\ worker[w].state = "COLD"
  BY Known DEF Is
<1>2. CASE planner # "cache"
  <2>1. v \in Engines
    BY DEF OfModel, Live, Engines, Is
  <2> QED
    BY <1>2, <2>1 DEF IInv, OnlyCacheParks, Is
<1>3. CASE planner = "cache"
  <2>1. ASSUME NEW u \in Worker, u # w, NEW y, worker' = [worker EXCEPT ![u] = y]
        PROVE  FALSE
    <3>1. worker'[w] = worker[w]
      BY <1>1, <2>1 DEF Slots
    <3> QED
      BY <1>1, <3>1
  <2>2. CASE \E clock \in Clock : Reconcile(clock)
    <3>1. PICK clock \in Clock : Reconcile(clock)
      BY <2>2
    <3>2. PICK d \in Decisions(clock) : CarryOut(d)
      BY <3>1 DEF Reconcile
    <3>3. Decided(d)
      BY <3>2, PlanDecides
    <3>4. PICK k : k = worker'
      OBVIOUS
    <3>5. \/ \A u \in Worker : k[u] = worker[u]
          \/ \E S \in SUBSET Ready : \A u \in Worker :
               k[u] = IF u \in S THEN With(u, "OFFLOADING") ELSE worker[u]
          \/ \E S \in SUBSET Live : \A u \in Worker :
               k[u] = IF u \in S THEN With(u, "DRAINING") ELSE worker[u]
          \/ \E S : Wakeable(S) /\ \A u \in Worker :
               k[u] = IF u \in S THEN [With(u, "WAKING") EXCEPT !.parked = FALSE] ELSE worker[u]
          \/ \E x \in Candidates(Profile) : \E n \in Worker \ Engines :
               /\ Startable(x) /\ k[n] = Loading(x)
               /\ \A u \in Worker \ {n} : k[u] = worker[u]
      BY <1>3, <3>2, <3>3, <3>4, Carried, Zenon
    <3>6. w \notin Ready /\ w \notin Live /\ \A S : Wakeable(S) => w \notin S
      BY <1>1 DEF Ready, Live, Wakeable, Range, Is
    <3>7. PICK x \in Candidates(Profile) : \E n \in Worker \ Engines :
               /\ Startable(x) /\ k[n] = Loading(x)
               /\ \A u \in Worker \ {n} : k[u] = worker[u]
      <4>1. k[w] # worker[w]
        BY <1>1, <3>4
      <4> QED
        BY <3>5, <3>6, <4>1
    <3>8. Startable(x) /\ k[w] = Loading(x)
      BY <1>1, <3>4, <3>7
    <3>9. x.profile.model = m
      BY <3>4, <3>8 DEF Loading
    <3> QED
      BY <1>3, <3>8, <3>9 DEF Startable
  <2>3. CASE \E n \in Model : Route(n)
    <3>1. PICK n \in Model : Route(n)
      BY <2>3
    <3>2. PICK u \in ReadyFor(n) :
            worker' = [worker EXCEPT ![u] = [worker[u] EXCEPT !.load = @ + 1]]
      BY <3>1 DEF Route
    <3>3. u \in Worker /\ u # w
      BY <1>1, <3>2 DEF ReadyFor, OfModel, Live, Is
    <3> QED
      BY <2>1, <3>2, <3>3
  <2>4. CASE \E u \in Worker : Proceed(u) \/ Fail(u) \/ Finish(u)
    <3>1. PICK u \in Worker : Proceed(u) \/ Fail(u) \/ Finish(u)
      BY <2>4
    <3>2. u # w
      BY <1>1, <3>1 DEF Proceed, Fail, Finish, Live, Is
    <3>3. \E y : worker' = [worker EXCEPT ![u] = y]
      BY <3>1 DEF Proceed, Fail, Finish
    <3> QED
      BY <2>1, <3>2, <3>3
  <2>5. CASE Measure \/ \E n \in Model : Enqueue(n) \/ Abandon(n) \/ WarmModelOnce(n)
    <3>1. worker' = worker
      BY <2>5 DEF Measure, Enqueue, Abandon, WarmModelOnce
    <3> QED
      BY <1>1, <3>1
  <2> QED
    BY <2>2, <2>3, <2>4, <2>5 DEF Next
<1> QED
  BY <1>2, <1>3

(* For any fleet: no step of the scheduler starts an engine for the requests *)
(* of a model while one of its engines is parked and none is READY           *)
(* (planner.py, _plan_cached): the decision taken for whichever model comes  *)
(* first never skips the parked workers of the model it is for.              *)
THEOREM ParkedBeforeStarted == Spec => WarmBeforeCold
<1> DEFINE Warm == \A m \in Model :
      (\E w \in Worker : Is(w, {"COLD"}) /\ worker'[w].state = "LOADING"
                         /\ worker'[w].profile.model = m)
      /\ measured[m] > 0 /\ ReadyFor(m) = {}
      => \A w \in OfModel(Live, m) : ~Is(w, {"SLEEPING"})
<1>1. IInv /\ [Next]_vars => [Warm]_vars
  BY StartedIsColdest
<1>2. WarmBeforeCold <=> [][Warm]_vars
  BY DEF WarmBeforeCold
<1> QED
  BY <1>1, <1>2, Inductive, PTL DEF Spec
=============================================================================
