------------------------------ MODULE FairQueue ------------------------------
(***************************************************************************)
(* The admission queue of one model (queueing.py): deficit round robin     *)
(* over tenants.  pop() visits the tenants in turn, each visit adds the    *)
(* quantum to the tenant's deficit, and the first head request that its    *)
(* tenant's deficit covers is taken.                                       *)
(*                                                                         *)
(* No method awaits anything, so each is one action.  pop()'s loop is      *)
(* given by the round and the place at which it returns.  overtaken is a   *)
(* history variable: it observes the queue and changes nothing.            *)
(***************************************************************************)
EXTENDS Integers, FiniteSets, SequencesExt

CONSTANTS
  Tenant,          \* quota accounts
  Request,         \* request ids
  Cost,            \* estimated tokens
  Quantum,
  TotalCapacity,
  TenantCapacity,
  MaxDeficit       \* bound of the model: deficits have none in the code

ASSUME QueueAssumption ==
  /\ Cost \subseteq Nat \ {0}
  /\ Quantum \in Nat \ {0}
  /\ TotalCapacity \in Nat \ {0} /\ TenantCapacity \in Nat \ {0}
  /\ MaxDeficit \in Nat

VARIABLES
  order,     \* the keys of _queues, in order
  line,      \* the requests of each tenant; an absent key is an empty line
  deficit,   \* _deficits; an absent key is 0
  size,      \* _size
  overtaken  \* how often u was served while t's head request was its head

vars == <<order, line, deficit, size, overtaken>>

Entry == [id : Request, cost : Cost]

Ids(t) == {line[t][i].id : i \in DOMAIN line[t]}

None == [u \in Tenant |-> 0]

(* Visits of one tenant until a head request of this cost is covered.        *)
Rounds(cost) == (cost + Quantum - 1) \div Quantum

----------------------------------------------------------------------------
(* put(); what exceeds a capacity is refused without a trace.                *)
Put(t, r, cost) ==
  /\ \A u \in Tenant : r \notin Ids(u)
  /\ size < TotalCapacity /\ Len(line[t]) < TenantCapacity
  /\ order' = IF line[t] = <<>> THEN Append(order, t) ELSE order
  /\ line' = [line EXCEPT ![t] = Append(@, [id |-> r, cost |-> cost])]
  /\ size' = size + 1
  /\ overtaken' = IF line[t] = <<>> THEN [overtaken EXCEPT ![t] = None] ELSE overtaken
  /\ UNCHANGED deficit

(* How often a tenant is visited until its head request is covered.          *)
Visits(t) ==
  LET cost == Head(line[t]).cost
  IN Min({n \in 1 .. Rounds(cost) : cost <= deficit[t] + n * Quantum})

(* The round in which pop() returns, and the place of the tenant it serves.  *)
LastRound == Min({Visits(t) : t \in Range(order)})

LastPlace == Min({i \in DOMAIN order : Visits(order[i]) = LastRound})

(* Mutant: tenants that are passed over go to the end without their quantum. *)
MutCredit(i) ==
  IF i = LastPlace THEN LastRound * Quantum ELSE 0

(* What the visits add to the deficit of the tenant at a place.              *)
Credit(i) ==
  IF i <= LastPlace THEN LastRound * Quantum ELSE (LastRound - 1) * Quantum

Credited(u) ==
  IF u \in Range(order) THEN deficit[u] + Credit(CHOOSE i \in DOMAIN order : order[i] = u)
  ELSE deficit[u]

(* The tenants visited go to the end, the one served last of all if it has   *)
(* more requests.                                                            *)
Rotated(i, more) ==
  SubSeq(order, i + 1, Len(order)) \o SubSeq(order, 1, IF more THEN i ELSE i - 1)

(* Mutant: a tenant without requests keeps its deficit. *)
MutPop ==
  /\ order # <<>>
  /\ LET t == order[LastPlace]
         more == Len(line[t]) > 1
     IN /\ \A u \in Tenant : Credited(u) <= MaxDeficit
        /\ line' = [line EXCEPT ![t] = Tail(@)]
        /\ deficit' = [u \in Tenant |->
                         IF u = t THEN Credited(u) - Head(line[t]).cost ELSE Credited(u)]
        /\ order' = Rotated(LastPlace, more)
        /\ size' = size - 1
        /\ UNCHANGED overtaken

(* pop() of a queue that is not empty.  The first conjunct on deficits only  *)
(* bounds the model.                                                         *)
Pop ==
  /\ order # <<>>
  /\ LET t == order[LastPlace]
         more == Len(line[t]) > 1
     IN /\ \A u \in Tenant : Credited(u) <= MaxDeficit
        /\ line' = [line EXCEPT ![t] = Tail(@)]
        /\ deficit' = [u \in Tenant |->
                         IF u # t THEN Credited(u)
                         ELSE IF more THEN Credited(u) - Head(line[t]).cost ELSE 0]
        /\ order' = Rotated(LastPlace, more)
        /\ size' = size - 1
        /\ overtaken' = [u \in Tenant |->
                           IF u = t THEN None
                           ELSE IF u \in Range(order) THEN [overtaken[u] EXCEPT ![t] = @ + 1]
                           ELSE overtaken[u]]

(* remove(), when a client gives up.                                         *)
RemoveRequest(r) ==
  \E t \in Tenant : \E i \in DOMAIN line[t] :
    /\ line[t][i].id = r
    /\ line' = [line EXCEPT ![t] = RemoveAt(@, i)]
    /\ IF Len(line[t]) = 1
       THEN /\ order' = RemoveAt(order, CHOOSE j \in DOMAIN order : order[j] = t)
            /\ deficit' = [deficit EXCEPT ![t] = 0]
       ELSE UNCHANGED <<order, deficit>>
    /\ size' = size - 1
    /\ overtaken' = IF i = 1 THEN [overtaken EXCEPT ![t] = None] ELSE overtaken

(* Mutant: the counter is not reset. *)
MutDrain ==
  /\ order # <<>>
  /\ order' = <<>>
  /\ line' = [t \in Tenant |-> <<>>]
  /\ deficit' = None
  /\ overtaken' = [t \in Tenant |-> None]
  /\ UNCHANGED size

(* drain(), when maintenance begins.                                         *)
Drain ==
  /\ order # <<>>
  /\ order' = <<>>
  /\ line' = [t \in Tenant |-> <<>>]
  /\ deficit' = None
  /\ size' = 0
  /\ overtaken' = [t \in Tenant |-> None]

----------------------------------------------------------------------------
Init ==
  /\ order = <<>>
  /\ line = [t \in Tenant |-> <<>>]
  /\ deficit = None
  /\ size = 0
  /\ overtaken = [t \in Tenant |-> None]

Next ==
  \/ \E t \in Tenant, r \in Request, cost \in Cost : Put(t, r, cost)
  \/ Pop
  \/ \E r \in Request : RemoveRequest(r)
  \/ Drain

Spec == Init /\ [][Next]_vars

----------------------------------------------------------------------------
(* Properties *)

(* In particular the counter of requests is their number, so that neither    *)
(* capacity is exceeded nor is a free place refused.                         *)
TypeOK ==
  /\ order \in Seq(Tenant)
  /\ line \in [Tenant -> Seq(Entry)]
  /\ deficit \in [Tenant -> 0..MaxDeficit]
  /\ size = SumFunctionOnSet([t \in Tenant |-> Len(line[t])], Range(order))
  /\ size <= TotalCapacity /\ \A t \in Tenant : Len(line[t]) <= TenantCapacity
  /\ overtaken \in [Tenant -> [Tenant -> Nat]]

(* The tenants with requests take turns, each has one turn a round, and the  *)
(* others collect no deficit: pop() never meets an empty line, and nobody    *)
(* saves up while he asks for nothing.                                       *)
TurnsAreForWaiting ==
  /\ Range(order) = {t \in Tenant : line[t] # <<>>}
  /\ \A i, j \in DOMAIN order : order[i] = order[j] => i = j
  /\ \A t \in Tenant \ Range(order) : deficit[t] = 0

(* "A request becomes eligible within at most ceil(cost / quantum) rounds":  *)
(* however large the deficits of the others, while a request is the head of  *)
(* its line no other tenant is served more often than that, whatever is put  *)
(* and removed meanwhile.                                                    *)
BoundedOvertaking ==
  \A t \in Range(order), u \in Tenant : overtaken[t][u] <= Rounds(Head(line[t]).cost)
=============================================================================
