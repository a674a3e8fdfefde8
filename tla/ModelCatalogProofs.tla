------------------------- MODULE ModelCatalogProofs -------------------------
(***************************************************************************)
(* Machine-checked theorems about ModelCatalog: for any number of models,  *)
(* candidate shapes, hosts, registrations and retries at a time.            *)
(***************************************************************************)
EXTENDS ModelCatalog, SetTheorems

----------------------------------------------------------------------------
(* The inductive invariant.  The properties are not inductive by themselves: *)
(* that a clone's limit is that of its own rows needs RowsAreKnown, that it  *)
(* has a row and a local one needs CloneIsLocal, that the probe lock is let  *)
(* go needs OneProber and CandidateLeft, and that only the weight cache makes*)
(* a task outlive its job needs WarmingIsCached.                             *)

(* _validation_lock has one holder.                                          *)
OneProber == \A m, n \in prober : m = n

(* There is a candidate to probe.                                            *)
CandidateLeft == \A m \in Model : task[m] \in {"lock", "probing"} => todo[m] # {}

WarmingIsCached == \A m \in Model : task[m] = "warming" => weightCache

(* Profiles belong to models of the catalog.                                 *)
RowsAreKnown == \A p \in stored : catalog[p.model] # "ABSENT"

CloneIsLocal ==
  clone # NoClone => clone.rows # {} /\ \A p \in clone.rows : p.machine = machine

CatalogInv ==
  /\ CatalogTypeOK
  /\ OneProber
  /\ CandidateLeft
  /\ WarmingIsCached
  /\ RowsAreKnown
  /\ CloneIsLocal

(* The length a non-empty set of profiles is limited to is one of theirs.    *)
LEMMA ShortestIsContext ==
  ASSUME NEW P, P # {}, \A p \in P : p.len \in Context
  PROVE  Shortest(P) \in Context
<1> DEFINE T == {p.len : p \in P}
<1>1. T \subseteq Context /\ T \subseteq Nat /\ T # {}
  BY CatalogAssumption
<1>2. Min(T) \in T
  BY <1>1, MinIsLeast
<1> QED
  BY <1>1, <1>2 DEF Shortest

(* An edited profile is one of the same model and host.                      *)
LEMMA EditedProfile ==
  ASSUME NEW p \in Profile, NEW shape \in Shape, NEW len \in Context
  PROVE  LET q == [p EXCEPT !.shape = shape, !.len = len]
         IN q \in Profile /\ q.model = p.model /\ q.machine = p.machine
BY DEF Profile

(* The rows made of validated profiles are of their model and this host.     *)
LEMMA MeasuredRows ==
  ASSUME NEW m \in Model, NEW M \in Machine,
         NEW S, S \subseteq [shape : Shape, len : Context], S # {}
  PROVE  LET rows == {[model |-> m, machine |-> M, shape |-> p.shape, len |-> p.len] : p \in S}
         IN rows # {} /\ rows \subseteq Profile /\ \A p \in rows : p.model = m /\ p.machine = M
<1> DEFINE Row(p) == [model |-> m, machine |-> M, shape |-> p.shape, len |-> p.len]
<1>1. ASSUME NEW p \in S
      PROVE  Row(p) \in Profile /\ Row(p).model = m /\ Row(p).machine = M
  BY DEF Profile
<1> HIDE DEF Row
<1>2. LET rows == {Row(p) : p \in S}
      IN rows # {} /\ rows \subseteq Profile /\ \A p \in rows : p.model = m /\ p.machine = M
  BY <1>1
<1> QED
  BY <1>2 DEF Row

(* What clone_model() reads: there are rows, of this host.                   *)
LEMMA ExtendedRows ==
  ASSUME NEW lens \in {{}} \cup {{len} : len \in Context},
         NEW P, P \subseteq Profile, P # {}, \A p \in P : p.machine = machine
  PROVE  LET rows == {Extended(p, lens) : p \in P}
         IN rows # {} /\ rows \subseteq Profile /\ \A p \in rows : p.machine = machine
<1>1. lens # {} => Min(lens) \in Context
  BY MinIsLeast, CatalogAssumption
<1>2. ASSUME NEW p \in P
      PROVE  Extended(p, lens) \in Profile /\ Extended(p, lens).machine = machine
  <2>1. p \in Profile /\ p.machine = machine
    OBVIOUS
  <2>2. CASE lens = {}
    BY <2>1, <2>2 DEF Extended
  <2>3. CASE lens # {}
    <3>1. Extended(p, lens) = [p EXCEPT !.len = Min(lens)]
      BY <2>3 DEF Extended
    <3>2. Min(lens) \in Context
      BY <1>1, <2>3
    <3> QED
      BY <2>1, <3>1, <3>2 DEF Profile
  <2> QED
    BY <2>2, <2>3
<1> QED
  BY <1>2

(* What clone_model() inserts: rows of the new model, of this host.          *)
LEMMA CopiedRows ==
  ASSUME NEW n \in Model, clone.rows # {}, clone.rows \subseteq Profile
  PROVE  /\ Copies(n) # {} /\ Copies(n) \subseteq Profile
         /\ \A p \in Copies(n) : p.model = n
         /\ (\A p \in clone.rows : p.machine = machine)
              => \A p \in Copies(n) : p.machine = machine
<1> DEFINE Copy(p) == [p EXCEPT !.model = n]
<1>1. ASSUME NEW p \in clone.rows
      PROVE  Copy(p) \in Profile /\ Copy(p).model = n /\ Copy(p).machine = p.machine
  BY DEF Profile
<1>2. Copies(n) = {Copy(p) : p \in clone.rows}
  BY DEF Copies
<1> HIDE DEF Copy
<1> QED
  BY <1>1, <1>2

(* A limit that follows the active profiles is a context length or 0.        *)
LEMMA RelimitType ==
  ASSUME limit \in [Model -> Context \cup {0}], active' \subseteq Profile,
         NEW m \in Model, Relimit(m)
  PROVE  limit' \in [Model -> Context \cup {0}]
<1>1. CASE Here(active', m) = {}
  BY <1>1 DEF Relimit
<1>2. CASE Here(active', m) # {}
  <2>1. \A p \in Here(active', m) : p.len \in Context
    BY DEF Here, Profile
  <2>2. Shortest(Here(active', m)) \in Context
    BY <1>2, <2>1, ShortestIsContext
  <2> QED
    BY <1>2, <2>2 DEF Relimit
<1> QED
  BY <1>1, <1>2

(* What a job that ends well inserts.                                        *)
LEMMA CompletedRows ==
  ASSUME CatalogTypeOK, NEW m \in Model, found[m] # {}
  PROVE  LET rows == {[model |-> m, machine |-> machine, shape |-> p.shape, len |-> p.len] :
                        p \in found[m]}
         IN rows # {} /\ rows \subseteq Profile /\ \A p \in rows : p.model = m /\ p.machine = machine
<1>1. found[m] \subseteq [shape : Shape, len : Context] /\ machine \in Machine
  BY DEF CatalogTypeOK
<1> QED
  BY <1>1, MeasuredRows

(* Every step keeps the inductive invariant.                                 *)
LEMMA CatalogInvStep == CatalogInv /\ [CatalogNext]_catalogVars => CatalogInv'
<1> SUFFICES ASSUME CatalogInv, [CatalogNext]_catalogVars PROVE CatalogInv'
  OBVIOUS
<1> USE DEF CatalogInv, CatalogTypeOK, OneProber, CandidateLeft, WarmingIsCached,
    RowsAreKnown, CloneIsLocal, CatalogState, JobState, ValidationStage, Stage,
    TaskPc, Profile, hostVars, rowVars, profileVars, taskVars, handlerVars, historyVars,
    Commit, Goto
<1>1. ASSUME NEW h \in Handler, NEW m \in Model, RegisterModel(h, m) PROVE CatalogInv'
  BY <1>1 DEF RegisterModel, Does
<1>2. ASSUME NEW m \in Model, Advance(m) PROVE CatalogInv'
  BY <1>2, SMTT(30) DEF Advance, CandidateShapes
<1>3. ASSUME NEW m \in Model, Lock(m) PROVE CatalogInv'
  BY <1>3 DEF Lock
<1>4. ASSUME NEW m \in Model, Probed(m) PROVE CatalogInv'
  <2>1. Min(todo[m]) \in Shape
    BY <1>4, MinIsLeast, CatalogAssumption DEF Probed
  <2> QED
    BY <1>4, <2>1 DEF Probed
<1>5. ASSUME NEW m \in Model, Preempted(m) PROVE CatalogInv'
  BY <1>5 DEF Preempted
<1>6. ASSUME NEW m \in Model, Complete(m) PROVE CatalogInv'
  <2> DEFINE rows == {[model |-> m, machine |-> machine, shape |-> p.shape, len |-> p.len] :
                        p \in found[m]}
  <2>1. rows # {} /\ rows \subseteq Profile /\ \A p \in rows : p.model = m
    <3> HIDE DEF Profile, CatalogTypeOK
    <3>1. CatalogTypeOK /\ found[m] # {}
      BY <1>6 DEF Complete
    <3> QED
      BY <3>1, CompletedRows
  <2> HIDE DEF rows
  <2>2. Shortest(rows) \in Context
    <3> HIDE DEF CatalogInv, CatalogTypeOK
    <3>1. \A p \in rows : p.len \in Context
      BY <2>1 DEF Profile
    <3> QED
      BY ONLY <2>1, <3>1, ShortestIsContext
  <2> QED
    BY <1>6, <2>1, <2>2 DEF Complete, Forget, rows
<1>7. ASSUME NEW m \in Model, Warmed(m) PROVE CatalogInv'
  BY <1>7 DEF Warmed
<1>8. ASSUME NEW m \in Model, Fail(m) PROVE CatalogInv'
  BY <1>8 DEF Fail, Forget
<1>9. ASSUME NEW m \in Model, DisableModel(m) PROVE CatalogInv'
  BY <1>9 DEF DisableModel
<1>10. ASSUME NEW h \in Handler, NEW m \in Model, RetryCheck(h, m) PROVE CatalogInv'
  BY <1>10 DEF RetryCheck, Does
<1>11. ASSUME NEW h \in Handler, NEW m \in Model, RetryCommit(h, m) PROVE CatalogInv'
  BY <1>11 DEF RetryCommit, Does
<1>12. ASSUME NEW h \in Handler, NEW m \in Model, Start(h, m) PROVE CatalogInv'
  BY <1>12 DEF Start
<1>13. ASSUME NEW p \in stored, NEW on \in BOOLEAN, SetActive(p, on) PROVE CatalogInv'
  <2>1. p \in Profile /\ active' \subseteq stored /\ active' \subseteq Profile
    BY <1>13 DEF SetActive
  <2>2. limit' \in [Model -> Context \cup {0}]
    BY <1>13, <2>1, RelimitType DEF SetActive
  <2> QED
    BY <1>13, <2>1, <2>2 DEF SetActive
<1>14. ASSUME NEW p \in stored, NEW shape \in Shape, NEW len \in Context,
              NEW default \in BOOLEAN, UpdateProfile(p, shape, len, default)
       PROVE  CatalogInv'
  <2> DEFINE q == [p EXCEPT !.shape = shape, !.len = len]
  <2>1. p \in Profile /\ q \in Profile /\ q.model = p.model /\ p.model \in Model
    <3>1. p \in Profile
      OBVIOUS
    <3>2. q \in Profile /\ q.model = p.model
      BY <3>1, EditedProfile
    <3> QED
      BY <3>1, <3>2
  <2> HIDE DEF q
  <2>2. active' \subseteq stored' /\ stored' \subseteq Profile
        /\ stored' = (stored \ {p}) \cup {q}
    <3>1. /\ stored' = (stored \ {p}) \cup {q}
          /\ active' = IF default THEN (active \ Here(active, p.model)) \cup {q}
                       ELSE IF p \in active THEN (active \ {p}) \cup {q}
                       ELSE active
          /\ p.machine = machine
      BY <1>14 DEF UpdateProfile, Save, Edited, q
    <3>2. default /\ p \in active => p \in Here(active, p.model)
      BY <3>1 DEF Here
    <3>3. active' \subseteq stored'
      BY <3>1, <3>2
    <3> QED
      BY <2>1, <3>1, <3>3
  <2>3. limit' \in [Model -> Context \cup {0}]
    BY <1>14, <2>1, <2>2, RelimitType DEF UpdateProfile, Save, Edited
  <2> QED
    BY <1>14, <2>1, <2>2, <2>3 DEF UpdateProfile, Save, Edited
<1>15. ASSUME NEW m \in Model, NEW lens \in {{}} \cup {{len} : len \in Context},
              CloneRead(m, lens)
       PROVE  CatalogInv'
  <2> DEFINE rows == {Extended(p, lens) : p \in Here(active, m)}
             equal == \E p, q \in Here(active, m) :
                        p # q /\ Extended(p, lens) = Extended(q, lens)
  <2>1. rows \subseteq Profile /\ rows # {} /\ \A p \in rows : p.machine = machine
    <3>1. Here(active, m) \subseteq Profile /\ Here(active, m) # {}
          /\ \A p \in Here(active, m) : p.machine = machine
      BY <1>15 DEF CloneRead, Here
    <3> QED
      BY <3>1, ExtendedRows
  <2>2. clone' = [rows |-> rows, equal |-> equal]
    BY <1>15 DEF CloneRead
  <2>3. equal \in BOOLEAN
    OBVIOUS
  <2> HIDE DEF rows, equal
  <2>4. clone' \in [rows : SUBSET Profile, equal : BOOLEAN]
    BY <2>1, <2>2, <2>3
  <2>5. clone'.rows = rows
    BY <2>2
  <2> QED
    BY <1>15, <2>1, <2>4, <2>5 DEF CloneRead
<1>16. ASSUME NEW n \in Model, CloneInsert(n) PROVE CatalogInv'
  <2>1. Copies(n) # {} /\ Copies(n) \subseteq Profile /\ \A p \in Copies(n) : p.model = n
    BY <1>16, CopiedRows DEF CloneInsert
  <2>2. Shortest(Copies(n)) \in Context
    BY <2>1, ShortestIsContext
  <2>3. clone' = NoClone /\ NoClone \in [rows : SUBSET Profile, equal : BOOLEAN]
    BY <1>16 DEF CloneInsert, NoClone
  <2>4. CASE clone.equal
    BY <1>16, <2>3, <2>4 DEF CloneInsert
  <2>5. CASE ~clone.equal
    BY <1>16, <2>1, <2>2, <2>3, <2>5 DEF CloneInsert
  <2> QED
    BY <2>4, <2>5
<1>17. ASSUME NEW host \in Machine, Restart(host) PROVE CatalogInv'
  <2>1. clone' = NoClone /\ NoClone \in [rows : SUBSET Profile, equal : BOOLEAN]
    BY <1>17 DEF Restart, NoClone
  <2>2. active' \subseteq stored
    BY <1>17 DEF Restart, StillValid
  <2> QED
    BY <1>17, <2>1, <2>2 DEF Restart, Idle
<1>18. ASSUME NEW h \in Handler, NEW m \in Model, HandlerLost(h, m) PROVE CatalogInv'
  BY <1>18 DEF HandlerLost
<1>19. CASE UNCHANGED catalogVars
  BY <1>19 DEF catalogVars
<1> HIDE DEF CatalogInv, hostVars, rowVars, profileVars, taskVars, handlerVars, historyVars,
         Commit, Goto
<1> QED
  BY <1>1, <1>2, <1>3, <1>4, <1>5, <1>6, <1>7, <1>8, <1>9, <1>10, <1>11, <1>12,
     <1>13, <1>14, <1>15, <1>16, <1>17, <1>18, <1>19 DEF CatalogNext, TaskStep

(* The tables are empty when the service first starts.                       *)
LEMMA CatalogInvInit == CatalogInit => CatalogInv
BY DEF CatalogInit, CatalogInv, CatalogTypeOK, OneProber, CandidateLeft, WarmingIsCached,
   RowsAreKnown, CloneIsLocal, CatalogState, JobState, Stage, TaskPc, NoClone, Idle

(* The inductive invariant holds in every reachable state.                   *)
LEMMA CatalogInvHolds == CatalogSpec => []CatalogInv
BY CatalogInvInit, CatalogInvStep, PTL DEF CatalogSpec

(* The types of the three tables and of the tasks' locals, that active       *)
(* profiles are on record, and that the probe lock is held exactly while a   *)
(* task probes, whatever preempts, fails or restarts it.                     *)
THEOREM CatalogTypeCorrect == CatalogSpec => []CatalogTypeOK
<1>1. CatalogInv => CatalogTypeOK
  BY DEF CatalogInv
<1> QED
  BY <1>1, CatalogInvHolds, PTL

----------------------------------------------------------------------------
(* An engine is never placed by what another host measured.                  *)
THEOREM OnlyLocalProfiles == CatalogSpec => []ProfilesAreLocal
<1>1. CatalogInit => ProfilesAreLocal
  BY DEF CatalogInit, ProfilesAreLocal
<1>2. CatalogInv /\ ProfilesAreLocal /\ [CatalogNext]_catalogVars => ProfilesAreLocal'
  <2> SUFFICES ASSUME CatalogInv, ProfilesAreLocal, [CatalogNext]_catalogVars
               PROVE  ProfilesAreLocal'
    OBVIOUS
  <2>0. CatalogTypeOK /\ CloneIsLocal
    BY DEF CatalogInv
  <2>1. ASSUME NEW m \in Model, Complete(m) PROVE ProfilesAreLocal'
    <3> DEFINE rows == {[model |-> m, machine |-> machine, shape |-> p.shape, len |-> p.len] :
                          p \in found[m]}
    <3>1. \A p \in rows : p.machine = machine
      OBVIOUS
    <3>2. active' \subseteq active \cup rows /\ machine' = machine
      BY <2>1 DEF Complete, hostVars
    <3> HIDE DEF rows
    <3> QED
      BY <3>1, <3>2 DEF ProfilesAreLocal
  <2>2. ASSUME NEW p \in stored, NEW on \in BOOLEAN, SetActive(p, on) PROVE ProfilesAreLocal'
    BY <2>2 DEF SetActive, ProfilesAreLocal, hostVars
  <2>3. ASSUME NEW p \in stored, NEW shape \in Shape, NEW len \in Context,
               NEW default \in BOOLEAN, UpdateProfile(p, shape, len, default)
        PROVE  ProfilesAreLocal'
    <3> DEFINE q == [p EXCEPT !.shape = shape, !.len = len]
    <3>1. p \in Profile /\ p.machine = machine
      BY <2>0, <2>3 DEF CatalogTypeOK, UpdateProfile, Save, Edited
    <3>2. q.machine = machine
      BY <3>1, EditedProfile
    <3>3. active' \subseteq active \cup {q} /\ machine' = machine
      BY <2>3 DEF UpdateProfile, Save, Edited, hostVars
    <3> HIDE DEF q
    <3> QED
      BY <3>2, <3>3 DEF ProfilesAreLocal
  <2>4. ASSUME NEW n \in Model, CloneInsert(n) PROVE ProfilesAreLocal'
    <3>1. \A p \in Copies(n) : p.machine = machine
      BY <2>0, <2>4, CopiedRows DEF CatalogTypeOK, CloneInsert, CloneIsLocal
    <3>2. active' \subseteq active \cup Copies(n) /\ machine' = machine
      BY <2>4 DEF CloneInsert, hostVars, profileVars
    <3> QED
      BY <3>1, <3>2 DEF ProfilesAreLocal
  <2>5. ASSUME NEW host \in Machine, Restart(host) PROVE ProfilesAreLocal'
    BY <2>5 DEF Restart, StillValid, ProfilesAreLocal
  <2>6. CASE UNCHANGED <<active, machine>>
    BY <2>6 DEF ProfilesAreLocal
  <2> QED
    BY <2>1, <2>2, <2>3, <2>4, <2>5, <2>6
    DEF CatalogNext, TaskStep, catalogVars, hostVars, profileVars, RegisterModel, Advance, Lock,
        Probed, Preempted, Warmed, Fail, DisableModel, RetryCheck, RetryCommit, Start, HandlerLost,
        CloneRead
<1> QED
  BY <1>1, <1>2, CatalogInvHolds, PTL DEF CatalogSpec

(* No client is offered a model without a profile on record, be it           *)
(* registered, retried, disabled, cloned or edited.                          *)
THEOREM OfferedModelsAreValidated == CatalogSpec => []AvailableIsValidated
<1>1. CatalogInit => AvailableIsValidated
  BY DEF CatalogInit, AvailableIsValidated
<1>2. CatalogInv /\ AvailableIsValidated /\ [CatalogNext]_catalogVars => AvailableIsValidated'
  <2> SUFFICES ASSUME CatalogInv, AvailableIsValidated, [CatalogNext]_catalogVars
               PROVE  AvailableIsValidated'
    OBVIOUS
  <2>0. CatalogTypeOK /\ CloneIsLocal
    BY DEF CatalogInv
  <2>1. ASSUME NEW m \in Model, Complete(m) PROVE AvailableIsValidated'
    <3> DEFINE rows == {[model |-> m, machine |-> machine, shape |-> p.shape, len |-> p.len] :
                          p \in found[m]}
    <3>1. rows # {} /\ \A p \in rows : p.model = m
      BY <2>0, <2>1, CompletedRows DEF Complete
    <3>2. stored' = stored \cup rows /\ catalog' = [catalog EXCEPT ![m] = "AVAILABLE"]
      BY <2>1 DEF Complete, Commit
    <3> HIDE DEF rows
    <3> QED
      BY <2>0, <3>1, <3>2 DEF AvailableIsValidated, CatalogTypeOK
  <2>2. ASSUME NEW p \in stored, NEW shape \in Shape, NEW len \in Context,
               NEW default \in BOOLEAN, UpdateProfile(p, shape, len, default)
        PROVE  AvailableIsValidated'
    <3> DEFINE q == [p EXCEPT !.shape = shape, !.len = len]
    <3>1. p \in Profile
      BY <2>0 DEF CatalogTypeOK
    <3>2. q.model = p.model
      BY <3>1, EditedProfile
    <3>3. stored' = (stored \ {p}) \cup {q} /\ catalog' = catalog
      BY <2>2 DEF UpdateProfile, Save, Edited, rowVars
    <3> HIDE DEF q
    <3> QED
      BY <3>2, <3>3 DEF AvailableIsValidated
  <2>3. ASSUME NEW n \in Model, CloneInsert(n) PROVE AvailableIsValidated'
    <3>1. Copies(n) # {} /\ \A p \in Copies(n) : p.model = n
      BY <2>0, <2>3, CopiedRows DEF CatalogTypeOK, CloneInsert, CloneIsLocal
    <3> QED
      BY <2>0, <2>3, <3>1 DEF CloneInsert, AvailableIsValidated, CatalogTypeOK, profileVars
  <2>4. CASE stored' = stored /\ \A m \in Model : catalog'[m] = "AVAILABLE" => catalog[m] = "AVAILABLE"
    BY <2>4 DEF AvailableIsValidated
  <2>5. ASSUME NEW m \in Model, Advance(m) \/ Preempted(m) \/ Fail(m) \/ DisableModel(m)
        PROVE  AvailableIsValidated'
    BY <2>0, <2>4, <2>5 DEF CatalogTypeOK, Advance, Preempted, Fail, DisableModel, Commit,
       rowVars, profileVars
  <2>6. ASSUME NEW h \in Handler, NEW m \in Model, RegisterModel(h, m) \/ RetryCommit(h, m)
        PROVE  AvailableIsValidated'
    BY <2>0, <2>4, <2>6 DEF CatalogTypeOK, RegisterModel, RetryCommit, Commit, profileVars
  <2>7. CASE UNCHANGED <<stored, catalog>>
    BY <2>7 DEF AvailableIsValidated
  <2> QED
    BY <2>1, <2>2, <2>3, <2>5, <2>6, <2>7
    DEF CatalogNext, TaskStep, catalogVars, rowVars, profileVars, Lock, Probed, Warmed,
        RetryCheck, Start, HandlerLost, SetActive, CloneRead, Restart
<1> QED
  BY <1>1, <1>2, CatalogInvHolds, PTL DEF CatalogSpec

(* The warming is the last thing a task does, so that a job may not rest on  *)
(* it: that is what is inductive about JobIsRun.                             *)
Started(m) == \E h \in Handler : handler[h] = [step |-> "start", model |-> m]

NotLeftToTheWarming ==
  \A m \in Model :
    job[m] \in {"QUEUED", "RUNNING"} =>
      \/ task[m] \notin {"none", "warming"}
      \/ Started(m)
      \/ m \in broken
      \/ weightCache /\ m \in missed

(* A handler that is about to do something starts nothing yet, and one that  *)
(* is done with model m leaves the starts of the others alone.               *)
LEMMA StartsOfOthers ==
  ASSUME CatalogTypeOK, NEW h \in Handler, NEW m \in Model, NEW n \in Model, NEW x,
         handler' = [handler EXCEPT ![h] = x], Started(n),
         handler[h] = Idle \/ (n # m /\ handler[h].model = m)
  PROVE  Started(n)'
<1>1. PICK k \in Handler : handler[k] = [step |-> "start", model |-> n]
  BY DEF Started
<1>2. k # h
  BY <1>1 DEF Idle
<1>3. handler'[k] = handler[k]
  BY <1>2 DEF CatalogTypeOK
<1> QED
  BY <1>1, <1>3 DEF Started

(* No job is left saying that it is queued or running when nothing will take *)
(* it further, except by the three ways JobIsRun names: retries race each    *)
(* other, the job's own end, and restarts; a failure that could not be       *)
(* recorded, or a call lost after its commit, counts until a later commit or *)
(* start makes it good.                                                      *)
THEOREM NoJobIsStranded == CatalogSpec => []JobIsRun
<1>1. CatalogInit => NotLeftToTheWarming
  BY DEF CatalogInit, NotLeftToTheWarming
<1>2. CatalogInv /\ NotLeftToTheWarming /\ [CatalogNext]_catalogVars => NotLeftToTheWarming'
  <2> SUFFICES ASSUME CatalogInv, NotLeftToTheWarming, [CatalogNext]_catalogVars
               PROVE  NotLeftToTheWarming'
    OBVIOUS
  <2> USE DEF NotLeftToTheWarming, hostVars, rowVars, profileVars, taskVars, handlerVars,
      historyVars, Commit, Goto
  <2>0. CatalogTypeOK /\ WarmingIsCached
    BY DEF CatalogInv
  <2>1. ASSUME NEW h \in Handler, NEW m \in Model, RegisterModel(h, m) \/ RetryCommit(h, m)
        PROVE  NotLeftToTheWarming'
    <3> SUFFICES ASSUME NEW n \in Model, job'[n] \in {"QUEUED", "RUNNING"}
                 PROVE  \/ task'[n] \notin {"none", "warming"} \/ Started(n)'
                        \/ n \in broken' \/ (weightCache' /\ n \in missed')
      OBVIOUS
    <3>1. /\ task' = task /\ weightCache' = weightCache
          /\ handler' = [handler EXCEPT ![h] = [step |-> "start", model |-> m]]
          /\ broken \ {m} \subseteq broken' /\ missed \ {m} \subseteq missed'
          /\ job' = [job EXCEPT ![m] = "QUEUED"]
          /\ handler[h] = Idle \/ handler[h].model = m
      BY <2>1 DEF RegisterModel, RetryCommit, Does
    <3>2. CASE n = m
      <4>1. handler'[h] = [step |-> "start", model |-> n]
        BY <2>0, <3>1, <3>2 DEF CatalogTypeOK
      <4> QED
        BY <4>1 DEF Started
    <3>3. CASE n # m
      <4>1. job'[n] = job[n]
        BY <2>0, <3>1, <3>3 DEF CatalogTypeOK
      <4>2. Started(n) => Started(n)'
        BY ONLY <2>0, <3>1, <3>3, StartsOfOthers, h \in Handler, m \in Model, n \in Model
      <4> QED
        BY <3>1, <3>3, <4>1, <4>2
    <3> QED
      BY <3>2, <3>3
  <2>2. ASSUME NEW m \in Model, Advance(m) \/ Lock(m) \/ Probed(m) \/ Preempted(m)
        PROVE  NotLeftToTheWarming'
    <3>1. \A n \in Model : Started(n)' <=> Started(n)
      BY <2>2 DEF Started, Advance, Lock, Probed, Preempted
    <3>2. /\ task \in [Model -> TaskPc] /\ job \in [Model -> JobState]
          /\ task[m] \notin {"none", "warming"}
          /\ task'[m] \notin {"none", "warming"}
          /\ \A n \in Model \ {m} : task'[n] = task[n] /\ job'[n] = job[n]
          /\ UNCHANGED <<weightCache, broken, missed>>
      BY <2>0, <2>2 DEF CatalogTypeOK, Advance, Lock, Probed, Preempted
    <3> QED
      BY <3>1, <3>2
  <2>3. ASSUME NEW m \in Model, Complete(m) PROVE NotLeftToTheWarming'
    BY <2>0, <2>3 DEF CatalogTypeOK, Started, Complete
  <2>4. ASSUME NEW m \in Model, Fail(m) PROVE NotLeftToTheWarming'
    BY <2>0, <2>4 DEF CatalogTypeOK, Started, Fail
  <2>5. ASSUME NEW m \in Model, Warmed(m) PROVE NotLeftToTheWarming'
    BY <2>0, <2>5 DEF CatalogTypeOK, Started, Warmed
  <2>6. ASSUME NEW h \in Handler, NEW m \in Model, RetryCheck(h, m) PROVE NotLeftToTheWarming'
    <3>1. \A n \in Model : Started(n) => Started(n)'
      BY <2>0, <2>6, StartsOfOthers DEF RetryCheck, Does
    <3> QED
      BY <2>6, <3>1 DEF RetryCheck
  <2>7. ASSUME NEW h \in Handler, NEW m \in Model, Start(h, m) PROVE NotLeftToTheWarming'
    <3> SUFFICES ASSUME NEW n \in Model, job'[n] \in {"QUEUED", "RUNNING"}
                 PROVE  \/ task'[n] \notin {"none", "warming"} \/ Started(n)'
                        \/ n \in broken' \/ (weightCache' /\ n \in missed')
      OBVIOUS
    <3>1. CASE n = m
      <4>1. CASE task[m] = "warming"
        BY <2>0, <2>7, <3>1, <4>1 DEF CatalogTypeOK, WarmingIsCached, Start
      <4>2. CASE task[m] # "warming"
        BY <2>0, <2>7, <3>1, <4>2 DEF CatalogTypeOK, Start
      <4> QED
        BY <4>1, <4>2
    <3>2. CASE n # m
      <4>1. Started(n) => Started(n)'
        <5>1. handler[h].model = m /\ handler' = [handler EXCEPT ![h] = Idle]
          BY <2>7 DEF Start
        <5> QED
          BY ONLY <2>0, <5>1, <3>2, StartsOfOthers, h \in Handler, m \in Model, n \in Model
      <4>2. /\ task'[n] = task[n] /\ job' = job /\ weightCache' = weightCache
            /\ n \in broken => n \in broken'
            /\ n \in missed => n \in missed'
        BY <2>0, <2>7, <3>2 DEF CatalogTypeOK, Start
      <4> QED
        BY <4>1, <4>2
    <3> QED
      BY <3>1, <3>2
  <2>8. ASSUME NEW h \in Handler, NEW m \in Model, HandlerLost(h, m)
        PROVE  NotLeftToTheWarming'
    <3> SUFFICES ASSUME NEW n \in Model, job'[n] \in {"QUEUED", "RUNNING"}
                 PROVE  \/ task'[n] \notin {"none", "warming"} \/ Started(n)'
                        \/ n \in broken' \/ (weightCache' /\ n \in missed')
      OBVIOUS
    <3>1. /\ task' = task /\ job' = job /\ weightCache' = weightCache /\ missed' = missed
          /\ broken \subseteq broken' /\ handler' = [handler EXCEPT ![h] = Idle]
          /\ handler[h].model = m
      BY <2>8 DEF HandlerLost
    <3>2. n = m /\ handler[h].step = "start" => n \in broken'
      BY <2>8 DEF HandlerLost
    <3>3. Started(n) => Started(n)' \/ n \in broken'
      <4> SUFFICES ASSUME Started(n) PROVE Started(n)' \/ n \in broken'
        OBVIOUS
      <4>1. PICK k \in Handler : handler[k] = [step |-> "start", model |-> n]
        BY DEF Started
      <4>2. CASE k = h
        BY <3>1, <3>2, <4>1, <4>2
      <4>3. CASE k # h
        <5>1. handler'[k] = handler[k]
          BY <2>0, <3>1, <4>3 DEF CatalogTypeOK
        <5> QED
          BY <4>1, <5>1 DEF Started
      <4> QED
        BY <4>2, <4>3
    <3> QED
      BY <3>1, <3>3
  <2>9. ASSUME NEW host \in Machine, Restart(host) PROVE NotLeftToTheWarming'
    BY <2>0, <2>9 DEF CatalogTypeOK, Restart, Requeued, Resumed
  <2>10. CASE UNCHANGED <<weightCache, job, task, handler, broken, missed>>
    BY <2>10 DEF Started
  <2> QED
    BY <2>1, <2>2, <2>3, <2>4, <2>5, <2>6, <2>7, <2>8, <2>9, <2>10, ZenonT(30)
    DEF CatalogNext, TaskStep, catalogVars, DisableModel, SetActive, UpdateProfile, Save, Edited,
        CloneRead, CloneInsert
<1>3. NotLeftToTheWarming => JobIsRun
  BY DEF NotLeftToTheWarming, Started, JobIsRun
<1> QED
  BY <1>1, <1>2, <1>3, CatalogInvHolds, PTL DEF CatalogSpec

----------------------------------------------------------------------------
(* A change that leaves the profiles of other models alone keeps the limits, *)
(* if this model's follows its own.                                          *)
LEMMA LimitFollows ==
  ASSUME LimitMatchesProfiles, limit \in [Model -> Context \cup {0}], NEW m \in Model,
         machine' = machine,
         \A n \in Model : n # m => Here(active', n) = Here(active, n),
         NEW x, limit' = [limit EXCEPT ![m] = x],
         Here(active', m) # {} => x = Shortest(Here(active', m))
  PROVE  LimitMatchesProfiles'
<1> SUFFICES ASSUME NEW n \in Model, Here(active, n)' # {}
             PROVE  limit'[n] = Shortest(Here(active, n)')
  BY DEF LimitMatchesProfiles, Shortest
<1>1. Here(active, n)' = Here(active', n)
  BY DEF Here
<1>2. CASE n = m
  BY <1>1, <1>2
<1>3. CASE n # m
  BY <1>1, <1>3 DEF LimitMatchesProfiles
<1> QED
  BY <1>2, <1>3

(* Requests are held to the shortest context any worker may be started with, *)
(* through validation, edits, switches, clones and a change of host.         *)
THEOREM LimitsMatchProfiles == CatalogSpec => []LimitMatchesProfiles
<1>1. CatalogInit => LimitMatchesProfiles
  BY DEF CatalogInit, LimitMatchesProfiles, Here
<1>2. CatalogInv /\ ProfilesAreLocal /\ LimitMatchesProfiles /\ [CatalogNext]_catalogVars
        => LimitMatchesProfiles'
  <2> SUFFICES ASSUME CatalogInv, ProfilesAreLocal, LimitMatchesProfiles, [CatalogNext]_catalogVars
               PROVE  LimitMatchesProfiles'
    OBVIOUS
  <2>0. CatalogTypeOK /\ RowsAreKnown /\ CloneIsLocal /\ limit \in [Model -> Context \cup {0}]
    BY DEF CatalogInv, CatalogTypeOK
  <2>1. ASSUME NEW m \in Model, Complete(m) PROVE LimitMatchesProfiles'
    <3> DEFINE rows == {[model |-> m, machine |-> machine, shape |-> p.shape, len |-> p.len] :
                          p \in found[m]}
    <3>1. \A p \in rows : p.model = m /\ p.machine = machine
      BY <2>0, <2>1, CompletedRows DEF Complete
    <3>2. /\ active' = (active \ Here(active, m)) \cup rows
          /\ limit' = [limit EXCEPT ![m] = Shortest(rows)]
          /\ machine' = machine
      BY <2>1 DEF Complete, hostVars
    <3> HIDE DEF rows
    <3>3. Here(active', m) = rows
      BY <3>1, <3>2 DEF Here
    <3>4. \A n \in Model : n # m => Here(active', n) = Here(active, n)
      BY <3>1, <3>2 DEF Here
    <3> QED
      BY <2>0, <3>2, <3>3, <3>4, LimitFollows
  <2>2. ASSUME NEW p \in stored, NEW on \in BOOLEAN, SetActive(p, on) PROVE LimitMatchesProfiles'
    <3>1. p.model \in Model
      BY <2>0 DEF CatalogTypeOK, Profile
    <3>2. \A n \in Model : n # p.model => Here(active', n) = Here(active, n)
      BY <2>2 DEF SetActive, Here
    <3>3. Relimit(p.model) /\ machine' = machine
      BY <2>2 DEF SetActive, hostVars
    <3> QED
      BY <2>0, <3>1, <3>2, <3>3, LimitFollows DEF Relimit
  <2>3. ASSUME NEW p \in stored, NEW shape \in Shape, NEW len \in Context,
               NEW default \in BOOLEAN, UpdateProfile(p, shape, len, default)
        PROVE  LimitMatchesProfiles'
    <3> DEFINE q == [p EXCEPT !.shape = shape, !.len = len]
    <3>1. p \in Profile /\ p.model \in Model
      BY <2>0 DEF CatalogTypeOK, Profile
    <3>2. q.model = p.model
      BY <3>1, EditedProfile
    <3>3. /\ active' = IF default THEN (active \ Here(active, p.model)) \cup {q}
                       ELSE IF p \in active THEN (active \ {p}) \cup {q}
                       ELSE active
          /\ Relimit(p.model) /\ machine' = machine
      BY <2>3 DEF UpdateProfile, Save, Edited, hostVars
    <3> HIDE DEF q
    <3>4. \A n \in Model : n # p.model => Here(active', n) = Here(active, n)
      BY <3>2, <3>3 DEF Here
    <3> QED
      BY <2>0, <3>1, <3>3, <3>4, LimitFollows DEF Relimit
  <2>4. ASSUME NEW n \in Model, CloneInsert(n) PROVE LimitMatchesProfiles'
    <3>1. /\ \A p \in Copies(n) : p.model = n /\ p.machine = machine
      BY <2>0, <2>4, CopiedRows DEF CatalogTypeOK, CloneInsert, CloneIsLocal
    <3>2. \A p \in active : p.model # n
      BY <2>0, <2>4 DEF CatalogTypeOK, CloneInsert, RowsAreKnown
    <3>3. CASE clone.equal
      BY <2>4, <3>3 DEF CloneInsert, LimitMatchesProfiles, Here, hostVars, profileVars
    <3>4. CASE ~clone.equal
      <4>1. /\ active' = active \cup Copies(n)
            /\ limit' = [limit EXCEPT ![n] = Shortest(Copies(n))]
            /\ machine' = machine
        BY <2>4, <3>4 DEF CloneInsert, hostVars
      <4>2. Here(active', n) = Copies(n)
        BY <3>1, <3>2, <4>1 DEF Here
      <4>3. \A k \in Model : k # n => Here(active', k) = Here(active, k)
        BY <3>1, <4>1 DEF Here
      <4> QED
        BY <2>0, <4>1, <4>2, <4>3, LimitFollows
    <3> QED
      BY <3>3, <3>4
  <2>5. ASSUME NEW host \in Machine, Restart(host) PROVE LimitMatchesProfiles'
    <3>1. CASE host = machine
      BY <2>5, <3>1 DEF Restart, StillValid, LimitMatchesProfiles, Here
    <3>2. CASE host # machine
      <4>1. active' = {}
        BY <2>5, <3>2 DEF Restart, StillValid, ProfilesAreLocal
      <4> QED
        BY <4>1 DEF LimitMatchesProfiles, Here
    <3> QED
      BY <3>1, <3>2
  <2>6. CASE UNCHANGED <<active, machine, limit>>
    BY <2>6 DEF LimitMatchesProfiles, Here
  <2> QED
    BY <2>1, <2>2, <2>3, <2>4, <2>5, <2>6
    DEF CatalogNext, TaskStep, catalogVars, hostVars, profileVars, RegisterModel, Advance, Lock,
        Probed, Preempted, Warmed, Fail, DisableModel, RetryCheck, RetryCommit, Start, HandlerLost,
        CloneRead
<1> QED
  BY <1>1, <1>2, CatalogInvHolds, OnlyLocalProfiles, PTL DEF CatalogSpec
=============================================================================
