---------------------------- MODULE ModelCatalog ----------------------------
(***************************************************************************)
(* Registration of models (registration.py, routes_staff.py) and their     *)
(* placement profiles (profiles.py, routes_admin.py): the tables           *)
(* model_catalog, model_jobs and model_profiles, the task that carries a   *)
(* job through its stages, and what staff and administrators do meanwhile. *)
(*                                                                         *)
(* A database transaction is one action; the database serializes them.     *)
(* Of a profile only what identifies it here is kept, its shape and its    *)
(* context length, so that a row is its profile_key; the GPU sets of one   *)
(* shape are not told apart.                                               *)
(***************************************************************************)
EXTENDS Integers, FiniteSets, FiniteSetsExt

CONSTANTS
  Model,     \* ids of model_catalog
  Uploaded,  \* bound: those registered by a job; the others can only be clones
  Shape,     \* gpu_count of the candidate shapes
  Context,   \* max_model_len
  Machine,   \* fingerprints of the host
  Handler,   \* bound: registrations and retries at a time
  MaxRows    \* bound: rows of model_profiles

ASSUME CatalogAssumption ==
  /\ Uploaded \subseteq Model
  /\ Shape \subseteq Nat \ {0} /\ Context \subseteq Nat \ {0}

VARIABLES
  weightCache, \* a registered model is warmed once
  machine,     \* service_state.machine_fingerprint
  catalog,     \* model_catalog.state
  limit,       \* max_context_tokens of request_limits_json, 0 before the first
  job,         \* model_jobs.state
  stage,       \* model_jobs.stage
  stored,      \* rows of model_profiles
  active,      \* those with active = 1
  task,        \* where the task of a job is; "none" also when it is done
  todo,        \* shapes the task has still to validate
  found,       \* profiles it has validated
  prober,      \* holder of _validation_lock, a set of at most one
  handler,     \* of a registration or retry: its next step, and its model
  clone,       \* what a cloning is about to insert; bound: one at a time
  \* history:
  broken,      \* jobs with a failure that was not recorded, or a start lost
  missed       \* jobs whose start took a task at its last step for one that goes on

catalogVars == <<weightCache, machine, catalog, limit, job, stage, stored, active,
                 task, todo, found, prober, handler, clone, broken, missed>>

rowVars == <<catalog, job, stage>>
profileVars == <<limit, stored, active>>
taskVars == <<task, todo, found, prober>>
hostVars == <<weightCache, machine>>
handlerVars == <<handler, clone>>
historyVars == <<broken, missed>>

CatalogState == {"ABSENT", "REQUESTED", "DOWNLOADING", "VALIDATION_PENDING", "VALIDATING",
                 "AVAILABLE", "NEEDS_ADMIN_REVIEW", "DISABLED"}

JobState == {"ABSENT", "QUEUED", "RUNNING", "COMPLETED", "FAILED"}

(* The stages a restart requeues are those LIKE 'validat%'.                  *)
ValidationStage == {"validation_pending", "validating", "validation_requeued"}
Stage == ValidationStage \cup {"resolve", "download", "complete", "failed"}

TaskPc == {"none", "begin", "resolve", "download", "next", "lock", "probing", "warming"}

Profile == [model : Model, machine : Machine, shape : Shape, len : Context]

Idle == [step |-> "none"]

(* Rows of a model for this machine, and what its limit is to be.            *)
Here(P, m) == {p \in P : p.model = m /\ p.machine = machine}

Shortest(P) == Min({p.len : p \in P})

----------------------------------------------------------------------------
(* The job's task *)

(* update_model_job() *)
Commit(m, jobState, jobStage, state) ==
  /\ job' = [job EXCEPT ![m] = jobState]
  /\ stage' = [stage EXCEPT ![m] = jobStage]
  /\ catalog' = [catalog EXCEPT ![m] = state]

Goto(m, pc) == task' = [task EXCEPT ![m] = pc]

Forget(m) == todo' = [todo EXCEPT ![m] = {}] /\ found' = [found EXCEPT ![m] = {}]

(* build_candidate_shapes(): the sizes the weights fit in; with none of them *)
(* the job fails.                                                            *)
CandidateShapes == SUBSET Shape \ {{}}

(* Each stage ends in the commit that opens the next.                        *)
Advance(m) ==
  /\ \/ task[m] = "begin" /\ Commit(m, "RUNNING", "resolve", "DOWNLOADING")
        /\ Goto(m, "resolve") /\ UNCHANGED <<todo, found>>
     \/ task[m] = "resolve" /\ Commit(m, "RUNNING", "download", "DOWNLOADING")
        /\ Goto(m, "download") /\ UNCHANGED <<todo, found>>
     \/ task[m] = "download" /\ Commit(m, "RUNNING", "validation_pending", "VALIDATION_PENDING")
        /\ Goto(m, "next")
        /\ \E shapes \in CandidateShapes : todo' = [todo EXCEPT ![m] = shapes]
        /\ UNCHANGED found
     \/ task[m] = "next" /\ todo[m] # {}
        /\ Commit(m, "RUNNING", "validating", "VALIDATING")
        /\ Goto(m, "lock") /\ UNCHANGED <<todo, found>>
  /\ UNCHANGED <<hostVars, profileVars, prober, handlerVars, historyVars>>

Lock(m) ==
  /\ task[m] = "lock" /\ prober = {}
  /\ prober' = {m}
  /\ Goto(m, "probing")
  /\ UNCHANGED <<hostVars, rowVars, profileVars, todo, found, handlerVars, historyVars>>

(* validate_vllm() returns profiles or raises ValidationError.  Candidates   *)
(* come by size; one that is larger than an accepted one is the last.        *)
Probed(m) ==
  LET shape == Min(todo[m])
  IN /\ task[m] = "probing"
     /\ \/ \E len \in Context : found' = [found EXCEPT ![m] = @ \cup {[shape |-> shape, len |-> len]}]
        \/ UNCHANGED found
     /\ todo' = [todo EXCEPT ![m] =
                   IF \E p \in found'[m] : shape > p.shape THEN {} ELSE @ \ {shape}]
     /\ prober' = {}
     /\ Goto(m, "next")
     /\ UNCHANGED <<hostVars, rowVars, profileVars, handlerVars, historyVars>>

(* Requests arrived: the same candidate is tried again later.                *)
Preempted(m) ==
  /\ task[m] = "probing"
  /\ Commit(m, "QUEUED", "validation_requeued", "VALIDATION_PENDING")
  /\ prober' = {}
  /\ Goto(m, "next")
  /\ UNCHANGED <<hostVars, profileVars, todo, found, handlerVars, historyVars>>

(* One transaction; then warm_model_once(), which waits for the scheduler's  *)
(* lock and the database if there is a weight cache.                         *)
Complete(m) ==
  LET rows == {[model |-> m, machine |-> machine, shape |-> p.shape, len |-> p.len] :
                 p \in found[m]}
  IN /\ task[m] = "next" /\ todo[m] = {} /\ found[m] # {}
     /\ stored' = stored \cup rows /\ Cardinality(stored') <= MaxRows
     /\ active' = (active \ Here(active, m)) \cup rows
     /\ limit' = [limit EXCEPT ![m] = Shortest(rows)]
     /\ Commit(m, "COMPLETED", "complete", "AVAILABLE")
     /\ Goto(m, IF weightCache THEN "warming" ELSE "none")
     /\ Forget(m)
     /\ UNCHANGED <<hostVars, prober, handlerVars, historyVars>>

Warmed(m) ==
  /\ task[m] = "warming"
  /\ Goto(m, "none")
  /\ UNCHANGED <<hostVars, rowVars, profileVars, todo, found, prober, handlerVars,
                 historyVars>>

(* Mutant: the lock stays with a probe that fails. *)
MutFail(m) ==
  /\ task[m] # "none"
  /\ Commit(m, "FAILED", "failed", "NEEDS_ADMIN_REVIEW")
  /\ Goto(m, "none")
  /\ Forget(m)
  /\ UNCHANGED <<hostVars, profileVars, prober, handlerVars, historyVars>>

(* Anything else raises; _record_failure() is a write that may raise too.    *)
Fail(m) ==
  /\ task[m] # "none"
  /\ \/ Commit(m, "FAILED", "failed", "NEEDS_ADMIN_REVIEW") /\ UNCHANGED broken
     \/ broken' = broken \cup {m} /\ UNCHANGED rowVars
  /\ Goto(m, "none")
  /\ Forget(m)
  /\ prober' = prober \ {m}
  /\ UNCHANGED <<hostVars, profileVars, handlerVars, missed>>

----------------------------------------------------------------------------
(* Staff *)

Does(h, step, m) == handler' = [handler EXCEPT ![h] = [step |-> step, model |-> m]]
                    /\ UNCHANGED clone

(* register_model(): the transaction of create_model_job(), then the start.  *)
RegisterModel(h, m) ==
  /\ handler[h] = Idle
  /\ m \in Uploaded /\ catalog[m] = "ABSENT"
  /\ Commit(m, "QUEUED", "resolve", "REQUESTED")
  /\ Does(h, "start", m)
  /\ UNCHANGED <<hostVars, profileVars, taskVars, historyVars>>

(* retry_model_job(): look, commit, start; the database awaits in between.   *)
RetryCheck(h, m) ==
  /\ handler[h] = Idle
  /\ job[m] \in {"COMPLETED", "FAILED"}
  /\ Does(h, "commit", m)
  /\ UNCHANGED <<hostVars, rowVars, profileVars, taskVars, historyVars>>

RetryCommit(h, m) ==
  /\ handler[h] = [step |-> "commit", model |-> m]
  /\ Commit(m, "QUEUED", "resolve", "REQUESTED")
  /\ Does(h, "start", m)
  /\ broken' = broken \ {m} /\ missed' = missed \ {m}
  /\ UNCHANGED <<hostVars, profileVars, taskVars>>

(* start(): a task that is not done goes on, also if only the warming is     *)
(* left of it.                                                               *)
Start(h, m) ==
  /\ handler[h] = [step |-> "start", model |-> m]
  /\ Goto(m, IF task[m] = "none" THEN "begin" ELSE task[m])
  /\ broken' = IF task[m] = "none" THEN broken \ {m} ELSE broken
  /\ missed' = IF task[m] = "none" THEN missed \ {m}
               ELSE IF task[m] = "warming" THEN missed \cup {m}
               ELSE missed
  /\ handler' = [handler EXCEPT ![h] = Idle]
  /\ UNCHANGED <<hostVars, rowVars, profileVars, todo, found, prober, clone>>

(* The call of the database raises, or the request is cancelled in it, before*)
(* the commit or after it.                                                   *)
HandlerLost(h, m) ==
  /\ handler[h] \in [step : {"commit", "start"}, model : {m}]
  /\ broken' = IF handler[h].step = "start" THEN broken \cup {m} ELSE broken
  /\ handler' = [handler EXCEPT ![h] = Idle]
  /\ UNCHANGED <<hostVars, rowVars, profileVars, taskVars, clone, missed>>

DisableModel(m) ==
  /\ catalog[m] # "ABSENT"
  /\ catalog' = [catalog EXCEPT ![m] = "DISABLED"]
  /\ UNCHANGED <<hostVars, job, stage, profileVars, taskVars, handlerVars, historyVars>>

----------------------------------------------------------------------------
(* Administrators *)

(* Mutant: switching and editing profiles leave the limit alone. *)
MutRelimit(m) == UNCHANGED limit

(* The limit follows the active profiles of this machine, if there are any.  *)
Relimit(m) ==
  limit' = [limit EXCEPT ![m] = IF Here(active', m) = {} THEN @ ELSE Shortest(Here(active', m))]

SetActive(p, on) ==
  /\ p \in stored /\ p.machine = machine
  /\ active' = IF on THEN active \cup {p} ELSE active \ {p}
  /\ Relimit(p.model)
  /\ UNCHANGED <<hostVars, rowVars, stored, taskVars, handlerVars, historyVars>>

(* _apply_profile_edit(): what an edit makes of a profile.                   *)
Edited(p, shape, len) == [p EXCEPT !.shape = shape, !.len = len]

(* update(): the row alone stays active if it is made the default.           *)
Save(p, q, default) ==
  /\ stored' = (stored \ {p}) \cup {q}
  /\ active' = IF default THEN (active \ Here(active, p.model)) \cup {q}
               ELSE IF p \in active THEN (active \ {p}) \cup {q}
               ELSE active
  /\ Relimit(p.model)

(* update_model_profile(): an edit that makes a row equal to another one is  *)
(* refused (409).  An edit of a row that another one changed since it was    *)
(* read sets every field.                                                    *)
UpdateProfile(p, shape, len, default) ==
  LET q == Edited(p, shape, len)
  IN /\ p \in stored /\ p.machine = machine
     /\ q = p \/ q \notin stored
     /\ Save(p, q, default)
     /\ UNCHANGED <<hostVars, rowVars, taskVars, handlerVars, historyVars>>

(* clone_model() reads the model and its active profiles, and inserts a new  *)
(* model with copies of them, by a context length of its own if it has one.  *)
NoClone == [rows |-> {}, equal |-> FALSE]

Extended(p, lens) == IF lens = {} THEN p ELSE [p EXCEPT !.len = Min(lens)]

CloneRead(m, lens) ==
  LET source == Here(active, m)
  IN /\ clone = NoClone
     /\ catalog[m] = "AVAILABLE" /\ source # {}
     /\ clone' = [rows |-> {Extended(p, lens) : p \in source},
                  equal |-> \E p, q \in source : p # q /\ Extended(p, lens) = Extended(q, lens)]
     /\ UNCHANGED <<hostVars, rowVars, profileVars, taskVars, handler, historyVars>>

(* Mutant: the copies keep the model they are copied from. *)
MutCopies(n) == clone.rows

Copies(n) == {[p EXCEPT !.model = n] : p \in clone.rows}

(* Two rows with one profile_key break the constraint: nothing is inserted.  *)
CloneInsert(n) ==
  LET rows == Copies(n)
  IN /\ clone # NoClone /\ catalog[n] = "ABSENT"
     /\ clone' = NoClone
     /\ IF clone.equal
          THEN UNCHANGED <<catalog, profileVars>>
          ELSE /\ catalog' = [catalog EXCEPT ![n] = "AVAILABLE"]
               /\ stored' = stored \cup rows /\ Cardinality(stored') <= MaxRows
               /\ active' = active \cup rows
               /\ limit' = [limit EXCEPT ![n] = Shortest(rows)]
     /\ UNCHANGED <<hostVars, job, stage, taskVars, handler, historyVars>>

----------------------------------------------------------------------------
(* The service stops, at any point, and starts again: recover_orphaned_state,*)
(* set_machine_fingerprint, resume.                                          *)
Requeued(m) == job[m] = "RUNNING" /\ stage[m] \in ValidationStage

(* Mutant: a job that was not requeued is taken for one that runs. *)
MutResumed(m) == job[m] = "QUEUED" \/ Requeued(m)

(* resume() *)
Resumed(m) == job[m] \in {"QUEUED", "RUNNING"}

(* Mutant: profiles of another host stay active. *)
MutStillValid(host) == active

StillValid(host) == IF host = machine THEN active ELSE {p \in active : p.machine = host}

Restart(host) ==
  /\ machine' = host
  /\ active' = StillValid(host)
  /\ job' = [m \in Model |-> IF Requeued(m) THEN "QUEUED" ELSE job[m]]
  /\ stage' = [m \in Model |-> IF Requeued(m) THEN "validation_requeued" ELSE stage[m]]
  /\ task' = [m \in Model |-> IF Resumed(m) THEN "begin" ELSE "none"]
  /\ todo' = [m \in Model |-> {}] /\ found' = [m \in Model |-> {}]
  /\ prober' = {} /\ handler' = [h \in Handler |-> Idle] /\ clone' = NoClone
  /\ broken' = {} /\ missed' = {}
  /\ UNCHANGED <<weightCache, catalog, limit, stored>>

CatalogInit ==
  /\ weightCache \in BOOLEAN /\ machine \in Machine
  /\ catalog = [m \in Model |-> "ABSENT"] /\ limit = [m \in Model |-> 0]
  /\ job = [m \in Model |-> "ABSENT"] /\ stage = [m \in Model |-> "resolve"]
  /\ stored = {} /\ active = {}
  /\ task = [m \in Model |-> "none"]
  /\ todo = [m \in Model |-> {}] /\ found = [m \in Model |-> {}]
  /\ prober = {} /\ handler = [h \in Handler |-> Idle] /\ clone = NoClone
  /\ broken = {} /\ missed = {}

TaskStep(m) ==
  \/ Advance(m) \/ Lock(m) \/ Probed(m) \/ Preempted(m)
  \/ Complete(m) \/ Warmed(m) \/ Fail(m)

CatalogNext ==
  \/ \E m \in Model : TaskStep(m) \/ DisableModel(m)
  \/ \E h \in Handler, m \in Model :
       \/ RegisterModel(h, m) \/ RetryCheck(h, m) \/ RetryCommit(h, m)
       \/ Start(h, m) \/ HandlerLost(h, m)
  \/ \E p \in stored, on \in BOOLEAN : SetActive(p, on)
  \/ \E p \in stored, shape \in Shape, len \in Context, default \in BOOLEAN :
       UpdateProfile(p, shape, len, default)
  \/ \E m \in Model, lens \in {{}} \cup {{len} : len \in Context} : CloneRead(m, lens)
  \/ \E n \in Model : CloneInsert(n)
  \/ \E host \in Machine : Restart(host)

CatalogSpec == CatalogInit /\ [][CatalogNext]_catalogVars

----------------------------------------------------------------------------
(* Properties *)

(* Types of the tables and tasks; in particular the validation lock belongs  *)
(* to the one task that probes, whatever failed or was preempted before.     *)
CatalogTypeOK ==
  /\ weightCache \in BOOLEAN /\ machine \in Machine
  /\ catalog \in [Model -> CatalogState]
  /\ limit \in [Model -> Context \cup {0}]
  /\ job \in [Model -> JobState] /\ stage \in [Model -> Stage]
  /\ stored \subseteq Profile /\ active \subseteq stored
  /\ task \in [Model -> TaskPc]
  /\ todo \in [Model -> SUBSET Shape]
  /\ found \in [Model -> SUBSET [shape : Shape, len : Context]]
  /\ prober = {m \in Model : task[m] = "probing"}
  /\ handler \in [Handler -> {Idle} \cup [step : {"commit", "start"}, model : Model]]
  /\ clone \in [rows : SUBSET Profile, equal : BOOLEAN]
  /\ broken \subseteq Model /\ missed \subseteq Model

(* The context limit requests are checked against is the shortest of the     *)
(* profiles a worker may be started with, whoever edited, switched, cloned   *)
(* or validated them last, and across changes of the host.                   *)
LimitMatchesProfiles ==
  \A m \in Model : Here(active, m) # {} => limit[m] = Shortest(Here(active, m))

(* Profiles measured on another host are never active here.                  *)
ProfilesAreLocal == \A p \in active : p.machine = machine

(* A model is offered to clients only with a profile on record.              *)
AvailableIsValidated ==
  \A m \in Model : catalog[m] = "AVAILABLE" => \E p \in stored : p.model = m

(* A job that says it is queued or running has a task, or a handler about to *)
(* start one: nobody else would, and retries are refused (409).  Three things*)
(* leave it without, and no others, until the service starts again: its      *)
(* failure could not be recorded, its start was lost after the commit, or,   *)
(* with the weight cache, it was started while the last task was warming.    *)
JobIsRun ==
  \A m \in Model :
    job[m] \in {"QUEUED", "RUNNING"} =>
      \/ task[m] # "none"
      \/ \E h \in Handler : handler[h] = [step |-> "start", model |-> m]
      \/ m \in broken
      \/ weightCache /\ m \in missed
=============================================================================
