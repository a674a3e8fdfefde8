-------------------------- MODULE RequestLifecycle --------------------------
(***************************************************************************)
(* One chat completion from quota reservation to settlement: the HTTP      *)
(* handler (routes_inference.py), the scheduler that admits it to a worker *)
(* (runtime.py), the rows it leaves in the database (storage.py), and what *)
(* of the worker supervisor (workers.py) they see.                         *)
(*                                                                         *)
(* The service is one asyncio event loop: code between two awaits is one   *)
(* action.  A database call is taken together with the code up to the next *)
(* await, except for the admission of a request, where the gap matters.    *)
(* The scheduler task runs its phases one at a time (Between) and keeps    *)
(* the scheduler lock while it admits a request, so Between is also what a *)
(* handler waits for before it touches the queues.  Which queued request   *)
(* is next is the subject of FairQueue: here it is any of them.            *)
(*                                                                         *)
(* The database may refuse any write: a step that writes has a second      *)
(* outcome wherever the code then goes on differently.                     *)
(***************************************************************************)
EXTENDS Naturals, FiniteSets

CONSTANTS
  Attempt,   \* HTTP requests as they arrive, retries included
  Rid,       \* request ids (X-Request-ID), also the idempotency keys
  RidOf,     \* the request id of an attempt
  Worker,    \* worker ids
  Capacity   \* queue_capacity_per_model

ASSUME RequestAssumption ==
  /\ RidOf \in [Attempt -> Rid]
  /\ Rid \cap {"none"} = {}
  /\ Worker \cap {"none", "pending", "error", "cancelled"} = {}
  /\ Capacity \in Nat \ {0}

VARIABLES
  pc,           \* where the handler of an attempt is
  future,       \* QueuedRequest.assignment; a lease is its worker
  reservation,  \* quota_reservations.state
  row,          \* inference_requests.state, COMPLETED and FAILED as one
  mode,         \* service_state.mode: "ACTIVE" or not
  queue,        \* the attempts in ModelQueues
  drained,      \* attempts enter_maintenance() took off the queues
  forgotten,    \* history: those a failed refund made it leave untold
  router,       \* where _route_ready_work is
  lease,        \* _request_leases: the worker of each leased request
  releasing,    \* scheduler.release() calls not yet run
  freeing,      \* supervisor.release() calls not yet run
  up,           \* worker.state, as far as requests can tell
  admitted,     \* worker.admitted_request_ids
  failing,      \* workers that failed, their event not yet delivered
  failed,       \* requests worker_event() still has to refund
  evicted       \* requests of drain watchdog victims still to be refunded

handlers == <<pc, future>>
store == <<reservation, row, mode>>
scheduler == <<queue, drained, forgotten, router, lease, releasing>>
supervisor == <<freeing, up, admitted, failing>>
refunds == <<failed, evicted>>
vars == <<handlers, store, scheduler, supervisor, refunds>>

Idle == [step |-> "idle"]

Routing == [step : {"marking", "marked", "undo", "refund", "orphan"},
            attempt : Attempt, worker : Worker]

Between == router = Idle

Ticket == [rid : Rid, worker : Worker]

TicketOf(r, w) == [rid |-> r, worker |-> w]

(* Mutant: the request row is left as it was. *)
MutSettle(S) ==
  /\ reservation' = [r \in Rid |-> IF r \in S /\ reservation[r] = "RESERVED"
                                   THEN "SETTLED" ELSE reservation[r]]
  /\ UNCHANGED <<row, mode>>

(* settle_quota: only the first call on a reservation has an effect, and it  *)
(* closes the request row with it.                                           *)
Settle(S) ==
  /\ reservation' = [r \in Rid |-> IF r \in S /\ reservation[r] = "RESERVED"
                                   THEN "SETTLED" ELSE reservation[r]]
  /\ row' = [r \in Rid |-> IF /\ r \in S /\ reservation[r] = "RESERVED"
                              /\ row[r] # "NONE"
                           THEN "DONE" ELSE row[r]]
  /\ UNCHANGED mode

----------------------------------------------------------------------------
(* The handler *)

(* reserve_quota: an idempotency key seen before returns its reservation,    *)
(* whatever became of it.                                                    *)
Reserve(a) ==
  /\ pc[a] = "idle" /\ mode = "ACTIVE"
  /\ pc' = [pc EXCEPT ![a] = "reserved"]
  /\ reservation' = IF reservation[RidOf[a]] = "NONE"
                    THEN [reservation EXCEPT ![RidOf[a]] = "RESERVED"]
                    ELSE reservation
  /\ UNCHANGED <<future, row, mode, scheduler, supervisor, refunds>>

(* create_inference_request: INSERT OR IGNORE.                               *)
Record(a) ==
  /\ pc[a] = "reserved"
  /\ pc' = [pc EXCEPT ![a] = "recorded"]
  /\ row' = IF row[RidOf[a]] = "NONE"
            THEN [row EXCEPT ![RidOf[a]] = "QUEUED"] ELSE row
  /\ UNCHANGED <<future, reservation, mode, scheduler, supervisor, refunds>>

Enqueue(a) ==
  /\ pc[a] = "recorded" /\ Between
  /\ mode = "ACTIVE" /\ Cardinality(queue) < Capacity
  /\ pc' = [pc EXCEPT ![a] = "queued"]
  /\ future' = [future EXCEPT ![a] = "pending"]
  /\ queue' = queue \cup {a}
  /\ UNCHANGED <<store, drained, forgotten, router, lease, releasing,
                 supervisor, refunds>>

(* MaintenanceError, QueueFullError, or the mode could not be read.          *)
Refuse(a) ==
  /\ pc[a] = "recorded" /\ Between
  /\ pc' = [pc EXCEPT ![a] = "rejecting"]
  /\ UNCHANGED <<future, store, scheduler, supervisor, refunds>>

(* The handler resumes with what the future holds.                           *)
Resume(a) ==
  /\ pc[a] = "queued" /\ future[a] \notin {"pending", "cancelled"}
  /\ pc' = [pc EXCEPT ![a] = IF future[a] = "error" THEN "rejecting" ELSE "serving"]
  /\ UNCHANGED <<future, store, scheduler, supervisor, refunds>>

(* The client disconnects while its handler waits.  The future may already   *)
(* hold a lease: the handler is cancelled all the same.  Before enqueue() no *)
(* handler refunds the reservation.                                          *)
Cancel(a) ==
  /\ \/ /\ pc[a] = "queued"
        /\ pc' = [pc EXCEPT ![a] = "dequeuing"]
        /\ future' = IF future[a] = "pending"
                     THEN [future EXCEPT ![a] = "cancelled"] ELSE future
     \/ /\ pc[a] = "recorded"
        /\ pc' = [pc EXCEPT ![a] = "rejecting"]
        /\ UNCHANGED future
     \/ /\ pc[a] \in {"reserved", "recorded"}
        /\ pc' = [pc EXCEPT ![a] = "done"]
        /\ UNCHANGED future
  /\ UNCHANGED <<store, scheduler, supervisor, refunds>>

(* The except clause of enqueue(): queues.remove() takes an entry of this    *)
(* request id, its reservation is refunded with the next action.             *)
Withdraw(a) ==
  /\ pc[a] = "dequeuing" /\ Between
  /\ pc' = [pc EXCEPT ![a] = "rejecting"]
  /\ LET entries == {b \in queue : RidOf[b] = RidOf[a]}
     IN \/ entries = {} /\ UNCHANGED queue
        \/ \E b \in entries : queue' = queue \ {b}
  /\ UNCHANGED <<future, store, drained, forgotten, router, lease, releasing,
                 supervisor, refunds>>

(* The except clause of chat_completions().  When the refund raises, too,    *)
(* nobody tries it again before the next start.                              *)
Reject(a) ==
  /\ pc[a] = "rejecting"
  /\ \/ pc' = [pc EXCEPT ![a] = "done"] /\ Settle({RidOf[a]})
     \/ pc' = [pc EXCEPT ![a] = "unrefunded"] /\ UNCHANGED store
  /\ UNCHANGED <<future, scheduler, supervisor, refunds>>

(* _finish_lease, once per served request and in a task of its own: the row  *)
(* is settled, or that fails, and the lease is released either way.          *)
Finish(a) ==
  /\ pc[a] = "serving"
  /\ pc' = [pc EXCEPT ![a] = "done"]
  /\ Settle({RidOf[a]}) \/ UNCHANGED store
  /\ releasing' = releasing \cup {TicketOf(RidOf[a], future[a])}
  /\ UNCHANGED <<future, queue, drained, forgotten, router, lease, supervisor,
                 refunds>>

----------------------------------------------------------------------------
(* The router, one queued request at a time *)

(* pop() and admit(): the worker is routable, and nothing is awaited between.*)
RouterAdmit(a, w) ==
  /\ Between /\ a \in queue /\ up[w] = "READY"
  /\ queue' = queue \ {a}
  /\ admitted' = [admitted EXCEPT ![w] = @ \cup {RidOf[a]}]
  /\ router' = [step |-> "marking", attempt |-> a, worker |-> w]
  /\ UNCHANGED <<handlers, store, drained, forgotten, lease, releasing,
                 freeing, up, failing, refunds>>

(* mark_request_admitted; a row that is not QUEUED and an error of the       *)
(* database are handled alike.                                               *)
RouterMark ==
  /\ router.step = "marking"
  /\ \/ /\ row[RidOf[router.attempt]] = "QUEUED"
        /\ row' = [row EXCEPT ![RidOf[router.attempt]] = "ADMITTED"]
        /\ router' = [step |-> "marked", attempt |-> router.attempt,
                      worker |-> router.worker]
     \/ /\ router' = [step |-> "undo", attempt |-> router.attempt,
                      worker |-> router.worker]
        /\ UNCHANGED row
  /\ UNCHANGED <<handlers, reservation, mode, queue, drained, forgotten,
                 lease, releasing, supervisor, refunds>>

(* The lease goes to the handler, unless its client has gone.                *)
RouterGrant ==
  /\ router.step = "marked"
  /\ LET a == router.attempt
     IN /\ lease' = [lease EXCEPT ![RidOf[a]] = router.worker]
        /\ \/ /\ future[a] = "pending"
              /\ future' = [future EXCEPT ![a] = router.worker]
              /\ router' = Idle
           \/ /\ future[a] # "pending"
              /\ router' = [step |-> "orphan", attempt |-> a,
                            worker |-> router.worker]
              /\ UNCHANGED future
  /\ UNCHANGED <<pc, store, queue, drained, forgotten, releasing, supervisor,
                 refunds>>

(* The reservation is refunded, and Release is the rest of the branch; a     *)
(* refund that raises ends the router's turn with the lease in place.        *)
RouterOrphan ==
  /\ router.step = "orphan"
  /\ \/ /\ Settle({RidOf[router.attempt]})
        /\ releasing' = releasing \cup {TicketOf(RidOf[router.attempt], router.worker)}
     \/ UNCHANGED <<store, releasing>>
  /\ router' = Idle
  /\ UNCHANGED <<handlers, queue, drained, forgotten, lease, supervisor,
                 refunds>>

(* Mutant: the admission of a request that could not be marked is kept. *)
MutRouterUndo ==
  /\ router.step = "undo"
  /\ router' = [step |-> "refund", attempt |-> router.attempt,
                worker |-> router.worker]
  /\ UNCHANGED <<handlers, store, queue, drained, forgotten, lease, releasing,
                 supervisor, refunds>>

(* The except clause: first the admission is taken back ...                  *)
RouterUndo ==
  /\ router.step = "undo"
  /\ admitted' = [admitted EXCEPT ![router.worker] = @ \ {RidOf[router.attempt]}]
  /\ router' = [step |-> "refund", attempt |-> router.attempt,
                worker |-> router.worker]
  /\ UNCHANGED <<handlers, store, queue, drained, forgotten, lease, releasing,
                 freeing, up, failing, refunds>>

(* ... then the reservation is refunded, if that works, and the handler told.*)
RouterRefund ==
  /\ router.step = "refund"
  /\ Settle({RidOf[router.attempt]}) \/ UNCHANGED store
  /\ future' = [future EXCEPT ![router.attempt] = IF @ = "pending" THEN "error" ELSE @]
  /\ router' = Idle
  /\ UNCHANGED <<pc, queue, drained, forgotten, lease, releasing, supervisor,
                 refunds>>

----------------------------------------------------------------------------
(* Releasing a lease, and the scheduler's other phases *)

(* Mutant: the admission is kept. *)
MutRelease(t) ==
  /\ t \in releasing
  /\ releasing' = releasing \ {t}
  /\ lease' = [lease EXCEPT ![t.rid] = "none"]
  /\ UNCHANGED <<handlers, store, queue, drained, forgotten, router,
                 supervisor, refunds>>

(* scheduler.release(): only the call that finds the lease frees the worker. *)
Release(t) ==
  /\ t \in releasing
  /\ releasing' = releasing \ {t}
  /\ lease' = [lease EXCEPT ![t.rid] = "none"]
  /\ freeing' = IF lease[t.rid] = "none" THEN freeing ELSE freeing \cup {t}
  /\ UNCHANGED <<handlers, store, queue, drained, forgotten, router, up,
                 admitted, failing, refunds>>

(* supervisor.release(), whose stop() or _offload() is Retire or Park.       *)
Free(t) ==
  /\ t \in freeing
  /\ freeing' = freeing \ {t}
  /\ admitted' = [admitted EXCEPT ![t.worker] = @ \ {t.rid}]
  /\ UNCHANGED <<handlers, store, scheduler, up, failing, refunds>>

(* Mutant: every lease is taken for stale. *)
MutStale == {r \in Rid : lease[r] # "none"}

(* The leases of requests whose row says that they are over.                 *)
Stale == {r \in Rid : lease[r] # "none" /\ row[r] # "ADMITTED"}

(* _release_settled_leases.                                                  *)
Reap ==
  /\ Between /\ Stale # {}
  /\ releasing' = releasing \cup {TicketOf(r, lease[r]) : r \in Stale}
  /\ UNCHANGED <<handlers, store, queue, drained, forgotten, router, lease,
                 supervisor, refunds>>

(* _expire_inactive_streams: a stream that was idle for too long.            *)
Expire(r) ==
  /\ Between /\ lease[r] # "none"
  /\ Settle({r})
  /\ releasing' = releasing \cup {TicketOf(r, lease[r])}
  /\ UNCHANGED <<handlers, queue, drained, forgotten, router, lease,
                 supervisor, refunds>>

(* enforce_drain_watchdogs: the worker is stopped by force, its requests are *)
(* refunded next, unless the COLD row could not be written.                  *)
Watchdog(w) ==
  /\ Between /\ up[w] = "DRAINING"
  /\ evicted' = evicted \cup admitted[w] \/ UNCHANGED evicted
  /\ admitted' = [admitted EXCEPT ![w] = {}]
  /\ up' = [up EXCEPT ![w] = "COLD"]
  /\ UNCHANGED <<handlers, store, scheduler, freeing, failing, failed>>

(* A refund that raises ends the loop.                                       *)
Evict(r) ==
  /\ r \in evicted
  /\ lease' = [lease EXCEPT ![r] = "none"]
  /\ \/ /\ evicted' = evicted \ {r}
        /\ IF lease[r] = "none" THEN UNCHANGED store ELSE Settle({r})
     \/ lease[r] # "none" /\ evicted' = {} /\ UNCHANGED store
  /\ UNCHANGED <<handlers, queue, drained, forgotten, router, releasing,
                 supervisor, failed>>

----------------------------------------------------------------------------
(* The workers, as WorkerSupervisor has them *)

Start(w) ==
  /\ up[w] \in {"ABSENT", "SLEEPING"} /\ mode = "ACTIVE"
  /\ up' = [up EXCEPT ![w] = "READY"]
  /\ UNCHANGED <<handlers, store, scheduler, freeing, admitted, failing,
                 refunds>>

(* sleep() and drain(), by the planner or by enter_maintenance().            *)
Drain(w) ==
  /\ up[w] = "READY"
  /\ up' = [up EXCEPT ![w] = "DRAINING"]
  /\ UNCHANGED <<handlers, store, scheduler, freeing, admitted, failing,
                 refunds>>

(* A drained worker goes to host RAM ...                                     *)
Park(w) ==
  /\ up[w] = "DRAINING" /\ admitted[w] = {}
  /\ up' = [up EXCEPT ![w] = "SLEEPING"]
  /\ UNCHANGED <<handlers, store, scheduler, freeing, admitted, failing,
                 refunds>>

(* ... or is stopped, as a parked one may be at any time.                    *)
Retire(w) ==
  /\ up[w] \in {"DRAINING", "SLEEPING"} /\ admitted[w] = {}
  /\ up' = [up EXCEPT ![w] = "COLD"]
  /\ UNCHANGED <<handlers, store, scheduler, freeing, admitted, failing,
                 refunds>>

(* Mutant: the admissions are left behind. *)
MutFail(w) ==
  /\ up[w] \in {"READY", "DRAINING", "SLEEPING"}
  /\ up' = [up EXCEPT ![w] = "COLD"]
  /\ failing' = failing \cup {w}
  /\ UNCHANGED <<handlers, store, scheduler, freeing, admitted, refunds>>

(* _fail: the admissions are gone before anybody hears of it.                *)
Fail(w) ==
  /\ up[w] \in {"READY", "DRAINING", "SLEEPING"}
  /\ up' = [up EXCEPT ![w] = "COLD"]
  /\ admitted' = [admitted EXCEPT ![w] = {}]
  /\ failing' = failing \cup {w}
  /\ UNCHANGED <<handlers, store, scheduler, freeing, refunds>>

(* worker_event("failed"): a snapshot of the worker's leases, which may miss *)
(* one that the router is about to make.  A failed write in _fail drops the  *)
(* event.                                                                    *)
FailureEvent(w) ==
  /\ w \in failing
  /\ failing' = failing \ {w}
  /\ failed' = failed \cup {r \in Rid : lease[r] = w} \/ UNCHANGED failed
  /\ UNCHANGED <<handlers, store, scheduler, freeing, up, admitted, evicted>>

(* A refund that raises ends the loop.                                       *)
FailRequest(r) ==
  /\ r \in failed
  /\ lease' = [lease EXCEPT ![r] = "none"]
  /\ \/ failed' = failed \ {r} /\ Settle({r})
     \/ failed' = {} /\ UNCHANGED store
  /\ UNCHANGED <<handlers, queue, drained, forgotten, router, releasing,
                 supervisor, evicted>>

----------------------------------------------------------------------------
(* Maintenance and restart *)

EnterMaintenance ==
  /\ Between
  /\ mode' = "DRAINING"
  /\ drained' = drained \cup queue
  /\ queue' = {}
  /\ UNCHANGED <<handlers, reservation, row, forgotten, router, lease,
                 releasing, supervisor, refunds>>

(* Mutant: the rejected handlers are not told. *)
MutRejectDrained(a) ==
  /\ a \in drained
  /\ drained' = drained \ {a}
  /\ Settle({RidOf[a]})
  /\ UNCHANGED <<handlers, queue, forgotten, router, lease, releasing,
                 supervisor, refunds>>

(* The handler is told and its reservation refunded.  A refund that raises   *)
(* ends the loop, and those the call has not come to are never told.         *)
RejectDrained(a) ==
  /\ a \in drained
  /\ future' = [future EXCEPT ![a] = IF @ = "pending" THEN "error" ELSE @]
  /\ \/ /\ drained' = drained \ {a}
        /\ Settle({RidOf[a]})
        /\ UNCHANGED forgotten
     \/ /\ \E rest \in SUBSET (drained \ {a}) :
             /\ drained' = drained \ ({a} \cup rest)
             /\ forgotten' = forgotten \cup rest
        /\ UNCHANGED store
  /\ UNCHANGED <<pc, queue, router, lease, releasing, supervisor, refunds>>

LeaveMaintenance ==
  /\ Between /\ mode # "ACTIVE"
  /\ \A w \in Worker : up[w] \in {"ABSENT", "COLD"}
  /\ mode' = "ACTIVE"
  /\ UNCHANGED <<handlers, reservation, row, scheduler, supervisor, refunds>>

(* The process dies and is started again.  recover_orphaned_state settles    *)
(* every open reservation before the first request is taken.                 *)
Restart ==
  /\ pc' = [a \in Attempt |-> IF pc[a] = "idle" THEN "idle" ELSE "done"]
  /\ future' = [a \in Attempt |-> "none"]
  /\ Settle(Rid)
  /\ queue' = {} /\ drained' = {} /\ forgotten' = {} /\ router' = Idle
  /\ lease' = [r \in Rid |-> "none"]
  /\ releasing' = {} /\ freeing' = {}
  /\ up' = [w \in Worker |-> "ABSENT"]
  /\ admitted' = [w \in Worker |-> {}]
  /\ failing' = {} /\ failed' = {} /\ evicted' = {}

----------------------------------------------------------------------------
Init ==
  /\ pc = [a \in Attempt |-> "idle"]
  /\ future = [a \in Attempt |-> "none"]
  /\ reservation = [r \in Rid |-> "NONE"]
  /\ row = [r \in Rid |-> "NONE"]
  /\ mode = "ACTIVE"
  /\ queue = {} /\ drained = {} /\ forgotten = {} /\ router = Idle
  /\ lease = [r \in Rid |-> "none"]
  /\ releasing = {} /\ freeing = {}
  /\ up = [w \in Worker |-> "ABSENT"]
  /\ admitted = [w \in Worker |-> {}]
  /\ failing = {} /\ failed = {} /\ evicted = {}

Handler(a) ==
  \/ Reserve(a) \/ Record(a) \/ Enqueue(a) \/ Refuse(a) \/ Resume(a)
  \/ Cancel(a) \/ Withdraw(a) \/ Reject(a) \/ Finish(a)

Route ==
  \/ \E a \in Attempt, w \in Worker : RouterAdmit(a, w)
  \/ RouterMark \/ RouterGrant \/ RouterOrphan \/ RouterUndo \/ RouterRefund

Scheduler ==
  \/ Route
  \/ \E t \in Ticket : Release(t) \/ Free(t)
  \/ Reap
  \/ \E r \in Rid : Expire(r) \/ Evict(r) \/ FailRequest(r)

Fleet(w) ==
  \/ Start(w) \/ Drain(w) \/ Park(w) \/ Retire(w)
  \/ Watchdog(w) \/ Fail(w) \/ FailureEvent(w)

Maintenance ==
  \/ EnterMaintenance \/ LeaveMaintenance
  \/ \E a \in Attempt : RejectDrained(a)

Uninterrupted ==
  \/ \E a \in Attempt : Handler(a)
  \/ Scheduler
  \/ \E w \in Worker : Fleet(w)
  \/ Maintenance

Next == Uninterrupted \/ Restart

Spec == Init /\ [][Next]_vars

(* One run of the service. *)
SpecUninterrupted == Init /\ [][Uninterrupted]_vars

(* The event loop runs every task that is ready; a worker answers or the     *)
(* handler gives up, and the scheduler task wakes up every tick.             *)
Fairness ==
  /\ \A a \in Attempt :
       WF_vars(Resume(a)) /\ WF_vars(Reject(a)) /\ WF_vars(Finish(a))
       /\ SF_vars(Withdraw(a))
  /\ WF_vars(RouterMark) /\ WF_vars(RouterGrant) /\ WF_vars(RouterOrphan)
  /\ WF_vars(RouterUndo) /\ WF_vars(RouterRefund)
  /\ \A t \in Ticket : WF_vars(Release(t)) /\ WF_vars(Free(t))
  /\ SF_vars(Reap)
  /\ \A r \in Rid : WF_vars(Evict(r)) /\ WF_vars(FailRequest(r))
  /\ \A w \in Worker : SF_vars(FailureEvent(w))

FairSpec == Spec /\ Fairness

----------------------------------------------------------------------------
(* Properties *)

(* In particular a handler that serves holds a lease, and a worker that is   *)
(* not up has no admissions.                                                 *)
TypeOK ==
  /\ pc \in [Attempt -> {"idle", "reserved", "recorded", "queued", "dequeuing",
                         "rejecting", "serving", "done", "unrefunded"}]
  /\ future \in [Attempt -> Worker \cup {"none", "pending", "error", "cancelled"}]
  /\ \A a \in Attempt : /\ pc[a] = "queued" => future[a] # "none"
                        /\ pc[a] = "serving" => future[a] \in Worker
  /\ reservation \in [Rid -> {"NONE", "RESERVED", "SETTLED"}]
  /\ row \in [Rid -> {"NONE", "QUEUED", "ADMITTED", "DONE"}]
  /\ mode \in {"ACTIVE", "DRAINING"}
  /\ queue \cup drained \cup forgotten \subseteq Attempt
  /\ router \in Routing \cup {Idle}
  /\ lease \in [Rid -> Worker \cup {"none"}]
  /\ releasing \subseteq Ticket /\ freeing \subseteq Ticket
  /\ up \in [Worker -> {"ABSENT", "READY", "DRAINING", "SLEEPING", "COLD"}]
  /\ admitted \in [Worker -> SUBSET Rid]
  /\ \A w \in Worker : up[w] \notin {"READY", "DRAINING"} => admitted[w] = {}
  /\ failing \subseteq Worker
  /\ failed \subseteq Rid /\ evicted \subseteq Rid

(* As long as its row says ADMITTED, a request that is being served counts   *)
(* as admitted at its worker, which therefore is neither parked nor stopped  *)
(* by a drain that waits for admitted requests.                              *)
ServedIsAdmitted ==
  \A a \in Attempt :
    /\ pc[a] = "serving" /\ row[RidOf[a]] = "ADMITTED"
    /\ up[future[a]] # "COLD"
    => RidOf[a] \in admitted[future[a]]

(* An admission always belongs to a lease, to the router, or to a release    *)
(* that is under way: none is forgotten, or a drain would never end.         *)
AdmissionHasOwner ==
  \A w \in Worker : \A r \in admitted[w] :
    \/ lease[r] = w
    \/ ~Between /\ router.worker = w /\ RidOf[router.attempt] = r
    \/ TicketOf(r, w) \in freeing

(* A handler that waits is in a queue or in the hands of the router or of    *)
(* enter_maintenance(), so that somebody will resolve its future.  The one   *)
(* thing that breaks this is a refund that raises in enter_maintenance().    *)
NoLostWaiter ==
  \A a \in Attempt :
    pc[a] = "queued" /\ future[a] = "pending"
      => \/ a \in queue \cup drained \cup forgotten
         \/ ~Between /\ router.attempt = a

(* A queued or active request has an open reservation to charge, so that a   *)
(* usage summary, which deletes what is settled, leaves it untouched.        *)
ActiveIsUnsettled ==
  \A r \in Rid : row[r] \in {"QUEUED", "ADMITTED"} => reservation[r] = "RESERVED"

(* Every admission ends, and every lease, one made after its worker failed   *)
(* included, whoever of client, worker, scheduler and administrator comes    *)
(* first: otherwise the worker could never be drained.  The reaper takes a   *)
(* lease for settled by its row, so that a handler that could not refund     *)
(* keeps its admission until the next start.                                 *)
Unrefunded(r) == \E a \in Attempt : RidOf[a] = r /\ pc[a] = "unrefunded"

AdmissionEnds ==
  \A w \in Worker, r \in Rid :
    r \in admitted[w] \/ lease[r] = w
      ~> (r \notin admitted[w] /\ lease[r] # w) \/ Unrefunded(r)
=============================================================================
