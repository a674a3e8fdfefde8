---------------------- MODULE RequestLifecycleProofs ----------------------
(***************************************************************************)
(* Theorems about RequestLifecycle for any attempts, request ids, workers  *)
(* and queue capacity.  All but the typing theorem are about services      *)
(* whose clients never use a request id twice: MCRequestRetry shows what   *)
(* becomes of them otherwise.                                              *)
(***************************************************************************)
EXTENDS RequestLifecycle, TLAPS

(* Every attempt has a request id of its own. *)
Injective == \A a, b \in Attempt : RidOf[a] = RidOf[b] => a = b

(* The router is busy with this attempt. *)
Holds(a) == ~Between /\ router.attempt = a

(* Its handler cannot go on before it is told or gets the lock. *)
Waits(a) ==
  \/ pc[a] = "queued" /\ future[a] = "pending"
  \/ pc[a] = "dequeuing"

(* Nothing was ever granted to a request. *)
Untouched(r) ==
  /\ lease[r] = "none"
  /\ \A w \in Worker : r \notin admitted[w]
  /\ \A t \in releasing \cup freeing : t.rid # r
  /\ r \notin failed \cup evicted

(* The scheduler does not know a handler before it enqueues. *)
EarlyIsUntouched ==
  \A a \in Attempt : pc[a] \in {"idle", "reserved", "recorded"} =>
    /\ Untouched(RidOf[a])
    /\ a \notin queue \cup drained /\ ~Holds(a)

(* Nobody settles a reservation before its request is queued. *)
EarlyIsUnsettled ==
  \A a \in Attempt :
    /\ pc[a] = "idle" => reservation[RidOf[a]] = "NONE" /\ row[RidOf[a]] = "NONE"
    /\ pc[a] = "reserved" => reservation[RidOf[a]] = "RESERVED" /\ row[RidOf[a]] = "NONE"

(* A queue entry is in no other hands, and nothing was granted to it. *)
QueuedIsUntouched ==
  \A a \in queue :
    /\ Untouched(RidOf[a])
    /\ a \notin drained /\ ~Holds(a)
    /\ Waits(a) /\ future[a] \notin Worker

(* What the router holds is its own. *)
RouterOwns ==
  ~Between =>
    LET r == RidOf[router.attempt]
        w == router.worker
    IN /\ IF router.step = "orphan"
          THEN lease[r] = w \/ (lease[r] = "none" /\ r \notin admitted[w])
          ELSE lease[r] = "none"
       /\ \A v \in Worker : r \in admitted[v] => v = w
       /\ router.step = "refund" => r \notin admitted[w]
       /\ router.step \in {"marking", "marked"} /\ up[w] # "COLD" => r \in admitted[w]
       /\ \A t \in releasing \cup freeing : t.rid # r
       /\ r \notin evicted
       /\ r \in failed => router.step = "orphan"
       /\ router.attempt \notin drained
       /\ Waits(router.attempt)
       /\ IF router.step = "orphan" THEN future[router.attempt] # "pending"
                                    ELSE future[router.attempt] \notin Worker

(* All that concerns an admission agrees on the worker. *)
OneAdmission ==
  /\ \A r \in Rid, v, w \in Worker :
       r \in admitted[v] => /\ r \in admitted[w] => v = w
                            /\ lease[r] # "none" => lease[r] = v
  /\ \A t \in releasing : lease[t.rid] \in {"none", t.worker}
  /\ \A a \in Attempt :
       future[a] \in Worker => lease[RidOf[a]] \in {"none", future[a]}
  /\ \A r \in failed \cup evicted, w \in Worker : r \notin admitted[w]
  /\ \A w \in failing : up[w] = "COLD"

(* A lease is released when its request is over. *)
ReleasedIsOver ==
  \A t \in releasing \cup freeing, a \in Attempt :
    RidOf[a] = t.rid => row[t.rid] # "ADMITTED" \/ pc[a] = "done"

(* ServedIsAdmitted from the moment the lease is in the future. *)
GrantedIsAdmitted ==
  \A a \in Attempt :
    /\ pc[a] \in {"queued", "serving"} /\ row[RidOf[a]] = "ADMITTED"
    /\ future[a] \in Worker /\ up[future[a]] # "COLD"
    => RidOf[a] \in admitted[future[a]]

(* ServedIsAdmitted needs the whole history of an admission: that nobody     *)
(* acts for a request before it is queued, that the router is alone with it  *)
(* until it is granted, that lease, tickets and admission agree on the       *)
(* worker, and that a lease is given back only when its row is closed.       *)
IInv ==
  /\ TypeOK /\ EarlyIsUntouched /\ EarlyIsUnsettled /\ QueuedIsUntouched
  /\ RouterOwns /\ OneAdmission /\ ReleasedIsOver /\ GrantedIsAdmitted
  /\ AdmissionHasOwner /\ NoLostWaiter /\ ActiveIsUnsettled

(* Every step keeps the types. *)
LEMMA TypeStep == TypeOK /\ [Next]_vars => TypeOK'
<1> SUFFICES ASSUME TypeOK, [Next]_vars PROVE TypeOK'
  OBVIOUS
<1> USE RequestAssumption
<1> USE DEF TypeOK, Between, Idle, Routing, Ticket, TicketOf, Settle,
            handlers, store, scheduler, supervisor, refunds
<1>1. ASSUME NEW a \in Attempt, Reserve(a)
      PROVE  TypeOK'
  BY <1>1 DEF Reserve
<1>2. ASSUME NEW a \in Attempt, Record(a)
      PROVE  TypeOK'
  BY <1>2 DEF Record
<1>3. ASSUME NEW a \in Attempt, Enqueue(a)
      PROVE  TypeOK'
  BY <1>3 DEF Enqueue
<1>4. ASSUME NEW a \in Attempt, Refuse(a)
      PROVE  TypeOK'
  BY <1>4 DEF Refuse
<1>5. ASSUME NEW a \in Attempt, Resume(a)
      PROVE  TypeOK'
  BY <1>5 DEF Resume
<1>6. ASSUME NEW a \in Attempt, Cancel(a)
      PROVE  TypeOK'
  BY <1>6 DEF Cancel
<1>7. ASSUME NEW a \in Attempt, Withdraw(a)
      PROVE  TypeOK'
  BY <1>7 DEF Withdraw
<1>8. ASSUME NEW a \in Attempt, Reject(a)
      PROVE  TypeOK'
  BY <1>8 DEF Reject
<1>9. ASSUME NEW a \in Attempt, Finish(a)
      PROVE  TypeOK'
  BY <1>9 DEF Finish
<1>10. ASSUME NEW a \in Attempt, NEW w \in Worker, RouterAdmit(a, w)
      PROVE  TypeOK'
  BY <1>10 DEF RouterAdmit
<1>11. ASSUME RouterMark
      PROVE  TypeOK'
  BY <1>11 DEF RouterMark
<1>12. ASSUME RouterGrant
      PROVE  TypeOK'
  BY <1>12 DEF RouterGrant
<1>13. ASSUME RouterOrphan
      PROVE  TypeOK'
  BY <1>13 DEF RouterOrphan
<1>14. ASSUME RouterUndo
      PROVE  TypeOK'
  BY <1>14 DEF RouterUndo
<1>15. ASSUME RouterRefund
      PROVE  TypeOK'
  BY <1>15 DEF RouterRefund
<1>16. ASSUME NEW t \in Ticket, Release(t)
      PROVE  TypeOK'
  BY <1>16 DEF Release
<1>17. ASSUME NEW t \in Ticket, Free(t)
      PROVE  TypeOK'
  BY <1>17 DEF Free
<1>18. ASSUME Reap
      PROVE  TypeOK'
  <2>1. {TicketOf(r, lease[r]) : r \in Stale} \subseteq Ticket
    BY DEF Stale
  <2> QED
    BY <1>18, <2>1 DEF Reap
<1>19. ASSUME NEW r \in Rid, Expire(r)
      PROVE  TypeOK'
  BY <1>19 DEF Expire
<1>20. ASSUME NEW r \in Rid, Evict(r)
      PROVE  TypeOK'
  BY <1>20 DEF Evict
<1>21. ASSUME NEW r \in Rid, FailRequest(r)
      PROVE  TypeOK'
  BY <1>21 DEF FailRequest
<1>22. ASSUME NEW w \in Worker, Start(w)
      PROVE  TypeOK'
  BY <1>22 DEF Start
<1>23. ASSUME NEW w \in Worker, Drain(w)
      PROVE  TypeOK'
  BY <1>23 DEF Drain
<1>24. ASSUME NEW w \in Worker, Park(w)
      PROVE  TypeOK'
  BY <1>24 DEF Park
<1>25. ASSUME NEW w \in Worker, Retire(w)
      PROVE  TypeOK'
  BY <1>25 DEF Retire
<1>26. ASSUME NEW w \in Worker, Watchdog(w)
      PROVE  TypeOK'
  BY <1>26 DEF Watchdog
<1>27. ASSUME NEW w \in Worker, Fail(w)
      PROVE  TypeOK'
  BY <1>27 DEF Fail
<1>28. ASSUME NEW w \in Worker, FailureEvent(w)
      PROVE  TypeOK'
  BY <1>28 DEF FailureEvent
<1>29. ASSUME EnterMaintenance
      PROVE  TypeOK'
  BY <1>29 DEF EnterMaintenance
<1>30. ASSUME LeaveMaintenance
      PROVE  TypeOK'
  BY <1>30 DEF LeaveMaintenance
<1>31. ASSUME NEW a \in Attempt, RejectDrained(a)
      PROVE  TypeOK'
  BY <1>31 DEF RejectDrained
<1>32. ASSUME Restart
      PROVE  TypeOK'
  BY <1>32 DEF Restart
<1>33. CASE UNCHANGED vars
  BY <1>33 DEF vars, handlers, store, scheduler, supervisor, refunds
<1> QED
  BY <1>1, <1>2, <1>3, <1>4, <1>5, <1>6, <1>7, <1>8, <1>9, <1>10, <1>11,
     <1>12, <1>13, <1>14, <1>15, <1>16, <1>17, <1>18, <1>19, <1>20, <1>21,
     <1>22, <1>23, <1>24, <1>25, <1>26, <1>27, <1>28, <1>29, <1>30, <1>31,
     <1>32, <1>33
     DEF Next, Uninterrupted, Handler, Scheduler, Route, Fleet, Maintenance

(* Every step keeps it. *)
LEMMA InductiveStep ==
  ASSUME Injective
  PROVE  IInv /\ [Next]_vars => IInv'
<1> SUFFICES ASSUME IInv, [Next]_vars PROVE IInv'
  OBVIOUS
<1>0. TypeOK'
  BY TypeStep DEF IInv
<1> USE RequestAssumption, <1>0, Injective
<1> USE DEF TypeOK, Between, Idle, Routing, Ticket, TicketOf, Settle, Injective,
            handlers, store, scheduler, supervisor, refunds,
            IInv, Holds, Waits, Untouched, EarlyIsUntouched, EarlyIsUnsettled,
            QueuedIsUntouched, RouterOwns, OneAdmission, ReleasedIsOver,
            GrantedIsAdmitted, AdmissionHasOwner, NoLostWaiter, ActiveIsUnsettled
<1>1. ASSUME NEW x \in Attempt, Reserve(x)
      PROVE  IInv'
  BY <1>1 DEF Reserve
<1>2. ASSUME NEW x \in Attempt, Record(x)
      PROVE  IInv'
  BY <1>2 DEF Record
<1>3. ASSUME NEW x \in Attempt, Enqueue(x)
      PROVE  IInv'
  BY <1>3 DEF Enqueue
<1>4. ASSUME NEW x \in Attempt, Refuse(x)
      PROVE  IInv'
  BY <1>4 DEF Refuse
<1>5. ASSUME NEW x \in Attempt, Resume(x)
      PROVE  IInv'
  BY <1>5 DEF Resume
<1>6. ASSUME NEW x \in Attempt, Cancel(x)
      PROVE  IInv'
  <2>1. EarlyIsUntouched'
    BY <1>6 DEF Cancel
  <2>2. EarlyIsUnsettled'
    BY <1>6 DEF Cancel
  <2>3. QueuedIsUntouched'
    BY <1>6 DEF Cancel
  <2>4. RouterOwns'
    BY <1>6 DEF Cancel
  <2>5. OneAdmission'
    BY <1>6 DEF Cancel
  <2>6. ReleasedIsOver'
    BY <1>6 DEF Cancel
  <2>7. GrantedIsAdmitted'
    BY <1>6 DEF Cancel
  <2>8. AdmissionHasOwner'
    BY <1>6 DEF Cancel
  <2>9. NoLostWaiter'
    BY <1>6 DEF Cancel
  <2>10. ActiveIsUnsettled'
    BY <1>6 DEF Cancel
  <2> QED
    BY <2>1, <2>2, <2>3, <2>4, <2>5, <2>6, <2>7, <2>8, <2>9, <2>10
<1>7. ASSUME NEW x \in Attempt, Withdraw(x)
      PROVE  IInv'
  BY <1>7 DEF Withdraw
<1>8. ASSUME NEW x \in Attempt, Reject(x)
      PROVE  IInv'
  <2>1. EarlyIsUntouched'
    BY <1>8 DEF Reject
  <2>2. EarlyIsUnsettled'
    BY <1>8 DEF Reject
  <2>3. QueuedIsUntouched'
    BY <1>8 DEF Reject
  <2>4. RouterOwns'
    BY <1>8 DEF Reject
  <2>5. OneAdmission'
    BY <1>8 DEF Reject
  <2>6. ReleasedIsOver'
    BY <1>8 DEF Reject
  <2>7. GrantedIsAdmitted'
    BY <1>8 DEF Reject
  <2>8. AdmissionHasOwner'
    BY <1>8 DEF Reject
  <2>9. NoLostWaiter'
    BY <1>8 DEF Reject
  <2>10. ActiveIsUnsettled'
    BY <1>8 DEF Reject
  <2> QED
    BY <2>1, <2>2, <2>3, <2>4, <2>5, <2>6, <2>7, <2>8, <2>9, <2>10
<1>9. ASSUME NEW x \in Attempt, Finish(x)
      PROVE  IInv'
  <2>1. EarlyIsUntouched'
    BY <1>9 DEF Finish
  <2>2. EarlyIsUnsettled'
    BY <1>9 DEF Finish
  <2>3. QueuedIsUntouched'
    BY <1>9 DEF Finish
  <2>4. RouterOwns'
    BY <1>9 DEF Finish
  <2>5. OneAdmission'
    BY <1>9 DEF Finish
  <2>6. ReleasedIsOver'
    BY <1>9 DEF Finish
  <2>7. GrantedIsAdmitted'
    BY <1>9 DEF Finish
  <2>8. AdmissionHasOwner'
    BY <1>9 DEF Finish
  <2>9. NoLostWaiter'
    BY <1>9 DEF Finish
  <2>10. ActiveIsUnsettled'
    BY <1>9 DEF Finish
  <2> QED
    BY <2>1, <2>2, <2>3, <2>4, <2>5, <2>6, <2>7, <2>8, <2>9, <2>10
<1>10. ASSUME NEW x \in Attempt, NEW v \in Worker, RouterAdmit(x, v)
      PROVE  IInv'
  <2>1. EarlyIsUntouched'
    BY <1>10 DEF RouterAdmit
  <2>2. EarlyIsUnsettled'
    BY <1>10 DEF RouterAdmit
  <2>3. QueuedIsUntouched'
    BY <1>10 DEF RouterAdmit
  <2>0. /\ ~Between' /\ router'.step = "marking"
        /\ router'.attempt = x /\ router'.worker = v
    BY <1>10 DEF RouterAdmit
  <2>4. RouterOwns'
    <3>1. x \in queue /\ Untouched(RidOf[x]) /\ Waits(x) /\ x \notin drained
      BY <1>10 DEF RouterAdmit
    <3>2. /\ \A u \in Worker : RidOf[x] \in admitted'[u] => u = v
          /\ RidOf[x] \in admitted'[v]
      BY <1>10, <3>1 DEF RouterAdmit
    <3>3. /\ lease'[RidOf[x]] = "none"
          /\ \A t \in releasing' \cup freeing' : t.rid # RidOf[x]
          /\ RidOf[x] \notin failed' \cup evicted'
          /\ x \notin drained' /\ Waits(x)'
      BY <1>10, <3>1 DEF RouterAdmit
    <3>4. future'[x] \notin Worker
      BY <1>10, <3>1 DEF RouterAdmit
    <3> QED
      BY <2>0, <3>2, <3>3, <3>4
  <2>5. OneAdmission'
    BY <1>10 DEF RouterAdmit
  <2>6. ReleasedIsOver'
    BY <1>10 DEF RouterAdmit
  <2>7. GrantedIsAdmitted'
    BY <1>10 DEF RouterAdmit
  <2>8. AdmissionHasOwner'
    <3> SUFFICES ASSUME NEW w \in Worker, NEW r \in admitted'[w]
                 PROVE  lease'[r] = w \/ (w = v /\ r = RidOf[x])
                        \/ TicketOf(r, w) \in freeing'
      BY <2>0
    <3>1. r \in admitted[w] \/ (w = v /\ r = RidOf[x])
      BY <1>10 DEF RouterAdmit
    <3>2. lease' = lease /\ freeing' = freeing /\ Between
      BY <1>10 DEF RouterAdmit
    <3> QED
      BY <3>1, <3>2
  <2>9. NoLostWaiter'
    BY <1>10 DEF RouterAdmit
  <2>10. ActiveIsUnsettled'
    BY <1>10 DEF RouterAdmit
  <2> QED
    BY <2>1, <2>2, <2>3, <2>4, <2>5, <2>6, <2>7, <2>8, <2>9, <2>10
<1>11. ASSUME RouterMark
      PROVE  IInv'
  BY <1>11 DEF RouterMark
<1>12. ASSUME RouterGrant
      PROVE  IInv'
  <2>1. EarlyIsUntouched'
    BY <1>12 DEF RouterGrant
  <2>2. EarlyIsUnsettled'
    BY <1>12 DEF RouterGrant
  <2>3. QueuedIsUntouched'
    BY <1>12 DEF RouterGrant
  <2>4. RouterOwns'
    BY <1>12 DEF RouterGrant
  <2> DEFINE a == router.attempt
             r == RidOf[a]
             w == router.worker
  <2>0. /\ ~Between /\ router.step = "marked"
        /\ a \in Attempt /\ r \in Rid /\ w \in Worker
        /\ lease' = [lease EXCEPT ![r] = w]
        /\ future' = future \/ future' = [future EXCEPT ![a] = w]
        /\ UNCHANGED <<releasing, supervisor, refunds>>
    BY <1>12 DEF RouterGrant
  <2>5. OneAdmission'
    <3>1. /\ \A u \in Worker : r \in admitted[u] => u = w
          /\ \A t \in releasing : t.rid # r
          /\ future[a] \notin Worker
      BY <2>0
    <3> HIDE DEF a, r, w
    <3>2. \A p \in Rid, v, u \in Worker :
            p \in admitted'[v] => /\ p \in admitted'[u] => v = u
                                  /\ lease'[p] # "none" => lease'[p] = v
      BY <2>0, <3>1
    <3>3. \A t \in releasing' : lease'[t.rid] \in {"none", t.worker}
      BY <2>0, <3>1
    <3>4. \A b \in Attempt :
            future'[b] \in Worker => lease'[RidOf[b]] \in {"none", future'[b]}
      BY <2>0, <3>1 DEF r, a
    <3>5. /\ \A p \in failed' \cup evicted', u \in Worker : p \notin admitted'[u]
          /\ \A u \in failing' : up'[u] = "COLD"
      BY <2>0
    <3> QED
      BY ONLY <3>2, <3>3, <3>4, <3>5 DEF OneAdmission
  <2>6. ReleasedIsOver'
    BY <1>12 DEF RouterGrant
  <2>7. GrantedIsAdmitted'
    BY <1>12 DEF RouterGrant
  <2>8. AdmissionHasOwner'
    <3> SUFFICES ASSUME NEW u \in Worker, NEW p \in admitted'[u]
                 PROVE  lease'[p] = u \/ TicketOf(p, u) \in freeing'
      OBVIOUS
    <3>1. p \in admitted[u] /\ freeing' = freeing /\ p \in Rid
      BY <2>0
    <3>2. CASE p = r
      <4>1. u = w
        BY <2>0, <3>1, <3>2
      <4> QED
        BY <2>0, <3>2, <4>1
    <3>3. CASE p # r
      <4>1. lease'[p] = lease[p]
        BY <2>0, <3>1, <3>3
      <4>2. lease[p] = u \/ TicketOf(p, u) \in freeing
        BY <2>0, <3>1, <3>3
      <4> QED
        BY <3>1, <4>1, <4>2
    <3> QED
      BY <3>2, <3>3
  <2>9. NoLostWaiter'
    BY <1>12 DEF RouterGrant
  <2>10. ActiveIsUnsettled'
    BY <1>12 DEF RouterGrant
  <2> QED
    BY <2>1, <2>2, <2>3, <2>4, <2>5, <2>6, <2>7, <2>8, <2>9, <2>10
<1>13. ASSUME RouterOrphan
      PROVE  IInv'
  <2>1. EarlyIsUntouched'
    BY <1>13 DEF RouterOrphan
  <2>2. EarlyIsUnsettled'
    BY <1>13 DEF RouterOrphan
  <2>3. QueuedIsUntouched'
    BY <1>13 DEF RouterOrphan
  <2>4. RouterOwns'
    BY <1>13 DEF RouterOrphan
  <2>5. OneAdmission'
    BY <1>13 DEF RouterOrphan
  <2>6. ReleasedIsOver'
    BY <1>13 DEF RouterOrphan
  <2>7. GrantedIsAdmitted'
    BY <1>13 DEF RouterOrphan
  <2>0. /\ ~Between /\ router.step = "orphan" /\ router' = Idle
        /\ \/ lease[RidOf[router.attempt]] = router.worker
           \/ RidOf[router.attempt] \notin admitted[router.worker]
        /\ UNCHANGED <<pc, future, queue, drained, forgotten, lease, supervisor>>
    BY <1>13 DEF RouterOrphan
  <2>8. AdmissionHasOwner'
    <3> SUFFICES ASSUME NEW u \in Worker, NEW p \in admitted'[u]
                 PROVE  lease'[p] = u \/ TicketOf(p, u) \in freeing'
      OBVIOUS
    <3>1. p \in admitted[u] /\ freeing' = freeing /\ lease' = lease
      BY <2>0
    <3> QED
      BY <2>0, <3>1
  <2>9. NoLostWaiter'
    <3>1. ~(pc[router.attempt] = "queued" /\ future[router.attempt] = "pending")
      BY <2>0
    <3> QED
      BY <2>0, <3>1
  <2>10. ActiveIsUnsettled'
    BY <1>13 DEF RouterOrphan
  <2> QED
    BY <2>1, <2>2, <2>3, <2>4, <2>5, <2>6, <2>7, <2>8, <2>9, <2>10
<1>14. ASSUME RouterUndo
      PROVE  IInv'
  BY <1>14 DEF RouterUndo
<1>15. ASSUME RouterRefund
      PROVE  IInv'
  <2>1. EarlyIsUntouched'
    BY <1>15 DEF RouterRefund
  <2>2. EarlyIsUnsettled'
    BY <1>15 DEF RouterRefund
  <2>3. QueuedIsUntouched'
    BY <1>15 DEF RouterRefund
  <2>4. RouterOwns'
    BY <1>15 DEF RouterRefund
  <2>5. OneAdmission'
    BY <1>15 DEF RouterRefund
  <2>6. ReleasedIsOver'
    BY <1>15 DEF RouterRefund
  <2>7. GrantedIsAdmitted'
    BY <1>15 DEF RouterRefund
  <2>8. AdmissionHasOwner'
    <3> SUFFICES ASSUME NEW u \in Worker, NEW p \in admitted'[u]
                 PROVE  lease'[p] = u \/ TicketOf(p, u) \in freeing'
      OBVIOUS
    <3>1. /\ UNCHANGED <<admitted, freeing, lease>>
          /\ RidOf[router.attempt] \notin admitted[router.worker]
      BY <1>15 DEF RouterRefund
    <3>2. p \in admitted[u]
      BY <3>1
    <3>3. ~(router.worker = u /\ RidOf[router.attempt] = p)
      BY <3>1, <3>2
    <3> QED
      BY <3>1, <3>2, <3>3
  <2>9. NoLostWaiter'
    BY <1>15 DEF RouterRefund
  <2>10. ActiveIsUnsettled'
    BY <1>15 DEF RouterRefund
  <2> QED
    BY <2>1, <2>2, <2>3, <2>4, <2>5, <2>6, <2>7, <2>8, <2>9, <2>10
<1>16. ASSUME NEW k \in Ticket, Release(k)
      PROVE  IInv'
  BY <1>16 DEF Release
<1>17. ASSUME NEW k \in Ticket, Free(k)
      PROVE  IInv'
  BY <1>17 DEF Free
<1>18. ASSUME Reap
      PROVE  IInv'
  BY <1>18 DEF Reap, Stale
<1>19. ASSUME NEW p \in Rid, Expire(p)
      PROVE  IInv'
  BY <1>19 DEF Expire
<1>20. ASSUME NEW p \in Rid, Evict(p)
      PROVE  IInv'
  <2>1. EarlyIsUntouched'
    BY <1>20 DEF Evict
  <2>2. EarlyIsUnsettled'
    BY <1>20 DEF Evict
  <2>3. QueuedIsUntouched'
    BY <1>20 DEF Evict
  <2>4. RouterOwns'
    BY <1>20 DEF Evict
  <2>5. OneAdmission'
    BY <1>20 DEF Evict
  <2>6. ReleasedIsOver'
    BY <1>20 DEF Evict
  <2>7. GrantedIsAdmitted'
    BY <1>20 DEF Evict
  <2>8. AdmissionHasOwner'
    <3> SUFFICES ASSUME NEW u \in Worker, NEW q \in admitted'[u]
                 PROVE  \/ lease'[q] = u
                        \/ ~Between' /\ router'.worker = u /\ RidOf[router'.attempt] = q
                        \/ TicketOf(q, u) \in freeing'
      OBVIOUS
    <3>1. /\ q \in admitted[u] /\ q \in Rid
          /\ UNCHANGED <<freeing, router>> /\ lease' = [lease EXCEPT ![p] = "none"]
      BY <1>20 DEF Evict
    <3>2. q # p
      BY <1>20, <3>1 DEF Evict
    <3> QED
      BY <3>1, <3>2
  <2>9. NoLostWaiter'
    BY <1>20 DEF Evict
  <2>10. ActiveIsUnsettled'
    BY <1>20 DEF Evict
  <2> QED
    BY <2>1, <2>2, <2>3, <2>4, <2>5, <2>6, <2>7, <2>8, <2>9, <2>10
<1>21. ASSUME NEW p \in Rid, FailRequest(p)
      PROVE  IInv'
  <2>1. EarlyIsUntouched'
    BY <1>21 DEF FailRequest
  <2>2. EarlyIsUnsettled'
    BY <1>21 DEF FailRequest
  <2>3. QueuedIsUntouched'
    BY <1>21 DEF FailRequest
  <2>4. RouterOwns'
    BY <1>21 DEF FailRequest
  <2>5. OneAdmission'
    BY <1>21 DEF FailRequest
  <2>6. ReleasedIsOver'
    BY <1>21 DEF FailRequest
  <2>7. GrantedIsAdmitted'
    BY <1>21 DEF FailRequest
  <2>8. AdmissionHasOwner'
    <3> SUFFICES ASSUME NEW u \in Worker, NEW q \in admitted'[u]
                 PROVE  \/ lease'[q] = u
                        \/ ~Between' /\ router'.worker = u /\ RidOf[router'.attempt] = q
                        \/ TicketOf(q, u) \in freeing'
      OBVIOUS
    <3>1. /\ q \in admitted[u] /\ q \in Rid
          /\ UNCHANGED <<freeing, router>> /\ lease' = [lease EXCEPT ![p] = "none"]
      BY <1>21 DEF FailRequest
    <3>2. q # p
      BY <1>21, <3>1 DEF FailRequest
    <3> QED
      BY <3>1, <3>2
  <2>9. NoLostWaiter'
    BY <1>21 DEF FailRequest
  <2>10. ActiveIsUnsettled'
    BY <1>21 DEF FailRequest
  <2> QED
    BY <2>1, <2>2, <2>3, <2>4, <2>5, <2>6, <2>7, <2>8, <2>9, <2>10
<1>22. ASSUME NEW v \in Worker, Start(v)
      PROVE  IInv'
  BY <1>22 DEF Start
<1>23. ASSUME NEW v \in Worker, Drain(v)
      PROVE  IInv'
  BY <1>23 DEF Drain
<1>24. ASSUME NEW v \in Worker, Park(v)
      PROVE  IInv'
  BY <1>24 DEF Park
<1>25. ASSUME NEW v \in Worker, Retire(v)
      PROVE  IInv'
  BY <1>25 DEF Retire
<1>26. ASSUME NEW v \in Worker, Watchdog(v)
      PROVE  IInv'
  BY <1>26 DEF Watchdog
<1>27. ASSUME NEW v \in Worker, Fail(v)
      PROVE  IInv'
  BY <1>27 DEF Fail
<1>28. ASSUME NEW v \in Worker, FailureEvent(v)
      PROVE  IInv'
  <2>1. EarlyIsUntouched'
    BY <1>28 DEF FailureEvent
  <2>2. EarlyIsUnsettled'
    BY <1>28 DEF FailureEvent
  <2>3. QueuedIsUntouched'
    BY <1>28 DEF FailureEvent
  <2>4. RouterOwns'
    BY <1>28 DEF FailureEvent
  <2>5. OneAdmission'
    BY <1>28 DEF FailureEvent
  <2>6. ReleasedIsOver'
    BY <1>28 DEF FailureEvent
  <2>7. GrantedIsAdmitted'
    BY <1>28 DEF FailureEvent
  <2>8. AdmissionHasOwner'
    BY <1>28 DEF FailureEvent
  <2>9. NoLostWaiter'
    BY <1>28 DEF FailureEvent
  <2>10. ActiveIsUnsettled'
    BY <1>28 DEF FailureEvent
  <2> QED
    BY <2>1, <2>2, <2>3, <2>4, <2>5, <2>6, <2>7, <2>8, <2>9, <2>10
<1>29. ASSUME EnterMaintenance
      PROVE  IInv'
  BY <1>29 DEF EnterMaintenance
<1>30. ASSUME LeaveMaintenance
      PROVE  IInv'
  BY <1>30 DEF LeaveMaintenance
<1>31. ASSUME NEW x \in Attempt, RejectDrained(x)
      PROVE  IInv'
  BY <1>31 DEF RejectDrained
<1>32. ASSUME Restart
      PROVE  IInv'
  BY <1>32 DEF Restart
<1>33. CASE UNCHANGED vars
  BY <1>33 DEF vars
<1> QED
  BY <1>1, <1>2, <1>3, <1>4, <1>5, <1>6, <1>7, <1>8, <1>9, <1>10, <1>11,
     <1>12, <1>13, <1>14, <1>15, <1>16, <1>17, <1>18, <1>19, <1>20, <1>21,
     <1>22, <1>23, <1>24, <1>25, <1>26, <1>27, <1>28, <1>29, <1>30, <1>31,
     <1>32, <1>33
     DEF Next, Uninterrupted, Handler, Scheduler, Route, Fleet, Maintenance

LEMMA InitIInv == Init => IInv
<1> SUFFICES ASSUME Init PROVE IInv
  OBVIOUS
<1> USE RequestAssumption
<1>1. TypeOK
  BY DEF Init, TypeOK, Idle
<1>2. /\ EarlyIsUntouched /\ EarlyIsUnsettled /\ QueuedIsUntouched
      /\ RouterOwns /\ OneAdmission /\ ReleasedIsOver
  BY DEF Init, Between, Holds, Untouched, EarlyIsUntouched, EarlyIsUnsettled,
         QueuedIsUntouched, RouterOwns, OneAdmission, ReleasedIsOver
<1>3. GrantedIsAdmitted /\ AdmissionHasOwner /\ NoLostWaiter /\ ActiveIsUnsettled
  BY DEF Init, GrantedIsAdmitted, AdmissionHasOwner, NoLostWaiter, ActiveIsUnsettled
<1> QED
  BY <1>1, <1>2, <1>3 DEF IInv

LEMMA InductiveInvariant ==
  ASSUME Injective
  PROVE  Spec => []IInv
<1>1. IInv /\ [Next]_vars => IInv'
  BY InductiveStep
<1> QED
  BY <1>1, InitIInv, PTL DEF Spec

(* Whatever ids the clients choose, a handler that serves holds a lease and  *)
(* a worker that is not up has no admissions.                                *)
THEOREM TypeCorrect == Spec => []TypeOK
<1>1. Init => TypeOK
  BY InitIInv DEF IInv
<1> QED
  BY <1>1, TypeStep, PTL DEF Spec

(* While its row says ADMITTED, a request that is served counts as admitted, *)
(* so that its worker is not parked or stopped under it.                     *)
THEOREM ServedWhileAdmitted ==
  ASSUME Injective
  PROVE  Spec => []ServedIsAdmitted
<1>1. IInv => ServedIsAdmitted
  BY DEF IInv, TypeOK, GrantedIsAdmitted, ServedIsAdmitted
<1> QED
  BY <1>1, InductiveInvariant, PTL

(* No admission outlives its lease without a release under way.              *)
THEOREM AdmissionsAreOwned ==
  ASSUME Injective
  PROVE  Spec => []AdmissionHasOwner
<1>1. IInv => AdmissionHasOwner
  BY DEF IInv
<1> QED
  BY <1>1, InductiveInvariant, PTL

(* No handler waits for a future that nobody will resolve, unless a refund   *)
(* raised in enter_maintenance() and the loop never came to the handler:     *)
(* cancelled clients, failed workers, other failed writes of the database    *)
(* and restarts, in any order, leave none behind.                            *)
THEOREM WaitersAreKnown ==
  ASSUME Injective
  PROVE  Spec => []NoLostWaiter
<1>1. IInv => NoLostWaiter
  BY DEF IInv
<1> QED
  BY <1>1, InductiveInvariant, PTL

(* A queued or active request still has tokens reserved for it.              *)
THEOREM ActiveRequestsAreUnsettled ==
  ASSUME Injective
  PROVE  Spec => []ActiveIsUnsettled
<1>1. IInv => ActiveIsUnsettled
  BY DEF IInv
<1> QED
  BY <1>1, InductiveInvariant, PTL
=============================================================================
