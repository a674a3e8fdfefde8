--------------------------- MODULE WorkerContract ---------------------------
(***************************************************************************)
(* What the rest of LLM-RIO relies on about a worker, whatever coroutines  *)
(* and locks the supervisor uses to bring it about: the phases a worker    *)
(* goes through and which of them may hold admitted requests.  The         *)
(* supervisor (WorkerSupervisor) implements this specification; the        *)
(* maintenance and validation model (Residency) is built on its actions.   *)
(***************************************************************************)
CONSTANTS Worker, Request

VARIABLES
  phase,    \* worker.state; "ABSENT" before launch() registers the id
  serving   \* worker.admitted_request_ids

contractVars == <<phase, serving>>

LivePhase == {"LOADING", "READY", "DRAINING", "OFFLOADING", "SLEEPING",
              "WAKING", "STOPPING"}

Phase == LivePhase \cup {"ABSENT", "COLD"}

Move(w, from, to) ==
  /\ phase[w] \in from
  /\ phase' = [phase EXCEPT ![w] = to]
  /\ UNCHANGED serving

(* launch(), and a launch that failed before anybody saw the worker.         *)
Register(w) == Move(w, {"ABSENT"}, "LOADING")
Forget(w) == serving[w] = {} /\ Move(w, {"LOADING"}, "ABSENT")

(* The engine is healthy, for the first time or after a wake.                *)
BecomeReady(w) == Move(w, {"LOADING", "WAKING"}, "READY")

Admit(w, r) ==
  /\ phase[w] = "READY"
  /\ serving' = [serving EXCEPT ![w] = @ \cup {r}]
  /\ UNCHANGED phase

Release(w, r) ==
  /\ r \in serving[w]
  /\ serving' = [serving EXCEPT ![w] = @ \ {r}]
  /\ UNCHANGED phase

(* Requests in service are kept: a drain only closes the worker to new ones. *)
BeginDrain(w) ==
  Move(w, {"LOADING", "READY", "OFFLOADING", "SLEEPING", "WAKING"}, "DRAINING")

(* Weights leave the GPU only under a worker that serves nothing.            *)
BeginPark(w) == serving[w] = {} /\ Move(w, {"READY", "DRAINING"}, "OFFLOADING")
Parked(w) == Move(w, {"OFFLOADING"}, "SLEEPING")
BeginWake(w) == serving[w] = {} /\ Move(w, {"SLEEPING"}, "WAKING")

(* An unforced stop waits for the requests; the drain watchdog and shutdown  *)
(* do not.                                                                   *)
BeginStop(w) == Move(w, LivePhase \ {"STOPPING"}, "STOPPING")

(* The engine is gone, stopped or failed, and its requests with it.          *)
Retire(w) ==
  /\ phase[w] \in LivePhase
  /\ phase' = [phase EXCEPT ![w] = "COLD"]
  /\ serving' = [serving EXCEPT ![w] = {}]

Init ==
  /\ phase = [w \in Worker |-> "ABSENT"]
  /\ serving = [w \in Worker |-> {}]

Next ==
  \E w \in Worker :
    \/ Register(w) \/ Forget(w) \/ BecomeReady(w)
    \/ \E r \in Request : Admit(w, r) \/ Release(w, r)
    \/ BeginDrain(w) \/ BeginPark(w) \/ Parked(w) \/ BeginWake(w)
    \/ BeginStop(w) \/ Retire(w)

Spec == Init /\ [][Next]_contractVars
=============================================================================
