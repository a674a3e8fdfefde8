------------------------- MODULE MCWorkerSupervisor -------------------------
(* Small instances of WorkerSupervisor for TLC.  Workers and GPUs are       *)
(* interchangeable; MCSymmetry is used for safety only.                     *)
EXTENDS WorkerSupervisor, TLC

CONSTANTS w1, w2, r1, r2, g1, g2

MCOneGpu == {{g1}}
MCTwoGpus == {{g1}, {g2}}

MCSymmetry == Permutations(Worker) \cup Permutations({g1, g2})

(* Bound of the two-worker run: the calls under way, before shutdown adds a *)
(* forced stop for each worker.                                             *)
MCMaxCalls == 2

MCFewCalls ==
  closed \/ Cardinality(writing) + Cardinality({c \in Worker \X Call : c[2] \in waiting[c[1]]})
              <= MCMaxCalls

(* The steps of a service whose unforced stops are those of the scheduler's *)
(* own task, the one that close() cancels: the planner drains READY workers *)
(* only.  Maintenance, which drains loading ones too, and validation, which *)
(* stops idle ones, run in tasks of their own.  The engine takes its time:  *)
(* it does not exit between the signal and the shutdown.                    *)
BySchedulerTask ==
  \A w \in Worker :
    /\ state[w] = "LOADING" => state'[w] # "DRAINING"
    /\ "stop" \in waiting'[w] \ waiting[w] => state[w] = "DRAINING"
    /\ holder[w] = "stopWait" => engine'[w] # "parentless"

SchedulerSpec == Init /\ [][Next /\ BySchedulerTask]_vars
=============================================================================
