---------------------------- MODULE MCResidency -----------------------------
(* A small instance of Residency for TLC.                                    *)
EXTENDS Residency, TLC

CONSTANTS w1, w2, r1, g1, g2

MCGpuSets == {{g1}, {g2}}

(* Bound: engines that share GPUs, as those with the weight cache do, and    *)
(* the validations beside them, are all on g1; the others have a GPU each.   *)
MCPlacement == weightCache => plan'.starts \subseteq {{g1}} /\ valGpus' \subseteq {g1}

MCResidencySpec ==
  ResidencyInit /\ [][ResidencyNext /\ MCPlacement]_vars /\ Fairness
=============================================================================
