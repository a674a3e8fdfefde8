----------------------------- MODULE MCPlanner ------------------------------
(* Instances of Planner for TLC.                                            *)
EXTENDS Planner, TLC

CONSTANTS w1, w2, w3, g1, g2, a, b, c

Shape(m, count, sets, idle, peak, headroom, residual) ==
  [model |-> m, count |-> count, sets |-> sets, kvcached |-> TRUE, rate |-> 1,
   idle |-> idle, peak |-> peak, headroom |-> headroom, residual |-> residual,
   ceiling |-> 9]

(* Model a has an engine per GPU and model b one across both, and the two    *)
(* exclude each other.  Parked, the engine of a leaves room for b on g1, but *)
(* not on g2, where it keeps more than it needs awake.                       *)
MCProfile == {Shape(a, 1, {{g1}}, 4, 5, 0, 2), Shape(a, 1, {{g2}}, 4, 5, 0, 6),
              Shape(b, 2, {{g1, g2}}, 5, 5, 1, 1)}

(* Three engines of which one at a time is awake.  Model a fits beside one   *)
(* of the others parked, not beside both.                                    *)
MCOneGpuProfile == {Shape(a, 1, {{g1}}, 6, 6, 0, 1), Shape(b, 1, {{g1}}, 5, 5, 0, 2),
                    Shape(c, 1, {{g1}}, 5, 5, 0, 2)}

(* A profile whose engine keeps more, parked, than its footprint: validation *)
(* records what it measures, and an edit may set a footprint.                *)
MCHeavyProfile == {Shape(a, 1, {{g1}}, 3, 3, 0, 5), Shape(b, 1, {{g1}}, 3, 3, 0, 5)}

MCPlanners == {"native", "prism", "cache"}

MCPreload == (a :> 2) @@ (b :> 0)

MCNoPreload == [m \in Model |-> 0]

MCSymmetry == Permutations(Worker)
=============================================================================
