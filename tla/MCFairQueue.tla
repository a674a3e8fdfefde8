----------------------------- MODULE MCFairQueue -----------------------------
(* Small instances of FairQueue for TLC.                                    *)
EXTENDS FairQueue, TLC

CONSTANTS t1, t2, t3, r1, r2, r3, r4

MCSymmetry == Permutations(Tenant) \cup Permutations(Request)
=============================================================================
