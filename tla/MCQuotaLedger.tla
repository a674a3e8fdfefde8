--------------------------- MODULE MCQuotaLedger ---------------------------
(* Small instances of QuotaLedger for TLC.                                  *)
EXTENDS QuotaLedger, TLC

CONSTANTS a1, r1, r2, r3

MCSymmetry == Permutations(Request)
=============================================================================
