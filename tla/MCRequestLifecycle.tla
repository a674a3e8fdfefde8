------------------------- MODULE MCRequestLifecycle -------------------------
(* Small instances of RequestLifecycle for TLC.                             *)
EXTENDS RequestLifecycle, TLC

CONSTANTS a1, a2, r1, r2, w1

(* Every attempt has a request id of its own.                               *)
Distinct == (a1 :> r1 @@ a2 :> r2)

(* A client that retries under the same X-Request-ID.                       *)
Retried == (a1 :> r1 @@ a2 :> r1)
=============================================================================
