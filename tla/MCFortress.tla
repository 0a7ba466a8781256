----------------------------- MODULE MCFortress -----------------------------
(***************************************************************************)
(* Small instances of Fortress for TLC.  Thresholds are scaled down with   *)
(* the number of events; the weights are the defaults.                     *)
(***************************************************************************)
EXTENDS Fortress

DefaultWeights ==
  [failure |-> 8, failureCap |-> 40, distinctUser |-> 10, distinctUserCap |-> 30,
   invalidUser |-> 8, invalidUserCap |-> 24, rootAttempt |-> 30, reputation |-> 50,
   offHours |-> 6, knownGoodDiscount |-> 40]
=============================================================================
