--------------------------- MODULE MCThreatScorer ---------------------------
(***************************************************************************)
(* Small instances of ThreatScorer for TLC, with the default weights.      *)
(***************************************************************************)
EXTENDS ThreatScorer

DefaultWeights ==
  [failure |-> 8, failureCap |-> 40, distinctUser |-> 10, distinctUserCap |-> 30,
   invalidUser |-> 8, invalidUserCap |-> 24, rootAttempt |-> 30, reputation |-> 50,
   offHours |-> 6, knownGoodDiscount |-> 40]
=============================================================================
