----------------------------- MODULE MCNotifiers -----------------------------
(* Two anomalies of one class, and bans; Discord is not enabled.             *)
EXTENDS Notifiers

MCNotifyOn ==
  [email    |-> {"BRUTE_FORCE_BAN", "ANOMALY"},
   telegram |-> {"BRUTE_FORCE_BAN"},
   discord  |-> {}]

MCQueueSize == [email |-> 1, telegram |-> 2, discord |-> 2]
=============================================================================
