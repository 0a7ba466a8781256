----------------------------- MODULE MCMonitors -----------------------------
(***************************************************************************)
(* Small instances of Monitoring for TLC.                                  *)
(***************************************************************************)
EXTENDS Monitoring

MCSequence == <<7000, 8000>>
=============================================================================
