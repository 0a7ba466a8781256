---------------------------- MODULE SessionEvents ----------------------------
(***************************************************************************)
(* modules/monitoring/session_monitor.py: what an event makes of the open  *)
(* sessions.                                                               *)
(***************************************************************************)

Opening == {"AUTH_SUCCESS", "PUBKEY_ACCEPTED"}
Closing == {"DISCONNECT", "CONNECTION_CLOSED"}

\* A second login from the same port replaces the first; an end without a
\* beginning is ignored.
Tracked(open, type, id) ==
  CASE type \in Opening -> open \cup {id}
    [] type \in Closing -> open \ {id}
    [] OTHER -> open
=============================================================================
