--------------------------- MODULE SessionMonitor ---------------------------
(***************************************************************************)
(* modules/monitoring/session_monitor.py: the open sessions, which the     *)
(* tail thread maintains, and the thread that writes them to sessions.json *)
(* in place every 30 seconds, for `main.py status`.  The daemon may die at *)
(* any step; it starts again without the sessions it knew.                 *)
(***************************************************************************)
EXTENDS Naturals, FiniteSets, SessionEvents

CONSTANTS
  Ids,         \* "ip:port" of the sessions
  MaxCalls,    \* bound: events handled
  MaxErrors,   \* bound: writes that fail
  MaxDeaths    \* bound: deaths of the daemon

VARIABLES
  sessions,   \* the keys of self._sessions; a session in it is active
  writer,     \* where the writer thread is
  data,       \* what it is about to write
  file,       \* what sessions.json holds
  past,       \* history: the sets of sessions there have been
  budget      \* what is left of the three bounds

vars == <<sessions, writer, data, file, past, budget>>

Missing == [whole |-> FALSE, count |-> 0, list |-> {}]
Torn == Missing

Init ==
  /\ sessions = {} /\ past = {{}}
  /\ writer = "sleep" /\ data = [count |-> 0, list |-> {}]
  /\ file = Missing
  /\ budget = [calls |-> MaxCalls, errors |-> MaxErrors, deaths |-> MaxDeaths]

Spend(what) == budget[what] > 0 /\ budget' = [budget EXCEPT ![what] = @ - 1]

\* __call__, under the lock.
Call(type, id) ==
  /\ Spend("calls")
  /\ sessions' = Tracked(sessions, type, id)
  /\ past' = past \cup {sessions'}
  /\ UNCHANGED <<writer, data, file>>

\* Slip: the sessions are listed when the lock has been dropped.
SnapshotOfCount ==
  /\ writer \in {"sleep", "list"}
  /\ IF writer = "sleep"
     THEN writer' = "list" /\ data' = [data EXCEPT !.count = Cardinality(sessions)]
     ELSE writer' = "open" /\ data' = [data EXCEPT !.list = sessions]
  /\ UNCHANGED <<sessions, file, past, budget>>

\* _flush takes the lock once for the count and the list ...
Snapshot ==
  /\ writer = "sleep" /\ writer' = "open"
  /\ data' = [count |-> Cardinality(sessions), list |-> sessions]
  /\ UNCHANGED <<sessions, file, past, budget>>

\* ... and writes without it: write_text truncates the file ...
Open ==
  /\ writer = "open" /\ writer' = "fill"
  /\ file' = Torn
  /\ UNCHANGED <<sessions, data, past, budget>>

Fill ==
  /\ writer = "fill" /\ writer' = "sleep"
  /\ file' = [whole |-> TRUE, count |-> data.count, list |-> data.list]
  /\ UNCHANGED <<sessions, data, past, budget>>

\* Slip: the exception ends the thread.
WriteErrorEndsThread ==
  /\ writer \in {"open", "fill"} /\ Spend("errors")
  /\ writer' = "ended"
  /\ UNCHANGED <<sessions, data, file, past>>

\* Opening or filling fails: the exception is logged, and the loop goes on.
WriteError ==
  /\ writer \in {"open", "fill"} /\ Spend("errors")
  /\ writer' = "sleep"
  /\ UNCHANGED <<sessions, data, file, past>>

Flush == Snapshot \/ Open \/ Fill \/ WriteError

Restart ==
  /\ Spend("deaths")
  /\ sessions' = {} /\ writer' = "sleep"
  /\ UNCHANGED <<data, file, past>>

Next ==
  \/ \E type \in Opening \cup Closing, id \in Ids : Call(type, id)
  \/ Flush \/ Restart

Spec == Init /\ [][Next]_vars

\* The writer thread of a running daemon keeps running.
Fairness == WF_vars(Flush)

-----------------------------------------------------------------------------
(* Properties.                                                             *)

\* What `status` finds in a file that is not being written was true at one
\* moment: the count is that of the list, and the list is that of the sessions
\* open then, although events are handled and the daemon dies while it is made.
FileIsASnapshot == file.whole => file.count = Cardinality(file.list) /\ file.list \in past

\* A session that stays open comes into the file, and one that has ended, or was
\* forgotten by a restart, leaves it, whatever writes fail on the way.
Shows(id) == file.whole /\ id \in file.list

FileCatchesUp ==
  \A id \in Ids :
    /\ id \in sessions ~> Shows(id) \/ id \notin sessions
    /\ id \notin sessions ~> (file.whole /\ ~Shows(id)) \/ id \in sessions
=============================================================================
