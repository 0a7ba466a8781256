----------------------------- MODULE Monitoring -----------------------------
(***************************************************************************)
(* The parts of the daemon that watch and take no part in the bans: the    *)
(* anomaly detector, which this module extends, the session monitor, the   *)
(* statistics and the port knocker.  None reads the state of another, so a *)
(* behaviour exercises one of them, and what the others keep stays put.    *)
(***************************************************************************)
EXTENDS AnomalyDetector

CONSTANTS
  Ids, MaxCalls, MaxErrors, MaxDeaths,                                   \* SessionMonitor
  Procs, Recorders, Inodes, NoFile, MaxTotal, MaxRaised, MaxStarts,      \* StatsTracker
  KnockSequence, Timeout, CloseAfter, Backlog, MaxKnocks,                \* PortKnocker
  Parts    \* the parts that behaviours exercise

VARIABLES
  sessions, writer, data, file, past, budget,
  mem, saver, text, fd, disk, name, starts, raised,
  knockClock, waiting, poll, progress, opening, allowed, sent, recorded,
  part     \* the part that this behaviour exercises

smVars == <<sessions, writer, data, file, past, budget>>
stVars == <<mem, saver, text, fd, disk, name, starts, raised>>
pkVars == <<knockClock, waiting, poll, progress, opening, allowed, sent, recorded>>

SM == INSTANCE SessionMonitor
ST == INSTANCE StatsTracker
PK == INSTANCE PortKnocker WITH now <- knockClock

ASSUME MonitoringAssumption ==
  /\ Parts \subseteq {"anomalies", "sessions", "statistics", "knocks"}
  /\ ST!StatsAssumption /\ PK!PortKnockerAssumption

InitAll ==
  /\ part \in Parts
  /\ Init /\ SM!Init /\ ST!Init /\ PK!Init

NextOfOne ==
  \/ part = "anomalies" /\ Next /\ UNCHANGED <<part, smVars, stVars, pkVars>>
  \/ part = "sessions" /\ SM!Next /\ UNCHANGED <<part, vars, stVars, pkVars>>
  \/ part = "statistics" /\ ST!Next /\ UNCHANGED <<part, vars, smVars, pkVars>>
  \/ part = "knocks" /\ PK!Next /\ UNCHANGED <<part, vars, smVars, stVars>>

FairSpecOfOne ==
  /\ InitAll /\ [][NextOfOne]_<<part, vars, smVars, stVars, pkVars>>
  /\ part = "sessions" => SM!Fairness
  /\ part = "statistics" => ST!Fairness

-----------------------------------------------------------------------------
(* Properties, each stated in the module of its part; SprayExact and       *)
(* SpikeExact are AnomalyDetector's.                                       *)

\* What is in a whole sessions.json was true at one moment.
FileIsASnapshot == SM!FileIsASnapshot

\* Sessions come into the file and leave it.
FileCatchesUp == part = "sessions" => SM!FileCatchesUp

\* stats.json can be loaded wherever the process dies or a save fails.
FileReadable == ST!FileReadable

\* The nested table of stats.json is never older than the totals beside it.
NestedNotOlder == ST!NestedNotOlder

\* A count that is in stats.json does not leave it again.
CountsStayPersisted == ST!CountsStayPersisted

\* A count is in stats.json in the end, whichever saves fail, unless its process
\* dies.
CountsReachTheFile == part = "statistics" => ST!CountsReachTheFile

\* The SSH port is opened by the knock that completes the sequence in time, and
\* by no other.
OpensExactlyOnSequence == PK!OpensExactlyOnSequence
=============================================================================
