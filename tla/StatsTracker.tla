---------------------------- MODULE StatsTracker ----------------------------
(***************************************************************************)
(* modules/stats/stats_tracker.py: the counters, and the saver thread that *)
(* writes them to stats.json through stats.tmp.  Each process that makes a *)
(* StatsTracker has counters and a saver of its own: the daemon, and       *)
(* `main.py metrics`, which never records anything.  A process may die at  *)
(* any step and be started again.                                          *)
(*                                                                         *)
(* The counters are abstracted to one that is kept twice, as record_*      *)
(* does under one lock: at the top level of self._data (total) and in the  *)
(* nested per-address table (byIp).  dict(self._data) copies the first and *)
(* shares the second.                                                      *)
(***************************************************************************)
EXTENDS Naturals, FiniteSets

CONSTANTS
  Procs,         \* processes with a StatsTracker
  Recorders,     \* those that record events
  Inodes,        \* files on the disk
  NoFile,        \* the file of a name that is free
  MaxTotal,      \* bound: events recorded
  MaxRaised,     \* bound: of these, the ones that break off
  MaxStarts      \* bound: process starts

StatsAssumption ==
  /\ Recorders \subseteq Procs
  /\ Cardinality(Inodes) > Cardinality(Procs)
  /\ NoFile \notin Inodes
  /\ {MaxTotal, MaxRaised, MaxStarts} \subseteq Nat

VARIABLES
  mem,      \* each process's self._data
  saver,    \* where each saver thread is: "down" when the process is not running
  text,     \* what each saver is about to write: a snapshot, then the dump
  fd,       \* the file each saver has open
  disk,     \* the content of each file, Torn while it is being written
  name,     \* the files called stats.json and stats.tmp
  starts,   \* how many processes have been started
  raised    \* history: how many records have broken off

vars == <<mem, saver, text, fd, disk, name, starts, raised>>

Torn == [total |-> 0, byIp |-> 0, whole |-> FALSE]
Empty == [total |-> 0, byIp |-> 0, whole |-> TRUE]

Init ==
  /\ mem = [p \in Procs |-> Empty]
  /\ saver = [p \in Procs |-> "down"]
  /\ text = [p \in Procs |-> Empty]
  /\ fd = [p \in Procs |-> NoFile]
  /\ disk = [i \in Inodes |-> Torn]
  /\ name = [json |-> NoFile, tmp |-> NoFile]
  /\ starts = 0 /\ raised = 0

Saved == IF name.json = NoFile THEN Empty ELSE disk[name.json]

-----------------------------------------------------------------------------

\* Slip: __init__ does not load what was saved.
StartFromNothing(p) ==
  /\ saver[p] = "down" /\ starts < MaxStarts
  /\ starts' = starts + 1
  /\ mem' = [mem EXCEPT ![p] = Empty]
  /\ saver' = [saver EXCEPT ![p] = "sleep"]
  /\ UNCHANGED <<text, fd, disk, name, raised>>

\* __init__: _load takes what stats.json holds, or starts from nothing when it
\* is missing or cannot be parsed.
Start(p) ==
  /\ saver[p] = "down" /\ starts < MaxStarts
  /\ starts' = starts + 1
  /\ mem' = [mem EXCEPT ![p] = IF Saved.whole THEN Saved ELSE Empty]
  /\ saver' = [saver EXCEPT ![p] = "sleep"]
  /\ UNCHANGED <<text, fd, disk, name, raised>>

Die(p) ==
  /\ saver[p] # "down"
  /\ saver' = [saver EXCEPT ![p] = "down"]
  /\ fd' = [fd EXCEPT ![p] = NoFile]
  /\ UNCHANGED <<mem, text, disk, name, starts, raised>>

\* _inc and _update_ip_stats
Incremented(data) == [data EXCEPT !.total = @ + 1, !.byIp = @ + 1]

\* record_login_failed and its like: both counters, under the lock.  Between the
\* two comes the counter of the user, whose dotted key breaks off at a name that
\* runs into a number ("al.failures" after "al").
Record(p) ==
  /\ p \in Recorders /\ saver[p] # "down"
  /\ mem[p].total < MaxTotal /\ mem[p].byIp < MaxTotal
  /\ \/ mem' = [mem EXCEPT ![p] = Incremented(@)] /\ UNCHANGED raised
     \/ mem' = [mem EXCEPT ![p].total = @ + 1] /\ raised < MaxRaised /\ raised' = raised + 1
  /\ UNCHANGED <<saver, text, fd, disk, name, starts>>

-----------------------------------------------------------------------------
(* _save, by the saver thread.                                             *)

Snapshot(p) ==
  /\ saver[p] = "sleep"
  /\ text' = [text EXCEPT ![p] = mem[p]]
  /\ saver' = [saver EXCEPT ![p] = "dump"]
  /\ UNCHANGED <<mem, fd, disk, name, starts, raised>>

\* Slip: the totals are taken at the dump, and the table at the snapshot.
DumpWithNewTotals(p) ==
  /\ saver[p] = "dump"
  /\ text' = [text EXCEPT ![p].total = mem[p].total]
  /\ saver' = [saver EXCEPT ![p] = "open"]
  /\ UNCHANGED <<mem, fd, disk, name, starts, raised>>

\* json.dumps, outside the lock: the nested table as it is by now; it raises
\* when the table grows under it.
Dump(p) ==
  /\ saver[p] = "dump"
  /\ \/ /\ text' = [text EXCEPT ![p].byIp = mem[p].byIp]
        /\ saver' = [saver EXCEPT ![p] = "open"]
     \/ /\ mem[p].byIp # text[p].byIp
        /\ saver' = [saver EXCEPT ![p] = "sleep"]
        /\ UNCHANGED text
  /\ UNCHANGED <<mem, fd, disk, name, starts, raised>>

\* Slip: an existing stats.json is written in place.
OpenInPlace(p) ==
  /\ saver[p] = "open"
  /\ \E i \in IF name.json # NoFile THEN {name.json} ELSE Inodes :
       /\ fd' = [fd EXCEPT ![p] = i]
       /\ disk' = [disk EXCEPT ![i] = Torn]
       /\ name' = IF name.json # NoFile THEN name ELSE [name EXCEPT !.tmp = i]
  /\ saver' = [saver EXCEPT ![p] = "write"]
  /\ UNCHANGED <<mem, text, starts, raised>>

\* write_text opens stats.tmp, creating or truncating it ...
Open(p) ==
  /\ saver[p] = "open"
  /\ \E i \in IF name.tmp # NoFile THEN {name.tmp}
              ELSE Inodes \ ({name.json} \cup {fd[q] : q \in Procs}) :
       /\ fd' = [fd EXCEPT ![p] = i]
       /\ disk' = [disk EXCEPT ![i] = Torn]
       /\ name' = [name EXCEPT !.tmp = i]
  /\ saver' = [saver EXCEPT ![p] = "write"]
  /\ UNCHANGED <<mem, text, starts, raised>>

\* ... and writes it.
Write(p) ==
  /\ saver[p] = "write"
  /\ disk' = [disk EXCEPT ![fd[p]] = text[p]]
  /\ fd' = [fd EXCEPT ![p] = NoFile]
  /\ saver' = [saver EXCEPT ![p] = "replace"]
  /\ UNCHANGED <<mem, text, name, starts, raised>>

\* write_text cannot open stats.tmp, or cannot fill it: the saver has its next turn.
SaveError(p) ==
  /\ saver[p] \in {"open", "write"}
  /\ fd' = [fd EXCEPT ![p] = NoFile]
  /\ saver' = [saver EXCEPT ![p] = "sleep"]
  /\ UNCHANGED <<mem, text, disk, name, starts, raised>>

\* Slip: a rename that refuses an existing target.
ReplaceNothing(p) ==
  /\ saver[p] = "replace"
  /\ name' = IF name.tmp = NoFile \/ name.json # NoFile THEN name
             ELSE [json |-> name.tmp, tmp |-> NoFile]
  /\ saver' = [saver EXCEPT ![p] = "sleep"]
  /\ UNCHANGED <<mem, text, fd, disk, starts, raised>>

\* tmp.replace(self._file) fails when another process has renamed stats.tmp.
Replace(p) ==
  /\ saver[p] = "replace"
  /\ name' = IF name.tmp = NoFile THEN name ELSE [json |-> name.tmp, tmp |-> NoFile]
  /\ saver' = [saver EXCEPT ![p] = "sleep"]
  /\ UNCHANGED <<mem, text, fd, disk, starts, raised>>

Save(p) == Snapshot(p) \/ Dump(p) \/ Open(p) \/ Write(p) \/ Replace(p)

Next == \E p \in Procs : Start(p) \/ Die(p) \/ Record(p) \/ Save(p) \/ SaveError(p)

Spec == Init /\ [][Next]_vars

\* A running process runs its saver, and the disk does not refuse every save.
Fairness == \A p \in Procs : WF_vars(Save(p)) /\ SF_vars(Open(p)) /\ SF_vars(Write(p))

-----------------------------------------------------------------------------
(* Properties.                                                             *)

Counts == [total : 0 .. MaxTotal, byIp : 0 .. MaxTotal, whole : BOOLEAN]

\* Every variable stays in its type; an open file is one the saver is writing.
TypeOK ==
  /\ mem \in [Procs -> Counts] /\ text \in [Procs -> Counts]
  /\ saver \in [Procs -> {"down", "sleep", "dump", "open", "write", "replace"}]
  /\ fd \in [Procs -> Inodes \cup {NoFile}]
  /\ \A p \in Procs : fd[p] # NoFile <=> saver[p] = "write"
  /\ disk \in [Inodes -> Counts]
  /\ name \in [json : Inodes \cup {NoFile}, tmp : Inodes \cup {NoFile}]
  /\ starts \in 0 .. MaxStarts /\ raised \in 0 .. MaxRaised

\* Writing through stats.tmp keeps stats.json readable: wherever the process
\* dies, or a save fails, the next one can load it.
FileReadable == name.json # NoFile => disk[name.json].whole

\* The file is a mixture of two instants, the top level from the snapshot and
\* the nested table from the dump, but the table is never the older part; nor
\* is it in a process that has loaded such a file.  What it lacks is what records
\* lost that broke off.
NestedNotOlder ==
  /\ name.json # NoFile => disk[name.json].byIp + raised >= disk[name.json].total
  /\ \A p \in Procs : mem[p].byIp + raised >= mem[p].total

\* README.md:159 "Persisted to JSON every 30 seconds": a count that is in the
\* file does not leave it again.
CountsStayPersisted == [][Saved'.whole => Saved'.total >= Saved.total]_vars

\* A count is in the file in the end, whichever saves fail, unless its process dies.
CountsReachTheFile ==
  \A p \in Recorders, n \in 1 .. MaxTotal :
    saver[p] # "down" /\ mem[p].total >= n ~> Saved.total >= n \/ saver[p] = "down"
=============================================================================
