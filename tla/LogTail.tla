------------------------------- MODULE LogTail -------------------------------
(***************************************************************************)
(* modules/logging/log_aggregator.py: the thread that tails auth.log, by   *)
(* polling or by inotify, while syslog writes the file and logrotate       *)
(* renames it, creates a new one and tells syslog to reopen.               *)
(*                                                                         *)
(* Lines are numbered in the order they are written, files in the order    *)
(* they are created.  What the handlers do with a line is in Fortress.     *)
(***************************************************************************)
EXTENDS Naturals, Sequences, FiniteSets

CONSTANTS
  MayStop,         \* may the daemon be told to stop?
  MaxLines,        \* bound: lines written
  MaxRotations     \* bound: times the log is rotated

ASSUME LogTailAssumption ==
  /\ MayStop \in BOOLEAN
  /\ {MaxLines, MaxRotations} \subseteq Nat

VARIABLES
  inotify,    \* is the inotify package importable?
  content,    \* the lines in each file, oldest file first
  path,       \* the file at _log_path, NoFile when there is none
  syslog,     \* the file syslog writes to
  notice,     \* inotify: has an IN_MODIFY for the name not been consumed?
  fh,         \* the tail's file object: its file, its position, is it closed?
  tail,       \* where the tail thread is
  stopping,   \* self._stop_event
  handled     \* the lines given to the handlers

world == <<inotify, content, path, syslog>>
vars == <<world, notice, fh, tail, stopping, handled>>

NoFile == 0
Places == {"start", "wait", "drain", "stat", "reopen", "stopped", "dead"}

\* The place of each line that was written: a file and where in it.
Stored == UNION {{f} \X DOMAIN content[f] : f \in DOMAIN content}
Written == Cardinality(Stored)

Init ==
  /\ inotify \in BOOLEAN
  /\ content = <<<<>>>> /\ path = 1 /\ syslog = 1 /\ notice = FALSE
  /\ fh = [file |-> NoFile, pos |-> 0, closed |-> FALSE]
  /\ tail = "start" /\ stopping = FALSE /\ handled = <<>>

-----------------------------------------------------------------------------
(* syslog and logrotate.                                                   *)

Write ==
  /\ Written < MaxLines
  /\ content' = [content EXCEPT ![syslog] = Append(@, Written + 1)]
  /\ notice' = (notice \/ syslog = path)
  /\ UNCHANGED <<inotify, path, syslog, fh, tail, stopping, handled>>

Rename ==
  /\ path # NoFile /\ path = syslog /\ Len(content) <= MaxRotations
  /\ path' = NoFile
  /\ UNCHANGED <<inotify, content, syslog, notice, fh, tail, stopping, handled>>

Create ==
  /\ path = NoFile
  /\ content' = Append(content, <<>>)
  /\ path' = Len(content')
  /\ UNCHANGED <<inotify, syslog, notice, fh, tail, stopping, handled>>

SyslogReopens ==
  /\ path \notin {NoFile, syslog}
  /\ syslog' = path
  /\ UNCHANGED <<inotify, content, path, notice, fh, tail, stopping, handled>>

-----------------------------------------------------------------------------
(* The tail thread.                                                        *)

\* open, and seek to the end.  A missing file ends the thread.
Start ==
  /\ tail = "start"
  /\ IF path = NoFile
     THEN tail' = "dead" /\ UNCHANGED fh
     ELSE /\ tail' = "wait"
          /\ fh' = [file |-> path, pos |-> Len(content[path]), closed |-> FALSE]
  /\ UNCHANGED <<world, notice, stopping, handled>>

\* The poll interval passes, or inotify reports that the file changed; both
\* loops look at the stop event first.
Wake ==
  /\ tail = "wait"
  /\ inotify => notice
  /\ notice' = FALSE
  /\ tail' = IF stopping THEN "stopped" ELSE "drain"
  /\ UNCHANGED <<world, fh, stopping, handled>>

\* One line of _drain's loop.  On a closed file the loop raises ValueError,
\* which nothing catches.
ReadLine ==
  /\ tail = "drain" /\ ~fh.closed
  /\ fh.pos < Len(content[fh.file])
  /\ fh' = [fh EXCEPT !.pos = @ + 1]
  /\ handled' = Append(handled, content[fh.file][fh.pos + 1])
  /\ UNCHANGED <<world, notice, tail, stopping>>

\* Slip: the drain stops before it has met the end.
EndOfFileEarly ==
  /\ tail = "drain" /\ ~fh.closed /\ fh.pos > 0
  /\ tail' = IF inotify THEN "wait" ELSE "stat"
  /\ UNCHANGED <<world, notice, fh, stopping, handled>>

EndOfFile ==
  /\ tail = "drain" /\ ~fh.closed
  /\ fh.pos = Len(content[fh.file])
  /\ tail' = IF inotify THEN "wait" ELSE "stat"
  /\ UNCHANGED <<world, notice, fh, stopping, handled>>

ReadClosed ==
  /\ tail = "drain" /\ fh.closed
  /\ tail' = "dead"
  /\ UNCHANGED <<world, notice, fh, stopping, handled>>

\* os.stat against os.fstat; fstat and stat fail alike, into `except OSError`.
Stat ==
  /\ tail = "stat"
  /\ IF path \in {NoFile, fh.file}
     THEN tail' = "wait" /\ UNCHANGED fh
     ELSE tail' = "reopen" /\ fh' = [fh EXCEPT !.closed = TRUE]
  /\ UNCHANGED <<world, notice, stopping, handled>>

\* Slip: the new file is read from its end, as the first one is.
ReopenAtTheEnd ==
  /\ tail = "reopen"
  /\ fh' = IF path = NoFile THEN fh
           ELSE [file |-> path, pos |-> Len(content[path]), closed |-> FALSE]
  /\ tail' = "wait"
  /\ UNCHANGED <<world, notice, stopping, handled>>

\* fh has been closed; an open that fails leaves it so.
Reopen ==
  /\ tail = "reopen"
  /\ fh' = IF path = NoFile THEN fh ELSE [file |-> path, pos |-> 0, closed |-> FALSE]
  /\ tail' = "wait"
  /\ UNCHANGED <<world, notice, stopping, handled>>

Stop ==
  /\ MayStop /\ ~stopping
  /\ stopping' = TRUE
  /\ UNCHANGED <<world, notice, fh, tail, handled>>

TailStep == Start \/ Wake \/ ReadLine \/ EndOfFile \/ ReadClosed \/ Stat \/ Reopen

Next == Write \/ Rename \/ Create \/ SyslogReopens \/ TailStep \/ Stop

Spec == Init /\ [][Next]_vars

\* The thread runs, and logrotate finishes what it began.
FairSpec == Spec /\ WF_vars(TailStep) /\ WF_vars(Create) /\ WF_vars(SyslogReopens)

-----------------------------------------------------------------------------
(* Properties.                                                             *)

Lines == 1 .. MaxLines
ToSet(s) == {s[i] : i \in DOMAIN s}
Alive == tail \notin {"dead", "stopped"} /\ ~stopping

\* Every variable stays in its type, and the tail never reads past the end.
TypeOK ==
  /\ content \in Seq(Seq(Lines))
  /\ path \in 0 .. Len(content)
  /\ syslog \in 1 .. Len(content)
  /\ {inotify, notice, stopping} \subseteq BOOLEAN
  /\ fh \in [file : 0 .. Len(content), pos : 0 .. MaxLines, closed : BOOLEAN]
  /\ fh.file # NoFile => fh.pos <= Len(content[fh.file])
  /\ tail \in Places
  /\ handled \in Seq(Lines)

\* The handlers see lines once each and in the order they were written, also
\* across a rotation at the worst moment: what they count is not counted twice.
\* A rotation costs lines of the old file alone, those added to it after the last
\* drain: what the handlers are given next is the first line of a new file.
HandledInOrder ==
  \A i \in DOMAIN handled : i > 1 =>
    \/ handled[i] = handled[i - 1] + 1
    \/ /\ handled[i] > handled[i - 1]
       /\ \E f \in DOMAIN content : content[f] # <<>> /\ content[f][1] = handled[i]

\* A line in the file at the log's path is handled, unless it was there before
\* the tail began, is rotated away first, or the thread has ended.  No wake-up
\* is lost between the end of one drain and the next.  The inotify loop never
\* reopens: this is so only while it holds the file it began with.
CurrentFileFollowed ==
  \A line \in Lines :
    /\ path # NoFile /\ line \in ToSet(content[path]) /\ tail # "start"
    /\ inotify => path = fh.file
    /\ path = fh.file => line \in ToSet(SubSeq(content[path], fh.pos + 1, Len(content[path])))
    ~> line \in ToSet(handled) \/ path = NoFile \/ ~Alive
=============================================================================
