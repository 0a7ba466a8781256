----------------------------- MODULE KeyAuditor -----------------------------
(***************************************************************************)
(* modules/key_management/key_auditor.py with revoke_expired on: read the  *)
(* authorized_keys files in the order of the password file, flag a line    *)
(* whose key is weak or has been seen before, then take each flagged line  *)
(* out of its file, which is read, truncated and filled once per line; a   *)
(* failure of one of these is logged and the next line has its turn.       *)
(* ssh-keygen, the file system, the user with an editor and the death of   *)
(* the command are external.                                               *)
(***************************************************************************)
EXTENDS Naturals, Sequences, SequencesExt, Functions, ListFilter

CONSTANTS
  Paths,     \* authorized_keys files
  Visits,    \* the orders in which the files of the users can follow one another
  Key,       \* what ssh-keygen prints as the fingerprint of a line's key
  Weak,      \* the lines with a key of a banned type or of too few bits
  NewLine,   \* a line the user adds, with a key of its own
  FilesMayFail,   \* may reading or writing a file fail?
  MaxLines   \* bound: lines of a file

VARIABLES
  before,    \* history: the files as the audit found them
  visits,    \* the files in the order of the users; two may share a home
  files,     \* the lines of each file
  at,        \* where the command is
  entries,   \* what the audit has found so far
  count,     \* the files read, then the entries dealt with
  buffer,    \* the lines of the file being rewritten
  edited,    \* history: the files the user has added NewLine to ...
  raced,     \* ... between a reading and the writing that follows it
  failed,    \* history: the entries whose file could not be read or opened
  broken     \* history: the files whose writing was cut short

vars == <<before, visits, files, at, entries, count, buffer, edited, raced, failed, broken>>

\* A line with no key in it (a comment) has no fingerprint, and no entry.
Lines == DOMAIN Key \cup {"#"}
Files == [Paths -> SeqOf(Lines, MaxLines)]

Init ==
  /\ visits \in Visits
  /\ files \in Files /\ before = files
  /\ at = "scan" /\ entries = <<>> /\ count = 0 /\ buffer = <<>>
  /\ edited = {} /\ raced = {} /\ failed = {} /\ broken = {}

HasKey(line) == line \in DOMAIN Key

\* The text of a comment is no key's, and what the user adds is new.
KeyAuditorAssumption ==
  /\ "#" \notin DOMAIN Key /\ NewLine \notin Lines
  /\ Visits \subseteq Seq(Paths)
  /\ MaxLines \in Nat /\ FilesMayFail \in BOOLEAN

\* What a line without a key parses to.
NoEntry(path) == [path |-> path, line |-> "#", flagged |-> FALSE]

\* The fingerprints of the lines before line i.
Above(lines, i) == {Key[lines[j]] : j \in {k \in 1 .. i - 1 : HasKey(lines[k])}}

\* Slip: the fingerprints that have been seen are kept per file.
SeenPerFile(lines, i) ==
  {Key[e.line] : e \in {f \in Range(entries) : f.path = visits[count + 1]}} \cup Above(lines, i)

\* seen_fingerprints, when line i comes.
Seen(lines, i) == {Key[e.line] : e \in Range(entries)} \cup Above(lines, i)

\* _check_compliance, and the duplicates: a key that ssh-keygen cannot read has the
\* same empty fingerprint as any other such key.
Flagged(lines, i) == lines[i] \in Weak \/ Key[lines[i]] \in Seen(lines, i)

\* _parse_authorized_keys and the loop over its entries.
Scan ==
  LET path == visits[count + 1]
      lines == files[path]
      Entry(i) ==
        IF HasKey(lines[i])
        THEN [path |-> path, line |-> lines[i], flagged |-> Flagged(lines, i)]
        ELSE NoEntry(path)
  IN
  /\ at = "scan" /\ count < Len(visits)
  /\ entries' = entries \o Without([i \in DOMAIN lines |-> Entry(i)], {NoEntry(path)})
  /\ count' = count + 1
  /\ UNCHANGED <<before, visits, files, at, buffer, edited, raced, failed, broken>>

\* The entries without an issue are left alone.
Report ==
  /\ at = "scan" /\ count = Len(visits)
  /\ entries' = Without(entries, {e \in Range(entries) : ~e.flagged})
  /\ count' = 0
  /\ at' = "read"
  /\ UNCHANGED <<before, visits, files, buffer, edited, raced, failed, broken>>

entry == entries[count + 1]
writing == at \in {"truncate", "fill"}

\* _remove_key: every line with this text goes, not one of them.
ReadFile ==
  /\ at = "read" /\ count < Len(entries)
  /\ buffer' = Without(files[entry.path], {entry.line})
  /\ at' = "truncate"
  /\ UNCHANGED <<before, visits, files, entries, count, edited, raced, failed, broken>>

Truncate ==
  /\ at = "truncate" /\ at' = "fill"
  /\ files' = [files EXCEPT ![entry.path] = <<>>]
  /\ UNCHANGED <<before, visits, entries, count, buffer, edited, raced, failed, broken>>

Fill ==
  /\ at = "fill" /\ at' = "read"
  /\ files' = [files EXCEPT ![entry.path] = buffer]
  /\ count' = count + 1
  /\ UNCHANGED <<before, visits, entries, buffer, edited, raced, failed, broken>>

\* The file cannot be read, or opened for writing: it stays as it is.
NotOpened ==
  /\ FilesMayFail
  /\ at \in {"read", "truncate"} /\ count < Len(entries) /\ at' = "read"
  /\ failed' = failed \cup {count + 1}
  /\ count' = count + 1
  /\ UNCHANGED <<before, visits, files, entries, buffer, edited, raced, broken>>

\* The file being filled has some of its lines.
CutShort ==
  /\ broken' = broken \cup {entry.path}
  /\ \E n \in 0 .. Len(buffer) : files' = [files EXCEPT ![entry.path] = SubSeq(buffer, 1, n)]

\* The disk is full, say.
NotFilled ==
  /\ FilesMayFail
  /\ at = "fill" /\ at' = "read"
  /\ CutShort
  /\ count' = count + 1
  /\ UNCHANGED <<before, visits, entries, buffer, edited, raced, failed>>

Finish ==
  /\ at = "read" /\ count = Len(entries)
  /\ at' = "done"
  /\ UNCHANGED <<before, visits, files, entries, count, buffer, edited, raced, failed, broken>>

Audit ==
  Scan \/ Report \/ ReadFile \/ Truncate \/ Fill \/ NotOpened \/ NotFilled \/ Finish

\* While lines are being taken out.  (A line added earlier is one that is there
\* when the audit comes by.)  The command knows nothing of it.
UserAddsLine(path) ==
  /\ at \in {"read", "truncate", "fill"} /\ edited = {}
  /\ files' = [files EXCEPT ![path] = Append(@, NewLine)]
  /\ edited' = {path}
  /\ raced' = IF writing /\ entry.path = path THEN {path} ELSE {}
  /\ UNCHANGED <<before, visits, at, entries, count, buffer, failed, broken>>

Die ==
  /\ at \notin {"scan", "done"} /\ at' = "done"
  /\ IF at = "fill" THEN CutShort ELSE UNCHANGED <<files, broken>>
  /\ UNCHANGED <<before, visits, entries, count, buffer, edited, raced, failed>>

Next == Audit \/ (\E path \in Paths : UserAddsLine(path)) \/ Die

-----------------------------------------------------------------------------
(* Properties.                                                             *)

\* A key of this fingerprint comes before line i of visit v, in the order of the
\* users.
Known(fingerprint, v, i) ==
  \E w \in 1 .. v : \E j \in DOMAIN before[visits[w]] :
    /\ w < v \/ j < i
    /\ HasKey(before[visits[w]][j]) /\ Key[before[visits[w]][j]] = fingerprint

\* The texts that have to go from a file.
Condemned(path) ==
  {line \in DOMAIN Key : \E v \in DOMAIN visits, i \in DOMAIN before[path] :
     /\ visits[v] = path /\ before[path][i] = line
     /\ line \in Weak \/ Known(Key[line], v, i)}

Remaining(path) == Without(before[path], Condemned(path))

\* Those of them whose removal was given up, once at least.
Missed(path) == {entries[i].line : i \in {k \in failed : entries[k].path = path}}

\* At every moment a file that is not being written, and whose writing was not cut
\* short, has all lines nobody flagged, in their order; what the user adds stays
\* behind them unless it came between a reading and a writing of the file.  When
\* the command has come to its end, no flagged line is left in any file, but for
\* those whose removal has failed.
RevokedExactly ==
  \A path \in Paths :
    /\ path \notin broken /\ ~(at = "fill" /\ entry.path = path) =>
         LET kept == Without(files[path], Condemned(path)) IN
         \/ kept = Remaining(path) /\ path \notin edited \ raced
         \/ kept = Append(Remaining(path), NewLine) /\ path \in edited
    /\ at = "done" /\ count = Len(entries) =>
         Range(files[path]) \cap Condemned(path) \subseteq Missed(path)
=============================================================================
