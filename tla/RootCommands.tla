---------------------------- MODULE RootCommands ----------------------------
(***************************************************************************)
(* The two commands root runs from time to time, `main.py harden` and      *)
(* `main.py keys audit`.  They share no file, so one session runs either;  *)
(* the variables of the other command stay put.                            *)
(***************************************************************************)
EXTENDS Hardening

CONSTANTS Paths, Visits, Key, Weak, NewLine, FilesMayFail, MaxLines   \* KeyAuditor

VARIABLES
  session,   \* which of the two it is
  before, visits, files, auditAt, entries, count, buffer, edited, raced, failed, broken

auditVars == <<before, visits, files, auditAt, entries, count, buffer, edited, raced, failed, broken>>

Keys == INSTANCE KeyAuditor WITH at <- auditAt

ASSUME AuditAssumption == Keys!KeyAuditorAssumption

\* One of the machines that Init has.
Parked ==
  /\ Init
  /\ wellFormed = {"original"} /\ originalKeys = AllKeys /\ hostKeys = AllKeys
  /\ config = "original" /\ moduli = Crypto!NoFile /\ pam = "no_file" /\ conf = "no_file" /\ backend = "nftables"

NoAudit ==
  /\ before = 0 /\ visits = 0 /\ files = 0 /\ auditAt = "done" /\ entries = 0 /\ count = 0
  /\ buffer = 0 /\ edited = 0 /\ raced = 0 /\ failed = 0 /\ broken = 0

InitEither ==
  \/ session = "harden" /\ Init /\ NoAudit
  \/ session = "keys" /\ Keys!Init /\ Parked

NextEither ==
  \/ session = "harden" /\ Next /\ UNCHANGED <<session, auditVars>>
  \/ session = "keys" /\ Keys!Next /\ UNCHANGED <<session, vars>>

SpecEither == InitEither /\ [][NextEither]_<<session, vars, auditVars>>

-----------------------------------------------------------------------------
(* A property stated in KeyAuditor; the others are Hardening's.            *)

\* An audit takes exactly the flagged lines out, but those whose file would not be
\* read or written, and an edit is lost only between a reading and a writing.
RevokedExactly == session = "keys" => Keys!RevokedExactly
=============================================================================
