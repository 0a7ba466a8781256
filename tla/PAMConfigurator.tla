--------------------------- MODULE PAMConfigurator ---------------------------
(***************************************************************************)
(* modules/hardening/pam_config.py, the third part of `main.py harden`:    *)
(* copy /etc/pam.d/sshd to a backup named after the second, overwrite it   *)
(* in place.  Nothing validates the result, and nothing restores it.       *)
(***************************************************************************)
EXTENDS Naturals

CONSTANT MaxTime   \* bound: the clock stops here

VARIABLES
  now,          \* the wall clock, in seconds
  at,           \* where the command under way is
  pam,          \* what /etc/pam.d/sshd holds
  pamBackups    \* what each backup holds, NoBackup when there is none of that second

PamContents == {"no_file", "original", "torn", "hardened"}
NoBackup == "none"

Step(from, to) == at = from /\ at' = to

Init ==
  /\ pam \in {"no_file", "original"}
  /\ pamBackups = [t \in 0 .. MaxTime |-> NoBackup]

\* apply returns at once when the file is not there.
Skip(next) ==
  /\ pam = "no_file" /\ Step("pam", next)
  /\ UNCHANGED <<pam, pamBackups>>

Backup ==
  /\ pam # "no_file" /\ Step("pam", "pamOpen")
  /\ pamBackups' = [pamBackups EXCEPT ![now] = pam]
  /\ UNCHANGED pam

Open ==
  /\ Step("pamOpen", "pamFill")
  /\ pam' = "torn"
  /\ UNCHANGED pamBackups

Fill(next) ==
  /\ Step("pamFill", next)
  /\ pam' = "hardened"
  /\ UNCHANGED pamBackups

Apply(next) == Skip(next) \/ Backup \/ Open \/ Fill(next)

\* A copy that is broken off is left cut short.
Die ==
  /\ IF at = "pam" /\ pam # "no_file"
     THEN pamBackups' \in {pamBackups, [pamBackups EXCEPT ![now] = "torn"]}
     ELSE UNCHANGED pamBackups
  /\ UNCHANGED pam
=============================================================================
