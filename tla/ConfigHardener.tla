--------------------------- MODULE ConfigHardener ---------------------------
(***************************************************************************)
(* modules/hardening/ssh_config.py: apply, the first part of `main.py      *)
(* harden`: back sshd_config up, overwrite it, ask sshd -t, and revert to  *)
(* the latest backup or reload sshd.  A backup is named after the second   *)
(* of local time it is made in, and the latest is the last by name.  sshd  *)
(* and its reload are external; a reload that fails goes unnoticed.        *)
(***************************************************************************)
EXTENDS Naturals

CONSTANTS
  Runs,        \* invocations of `main.py harden`, each at most once
  AllKeys,     \* types of host key
  StrongKeys,  \* those a hardened sshd_config names
  ReloadMayFail,  \* may both systemctl reload commands fail?
  MaxTime      \* bound: the clock stops here

VARIABLES
  now,           \* the wall clock, in seconds
  at,            \* where the command under way is, "idle" when there is none
  run,           \* the run it belongs to
  wellFormed,    \* the configurations in which sshd -t finds no fault of their own
  originalKeys,  \* the host keys that the administrator's sshd_config names
  hostKeys,      \* the host keys on disk that sshd can load
  config,        \* what sshd_config holds
  backups,       \* what each backup holds, NoBackup when there is none of that second
  serving,       \* the configuration the running sshd has loaded
  accepted,      \* history: the configuration sshd -t accepted last
  stale,         \* history: no reload has succeeded since
  interrupted    \* history: a run died on sshd_config, and none was accepted since

\* What the administrator wrote, what each run builds (the settings may change
\* in between), a file cut short, no file.
Contents == {"original", "torn", "no_file"} \cup Runs
NoBackup == "none"
Places == {"backup", "truncate", "write", "validate", "restore", "reload"}

Step(from, to) == at = from /\ at' = to

Init ==
  /\ config \in {"original", "no_file"} /\ serving = "original" /\ accepted = "original"
  /\ backups = [t \in 0 .. MaxTime |-> NoBackup]
  /\ stale = FALSE /\ interrupted = FALSE

\* The HostKey lines; a file without any stands for the default keys.
KeysNamed(content) ==
  CASE content \in Runs -> StrongKeys
    [] content = "original" -> originalKeys
    [] OTHER -> AllKeys

\* sshd -t, and sshd when it starts: some host key must be there to load.
Accepts(content) == content \in wellFormed /\ KeysNamed(content) \cap hostKeys # {}

histories == <<serving, accepted, stale, interrupted>>

\* apply returns False at once if there is no file to harden.
Skip(next) ==
  /\ config = "no_file" /\ Step("backup", next)
  /\ UNCHANGED <<config, backups, histories>>

\* Slip: the backup is made after the file is truncated.
BackupLate ==
  /\ Step("backup", "write")
  /\ config' = "torn"
  /\ backups' = [backups EXCEPT ![now] = "torn"]
  /\ UNCHANGED histories

\* _backup
Backup ==
  /\ config # "no_file" /\ Step("backup", "truncate")
  /\ backups' = [backups EXCEPT ![now] = config]
  /\ UNCHANGED <<config, histories>>

\* write_text truncates the file in place ...
Truncate ==
  /\ Step("truncate", "write")
  /\ config' = "torn"
  /\ UNCHANGED <<backups, histories>>

\* ... and fills it.
Write ==
  /\ Step("write", "validate")
  /\ config' = run
  /\ UNCHANGED <<backups, histories>>

\* _validate: sshd -t reads the file, and looks for host keys, as they are now.
Validate ==
  /\ \/ /\ Accepts(config) /\ Step("validate", "reload")
        /\ accepted' = config /\ stale' = TRUE /\ interrupted' = FALSE
     \/ /\ ~Accepts(config) /\ Step("validate", "restore")
        /\ UNCHANGED <<accepted, stale, interrupted>>
  /\ UNCHANGED <<config, backups, serving>>

\* Slip: the list of backups is sorted the other way.
LatestReversed ==
  LET made == {t \in 0 .. MaxTime : backups[t] # NoBackup}
  IN  backups[CHOOSE t \in made : \A u \in made : t <= u]

\* _restore_latest_backup: the last by name, whoever made it.
Latest ==
  LET made == {t \in 0 .. MaxTime : backups[t] # NoBackup}
  IN  backups[CHOOSE t \in made : \A u \in made : u <= t]

Restore(next) ==
  /\ Step("restore", next)
  /\ config' = Latest
  /\ UNCHANGED <<backups, histories>>

\* _reload_sshd: systemctl by either name of the service.  Where both fail, the
\* kill that follows does nothing (a list given to the shell is a kill without
\* arguments), and apply reports success all the same.
Reload(next) ==
  /\ Step("reload", next)
  /\ \/ serving' = config /\ stale' = FALSE
     \/ ReloadMayFail /\ UNCHANGED <<serving, stale>>
  /\ UNCHANGED <<config, backups, accepted, interrupted>>

\* The command goes on to `next` whether or not this part of it succeeded.
Apply(next) ==
  Skip(next) \/ Backup \/ Truncate \/ Write \/ Validate \/ Restore(next) \/ Reload(next)

\* A copy that is broken off, of the file or back to it, is left cut short.  (sshd
\* or systemctl that are not there raise, and end the command in the same way.)
Die ==
  /\ interrupted' = (interrupted \/ at \in {"write", "validate", "restore"})
  /\ IF at = "backup" /\ config # "no_file"
     THEN backups' \in {backups, [backups EXCEPT ![now] = "torn"]}
     ELSE UNCHANGED backups
  /\ IF at = "restore" THEN config' \in {config, "torn"} ELSE UNCHANGED config
  /\ UNCHANGED <<serving, accepted, stale>>
=============================================================================
