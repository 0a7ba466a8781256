-------------------------------- MODULE BanCli --------------------------------
(***************************************************************************)
(* main.py ban and main.py unban beside the daemon.  Each command makes a  *)
(* BruteForceProtector of its own, in its own process: its tables are      *)
(* empty, and gone when the command ends.  All it shares with the daemon   *)
(* is what drops the packets: the kernel set and the jail of fail2ban.     *)
(***************************************************************************)
EXTENDS BruteForce

VARIABLE
  order   \* history: what the operator last asked for

cliVars == <<vars, order>>

CInit == Init /\ order = [ip \in IPs |-> "nothing"]

\* _ban in the fresh table, for whatever duration; only what its two external
\* commands do outlives it.
CliBan(ip) ==
  /\ now <= LastEvent
  /\ ApplySystemBan(ip)
  /\ order' = [order EXCEPT ![ip] = "ban"]
  /\ UNCHANGED <<now, attempts, bans, reaper>>

\* _unban finds no record in the fresh table and returns False before either.
CliUnban(ip) ==
  /\ now <= LastEvent
  /\ order' = [order EXCEPT ![ip] = "unban"]
  /\ UNCHANGED vars

\* The daemon goes on; a ban of its own supersedes what was asked for.
DaemonStep ==
  /\ Next
  /\ order' = [ip \in IPs |-> IF bans'[ip] # bans[ip] /\ Banned(ip)' THEN "nothing" ELSE order[ip]]

CNext ==
  \/ DaemonStep
  \/ \E ip \in IPs : CliBan(ip) \/ CliUnban(ip)

CSpec == CInit /\ [][CNext]_cliVars

-----------------------------------------------------------------------------
\* README.md:62 "Manual ban / unban via CLI": after `main.py unban`, until a new
\* ban, the address is not dropped.
CliUnbanLifts == \A ip \in IPs : order[ip] = "unban" => ~Dropped(ip)
=============================================================================
