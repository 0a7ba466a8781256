----------------------------- MODULE SlidingBan -----------------------------
(***************************************************************************)
(* What BruteForceProtector promises its callers, without deques that are  *)
(* trimmed late or a reaper thread that works from an old clock reading.   *)
(*                                                                         *)
(* recent[ip] is exact at every instant: the failures of ip not older than *)
(* the observation window, since the last success or ban.  The failure     *)
(* that brings MaxAttempts of them together bans the address; a ban is     *)
(* lifted by its expiry, by an explicit unban, or because the daemon died. *)
(***************************************************************************)
EXTENDS AttemptWindow

CONSTANTS
  IPs, Whitelist, MaxAttempts, Window,
  LoggingIn,    \* addresses from which a login may succeed
  Suspects,     \* addresses that are banned on other grounds than failures
  FirstBan,     \* the length of a first ban
  MaxTime       \* bound: the clock stops here

VARIABLES now, recent, bans

vars == <<now, recent, bans>>

NoBan == [bannedAt |-> 0, duration |-> 0, offence |-> 0]

Banned(ip) == bans[ip] # NoBan

Init ==
  /\ now = 0
  /\ recent = [ip \in IPs |-> <<>>]
  /\ bans = [ip \in IPs |-> NoBan]

\* A ban starts now, forgets the failures that led to it, and escalates the
\* offence count of a ban still in force.  Its length is the caller's choice.
StartBan(ip) ==
  /\ bans' = [bans EXCEPT ![ip] = [bannedAt |-> now,
                                  duration |-> bans'[ip].duration,
                                  offence |-> bans[ip].offence + 1]]
  /\ recent' = [recent EXCEPT ![ip] = <<>>]
  /\ UNCHANGED now

\* The failure that completes a burst of MaxAttempts inside the window.  The
\* address was free, so this is a first offence.
FailAndBan(ip) ==
  /\ ip \notin Whitelist /\ ~Banned(ip)
  /\ Len(recent[ip]) + 1 >= MaxAttempts
  /\ StartBan(ip)
  /\ bans'[ip].duration = FirstBan

Fail(ip) ==
  /\ ip \notin Whitelist /\ ~Banned(ip)
  /\ Len(recent[ip]) + 1 < MaxAttempts
  /\ recent' = [recent EXCEPT ![ip] = Append(@, now)]
  /\ UNCHANGED <<now, bans>>

Succeed(ip) ==
  /\ recent' = [recent EXCEPT ![ip] = <<>>]
  /\ UNCHANGED <<now, bans>>

\* Bans that have run their full length, any number of them at once.
Expire ==
  \E due \in SUBSET {ip \in IPs : Banned(ip) /\ now - bans[ip].bannedAt >= bans[ip].duration} :
    /\ bans' = [ip \in IPs |-> IF ip \in due THEN NoBan ELSE bans[ip]]
    /\ UNCHANGED <<now, recent>>

Pardon(ip) ==
  /\ Banned(ip)
  /\ bans' = [bans EXCEPT ![ip] = NoBan]
  /\ UNCHANGED <<now, recent>>

Restart ==
  /\ recent' = [ip \in IPs |-> <<>>]
  /\ bans' = [ip \in IPs |-> NoBan]
  /\ UNCHANGED now

\* Failures leave the window the moment they are too old.
Tick ==
  /\ now < MaxTime
  /\ now' = now + 1
  /\ recent' = [ip \in IPs |-> Evict(recent[ip], now' - Window)]
  /\ UNCHANGED bans

Next ==
  \/ \E ip \in IPs : FailAndBan(ip) \/ Fail(ip) \/ Pardon(ip)
  \/ \E ip \in LoggingIn : Succeed(ip)
  \/ \E ip \in Suspects : StartBan(ip)
  \/ Expire
  \/ Restart
  \/ Tick

Spec == Init /\ [][Next]_vars
=============================================================================
