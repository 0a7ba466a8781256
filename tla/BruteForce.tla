----------------------------- MODULE BruteForce -----------------------------
(***************************************************************************)
(* modules/protection/brute_force.py: BruteForceProtector.                 *)
(*                                                                         *)
(* The attempt deques and the ban table, every operation on them, and the  *)
(* reaper thread, which reads the clock BEFORE it takes the lock.  Every   *)
(* other operation runs under the RLock and is one step.  What drops the   *)
(* packets is external and survives the process: the kernel's banned_ips   *)
(* set (nftables) and, when enabled, the jail of fail2ban.  Each lets an   *)
(* address go after a time of its own; nft ignores the re-adding of an     *)
(* element, fail2ban starts its time anew; each of the two commands may    *)
(* fail apart from the other, and the failure is swallowed.                *)
(***************************************************************************)
EXTENDS AttemptWindow

CONSTANTS
  IPs,             \* source addresses
  Whitelist,       \* those _is_whitelisted accepts, by address or CIDR
  MaxAttempts,     \* brute_force.max_attempts
  Window,          \* brute_force.observation_window
  BaseDuration,    \* brute_force.block_duration
  MaxDuration,     \* brute_force.max_ban_duration
  Progressive,     \* brute_force.progressive_ban
  LoggingIn,       \* addresses from which a login may succeed
  Suspects,        \* addresses that a caller of ban() may ban
  Overrides,       \* durations an operator may pass to ban()
  Fail2ban,        \* brute_force.fail2ban.enabled
  KernelTimeout,   \* timeout of an element of the kernel set
  JailTime,        \* time fail2ban keeps an address in the jail
  MayFail,         \* the blockers whose commands may fail or time out
  MayCrash,        \* may the daemon die and be restarted?
  MaxTime,         \* bound: the clock stops here
  LastEvent,       \* bound: no event, manual ban or crash after this instant
  MaxOffence       \* bound: an offence count at which no further ban is made

\* What _apply_system_ban and _lift_system_ban drive, in this order.
Blockers == {"nft"} \cup (IF Fail2ban THEN {"fail2ban"} ELSE {})

ASSUME BruteForceAssumption ==
  /\ Whitelist \subseteq IPs /\ LoggingIn \subseteq IPs /\ Suspects \subseteq IPs
  /\ MaxAttempts \in Nat \ {0}
  /\ {Window, BaseDuration, MaxDuration, MaxTime, LastEvent, MaxOffence} \subseteq Nat
  /\ {KernelTimeout, JailTime} \subseteq Nat \ {0}
  /\ MayFail \subseteq Blockers
  /\ Overrides \subseteq Int
  /\ {Progressive, Fail2ban, MayCrash} \subseteq BOOLEAN

VARIABLES
  now,        \* time.monotonic()
  attempts,   \* self._attempts; <<>> stands for a key that is absent
  bans,       \* self._bans; NoBan stands for a key that is absent
  reaper,     \* the clock reading the reaper holds, Asleep while it has none
  blocked     \* per address and blocker: the instant it lets go, 0 if not held

vars == <<now, attempts, bans, reaper, blocked>>

NoBan == [bannedAt |-> 0, duration |-> 0, offence |-> 0]
Asleep == -1

Banned(ip) == bans[ip] # NoBan
Dropped(ip) == \E b \in Blockers : blocked[ip][b] # 0

Init ==
  /\ now = 0
  /\ attempts = [ip \in IPs |-> <<>>]
  /\ bans = [ip \in IPs |-> NoBan]
  /\ reaper = Asleep
  /\ blocked = [ip \in IPs |-> [b \in Blockers |-> 0]]

-----------------------------------------------------------------------------
(* The blockers, as _apply_system_ban and _lift_system_ban use them.       *)

\* The instant at which b lets go of ip, once it was told to ban it.
Imposed(ip, b) ==
  IF b = "nft" /\ blocked[ip][b] # 0 THEN blocked[ip][b]
  ELSE now + (IF b = "nft" THEN KernelTimeout ELSE JailTime)

ApplySystemBan(ip) ==
  \E failed \in SUBSET MayFail :
    blocked' = [blocked EXCEPT ![ip] =
      [b \in Blockers |-> IF b \in failed THEN blocked[ip][b] ELSE Imposed(ip, b)]]

LiftSystemBans(ips) ==
  \E failed \in SUBSET (ips \X MayFail) :
    blocked' = [ip \in IPs |-> [b \in Blockers |->
      IF ip \in ips /\ <<ip, b>> \notin failed THEN 0 ELSE blocked[ip][b]]]

-----------------------------------------------------------------------------
(* Operations, each under the lock.                                        *)

\* Slip: a duration over the maximum falls back to the base.
BanDurationWrapping(offence) ==
  LET doubled == BaseDuration * 2 ^ (offence - 1)
  IN  IF Progressive /\ doubled <= MaxDuration THEN doubled ELSE BaseDuration

BanDuration(offence) ==
  IF Progressive
  THEN LET doubled == BaseDuration * 2 ^ (offence - 1)
       IN  IF doubled < MaxDuration THEN doubled ELSE MaxDuration
  ELSE BaseDuration

\* Slip: the record holds the end of the ban instead of its start.
ImposeBanByEnd(ip, duration) ==
  /\ bans' = [bans EXCEPT ![ip] =
       [bannedAt |-> now + duration, duration |-> duration, offence |-> bans[ip].offence + 1]]
  /\ attempts' = [attempts EXCEPT ![ip] = <<>>]
  /\ ApplySystemBan(ip)
  /\ UNCHANGED <<now, reaper>>

\* Slip: _ban does not pop the deque.
ImposeBanKeepingAttempts(ip, duration) ==
  /\ bans' = [bans EXCEPT ![ip] =
       [bannedAt |-> now, duration |-> duration, offence |-> bans[ip].offence + 1]]
  /\ ApplySystemBan(ip)
  /\ UNCHANGED <<now, attempts, reaper>>

\* _ban with the duration it computed; a record that is replaced hands on its
\* offence count.  The on_ban callback comes last and changes nothing here.
ImposeBan(ip, duration) ==
  /\ bans' = [bans EXCEPT ![ip] =
       [bannedAt |-> now, duration |-> duration, offence |-> bans[ip].offence + 1]]
  /\ attempts' = [attempts EXCEPT ![ip] = <<>>]
  /\ ApplySystemBan(ip)
  /\ UNCHANGED <<now, reaper>>

\* Slip: appendleft.
CountedFromTheLeft(ip) == Evict(<<now>> \o attempts[ip], now - Window)

\* Slip: the deque is not trimmed before it is measured.
CountedUntrimmed(ip) == Append(attempts[ip], now)

\* The deque record_failure looks at: this failure in, the outdated ones out.
Counted(ip) == Evict(Append(attempts[ip], now), now - Window)

\* record_failure returns early, changing nothing, for a whitelisted or an
\* already banned address.
Ignored(ip) == ip \in Whitelist \/ Banned(ip)

RecordFailure(ip) ==
  /\ ~Ignored(ip)
  /\ \/ /\ Len(Counted(ip)) < MaxAttempts
        /\ attempts' = [attempts EXCEPT ![ip] = Counted(ip)]
        /\ UNCHANGED <<now, bans, reaper, blocked>>
     \/ /\ Len(Counted(ip)) >= MaxAttempts
        /\ ImposeBan(ip, BanDuration(bans[ip].offence + 1))

RecordSuccess(ip) ==
  /\ attempts' = [attempts EXCEPT ![ip] = <<>>]
  /\ UNCHANGED <<now, bans, reaper, blocked>>

\* ban(ip): manual, reputation and threat-score bans. No whitelist check.
Ban(ip) ==
  /\ bans[ip].offence < MaxOffence
  /\ ImposeBan(ip, BanDuration(bans[ip].offence + 1))

\* ban(ip, duration)
BanFor(ip, duration) ==
  /\ bans[ip].offence < MaxOffence
  /\ ImposeBan(ip, duration)

\* Slip: unban() forgets what drops the packets.
UnbanInTheTableOnly(ip) ==
  /\ Banned(ip)
  /\ bans' = [bans EXCEPT ![ip] = NoBan]
  /\ UNCHANGED <<now, attempts, reaper, blocked>>

Unban(ip) ==
  /\ Banned(ip)
  /\ bans' = [bans EXCEPT ![ip] = NoBan]
  /\ LiftSystemBans({ip})
  /\ UNCHANGED <<now, attempts, reaper>>

-----------------------------------------------------------------------------
(* The reaper thread: `now = time.monotonic()`, then the lock.             *)

ReaperWake ==
  /\ reaper = Asleep
  /\ reaper' = now
  /\ UNCHANGED <<now, attempts, bans, blocked>>

\* Slip: the clock itself is compared with the duration.
ExpiredByTheClock(at) == {ip \in IPs : Banned(ip) /\ at >= bans[ip].duration}

\* Slip: the reaper goes through the attempt table to find the bans.
ExpiredAmongAttempts(at) ==
  {ip \in IPs : Banned(ip) /\ attempts[ip] # <<>> /\ at - bans[ip].bannedAt >= bans[ip].duration}

Expired(at) == {ip \in IPs : Banned(ip) /\ at - bans[ip].bannedAt >= bans[ip].duration}

\* Slip: only the deques of banned addresses are dropped.
StaleIfBanned(at) ==
  {ip \in IPs : /\ Banned(ip) /\ attempts[ip] # <<>>
                /\ at - attempts[ip][Len(attempts[ip])] > Window}

Stale(at) == {ip \in IPs : attempts[ip] # <<>> /\ at - attempts[ip][Len(attempts[ip])] > Window}

ReaperSweep ==
  /\ reaper # Asleep
  /\ bans' = [ip \in IPs |-> IF ip \in Expired(reaper) THEN NoBan ELSE bans[ip]]
  /\ attempts' = [ip \in IPs |-> IF ip \in Stale(reaper) THEN <<>> ELSE attempts[ip]]
  /\ LiftSystemBans(Expired(reaper))
  /\ reaper' = Asleep
  /\ UNCHANGED now

-----------------------------------------------------------------------------
(* The environment.                                                        *)

\* The daemon dies and starts again; only the blockers outlive it.
Restart ==
  /\ MayCrash
  /\ attempts' = [ip \in IPs |-> <<>>]
  /\ bans' = [ip \in IPs |-> NoBan]
  /\ reaper' = Asleep
  /\ UNCHANGED <<now, blocked>>

Tick ==
  /\ now < MaxTime
  /\ now' = now + 1
  /\ blocked' = [ip \in IPs |-> [b \in Blockers |->
       IF blocked[ip][b] <= now' THEN 0 ELSE blocked[ip][b]]]
  /\ UNCHANGED <<attempts, bans, reaper>>

\* What sshd's clients, the operator and the machine may do.
Event ==
  /\ now <= LastEvent
  /\ \/ \E ip \in IPs : RecordFailure(ip) \/ Unban(ip)
     \/ \E ip \in LoggingIn : RecordSuccess(ip)
     \/ \E ip \in Suspects : Ban(ip)
     \/ \E ip \in Suspects, d \in Overrides : BanFor(ip, d)
     \/ Restart

Next == Event \/ ReaperWake \/ ReaperSweep \/ Tick

Spec == Init /\ [][Next]_vars

\* The clock advances and the reaper, a daemon thread that loops for ever on
\* sleep(60) and a short critical section, keeps running.
Fairness == WF_vars(Tick) /\ WF_vars(ReaperWake) /\ WF_vars(ReaperSweep)

FairSpec == Spec /\ Fairness

-----------------------------------------------------------------------------
(* Properties.                                                             *)

\* Every variable stays in its type; no record or reading lies in the future.
TypeOK ==
  /\ now \in 0 .. MaxTime
  /\ attempts \in [IPs -> Seq(Nat)]
  /\ bans \in [IPs -> [bannedAt : 0 .. now, duration : Int, offence : Nat]]
  /\ reaper \in Asleep .. now
  /\ blocked \in [IPs -> [Blockers -> Nat]]

\* record_failure and _ban keep the two tables apart: no address is at or over
\* the threshold without being banned, and a banned address starts from zero
\* once it is lifted.
ThresholdEnforced ==
  \A ip \in IPs : IF Banned(ip) THEN attempts[ip] = <<>> ELSE Len(attempts[ip]) < MaxAttempts

\* What lets record_failure stop evicting at the first recent timestamp, and
\* the reaper judge a deque by its last one: a deque is in the order of time.
AttemptsOrdered ==
  \A ip \in IPs :
    /\ Ordered(attempts[ip])
    /\ \A i \in DOMAIN attempts[ip] : attempts[ip][i] <= now

\* An address that a blocker drops without a ban in the table is one nobody will
\* lift.  Such an orphan is left by the death of the daemon, or at the end of a ban
\* by a command of that very blocker that failed: _unban and the reaper lift
\* whatever _ban applied, and neither a failing ban nor the other blocker's failure
\* leaves one.
Orphan(ip, b) == blocked[ip][b] # 0 /\ ~Banned(ip)

OrphansOnlyByFault ==
  [][\A ip \in IPs, b \in Blockers :
       Orphan(ip, b)' /\ ~Orphan(ip, b) =>
         Restart \/ (b \in MayFail /\ Banned(ip) /\ ~Banned(ip)')]_vars

\* A ban is lifted only at its end, by unban() or with the process, although
\* the reaper decides on a clock reading that may be older than the ban.
BanHeldUntilDue ==
  [][\A ip \in IPs : Banned(ip) /\ ~Banned(ip)' =>
       \/ now - bans[ip].bannedAt >= bans[ip].duration
       \/ Unban(ip)
       \/ Restart]_vars

\* Being banned again, without an explicit duration, never brings the end of a
\* ban forward.
Scheduled(rec) == rec.duration = BanDuration(rec.offence)

RebanNeverShortens ==
  [][\A ip \in IPs :
       Banned(ip) /\ Banned(ip)' /\ Scheduled(bans[ip]) /\ Scheduled(bans'[ip]) =>
         bans'[ip].bannedAt + bans'[ip].duration >= bans[ip].bannedAt + bans[ip].duration]_vars

\* Nobody stays banned for ever: the reaper gets to every ban.
BansLifted == \A ip \in IPs : Banned(ip) ~> ~Banned(ip)

\* The attempt table does not grow without end: the reaper drops the deque of
\* an address that went quiet below the threshold.
AttemptsForgotten == \A ip \in IPs : attempts[ip] # <<>> ~> attempts[ip] = <<>>

\* Evicting late, and the reaper, are invisible: seen through the failures that
\* are still in the window, the protector is the ideal sliding window.
InWindow == [ip \in IPs |-> Evict(attempts[ip], now - Window)]

Ideal == INSTANCE SlidingBan WITH recent <- InWindow, FirstBan <- BanDuration(1)

ImplementsSlidingBan == Ideal!Spec
=============================================================================
