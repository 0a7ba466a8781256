---------------------------- MODULE ThreatScorer ----------------------------
(***************************************************************************)
(* modules/protection/threat_scorer.py: ThreatScorer.                      *)
(*                                                                         *)
(* One behavioural profile per address; record() folds an observation in,  *)
(* score() and should_ban() trim it and rate it, a reaper drops profiles   *)
(* that went idle.  Events are trimmed only when a profile is touched.     *)
(* The only caller of record() is the log-tail thread, so its reading of   *)
(* the clock and its critical section are one step; the reaper's reading   *)
(* precedes its critical section and is a step of its own.                 *)
(***************************************************************************)
EXTENDS AttemptWindow, FiniteSets

CONSTANTS
  IPs,
  Users,           \* usernames that appear in the log
  NoUser,          \* the empty username
  ThreatWindow,    \* threat_scoring.window
  BanThreshold,    \* threat_scoring.ban_threshold
  Weights,         \* threat_scoring.weights
  ThreatEnabled,   \* threat_scoring.enabled
  MaxTime,         \* bound: the clock stops here
  LastRecord,      \* bound: nothing is recorded after this instant
  MaxRecords       \* bound: events one profile may hold

ASSUME ThreatScorerAssumption ==
  /\ {ThreatWindow, BanThreshold, MaxTime, LastRecord, MaxRecords} \subseteq Nat
  /\ NoUser \notin Users
  /\ ThreatEnabled \in BOOLEAN

\* Each weight is the most its signal adds, or the discount takes off.
ASSUME WeightsAssumption ==
  Weights \in [failure : Nat, failureCap : Nat, distinctUser : Nat, distinctUserCap : Nat,
              invalidUser : Nat, invalidUserCap : Nat, rootAttempt : Nat, reputation : Nat,
              offHours : Nat, knownGoodDiscount : Nat]

VARIABLES
  now,           \* time.monotonic()
  profiles,      \* self._profiles; NoProfile stands for a key that is absent
  threatReaper   \* the clock reading the reaper holds, Asleep while it has none

scorerVars == <<now, profiles, threatReaper>>

Kinds == {"failure", "invalid", "root", "success"}
Asleep == -1

NoProfile ==
  [known |-> FALSE, events |-> <<>>, usernames |-> {}, failures |-> 0, invalid |-> 0,
   root |-> 0, flagged |-> FALSE, offHours |-> FALSE, hadSuccess |-> FALSE, lastSeen |-> 0]

InitScorer ==
  /\ now = 0
  /\ profiles = [ip \in IPs |-> NoProfile]
  /\ threatReaper = Asleep

-----------------------------------------------------------------------------
(* The scoring core.                                                       *)

Least(m, n) == IF m < n THEN m ELSE n
Most(m, n) == IF m < n THEN n ELSE m
If(b, n) == IF b THEN n ELSE 0

Score(p) ==
  LET w == Weights
      spray == Most(0, Cardinality(p.usernames) - 1)
      blend == Least(p.failures * w.failure, w.failureCap)
               + Least(spray * w.distinctUser, w.distinctUserCap)
               + Least(p.invalid * w.invalidUser, w.invalidUserCap)
               + If(p.root > 0, w.rootAttempt)
               + If(p.flagged, w.reputation)
               + If(p.offHours, w.offHours)
               - If(p.hadSuccess, w.knownGoodDiscount)
  IN  Most(0, Least(100, blend))

Count(events, kinds) == Cardinality({i \in DOMAIN events : events[i].kind \in kinds})

\* Slip: the root attempts are not counted again.
EvictOldKeepingRoot(p, at) ==
  LET first == FirstKept([i \in DOMAIN p.events |-> p.events[i].at], at - ThreatWindow)
      kept  == SubSeq(p.events, first, Len(p.events))
  IN  [p EXCEPT !.events   = kept,
                !.failures = Count(kept, {"failure", "invalid", "root"}),
                !.invalid  = Count(kept, {"invalid"})]

\* Slip: with the last event, the known-good discount is forgotten too.
EvictOldAndItsDiscount(p, at) ==
  LET first == FirstKept([i \in DOMAIN p.events |-> p.events[i].at], at - ThreatWindow)
      kept  == SubSeq(p.events, first, Len(p.events))
  IN  [p EXCEPT !.events     = kept,
                !.failures   = Count(kept, {"failure", "invalid", "root"}),
                !.invalid    = Count(kept, {"invalid"}),
                !.root       = Count(kept, {"root"}),
                !.hadSuccess = @ /\ kept # <<>>]

\* _evict_old: drop outdated events; only if one was dropped, count again and,
\* if none is left, forget the usernames and the off-hours flag.
EvictOld(p, at) ==
  LET first == FirstKept([i \in DOMAIN p.events |-> p.events[i].at], at - ThreatWindow)
      kept  == SubSeq(p.events, first, Len(p.events))
      gone  == kept = <<>>
  IN  IF first = 1 THEN p
      ELSE [p EXCEPT !.events    = kept,
                     !.failures  = Count(kept, {"failure", "invalid", "root"}),
                     !.invalid   = Count(kept, {"invalid"}),
                     !.root      = Count(kept, {"root"}),
                     !.usernames = IF gone THEN {} ELSE @,
                     !.offHours  = @ /\ ~gone]

\* record's body up to the eviction, on the profile found or created.
Observed(p, kind, user, flagged, offHours, at) ==
  [p EXCEPT !.known      = TRUE,
            !.events     = Append(@, [at |-> at, kind |-> kind]),
            !.lastSeen   = at,
            !.usernames  = IF user = NoUser THEN @ ELSE @ \cup {user},
            !.failures   = @ + If(kind \in {"failure", "invalid", "root"}, 1),
            !.invalid    = @ + If(kind = "invalid", 1),
            !.root       = @ + If(kind = "root", 1),
            !.hadSuccess = @ \/ kind = "success",
            !.flagged    = @ \/ flagged,
            !.offHours   = @ \/ offHours]

\* The score a caller is given at this instant.
Rating(ip) == Score(EvictOld(profiles[ip], now))

ShouldBan(ip) == ThreatEnabled /\ Rating(ip) >= BanThreshold

-----------------------------------------------------------------------------
(* Operations, each under the lock.                                        *)

Record(ip, kind, user, flagged, offHours) ==
  /\ Len(profiles[ip].events) < MaxRecords
  /\ profiles' = [profiles EXCEPT ![ip] =
       EvictOld(Observed(@, kind, user, flagged, offHours, now), now)]
  /\ UNCHANGED <<now, threatReaper>>

\* score() and should_ban() trim the profile they rate.
ReadScore(ip) ==
  /\ profiles[ip].known
  /\ profiles' = [profiles EXCEPT ![ip] = EvictOld(@, now)]
  /\ UNCHANGED <<now, threatReaper>>

ReaperWake ==
  /\ threatReaper = Asleep
  /\ threatReaper' = now
  /\ UNCHANGED <<now, profiles>>

\* Slip: idle is judged by the first event, not the last.
IdleByFirst(at) ==
  {ip \in IPs : /\ profiles[ip].known /\ profiles[ip].events # <<>>
                /\ at - profiles[ip].events[1].at > ThreatWindow
                /\ ~profiles[ip].flagged}

\* Slip: known-good addresses are kept as well as flagged ones.
IdleUnlessKnownGood(at) ==
  {ip \in IPs : /\ profiles[ip].known /\ ~profiles[ip].hadSuccess
                /\ at - profiles[ip].lastSeen > ThreatWindow
                /\ ~profiles[ip].flagged}

Idle(at) ==
  {ip \in IPs : /\ profiles[ip].known
                /\ at - profiles[ip].lastSeen > ThreatWindow
                /\ ~profiles[ip].flagged}

ReaperSweep ==
  /\ threatReaper # Asleep
  /\ profiles' = [ip \in IPs |-> IF ip \in Idle(threatReaper) THEN NoProfile ELSE profiles[ip]]
  /\ threatReaper' = Asleep
  /\ UNCHANGED now

TickScorer ==
  /\ now < MaxTime
  /\ now' = now + 1
  /\ UNCHANGED <<profiles, threatReaper>>

\* What main.py records of ip: a reputation hit is recorded as a flagged
\* failure, a root attempt under the username root.
Recorded(ip) ==
  \E user \in Users \cup {NoUser}, kind \in Kinds, offHours \in BOOLEAN :
    \/ Record(ip, kind, user, FALSE, offHours)
    \/ kind = "failure" /\ Record(ip, kind, user, TRUE, offHours)

NextScorer ==
  \/ \E ip \in IPs : (now <= LastRecord /\ Recorded(ip)) \/ ReadScore(ip)
  \/ ReaperWake
  \/ ReaperSweep
  \/ TickScorer

ScorerSpec == InitScorer /\ [][NextScorer]_scorerVars

\* The clock advances; the reaper is a daemon thread in an endless loop.
ScorerFairness == WF_scorerVars(TickScorer) /\ WF_scorerVars(ReaperWake) /\ WF_scorerVars(ReaperSweep)

FairScorerSpec == ScorerSpec /\ ScorerFairness

-----------------------------------------------------------------------------
(* Properties.                                                             *)

Profile ==
  [known : BOOLEAN, events : Seq([at : 0 .. MaxTime, kind : Kinds]), usernames : SUBSET Users,
   failures : Nat, invalid : Nat, root : Nat, flagged : BOOLEAN, offHours : BOOLEAN,
   hadSuccess : BOOLEAN, lastSeen : 0 .. MaxTime]

\* Every variable stays in its type.
ScorerTypeOK ==
  /\ now \in 0 .. MaxTime
  /\ profiles \in [IPs -> Profile]
  /\ threatReaper \in Asleep .. now

\* The counters record() maintains one by one and the ones _evict_old counts
\* again are the same numbers: those of the events the profile still holds.  The
\* usernames and the off-hours flag, which are not counted by event, at least do
\* not outlive the last one.
CountersMatchEvents ==
  \A ip \in IPs : LET p == profiles[ip] IN
    /\ p.failures = Count(p.events, {"failure", "invalid", "root"})
    /\ p.invalid = Count(p.events, {"invalid"})
    /\ p.root = Count(p.events, {"root"})
    /\ p.events = <<>> => p.usernames = {} /\ ~p.offHours

\* Whatever was observed and whatever the weights, a score is one of 0 to 100.
ScoreInRange == \A ip \in IPs : Rating(ip) \in 0 .. 100

\* Time, trimming and reaping only ever lower a score; what raises it is a new
\* observation of that address.
ScoreRisesOnlyByRecord ==
  [][\A ip \in IPs : Rating(ip)' > Rating(ip) => Recorded(ip)]_scorerVars

\* The reaper never discards a profile that would still score because of what
\* happened inside the window.
NothingRecentIsReaped ==
  [][\A ip \in IPs : profiles[ip].known /\ ~profiles[ip].known' =>
       EvictOld(profiles[ip], now).events = <<>>]_scorerVars

\* An address that goes quiet is eventually forgotten, unless a reputation feed
\* flagged it.
IdleForgotten ==
  \A ip \in IPs : profiles[ip].known ~> ~profiles[ip].known \/ profiles[ip].flagged
=============================================================================
