------------------------------ MODULE Fortress ------------------------------
(***************************************************************************)
(* main.py run: the daemon's log-tail thread working through handle_event  *)
(* and the handlers registered after it, composed with the brute-force     *)
(* protector, the threat scorer and their two reaper threads.              *)
(*                                                                         *)
(* The tail thread takes one parsed event at a time.  handle_event takes   *)
(* and drops the locks of its helpers one call after the other, so each    *)
(* call is a step and the reapers and the clock run in between.            *)
(*                                                                         *)
(* Every ban ends in on_ban, which counts the ban and then raises: it      *)
(* calls discord.notify_brute_force_ban, and DiscordNotifier has no such   *)
(* method.  LogAggregator._drain catches the exception, so handle_event is *)
(* abandoned at that point and the next handler runs.  What follows a ban  *)
(* in handle_event is therefore never reached.  The statistics may raise   *)
(* as well, over a user's name that runs into a number (StatsTracker).     *)
(***************************************************************************)
EXTENDS ThreatScorer, LogParser, SessionEvents

CONSTANTS
  Whitelist,
  Ports,                 \* client ports; ip:port identifies a session
  MaxAttempts, ObservationWindow, BaseDuration, MaxDuration, Progressive,
  Fail2ban, KernelTimeout, JailTime, MayFail,
  RepEnabled,            \* ip_reputation.enabled, with a key for the service
  PrivateIPs, RepTTL,
  StatsMayRaise,         \* are there such names?
  MaxEvents              \* bound: log lines that are handled

ASSUME FortressAssumption ==
  /\ IPs # {} /\ Ports # {} /\ "root" \in Users
  /\ {RepTTL, MaxEvents} \subseteq Nat
  /\ ThreatEnabled                                   \* as in settings.yaml
  /\ LastRecord >= MaxTime /\ MaxRecords > MaxEvents  \* these bounds hold up nothing here

VARIABLES
  attempts, bans, reaper, blocked,  \* BruteForce, on the clock of ThreatScorer
  verdicts, asked,                  \* IPReputation
  tail,        \* the tail thread: where it is, and the event it handles
  stats,       \* the counters of StatsTracker that handle_event moves
  sessions,    \* SessionMonitor._sessions: the ids of the open sessions
  sent,        \* alerts raised through fire_alerts, as <<type, ip>>
  seen         \* history: what the log has shown so far

bfVars == <<now, attempts, bans, reaper, blocked>>
tsVars == <<profiles, threatReaper>>
repVars == <<verdicts, asked>>
vars == <<bfVars, tsVars, repVars, tail, stats, sessions, sent, seen>>

BF == INSTANCE BruteForce WITH
        Window <- ObservationWindow, LoggingIn <- IPs, Suspects <- IPs, Overrides <- {}, MayCrash <- FALSE,
        LastEvent <- MaxTime, MaxOffence <- MaxEvents + 1

Rep == INSTANCE IPReputation WITH Private <- PrivateIPs, TTL <- RepTTL

\* What the protector assumes of its settings holds of the daemon's.
ASSUME HelpersAssumption ==
  BF!BruteForceAssumption

\* What the lines of the log are parsed into: never PUBKEY_ACCEPTED, and
\* ROOT_ATTEMPT for passwords no more than any other failure.
EventTypes == {Classify(message) : message \in Messages}
Failures == {"AUTH_FAILURE", "INVALID_USER"}

\* offHours: does the hour of the line's timestamp fall outside business hours?
Events == [type : EventTypes, ip : IPs, user : Users, port : Ports, offHours : BOOLEAN]

Places == {"idle", "handle", "query", "flag", "repBan", "record", "observe", "judge", "threatBan",
           "alert", "success", "count", "forward", "sessions"}

NoEvent == [type |-> "DISCONNECT", ip |-> CHOOSE ip \in IPs : TRUE,
            user |-> CHOOSE user \in Users : TRUE, port |-> CHOOSE port \in Ports : TRUE,
            offHours |-> FALSE]

Init ==
  /\ BF!Init /\ InitScorer /\ Rep!Init
  /\ tail = [at |-> "idle", event |-> NoEvent]
  /\ stats = [failures |-> 0, successes |-> 0, bans |-> 0, roots |-> 0, active |-> 0, peak |-> 0]
  /\ sessions = {}
  /\ sent = {}
  /\ seen = [lines |-> 0, failures |-> 0]

-----------------------------------------------------------------------------
(* The tail thread.                                                        *)

Event == tail.event
At(place) == tail.at = place
GoTo(place) == tail' = [tail EXCEPT !.at = place]

Bump(field) == stats' = [stats EXCEPT ![field] = @ + 1]
Raise(type) == sent' = sent \cup {<<type, Event.ip>>}

KeepBF == UNCHANGED bfVars
KeepTS == UNCHANGED tsVars
KeepRep == UNCHANGED repVars
KeepRest == KeepRep /\ UNCHANGED <<sessions, seen>>

\* LogAggregator._drain parses the next line and calls the first handler.
TakeLine ==
  /\ At("idle") /\ seen.lines < MaxEvents
  /\ \E e \in Events : tail' = [at |-> "handle", event |-> e]
  /\ seen' = [seen EXCEPT !.lines = @ + 1,
                          !.failures = @ + (IF tail'.event.type \in Failures THEN 1 ELSE 0)]
  /\ KeepBF /\ KeepTS /\ KeepRep /\ UNCHANGED <<stats, sessions, sent>>

\* The branch of handle_event for the type of the event.
Branch ==
  CASE Event.type \in Failures -> "record"
    [] Event.type = "AUTH_SUCCESS" -> "success"
    [] Event.type = "ROOT_ATTEMPT" -> "observe"
    [] OTHER -> "count"

\* ip_rep.check comes first, if the event has an address; unless a verdict is
\* at hand the service is asked.
Checked == RepEnabled /\ Event.type # "UNKNOWN"

Handle ==
  /\ At("handle")
  /\ IF Checked /\ Rep!Unknown(Event.ip)
     THEN Rep!Ask(Event.ip) /\ GoTo("query")
     ELSE KeepRep /\ GoTo(IF Checked /\ Rep!Malicious(Event.ip) THEN "flag" ELSE Branch)
  /\ KeepBF /\ KeepTS /\ UNCHANGED <<stats, sessions, sent, seen>>

Lookup ==
  /\ At("query")
  /\ Rep!Answer(Event.ip)
  /\ GoTo(IF verdicts'[Event.ip].bad THEN "flag" ELSE Branch)
  /\ KeepBF /\ KeepTS /\ UNCHANGED <<stats, sessions, sent, seen>>

\* threat.record(..., reputation_flagged=True)
Flag ==
  /\ At("flag")
  /\ Record(Event.ip, "failure", Event.user, TRUE, Event.offHours)
  /\ GoTo("repBan")
  /\ UNCHANGED <<attempts, bans, reaper, blocked, stats, sent>> /\ KeepRest

\* bf.ban under any of its reasons: on_ban counts it, alerts and raises.
ImposeBan ==
  /\ BF!Ban(Event.ip)
  /\ Bump("bans")
  /\ Raise("BRUTE_FORCE_BAN")
  /\ GoTo("forward")
  /\ KeepTS /\ KeepRest

RepBan == At("repBan") /\ ImposeBan

\* Slip: on_ban raises before it has counted the ban.
RecordFailureUncounted ==
  /\ At("record")
  /\ \/ BF!Ignored(Event.ip) /\ KeepBF /\ GoTo("observe") /\ UNCHANGED sent
     \/ /\ BF!RecordFailure(Event.ip)
        /\ IF bans' = bans
           THEN GoTo("observe") /\ UNCHANGED sent
           ELSE GoTo("forward") /\ Raise("BRUTE_FORCE_BAN")
  /\ UNCHANGED stats
  /\ KeepTS /\ KeepRest

\* bf.record_failure.  If it bans, on_ban runs inside it and raises.
RecordFailure ==
  /\ At("record")
  /\ \/ /\ BF!Ignored(Event.ip) /\ KeepBF
        /\ GoTo("observe") /\ UNCHANGED <<stats, sent>>
     \/ /\ BF!RecordFailure(Event.ip)
        /\ IF bans' = bans
           THEN GoTo("observe") /\ UNCHANGED <<stats, sent>>
           ELSE GoTo("forward") /\ Bump("bans") /\ Raise("BRUTE_FORCE_BAN")
  /\ KeepTS /\ KeepRest

\* threat.record, then the statistics, then the alert.  A root attempt is only
\* reported: should_ban is asked after failures alone.
Observe ==
  /\ At("observe")
  /\ CASE Event.type \in Failures ->
            /\ Record(Event.ip, IF Event.type = "INVALID_USER" THEN "invalid" ELSE "failure",
                         Event.user, FALSE, Event.offHours)
            /\ Bump("failures") /\ UNCHANGED sent
            /\ GoTo("judge") \/ (StatsMayRaise /\ GoTo("forward"))
       [] Event.type = "ROOT_ATTEMPT" ->
            /\ Record(Event.ip, "root", "root", FALSE, Event.offHours)
            /\ Bump("roots") /\ GoTo("count") /\ Raise("ROOT_ATTEMPT")
       [] Event.type = "AUTH_SUCCESS" ->
            /\ Record(Event.ip, "success", Event.user, FALSE, Event.offHours)
            /\ Bump("successes")
            /\ \/ GoTo("count") /\ Raise("AUTH_SUCCESS")
               \/ StatsMayRaise /\ GoTo("forward") /\ UNCHANGED sent
  /\ UNCHANGED <<attempts, bans, reaper, blocked>> /\ KeepRest

\* Slip: should_ban is asked after failures of known users alone.
JudgeKnownUsers ==
  /\ At("judge")
  /\ \/ ReadScore(Event.ip)
     \/ ~profiles[Event.ip].known /\ UNCHANGED <<now, profiles, threatReaper>>
  /\ GoTo(IF ShouldBan(Event.ip) /\ Event.type = "AUTH_FAILURE" THEN "threatBan" ELSE "alert")
  /\ UNCHANGED <<attempts, bans, reaper, blocked, repVars, stats, sessions, sent, seen>>

\* Slip: should_ban waits for a profile that the reaper may have taken.
JudgeWaiting ==
  /\ At("judge")
  /\ ReadScore(Event.ip)
  /\ GoTo(IF ShouldBan(Event.ip) THEN "threatBan" ELSE "alert")
  /\ UNCHANGED <<attempts, bans, reaper, blocked, repVars, stats, sessions, sent, seen>>

\* threat.should_ban, which trims the profile it rates.
Judge ==
  /\ At("judge")
  /\ \/ ReadScore(Event.ip)
     \/ ~profiles[Event.ip].known /\ UNCHANGED <<now, profiles, threatReaper>>
  /\ GoTo(IF ShouldBan(Event.ip) THEN "threatBan" ELSE "alert")
  /\ UNCHANGED <<attempts, bans, reaper, blocked, repVars, stats, sessions, sent, seen>>

ThreatBan == At("threatBan") /\ ImposeBan

Alert ==
  /\ At("alert")
  /\ Raise("AUTH_FAILURE")
  /\ GoTo("count")
  /\ KeepBF /\ KeepTS /\ KeepRest /\ UNCHANGED stats

\* bf.record_success; the rest of the branch is in Observe.
Success ==
  /\ At("success")
  /\ BF!RecordSuccess(Event.ip)
  /\ GoTo("observe")
  /\ KeepTS /\ KeepRest /\ UNCHANGED <<stats, sent>>

\* stats.set_active_sessions(sessions.session_count()), before the session
\* monitor has seen this event.
CountSessions ==
  /\ At("count")
  /\ LET open == Cardinality(sessions) IN
       stats' = [stats EXCEPT !.active = open, !.peak = IF @ < open THEN open ELSE @]
  /\ GoTo("forward")
  /\ KeepBF /\ KeepTS /\ KeepRest /\ UNCHANGED sent

\* The second handler: SIEMForwarder.
Forward ==
  /\ At("forward")
  /\ GoTo("sessions")
  /\ KeepBF /\ KeepTS /\ KeepRest /\ UNCHANGED <<stats, sent>>

\* The third: SessionMonitor.__call__.  (AnomalyDetector, the last, has state
\* of its own that no other handler reads.)
TrackSession ==
  /\ At("sessions")
  /\ sessions' = Tracked(sessions, Event.type, <<Event.ip, Event.port>>)
  /\ GoTo("idle")
  /\ KeepBF /\ KeepTS /\ KeepRep /\ UNCHANGED <<stats, sent, seen>>

TailStep ==
  \/ Handle \/ Lookup \/ Flag \/ RepBan \/ RecordFailure \/ Observe \/ Judge \/ ThreatBan
  \/ Alert \/ Success \/ CountSessions \/ Forward \/ TrackSession

-----------------------------------------------------------------------------
(* The other threads.                                                      *)

TailVars == <<repVars, tail, stats, sessions, sent, seen>>

BanReaper == (BF!ReaperWake \/ BF!ReaperSweep) /\ KeepTS /\ UNCHANGED TailVars

ThreatReaper ==
  /\ ReaperWake \/ ReaperSweep
  /\ UNCHANGED <<attempts, bans, reaper, blocked, TailVars>>

Tick == BF!Tick /\ KeepTS /\ UNCHANGED TailVars

Next == TakeLine \/ TailStep \/ BanReaper \/ ThreatReaper \/ Tick

Spec == Init /\ [][Next]_vars

\* The tail thread is not held up for ever: every lock it waits for is released.
FairSpec == Spec /\ WF_vars(TailStep)

-----------------------------------------------------------------------------
(* Properties.                                                             *)

\* Every variable stays in its type.
TypeOK ==
  /\ BF!TypeOK /\ ScorerTypeOK
  /\ tail \in [at : Places, event : Events]
  /\ stats \in [{"failures", "successes", "bans", "roots", "active", "peak"} -> Nat]
  /\ sessions \subseteq IPs \X Ports
  /\ sent \subseteq {"AUTH_FAILURE", "AUTH_SUCCESS", "ROOT_ATTEMPT", "BRUTE_FORCE_BAN"} \X IPs

\* The reputation service is asked about an address once per validity of a
\* verdict, also when time passes between the request and its answer.
QuotaKept == Rep!QuotaKept

\* A failure is passed off as a mere AUTH_FAILURE alert only for an address whose
\* score is below the threshold, also if the clock or a reaper moved meanwhile.
LetGoOnlyIfCold == At("alert") => ~ShouldBan(Event.ip)

\* What the exception in on_ban costs the statistics: between events, a failure
\* that was seen and is not counted is made up for by a ban that is.
LostFailuresAreBans ==
  At("idle") => seen.failures - stats.failures \in 0 .. stats.bans

\* Whatever raises inside it, the handling of an event ends.
TailReturns == ~At("idle") ~> At("idle")

\* README.md:155 "Counts: total attempts, successes, failures, bans, root
\* attempts, anomalies": between events, the failures counted are the failures
\* seen.  The failure that triggers a ban is not counted, for on_ban raises.
EveryFailureCounted == At("idle") => stats.failures = seen.failures
=============================================================================
