--------------------------- MODULE FortressProofs ---------------------------
(***************************************************************************)
(* Theorems about Fortress: what the daemon makes of its helpers, however  *)
(* its threads interleave, for every number of addresses and log lines.    *)
(***************************************************************************)
EXTENDS Fortress, WindowFacts, SequenceTheorems, FiniteSetTheorems, FunctionTheorems

LEMMA ConstantTypes ==
  /\ RepTTL \in Nat /\ MaxTime \in Nat /\ MaxEvents \in Nat
  /\ IPs # {} /\ Ports # {} /\ "root" \in Users
  /\ ThreatEnabled /\ LastRecord \in Nat /\ LastRecord >= MaxTime
  BY FortressAssumption, ThreatScorerAssumption DEF FortressAssumption, ThreatScorerAssumption

-----------------------------------------------------------------------------
(* Where the tail thread is, and with what.                                *)

Lines == [type : EventTypes \cup {"DISCONNECT"}, ip : IPs, user : Users, port : Ports,
          offHours : BOOLEAN]

\* The variables that Fortress adds, and the tables of IPReputation.
Typed ==
  /\ now \in 0 .. MaxTime
  /\ tail \in [at : Places, event : Lines]
  /\ stats \in [{"failures", "successes", "bans", "roots", "active", "peak"} -> Nat]
  /\ seen \in [lines : Nat, failures : Nat]

\* Which events get to which call of handle_event.
Routed ==
  /\ tail.at \in {"record", "judge", "threatBan", "alert"} => Event.type \in Failures
  /\ tail.at = "success" => Event.type = "AUTH_SUCCESS"
  /\ tail.at = "observe" => Event.type \in Failures \cup {"ROOT_ATTEMPT", "AUTH_SUCCESS"}

LEMMA EventFacts ==
  ASSUME Typed
  PROVE  /\ Event.ip \in IPs /\ Event.user \in Users /\ Event.offHours \in BOOLEAN
         /\ tail.at \in Places /\ tail.event \in Lines
  BY DEF Typed, Event, Lines

LEMMA GoToFacts ==
  ASSUME Typed, NEW place \in Places, GoTo(place)
  PROVE  /\ tail'.at = place /\ tail'.event = tail.event
         /\ tail' \in [at : Places, event : Lines]
  BY DEF Typed, GoTo

LEMMA BumpFacts ==
  ASSUME Typed, NEW field \in {"failures", "successes", "bans", "roots"}, Bump(field)
  PROVE  /\ stats' \in [{"failures", "successes", "bans", "roots", "active", "peak"} -> Nat]
         /\ stats'[field] = stats[field] + 1
         /\ stats'.failures = IF field = "failures" THEN stats.failures + 1 ELSE stats.failures
         /\ stats'.bans = IF field = "bans" THEN stats.bans + 1 ELSE stats.bans
         /\ stats.failures \in Nat /\ stats.bans \in Nat
  BY DEF Typed, Bump

\* What the log has shown beyond what the statistics and the event at hand account for.
Owed ==
  IF /\ tail.at \in {"handle", "query", "flag", "repBan", "record", "observe"}
     /\ Event.type \in Failures
  THEN 1 ELSE 0

Balanced == seen.failures - stats.failures - Owed \in 0 .. stats.bans

BaseInv == Typed /\ Routed /\ Balanced

LEMMA InitBase == Init => BaseInv
<1> SUFFICES ASSUME Init PROVE BaseInv
  OBVIOUS
<1>1. NoEvent \in Lines
  <2>1. (CHOOSE ip \in IPs : TRUE) \in IPs /\ (CHOOSE port \in Ports : TRUE) \in Ports
        /\ (CHOOSE user \in Users : TRUE) \in Users
    BY ConstantTypes
  <2> QED
    BY <2>1 DEF NoEvent, Lines
<1>2. tail = [at |-> "idle", event |-> NoEvent] /\ seen = [lines |-> 0, failures |-> 0]
      /\ stats = [failures |-> 0, successes |-> 0, bans |-> 0, roots |-> 0, active |-> 0, peak |-> 0]
      /\ now = 0
  BY DEF Init, BF!Init
<1>3. tail \in [at : Places, event : Lines] /\ now \in 0 .. MaxTime /\ seen \in [lines : Nat, failures : Nat]
  BY <1>1, <1>2, ConstantTypes DEF Places
<1>4. stats \in [{"failures", "successes", "bans", "roots", "active", "peak"} -> Nat]
  BY <1>2
<1>5. Owed = 0 /\ Routed
  BY <1>2 DEF Owed, Routed
<1>6. Balanced
  BY <1>2, <1>5 DEF Balanced
<1> QED
  BY <1>3, <1>4, <1>5, <1>6 DEF BaseInv, Typed

\* Steps at which the tail thread goes to a place with the accounts as they are.
LEMMA GoesOn ==
  ASSUME BaseInv, NEW place \in Places, GoTo(place), UNCHANGED <<seen, stats>>,
         now' \in 0 .. MaxTime,
         place \in {"record", "judge", "threatBan", "alert"} => Event.type \in Failures,
         place = "success" => Event.type = "AUTH_SUCCESS",
         place = "observe" => Event.type \in Failures \cup {"ROOT_ATTEMPT", "AUTH_SUCCESS"},
         Owed' = Owed
  PROVE  BaseInv'
<1>1. /\ tail'.at = place /\ tail'.event = tail.event
      /\ tail' \in [at : Places, event : Lines]
  BY GoToFacts DEF BaseInv
<1>2. Typed'
  BY <1>1 DEF BaseInv, Typed
<1>3. Routed'
  BY <1>1 DEF Routed, Event
<1>4. Balanced'
  BY DEF BaseInv, Balanced
<1> QED
  BY <1>2, <1>3, <1>4 DEF BaseInv

\* Steps at which it goes on to the next handler, or past them all, with a ban or
\* a failure counted.
LEMMA Counts ==
  ASSUME BaseInv, NEW place \in {"forward", "judge", "count"},
         NEW field \in {"failures", "successes", "bans", "roots"},
         GoTo(place), Bump(field), UNCHANGED seen, now' \in 0 .. MaxTime,
         place = "judge" => Event.type \in Failures,
         field = "failures" => Owed = 1,
         field \in {"successes", "roots"} => Owed = 0
  PROVE  BaseInv'
<1>1. /\ tail'.at = place /\ tail'.event = tail.event
      /\ tail' \in [at : Places, event : Lines]
  BY GoToFacts DEF BaseInv, Places
<1>2. /\ stats' \in [{"failures", "successes", "bans", "roots", "active", "peak"} -> Nat]
      /\ stats'.failures = IF field = "failures" THEN stats.failures + 1 ELSE stats.failures
      /\ stats'.bans = IF field = "bans" THEN stats.bans + 1 ELSE stats.bans
      /\ stats.failures \in Nat /\ stats.bans \in Nat
  BY BumpFacts DEF BaseInv
<1>3. Typed' /\ Routed'
  BY <1>1, <1>2 DEF BaseInv, Typed, Routed, Event
<1>4. Owed' = 0 /\ Owed \in {0, 1} /\ seen.failures \in Nat /\ seen' = seen
  BY <1>1 DEF Owed, BaseInv, Typed
<1>5. seen.failures - stats.failures - Owed \in 0 .. stats.bans
  BY DEF BaseInv, Balanced
<1>6. seen.failures - stats'.failures - 0 \in 0 .. stats'.bans
  <2>1. CASE field = "failures"
    BY <1>2, <1>4, <1>5, <2>1
  <2>2. CASE field = "bans"
    BY <1>2, <1>4, <1>5, <2>2
  <2>3. CASE field \in {"successes", "roots"}
    BY <1>2, <1>4, <1>5, <2>3
  <2> QED
    BY <2>1, <2>2, <2>3
<1> QED
  BY <1>3, <1>4, <1>6 DEF BaseInv, Balanced

LEMMA BranchFacts ==
  \/ Event.type \in Failures /\ Branch = "record"
  \/ Event.type \notin Failures /\ Event.type = "AUTH_SUCCESS" /\ Branch = "success"
  \/ Event.type \notin Failures /\ Event.type = "ROOT_ATTEMPT" /\ Branch = "observe"
  \/ Event.type \notin Failures /\ Branch = "count"
  BY DEF Branch, Failures

LEMMA TakeLineBase == BaseInv /\ TakeLine => BaseInv'
<1> SUFFICES ASSUME BaseInv, TakeLine PROVE BaseInv'
  OBVIOUS
<1>1. PICK e \in Events : tail' = [at |-> "handle", event |-> e]
  BY DEF TakeLine
<1>2. /\ tail.at = "idle" /\ now' = now /\ stats' = stats
      /\ seen' = [seen EXCEPT !.lines = @ + 1,
                              !.failures = @ + (IF tail'.event.type \in Failures THEN 1 ELSE 0)]
  BY DEF TakeLine, At, KeepBF, bfVars
<1>3. tail' \in [at : Places, event : Lines]
  BY <1>1 DEF Places, Events, Lines
<1>3a. seen \in [lines : Nat, failures : Nat] /\ seen.lines \in Nat /\ seen.failures \in Nat
  BY DEF BaseInv, Typed
<1>4. /\ seen' \in [lines : Nat, failures : Nat]
      /\ seen'.failures = seen.failures + (IF tail'.event.type \in Failures THEN 1 ELSE 0)
  <2> DEFINE shown == seen.failures + (IF tail'.event.type \in Failures THEN 1 ELSE 0)
  <2>1. shown \in Nat
    BY <1>3a
  <2>2. seen' = [seen EXCEPT !.lines = seen.lines + 1, !.failures = shown]
    BY <1>2
  <2> HIDE DEF shown
  <2>3. seen' = [lines |-> seen.lines + 1, failures |-> shown]
    BY <1>3a, <2>2
  <2> QED
    BY <1>3a, <2>1, <2>3 DEF shown
<1>5. Owed = 0 /\ Owed' = IF tail'.event.type \in Failures THEN 1 ELSE 0
  BY <1>1, <1>2 DEF Owed, Event
<1>6. stats.failures \in Nat /\ stats.bans \in Nat
  BY DEF BaseInv, Typed
<1>7. Balanced'
  BY <1>2, <1>3a, <1>4, <1>5, <1>6 DEF BaseInv, Balanced
<1>8. Typed' /\ Routed'
  BY <1>1, <1>2, <1>3, <1>4 DEF BaseInv, Typed, Routed
<1> QED
  BY <1>7, <1>8 DEF BaseInv

\* Bans, trims and records leave the clock to Tick.
LEMMA ClockStands ==
  /\ \A ip : BF!Ban(ip) => now' = now
  /\ \A ip : BF!RecordFailure(ip) => now' = now
  /\ \A ip : BF!RecordSuccess(ip) => now' = now
  /\ \A ip : ReadScore(ip) => now' = now
  /\ \A ip, kind, user, flagged, offHours :
       Record(ip, kind, user, flagged, offHours) => now' = now /\ UNCHANGED threatReaper
  /\ KeepBF => now' = now
  BY DEF BF!Ban, BF!ImposeBan, BF!RecordFailure, BF!RecordSuccess, ReadScore, Record,
         KeepBF, bfVars

LEMMA TailStepBase == BaseInv /\ IsFiniteSet(sessions) /\ TailStep => BaseInv'
<1> SUFFICES ASSUME BaseInv, IsFiniteSet(sessions), TailStep PROVE BaseInv'
  OBVIOUS
<1>0. now \in 0 .. MaxTime
  BY DEF BaseInv, Typed
<1>1. CASE Handle
  <2>1. PICK place \in {"query", "flag", Branch} : GoTo(place)
    BY <1>1 DEF Handle
  <2>2. tail.at = "handle" /\ now' = now /\ UNCHANGED <<seen, stats>>
    BY <1>1, ClockStands DEF Handle, At
  <2>3. place \in Places
    BY BranchFacts DEF Places
  <2>4. tail'.at = place /\ tail'.event = tail.event
    BY <2>1, <2>3, GoToFacts DEF BaseInv
  <2>5. Owed' = Owed
    BY <2>2, <2>4, BranchFacts DEF Owed, Event
  <2> QED
    BY <1>0, <2>1, <2>2, <2>3, <2>5, BranchFacts, GoesOn
<1>2. CASE Lookup
  <2>1. PICK place \in {"flag", Branch} : GoTo(place)
    BY <1>2 DEF Lookup
  <2>2. tail.at = "query" /\ now' = now /\ UNCHANGED <<seen, stats>>
    BY <1>2, ClockStands DEF Lookup, At
  <2>3. place \in Places
    BY BranchFacts DEF Places
  <2>4. tail'.at = place /\ tail'.event = tail.event
    BY <2>1, <2>3, GoToFacts DEF BaseInv
  <2>5. Owed' = Owed
    BY <2>2, <2>4, BranchFacts DEF Owed, Event
  <2> QED
    BY <1>0, <2>1, <2>2, <2>3, <2>5, BranchFacts, GoesOn
<1>3. CASE Flag
  <2>1. tail.at = "flag" /\ now' = now /\ UNCHANGED <<seen, stats>> /\ GoTo("repBan")
    BY <1>3, ClockStands DEF Flag, At, KeepRest
  <2>2. tail'.at = "repBan" /\ tail'.event = tail.event
    BY <2>1, GoToFacts DEF BaseInv, Places
  <2> QED
    BY <1>0, <2>1, <2>2, GoesOn DEF Owed, Event, Places
<1>4. CASE RepBan \/ ThreatBan
  <2>1. now' = now /\ UNCHANGED seen /\ GoTo("forward") /\ Bump("bans")
    BY <1>4, ClockStands DEF RepBan, ThreatBan, ImposeBan, KeepRest
  <2> QED
    BY <1>0, <2>1, Counts
<1>5. CASE RecordFailure
  <2>1. tail.at = "record" /\ now' = now /\ UNCHANGED seen
    BY <1>5, ClockStands DEF RecordFailure, At, KeepRest
  <2>2. CASE GoTo("forward") /\ Bump("bans")
    BY <1>0, <2>1, <2>2, Counts
  <2>3. CASE GoTo("observe") /\ UNCHANGED stats
    <3>1. tail'.at = "observe" /\ tail'.event = tail.event
      BY <2>3, GoToFacts DEF BaseInv, Places
    <3>2. Event.type \in Failures
      BY <2>1 DEF BaseInv, Routed
    <3> QED
      BY <1>0, <2>1, <2>3, <3>1, <3>2, GoesOn DEF Owed, Event, Places
  <2> QED
    BY <1>5, <2>2, <2>3 DEF RecordFailure
<1>6. CASE Observe
  <2>1. /\ tail.at = "observe" /\ UNCHANGED seen
        /\ Event.type \in Failures \cup {"ROOT_ATTEMPT", "AUTH_SUCCESS"}
    BY <1>6 DEF Observe, At, KeepRest, BaseInv, Routed
  <2>2. CASE Event.type \in Failures
    <3>1. now' = now /\ Bump("failures") /\ (GoTo("judge") \/ GoTo("forward"))
      BY <1>6, <2>2, ClockStands DEF Observe, Failures
    <3>2. Owed = 1
      BY <2>1, <2>2 DEF Owed
    <3> QED
      BY <1>0, <2>1, <2>2, <3>1, <3>2, Counts
  <2>3. CASE Event.type = "ROOT_ATTEMPT"
    <3>1. now' = now /\ Bump("roots") /\ GoTo("count")
      BY <1>6, <2>3, ClockStands DEF Observe, Failures
    <3>2. Owed = 0
      BY <2>1, <2>3 DEF Owed, Failures
    <3> QED
      BY <1>0, <2>1, <3>1, <3>2, Counts
  <2>4. CASE Event.type = "AUTH_SUCCESS"
    <3>1. now' = now /\ Bump("successes") /\ (GoTo("count") \/ GoTo("forward"))
      BY <1>6, <2>4, ClockStands DEF Observe, Failures
    <3>2. Owed = 0
      BY <2>1, <2>4 DEF Owed, Failures
    <3> QED
      BY <1>0, <2>1, <3>1, <3>2, Counts
  <2> QED
    BY <2>1, <2>2, <2>3, <2>4
<1>7. CASE Judge
  <2>1. PICK place \in {"threatBan", "alert"} : GoTo(place)
    BY <1>7 DEF Judge
  <2>2. /\ tail.at = "judge" /\ now' = now /\ UNCHANGED <<seen, stats>>
        /\ Event.type \in Failures
    BY <1>7, ClockStands DEF Judge, At, BaseInv, Routed
  <2>3. tail'.at = place /\ tail'.event = tail.event
    BY <2>1, GoToFacts DEF BaseInv, Places
  <2> QED
    BY <1>0, <2>1, <2>2, <2>3, GoesOn DEF Owed, Event, Places
<1>8. CASE Alert
  <2>1. tail.at = "alert" /\ now' = now /\ UNCHANGED <<seen, stats>> /\ GoTo("count")
    BY <1>8, ClockStands DEF Alert, At, KeepRest
  <2>2. tail'.at = "count" /\ tail'.event = tail.event
    BY <2>1, GoToFacts DEF BaseInv, Places
  <2> QED
    BY <1>0, <2>1, <2>2, GoesOn DEF Owed, Event, Places
<1>9. CASE Success
  <2>1. /\ tail.at = "success" /\ now' = now /\ UNCHANGED <<seen, stats>> /\ GoTo("observe")
        /\ Event.type = "AUTH_SUCCESS"
    BY <1>9, ClockStands DEF Success, At, KeepRest, BaseInv, Routed
  <2>2. tail'.at = "observe" /\ tail'.event = tail.event
    BY <2>1, GoToFacts DEF BaseInv, Places
  <2>3. Owed' = Owed
    BY <2>1, <2>2 DEF Owed, Event, Failures
  <2> QED
    BY <1>0, <2>1, <2>2, <2>3, GoesOn DEF Places
<1>10. CASE CountSessions
  <2>1. tail.at = "count" /\ now' = now /\ UNCHANGED seen /\ GoTo("forward")
    BY <1>10, ClockStands DEF CountSessions, At, KeepRest
  <2>2. tail'.at = "forward" /\ tail'.event = tail.event /\ tail' \in [at : Places, event : Lines]
    BY <2>1, GoToFacts DEF BaseInv, Places
  <2>3. Cardinality(sessions) \in Nat
    BY FS_CardinalityType
  <2>4. /\ stats' \in [{"failures", "successes", "bans", "roots", "active", "peak"} -> Nat]
        /\ stats'.failures = stats.failures /\ stats'.bans = stats.bans
    <3>1. stats \in [{"failures", "successes", "bans", "roots", "active", "peak"} -> Nat]
      BY DEF BaseInv, Typed
    <3> DEFINE open == Cardinality(sessions)
               most == IF stats.peak < open THEN open ELSE stats.peak
    <3>2. most \in Nat /\ open \in Nat
      BY <2>3, <3>1
    <3>3. stats' = [stats EXCEPT !.active = open, !.peak = most]
      BY <1>10 DEF CountSessions
    <3> HIDE DEF open, most
    <3> QED
      BY <3>1, <3>2, <3>3
  <2>5. Typed' /\ Routed'
    BY <1>0, <2>1, <2>2, <2>4 DEF BaseInv, Typed, Routed
  <2>6. Balanced'
    BY <2>1, <2>2, <2>4 DEF BaseInv, Balanced, Owed, Event
  <2> QED
    BY <2>5, <2>6 DEF BaseInv
<1>11. CASE Forward
  <2>1. tail.at = "forward" /\ now' = now /\ UNCHANGED <<seen, stats>> /\ GoTo("sessions")
    BY <1>11, ClockStands DEF Forward, At, KeepRest
  <2>2. tail'.at = "sessions" /\ tail'.event = tail.event
    BY <2>1, GoToFacts DEF BaseInv, Places
  <2> QED
    BY <1>0, <2>1, <2>2, GoesOn DEF Owed, Event, Places
<1>12. CASE TrackSession
  <2>1. tail.at = "sessions" /\ now' = now /\ UNCHANGED <<seen, stats>> /\ GoTo("idle")
    BY <1>12, ClockStands DEF TrackSession, At
  <2>2. tail'.at = "idle" /\ tail'.event = tail.event
    BY <2>1, GoToFacts DEF BaseInv, Places
  <2> QED
    BY <1>0, <2>1, <2>2, GoesOn DEF Owed, Event, Places
<1> QED
  BY <1>1, <1>2, <1>3, <1>4, <1>5, <1>6, <1>7, <1>8, <1>9, <1>10, <1>11, <1>12 DEF TailStep

\* The open sessions are sessions, and finitely many.
SessionsInv == sessions \subseteq IPs \X Ports /\ IsFiniteSet(sessions)

LEMMA SessionsStep == BaseInv /\ SessionsInv /\ [Next]_vars => SessionsInv'
<1> SUFFICES ASSUME BaseInv, SessionsInv, [Next]_vars PROVE SessionsInv'
  OBVIOUS
<1>1. CASE sessions' = sessions
  BY <1>1 DEF SessionsInv
<1>2. CASE TrackSession
  <2> DEFINE id == <<Event.ip, Event.port>>
  <2>1. id \in IPs \X Ports
    BY DEF BaseInv, Typed, Event, Lines
  <2>2. /\ IsFiniteSet(sessions \cup {id})
        /\ IsFiniteSet(sessions \ {id})
    BY FS_AddElement, FS_RemoveElement DEF SessionsInv
  <2>3. sessions' = Tracked(sessions, Event.type, id)
    BY <1>2 DEF TrackSession
  <2> HIDE DEF id
  <2>4. sessions' \in {sessions, sessions \cup {id}, sessions \ {id}}
    BY <2>3 DEF Tracked
  <2> QED
    BY <2>1, <2>2, <2>4 DEF SessionsInv
<1> QED
  BY <1>1, <1>2 DEF Next, TakeLine, TailStep, Handle, Lookup, Flag, RepBan, RecordFailure, Observe, Judge,
     ThreatBan, ImposeBan, Alert, Success, CountSessions, Forward, KeepRest, BanReaper, ThreatReaper, Tick,
     TailVars, vars

LEMMA NextBase == BaseInv /\ SessionsInv /\ [Next]_vars => BaseInv'
<1> SUFFICES ASSUME BaseInv, SessionsInv, [Next]_vars PROVE BaseInv'
  OBVIOUS
<1>1. CASE UNCHANGED <<tail, stats, seen>> /\ now' \in 0 .. MaxTime
  BY <1>1 DEF BaseInv, Typed, Routed, Balanced, Owed, Event
<1>2. CASE Tick
  <2>1. UNCHANGED <<tail, stats, seen>> /\ now < MaxTime /\ now' = now + 1
    BY <1>2 DEF Tick, TailVars, BF!Tick
  <2> QED
    BY <1>1, <2>1, ConstantTypes DEF BaseInv, Typed
<1>3. CASE BanReaper \/ ThreatReaper
  <2>1. UNCHANGED <<tail, stats, seen>> /\ now' = now
    BY <1>3 DEF BanReaper, ThreatReaper, TailVars, BF!ReaperWake, BF!ReaperSweep, ReaperWake, ReaperSweep
  <2> QED
    BY <1>1, <2>1 DEF BaseInv, Typed
<1>4. CASE UNCHANGED vars
  BY <1>1, <1>4 DEF vars, bfVars, BaseInv, Typed
<1> QED
  BY <1>2, <1>3, <1>4, TakeLineBase, TailStepBase DEF Next, SessionsInv

LEMMA Invariance == Spec => [](BaseInv /\ SessionsInv)
<1>1. Init => SessionsInv
  BY FS_EmptySet DEF Init, SessionsInv
<1> QED
  BY <1>1, InitBase, NextBase, SessionsStep, PTL DEF Spec

\* Between events, a failure the log showed and the statistics lost is made up
\* for by a ban that they counted: what the exception in on_ban costs is never
\* more than that, whichever threads ran in between.
THEOREM FailuresAccounted == Spec => []LostFailuresAreBans
<1>1. BaseInv => LostFailuresAreBans
  <2> SUFFICES ASSUME BaseInv, At("idle") PROVE seen.failures - stats.failures \in 0 .. stats.bans
    BY DEF LostFailuresAreBans
  <2>1. Owed = 0
    BY DEF Owed, At
  <2>2. seen.failures - stats.failures - Owed \in 0 .. stats.bans
    BY DEF BaseInv, Balanced
  <2>3. seen.failures \in Nat /\ stats.failures \in Nat
    BY DEF BaseInv, Typed
  <2> QED
    BY <2>1, <2>2, <2>3
<1> QED
  BY <1>1, Invariance, PTL

-----------------------------------------------------------------------------
(* What the reputation service is asked.                                   *)

Verdict == [known : BOOLEAN, bad : BOOLEAN, at : Nat]

\* A request is answered by a verdict no older than it, or still to be answered.
Answered(ip, i) ==
  \/ verdicts[ip].known /\ asked[ip][i] <= verdicts[ip].at
  \/ tail.at = "query" /\ Event.ip = ip

QuotaInv ==
  /\ verdicts \in [IPs -> Verdict]
  /\ asked \in [IPs -> Seq(Nat)]
  /\ \A ip \in IPs : \A i \in DOMAIN asked[ip] : asked[ip][i] <= now /\ Answered(ip, i)
  /\ QuotaKept

LEMMA AskedFacts ==
  ASSUME QuotaInv, NEW ip \in IPs
  PROVE  /\ asked[ip] \in Seq(Nat) /\ Len(asked[ip]) \in Nat
         /\ DOMAIN asked[ip] = 1 .. Len(asked[ip])
         /\ \A i \in DOMAIN asked[ip] : asked[ip][i] \in Nat
         /\ verdicts[ip] \in Verdict /\ verdicts[ip].at \in Nat
<1>1. asked[ip] \in Seq(Nat) /\ verdicts[ip] \in Verdict
  BY DEF QuotaInv
<1> QED
  BY <1>1, LenProperties, ElementOfSeq DEF Verdict

\* Nothing but Handle and Lookup touches the cache, and the clock never goes back.
LEMMA CacheStands ==
  ASSUME BaseInv, [Next]_vars, ~ Handle, ~ Lookup
  PROVE  /\ UNCHANGED <<verdicts, asked>> /\ now <= now' /\ now' \in Nat
         /\ tail.at = "query" => (tail'.at = "query" /\ Event' = Event)
<1>0. now \in Nat
  BY ConstantTypes DEF BaseInv, Typed
<1>1. CASE TakeLine \/ TailStep
  <2>1. UNCHANGED <<verdicts, asked>>
    BY <1>1 DEF TakeLine, TailStep, Flag, RepBan, RecordFailure, Observe, Judge, ThreatBan, ImposeBan, Alert,
       Success, CountSessions, Forward, TrackSession, KeepRest, KeepRep, repVars
  <2>2. now' = now
    <3>1. CASE Observe
      <4>1. Event.type \in Failures \cup {"ROOT_ATTEMPT", "AUTH_SUCCESS"}
        BY <3>1 DEF Observe, At, BaseInv, Routed
      <4> QED
        BY <3>1, <4>1, ClockStands DEF Observe, Failures
    <3>2. CASE ~ Observe
      BY <1>1, <3>2, ClockStands DEF TakeLine, TailStep, Flag, RepBan, RecordFailure, Judge, ThreatBan,
         ImposeBan, Alert, Success, CountSessions, Forward, TrackSession
    <3> QED
      BY <3>1, <3>2
  <2>3. tail.at # "query"
    BY <1>1 DEF TakeLine, TailStep, Flag, RepBan, RecordFailure, Observe, Judge, ThreatBan, Alert, Success,
       CountSessions, Forward, TrackSession, At
  <2> QED
    BY <1>0, <2>1, <2>2, <2>3
<1>2. CASE BanReaper \/ ThreatReaper \/ Tick \/ UNCHANGED vars
  <2>1. UNCHANGED <<verdicts, asked, tail>>
    BY <1>2 DEF BanReaper, ThreatReaper, Tick, TailVars, repVars, vars
  <2>2. now' \in {now, now + 1}
    BY <1>2 DEF BanReaper, ThreatReaper, Tick, vars, bfVars, BF!ReaperWake, BF!ReaperSweep,
       ReaperWake, ReaperSweep, BF!Tick
  <2> QED
    BY <1>0, <2>1, <2>2 DEF Event
<1> QED
  BY <1>1, <1>2 DEF Next

LEMMA QuotaStep == BaseInv /\ QuotaInv /\ [Next]_vars => QuotaInv'
<1> SUFFICES ASSUME BaseInv, QuotaInv, [Next]_vars PROVE QuotaInv'
  OBVIOUS
<1>0. now \in Nat /\ RepTTL \in Nat /\ Event.ip \in IPs
  BY ConstantTypes, EventFacts DEF BaseInv, Typed
<1>1. CASE ~ Handle /\ ~ Lookup
  <2>1. /\ UNCHANGED <<verdicts, asked>> /\ now <= now' /\ now' \in Nat
        /\ tail.at = "query" => (tail'.at = "query" /\ Event' = Event)
    BY <1>1, CacheStands
  <2>2. ASSUME NEW ip \in IPs, NEW i \in DOMAIN asked[ip]
        PROVE  asked[ip][i] <= now' /\ Answered(ip, i)'
    <3>1. asked[ip][i] <= now /\ Answered(ip, i) /\ asked[ip][i] \in Nat
      BY AskedFacts DEF QuotaInv
    <3> QED
      BY <1>0, <2>1, <3>1 DEF Answered
  <2>3. QuotaKept'
    BY <2>1 DEF QuotaInv, QuotaKept, Rep!QuotaKept
  <2> QED
    BY <2>1, <2>2, <2>3 DEF QuotaInv
<1>2. CASE Handle /\ Checked /\ Rep!Unknown(Event.ip)
  <2> DEFINE who == Event.ip
             older == asked[who]
             newer == Append(older, now)
  <2>0. who \in IPs
    BY <1>0
  <2>1. /\ asked' = [asked EXCEPT ![who] = newer] /\ UNCHANGED verdicts
        /\ tail.at = "handle" /\ GoTo("query") /\ now' = now
    BY <1>2, ClockStands DEF Handle, Rep!Ask, At
  <2>2. tail'.at = "query" /\ Event' = Event
    BY <2>1, GoToFacts DEF BaseInv, Places, Event
  <2>3. /\ older \in Seq(Nat) /\ Len(older) \in Nat /\ DOMAIN older = 1 .. Len(older)
        /\ \A i \in DOMAIN older : older[i] \in Nat
        /\ verdicts[who].at \in Nat
    BY <1>0, AskedFacts
  <2>4. \A i \in DOMAIN older : older[i] <= now /\ older[i] + RepTTL <= now
    <3>1. ~ (verdicts[who].known /\ now - verdicts[who].at < RepTTL)
      BY <1>2 DEF Rep!Unknown, Rep!Fresh
    <3>2. \A i \in DOMAIN older : older[i] <= now /\ verdicts[who].known /\ older[i] <= verdicts[who].at
      BY <1>0, <2>1 DEF QuotaInv, Answered
    <3> HIDE DEF who, older
    <3> QED
      BY <1>0, <2>3, <3>1, <3>2
  <2>5. /\ newer \in Seq(Nat) /\ DOMAIN newer = 1 .. Len(older) + 1
        /\ newer[Len(older) + 1] = now
        /\ \A i \in DOMAIN older : newer[i] = older[i]
    <3> HIDE DEF older
    <3> QED
      BY <1>0, <2>3, AppendProperties
  <2>6. /\ asked' \in [IPs -> Seq(Nat)]
        /\ asked'[who] = newer
        /\ \A ip \in IPs \ {who} : asked'[ip] = asked[ip]
    <3> HIDE DEF newer, who
    <3> QED
      BY <2>0, <2>1, <2>5 DEF QuotaInv
  <2> HIDE DEF newer, older
  <2>7. ASSUME NEW i \in DOMAIN newer
        PROVE  newer[i] <= now
    BY <1>0, <2>3, <2>4, <2>5
  <2>8. ASSUME NEW i \in DOMAIN newer, NEW j \in DOMAIN newer, i < j
        PROVE  newer[j] >= newer[i] + RepTTL
    <3>1. CASE j = Len(older) + 1
      BY <1>0, <2>3, <2>4, <2>5, <2>8, <3>1
    <3>2. CASE j \in DOMAIN older
      <4>1. i \in DOMAIN older
        BY <2>3, <2>5, <2>8, <3>2
      <4>2. older[j] >= older[i] + RepTTL
        BY <1>0, <2>8, <3>2, <4>1 DEF QuotaInv, QuotaKept, Rep!QuotaKept, older
      <4> QED
        BY <2>5, <3>2, <4>1, <4>2
    <3> QED
      BY <2>3, <2>5, <3>1, <3>2
  <2>9. ASSUME NEW ip \in IPs, NEW i \in DOMAIN asked'[ip]
        PROVE  asked'[ip][i] <= now' /\ Answered(ip, i)'
    <3>1. CASE ip = who
      BY <2>1, <2>2, <2>6, <2>7, <3>1 DEF Answered
    <3>2. CASE ip # who
      <4>1. asked[ip][i] <= now /\ Answered(ip, i) /\ asked'[ip] = asked[ip]
        BY <2>6, <2>9, <3>2 DEF QuotaInv
      <4> QED
        BY <2>1, <3>2, <4>1 DEF Answered
    <3> QED
      BY <3>1, <3>2
  <2>10. QuotaKept'
    <3>1. SUFFICES ASSUME NEW ip \in IPs, NEW i \in DOMAIN asked'[ip], NEW j \in DOMAIN asked'[ip], i < j
                   PROVE  asked'[ip][j] >= asked'[ip][i] + RepTTL
      BY DEF QuotaKept, Rep!QuotaKept
    <3>2. CASE ip = who
      BY <2>6, <2>8, <3>1, <3>2
    <3>3. CASE ip # who
      BY <2>6, <3>1, <3>3 DEF QuotaInv, QuotaKept, Rep!QuotaKept
    <3> QED
      BY <3>2, <3>3
  <2> QED
    BY <2>1, <2>6, <2>9, <2>10 DEF QuotaInv
<1>3. CASE Handle /\ ~ (Checked /\ Rep!Unknown(Event.ip))
  <2>1. UNCHANGED <<verdicts, asked>> /\ now' = now /\ tail.at = "handle"
    BY <1>3, ClockStands DEF Handle, At, KeepRep, repVars
  <2>2. \A ip \in IPs : \A i \in DOMAIN asked[ip] : asked[ip][i] <= now' /\ Answered(ip, i)'
    BY <2>1 DEF QuotaInv, Answered
  <2>3. QuotaKept'
    BY <2>1 DEF QuotaInv, QuotaKept, Rep!QuotaKept
  <2> QED
    BY <2>1, <2>2, <2>3 DEF QuotaInv
<1>4. CASE Lookup
  <2> DEFINE who == Event.ip
  <2>1. PICK bad \in BOOLEAN : verdicts' = [verdicts EXCEPT ![who] = [known |-> TRUE, bad |-> bad, at |-> now]]
    BY <1>4 DEF Lookup, Rep!Answer
  <2>2. asked' = asked /\ now' = now /\ tail.at = "query"
    BY <1>4, ClockStands DEF Lookup, Rep!Answer, At
  <2> HIDE DEF who
  <2>3. /\ verdicts' \in [IPs -> Verdict]
        /\ \A ip \in IPs : verdicts'[ip] = IF ip = who THEN [known |-> TRUE, bad |-> bad, at |-> now]
                                           ELSE verdicts[ip]
    BY <1>0, <2>1 DEF QuotaInv, Verdict
  <2>4. ASSUME NEW ip \in IPs, NEW i \in DOMAIN asked[ip]
        PROVE  asked[ip][i] <= now' /\ Answered(ip, i)'
    <3>1. asked[ip][i] <= now /\ Answered(ip, i)
      BY DEF QuotaInv
    <3>2. CASE ip = who
      BY <2>2, <2>3, <3>1, <3>2 DEF Answered
    <3>3. CASE ip # who
      BY <2>2, <2>3, <3>1, <3>3 DEF Answered, who
    <3> QED
      BY <3>2, <3>3
  <2>5. QuotaKept'
    BY <2>2 DEF QuotaInv, QuotaKept, Rep!QuotaKept
  <2> QED
    BY <2>2, <2>3, <2>4, <2>5 DEF QuotaInv
<1> QED
  BY <1>1, <1>2, <1>3, <1>4

\* The reputation service is asked about an address once within the validity of a
\* verdict, though the verdict is looked up and kept in two steps, and the clock
\* and the reapers move in between.
THEOREM AskedOncePerVerdict == Spec => []QuotaKept
<1>1. Init => QuotaInv
  <2> SUFFICES ASSUME Init PROVE QuotaInv
    OBVIOUS
  <2>1. verdicts = [ip \in IPs |-> Rep!NoVerdict] /\ asked = [ip \in IPs |-> <<>>]
    BY DEF Init, Rep!Init
  <2>2. \A ip \in IPs : asked[ip] = <<>> /\ DOMAIN asked[ip] = {}
    BY <2>1
  <2>3. verdicts \in [IPs -> Verdict] /\ asked \in [IPs -> Seq(Nat)]
    BY <2>1 DEF Rep!NoVerdict, Verdict
  <2> QED
    BY <2>2, <2>3 DEF QuotaInv, QuotaKept, Rep!QuotaKept
<1>2. QuotaInv => QuotaKept
  BY DEF QuotaInv
<1> QED
  BY <1>1, <1>2, QuotaStep, Invariance, PTL DEF Spec

-----------------------------------------------------------------------------
(* The daemon as a user of its helpers.                                    *)

\* Whatever a thread does, the protector sees one of its operations or nothing.
LEMMA ProtectorStep == BaseInv /\ [Next]_vars => [BF!Next]_(BF!vars)
<1> SUFFICES ASSUME BaseInv, [Next]_vars PROVE [BF!Next]_(BF!vars)
  OBVIOUS
<1>1. now <= MaxTime /\ Event.ip \in IPs
  BY EventFacts, ConstantTypes DEF BaseInv, Typed
<1>2. CASE UNCHANGED BF!vars
  BY <1>2
<1>3. CASE BF!Ban(Event.ip) \/ BF!RecordFailure(Event.ip) \/ BF!RecordSuccess(Event.ip)
  <2>1. BF!Event
    BY <1>1, <1>3 DEF BF!Event
  <2> QED
    BY <2>1 DEF BF!Next
<1>4. CASE BanReaper \/ Tick
  BY <1>4 DEF BanReaper, Tick, BF!Next
<1>5. CASE ThreatReaper
  <2>1. now' = now /\ UNCHANGED <<attempts, bans, reaper, blocked>>
    BY <1>5 DEF ThreatReaper, ReaperWake, ReaperSweep
  <2> QED
    BY <1>2, <2>1 DEF BF!vars
<1>6. CASE TakeLine \/ Handle \/ Lookup \/ Alert \/ CountSessions \/ Forward \/ TrackSession \/ UNCHANGED vars
  <2>1. UNCHANGED bfVars
    BY <1>6 DEF TakeLine, Handle, Lookup, Alert, CountSessions, Forward, TrackSession, KeepBF, vars
  <2> QED
    BY <1>2, <2>1 DEF bfVars, BF!vars
<1>7. CASE RepBan \/ ThreatBan \/ Success
  BY <1>3, <1>7 DEF RepBan, ThreatBan, ImposeBan, Success
<1>8. CASE RecordFailure
  BY <1>2, <1>3, <1>8 DEF RecordFailure, KeepBF, bfVars, BF!vars
<1>9. CASE Flag \/ Observe \/ Judge
  <2>1. UNCHANGED <<attempts, bans, reaper, blocked>>
    BY <1>9 DEF Flag, Observe, Judge
  <2>2. now' = now
    <3>1. CASE Observe
      <4>1. Event.type \in Failures \cup {"ROOT_ATTEMPT", "AUTH_SUCCESS"}
        BY <3>1 DEF Observe, At, BaseInv, Routed
      <4> QED
        BY <3>1, <4>1, ClockStands DEF Observe, Failures
    <3>2. CASE Flag \/ Judge
      BY <3>2, ClockStands DEF Flag, Judge
    <3> QED
      BY <1>9, <3>1, <3>2
  <2> QED
    BY <1>2, <2>1, <2>2 DEF BF!vars
<1> QED
  BY <1>4, <1>5, <1>6, <1>7, <1>8, <1>9 DEF Next, TailStep

\* And the scorer one of its own: a failure, a flagged failure, a root attempt or
\* a success is recorded, a profile is rated, or nothing happens to it.
LEMMA ScorerStep == BaseInv /\ [Next]_vars => [NextScorer]_scorerVars
<1> SUFFICES ASSUME BaseInv, [Next]_vars PROVE [NextScorer]_scorerVars
  OBVIOUS
<1>1. /\ now <= LastRecord /\ Event.ip \in IPs /\ Event.user \in Users
      /\ Event.offHours \in BOOLEAN
  BY EventFacts, ConstantTypes DEF BaseInv, Typed
<1>2. CASE UNCHANGED scorerVars
  BY <1>2
<1>3. CASE Recorded(Event.ip) \/ ReadScore(Event.ip)
  BY <1>1, <1>3 DEF NextScorer
<1>4. ASSUME NEW kind \in {"failure", "invalid", "success"},
             Record(Event.ip, kind, Event.user, FALSE, Event.offHours)
      PROVE  Recorded(Event.ip)
  BY <1>1, <1>4 DEF Recorded, Kinds
<1>5. CASE ThreatReaper
  BY <1>5 DEF ThreatReaper, NextScorer
<1>6. CASE Tick
  <2>1. TickScorer
    BY <1>6 DEF Tick, KeepTS, tsVars, BF!Tick, TickScorer
  <2> QED
    BY <2>1 DEF NextScorer
<1>7. CASE \/ TakeLine \/ Handle \/ Lookup \/ Alert \/ CountSessions \/ Forward \/ TrackSession
          \/ RepBan \/ ThreatBan \/ Success \/ RecordFailure \/ BanReaper \/ UNCHANGED vars
  <2>1. UNCHANGED tsVars
    BY <1>7 DEF TakeLine, Handle, Lookup, Alert, CountSessions, Forward, TrackSession, RepBan, ThreatBan,
       ImposeBan, Success, RecordFailure, BanReaper, KeepTS, vars
  <2>2. now' = now
    BY <1>7, ClockStands DEF TakeLine, Handle, Lookup, Alert, CountSessions, Forward, TrackSession, RepBan,
       ThreatBan, ImposeBan, Success, RecordFailure, BanReaper, BF!ReaperWake, BF!ReaperSweep, vars, bfVars
  <2> QED
    BY <1>2, <2>1, <2>2 DEF tsVars, scorerVars
<1>8. CASE Flag
  <2>1. Record(Event.ip, "failure", Event.user, TRUE, Event.offHours)
    BY <1>8 DEF Flag
  <2>2. Recorded(Event.ip)
    BY <1>1, <2>1 DEF Recorded, Kinds
  <2> QED
    BY <1>3, <2>2
<1>9. CASE Judge
  <2>1. ReadScore(Event.ip) \/ UNCHANGED <<now, profiles, threatReaper>>
    BY <1>9 DEF Judge
  <2> QED
    BY <1>2, <1>3, <2>1 DEF scorerVars
<1>10. CASE Observe
  <2>1. Event.type \in Failures \cup {"ROOT_ATTEMPT", "AUTH_SUCCESS"}
    BY <1>10 DEF Observe, At, BaseInv, Routed
  <2>2. CASE Event.type = "ROOT_ATTEMPT"
    <3>1. Record(Event.ip, "root", "root", FALSE, Event.offHours)
      BY <1>10, <2>2 DEF Observe, Failures
    <3>2. Recorded(Event.ip)
      BY <1>1, <3>1, ConstantTypes DEF Recorded, Kinds
    <3> QED
      BY <1>3, <3>2
  <2>3. CASE Event.type # "ROOT_ATTEMPT"
    <3>1. PICK kind \in {"failure", "invalid", "success"} :
            Record(Event.ip, kind, Event.user, FALSE, Event.offHours)
      BY <1>10, <2>1, <2>3 DEF Observe, Failures
    <3> QED
      BY <1>3, <1>4, <3>1
  <2> QED
    BY <2>2, <2>3
<1> QED
  BY <1>5, <1>6, <1>7, <1>8, <1>9, <1>10 DEF Next, TailStep

\* So what is proved of the two by themselves can be used of the daemon.
LEMMA HelpersInside == Spec => BF!Spec /\ ScorerSpec
<1>1. Init => BF!Init /\ InitScorer
  BY DEF Init
<1>2. Spec => BF!Spec
  BY <1>1, ProtectorStep, Invariance, PTL DEF Spec, BF!Spec
<1>3. Spec => ScorerSpec
  BY <1>1, ScorerStep, Invariance, PTL DEF Spec, ScorerSpec
<1> QED
  BY <1>2, <1>3

-----------------------------------------------------------------------------
(* The scorer by itself: whatever the daemon, or anyone else, records with *)
(* it, for every window, every weighting and every number of addresses,    *)
(* usernames and events.                                                   *)

LEMMA ScorerConstants ==
  ThreatWindow \in Nat /\ BanThreshold \in Nat /\ MaxTime \in Nat /\ Asleep = -1
  BY ThreatScorerAssumption DEF ThreatScorerAssumption, Asleep

Observation == [at : 0 .. MaxTime, kind : Kinds]

-----------------------------------------------------------------------------
(* What _evict_old keeps, and counts.                                      *)

LEMMA CountDefined ==
  \A events, kinds :
    Count(events, kinds) = Cardinality({i \in DOMAIN events : events[i].kind \in kinds})
  BY DEF Count

First(events, at) == FirstKept(Times(events), at - ThreatWindow)
Kept(events, at) == SubSeq(events, First(events, at), Len(events))

\* The events kept are the suffix that begins at the first one inside the window.
LEMMA KeptFacts ==
  ASSUME NEW events \in Seq(Observation), NEW at \in Nat
  PROVE  /\ First(events, at) \in 1 .. Len(events) + 1
         /\ \A i \in 1 .. First(events, at) - 1 : events[i].at < at - ThreatWindow
         /\ First(events, at) <= Len(events) => events[First(events, at)].at >= at - ThreatWindow
         /\ Kept(events, at) \in Seq(Observation)
         /\ Len(Kept(events, at)) = Len(events) + 1 - First(events, at)
         /\ \A i \in 1 .. Len(Kept(events, at)) :
              Kept(events, at)[i] = events[i + First(events, at) - 1]
         /\ First(events, at) = 1 => Kept(events, at) = events
<1> DEFINE dq == Times(events)
           k == First(events, at)
<1>1. Len(events) \in Nat /\ DOMAIN events = 1 .. Len(events)
      /\ \A i \in 1 .. Len(events) : events[i] \in Observation
  BY LenProperties, ElementOfSeq
<1>2. \A i \in 1 .. Len(events) : events[i].at \in Nat
  BY <1>1, ScorerConstants DEF Observation
<1>3. dq \in [1 .. Len(events) -> Nat]
  BY <1>1, <1>2 DEF Times
<1>4. dq \in Seq(Nat) /\ Len(dq) = Len(events) /\ \A i \in 1 .. Len(events) : dq[i] = events[i].at
  <2>1. dq \in Seq(Nat)
    BY <1>1, <1>3, SeqDef
  <2>2. Len(dq) = Len(events)
    BY <1>1, <1>3, <2>1, LenProperties
  <2>3. \A i \in 1 .. Len(events) : dq[i] = events[i].at
    BY <1>1 DEF Times
  <2> HIDE DEF dq
  <2> QED
    BY <2>1, <2>2, <2>3
<1>5. at - ThreatWindow \in Int
  BY ScorerConstants
<1> HIDE DEF dq
<1>6. /\ k \in 1 .. Len(dq) + 1
      /\ \A i \in 1 .. k - 1 : dq[i] < at - ThreatWindow
      /\ k <= Len(dq) => dq[k] >= at - ThreatWindow
  BY <1>4, <1>5, FirstKeptDefined DEF First, dq
<1> HIDE DEF k
<1>7. /\ k \in 1 .. Len(events) + 1
      /\ \A i \in 1 .. k - 1 : events[i].at < at - ThreatWindow
      /\ k <= Len(events) => events[k].at >= at - ThreatWindow
  BY <1>1, <1>4, <1>6
<1>8. /\ SubSeq(events, k, Len(events)) \in Seq(Observation)
      /\ Len(SubSeq(events, k, Len(events))) = Len(events) + 1 - k
      /\ \A i \in 1 .. Len(SubSeq(events, k, Len(events))) :
           SubSeq(events, k, Len(events))[i] = events[i + k - 1]
  BY <1>1, <1>7
<1>9. k = 1 => SubSeq(events, k, Len(events)) = events
  BY <1>1, <1>8, SeqEqual
<1> QED
  BY <1>7, <1>8, <1>9 DEF Kept, k

\* Later, no more is kept.
LEMMA FirstMonotone ==
  ASSUME NEW events \in Seq(Observation), NEW early \in Nat, NEW late \in Nat, early <= late
  PROVE  First(events, early) <= First(events, late)
<1> DEFINE k == First(events, early)
           m == First(events, late)
<1>1. /\ k \in 1 .. Len(events) + 1 /\ m \in 1 .. Len(events) + 1
      /\ \A i \in 1 .. k - 1 : events[i].at < early - ThreatWindow
      /\ m <= Len(events) => events[m].at >= late - ThreatWindow
  BY KeptFacts
<1>2. \A i \in 1 .. Len(events) : events[i].at \in Nat
  <2>1. \A i \in 1 .. Len(events) : events[i] \in Observation
    BY ElementOfSeq
  <2> QED
    BY <2>1, ScorerConstants DEF Observation
<1> HIDE DEF k, m
<1>3. ASSUME m < k PROVE FALSE
  <2>1. m \in 1 .. k - 1 /\ m <= Len(events) /\ m \in 1 .. Len(events)
    BY <1>1, <1>3
  <2>2. events[m].at < early - ThreatWindow /\ events[m].at >= late - ThreatWindow /\ events[m].at \in Nat
    BY <1>1, <1>2, <2>1
  <2> QED
    BY <2>2, ScorerConstants
<1> QED
  BY <1>1, <1>3 DEF k, m

\* The events _evict_old counts are finitely many.
LEMMA CountType ==
  ASSUME NEW events \in Seq(Observation), NEW kinds
  PROVE  /\ IsFiniteSet({i \in DOMAIN events : events[i].kind \in kinds})
         /\ Count(events, kinds) \in Nat
<1> DEFINE counted == {i \in DOMAIN events : events[i].kind \in kinds}
<1>1. Len(events) \in Nat /\ DOMAIN events = 1 .. Len(events)
  BY LenProperties
<1>2. counted \in SUBSET (1 .. Len(events))
  BY <1>1
<1>3. IsFiniteSet(1 .. Len(events))
  BY <1>1, FS_Interval
<1> HIDE DEF counted
<1>4. IsFiniteSet(counted)
  BY <1>2, <1>3, FS_Subset
<1> QED
  BY <1>4, CountDefined, FS_CardinalityType DEF counted

\* What record adds one by one is what _evict_old would count.
LEMMA CountAppend ==
  ASSUME NEW events \in Seq(Observation), NEW e \in Observation, NEW kinds
  PROVE  Count(Append(events, e), kinds) = Count(events, kinds) + If(e.kind \in kinds, 1)
<1> DEFINE longer == Append(events, e)
           before == {i \in DOMAIN events : events[i].kind \in kinds}
           after  == {i \in DOMAIN longer : longer[i].kind \in kinds}
           last   == Len(events) + 1
<1>1. /\ Len(events) \in Nat /\ DOMAIN events = 1 .. Len(events) /\ DOMAIN longer = 1 .. last
      /\ longer[last] = e /\ \A i \in 1 .. Len(events) : longer[i] = events[i]
  BY AppendProperties, LenProperties
<1> HIDE DEF longer
<1>2. last \notin before
  BY <1>1
<1>3. after = IF e.kind \in kinds THEN before \cup {last} ELSE before
  BY <1>1
<1>4. IsFiniteSet(before)
  BY CountType
<1> HIDE DEF before, after, last
<1>5. Cardinality(after) = Cardinality(before) + If(e.kind \in kinds, 1)
  <2>1. Cardinality(before) \in Nat
    BY <1>4, FS_CardinalityType
  <2>2. CASE e.kind \in kinds
    BY <1>2, <1>3, <1>4, <2>2, FS_AddElement DEF If
  <2>3. CASE e.kind \notin kinds
    BY <1>3, <2>1, <2>3 DEF If
  <2> QED
    BY <2>2, <2>3
<1> QED
  BY <1>5, CountDefined DEF longer, before, after

\* A suffix holds no more of any kind.
LEMMA CountSuffix ==
  ASSUME NEW events \in Seq(Observation), NEW suffix \in Seq(Observation), NEW d \in Nat, NEW kinds,
         Len(suffix) = Len(events) - d,
         \A i \in 1 .. Len(suffix) : suffix[i] = events[i + d]
  PROVE  Count(suffix, kinds) <= Count(events, kinds)
<1> DEFINE here  == {i \in DOMAIN suffix : suffix[i].kind \in kinds}
           there == {i \in DOMAIN events : events[i].kind \in kinds}
           shift == [i \in here |-> i + d]
<1>1. /\ Len(events) \in Nat /\ DOMAIN events = 1 .. Len(events)
      /\ Len(suffix) \in Nat /\ DOMAIN suffix = 1 .. Len(suffix)
  BY LenProperties
<1>2. here \subseteq Nat /\ \A i \in here : i + d \in there
  BY <1>1
<1> HIDE DEF here, there
<1>3. shift \in [here -> there]
  BY <1>2
<1>4. \A i, j \in here : shift[i] = shift[j] => i = j
  BY <1>2
<1>5. shift \in Injection(here, there)
  BY <1>3, <1>4, Fun_IsInj
<1>6. IsFiniteSet(there)
  BY CountType DEF there
<1>7. Cardinality(here) <= Cardinality(there)
  BY <1>5, <1>6, FS_Injection
<1> QED
  BY <1>7, CountDefined DEF here, there

-----------------------------------------------------------------------------
(* One profile.                                                            *)

\* The counters are those of the events it holds; nothing else outlives these.
Matches(p) ==
  /\ p.failures = Count(p.events, {"failure", "invalid", "root"})
  /\ p.invalid = Count(p.events, {"invalid"})
  /\ p.root = Count(p.events, {"root"})
  /\ p.events = <<>> => p.usernames = {} /\ ~p.offHours

\* Besides, no event is later than lastSeen, which is what the reaper looks at.
Proper(p) ==
  /\ p \in Profile /\ Matches(p)
  /\ IsFiniteSet(p.usernames)
  /\ \A i \in DOMAIN p.events : p.events[i].at <= p.lastSeen

LEMMA ProfileFacts ==
  ASSUME NEW p \in Profile
  PROVE  /\ p.events \in Seq(Observation) /\ Len(p.events) \in Nat
         /\ DOMAIN p.events = 1 .. Len(p.events)
         /\ \A i \in DOMAIN p.events : p.events[i] \in Observation /\ p.events[i].at \in Nat
         /\ p.failures \in Nat /\ p.invalid \in Nat /\ p.root \in Nat /\ p.lastSeen \in Nat
<1>1. p.events \in Seq(Observation)
  BY DEF Profile, Observation
<1>2. /\ Len(p.events) \in Nat /\ DOMAIN p.events = 1 .. Len(p.events)
      /\ \A i \in DOMAIN p.events : p.events[i] \in Observation
  BY <1>1, LenProperties, ElementOfSeq
<1> QED
  BY <1>1, <1>2, ScorerConstants DEF Profile, Observation

LEMMA NoProfileProper == Proper(NoProfile)
<1>1. <<>> \in Seq(Observation) /\ DOMAIN <<>> = {} /\ NoProfile.events = <<>>
  BY EmptySeq DEF NoProfile
<1>2. NoProfile \in Profile
  BY <1>1, ScorerConstants DEF NoProfile, Profile, Observation
<1>3. \A kinds : Count(<<>>, kinds) = 0
  BY <1>1, CountDefined, FS_EmptySet
<1> QED
  BY <1>1, <1>2, <1>3, FS_EmptySet DEF Proper, Matches, NoProfile

\* _evict_old field by field; when it drops nothing, the counters it does not
\* count again are right already.
LEMMA EvictOldFields ==
  ASSUME NEW p, Proper(p), NEW at \in Nat
  PROVE  LET q == EvictOld(p, at)
             kept == Kept(p.events, at)
         IN  /\ q \in Profile /\ q.events = kept
             /\ q.failures = Count(kept, {"failure", "invalid", "root"})
             /\ q.invalid = Count(kept, {"invalid"})
             /\ q.root = Count(kept, {"root"})
             /\ q.usernames = IF kept = <<>> THEN {} ELSE p.usernames
             /\ q.offHours = (p.offHours /\ kept # <<>>)
             /\ q.known = p.known /\ q.flagged = p.flagged
             /\ q.hadSuccess = p.hadSuccess /\ q.lastSeen = p.lastSeen
<1> DEFINE kept == Kept(p.events, at)
<1>1. p \in Profile /\ p.events \in Seq(Observation)
  BY ProfileFacts DEF Proper
<1>2. kept \in Seq(Observation) /\ (First(p.events, at) = 1 => kept = p.events)
  BY <1>1, KeptFacts
<1>3. \A kinds : Count(kept, kinds) \in Nat
  BY <1>2, CountType
<1>4. CASE First(p.events, at) = 1
  <2>1. EvictOld(p, at) = p
    BY <1>4 DEF EvictOld, First, Times
  <2>2. p.offHours \in BOOLEAN
    BY <1>1 DEF Profile
  <2> HIDE DEF kept
  <2> QED
    BY <1>1, <1>2, <1>4, <2>1, <2>2 DEF Proper, Matches, kept
<1>5. CASE First(p.events, at) # 1
  <2>1. EvictOld(p, at) = [p EXCEPT !.events    = kept,
                                    !.failures  = Count(kept, {"failure", "invalid", "root"}),
                                    !.invalid   = Count(kept, {"invalid"}),
                                    !.root      = Count(kept, {"root"}),
                                    !.usernames = IF kept = <<>> THEN {} ELSE @,
                                    !.offHours  = @ /\ kept # <<>>]
    BY <1>5 DEF EvictOld, First, Times, Kept
  <2> HIDE DEF kept
  <2>2. EvictOld(p, at) =
          [known |-> p.known, events |-> kept,
           usernames |-> IF kept = <<>> THEN {} ELSE p.usernames,
           failures |-> Count(kept, {"failure", "invalid", "root"}),
           invalid |-> Count(kept, {"invalid"}), root |-> Count(kept, {"root"}),
           flagged |-> p.flagged, offHours |-> p.offHours /\ kept # <<>>,
           hadSuccess |-> p.hadSuccess, lastSeen |-> p.lastSeen]
    BY <1>1, <2>1 DEF Profile
  <2>3. /\ p.known \in BOOLEAN /\ p.flagged \in BOOLEAN /\ p.offHours \in BOOLEAN
        /\ p.hadSuccess \in BOOLEAN /\ p.lastSeen \in 0 .. MaxTime
        /\ p.usernames \in SUBSET Users
    BY <1>1 DEF Profile
  <2>4. (IF kept = <<>> THEN {} ELSE p.usernames) \in SUBSET Users
    BY <2>3
  <2>5. (p.offHours /\ kept # <<>>) \in BOOLEAN
    OBVIOUS
  <2>6. EvictOld(p, at) \in Profile
    BY <1>2, <1>3, <2>2, <2>3, <2>4, <2>5 DEF Profile, Observation
  <2> QED
    BY <2>2, <2>6 DEF kept
<1> QED
  BY <1>4, <1>5

LEMMA EvictOldProper ==
  ASSUME NEW p, Proper(p), NEW at \in Nat
  PROVE  Proper(EvictOld(p, at))
<1> DEFINE q == EvictOld(p, at)
           kept == Kept(p.events, at)
<1>1. /\ q \in Profile /\ q.events = kept
      /\ q.failures = Count(kept, {"failure", "invalid", "root"})
      /\ q.invalid = Count(kept, {"invalid"})
      /\ q.root = Count(kept, {"root"})
      /\ q.usernames = IF kept = <<>> THEN {} ELSE p.usernames
      /\ q.offHours = (p.offHours /\ kept # <<>>)
      /\ q.lastSeen = p.lastSeen
  BY EvictOldFields
<1>2. p \in Profile /\ p.events \in Seq(Observation)
      /\ DOMAIN p.events = 1 .. Len(p.events) /\ Len(p.events) \in Nat
  BY ProfileFacts DEF Proper
<1>3. /\ First(p.events, at) \in 1 .. Len(p.events) + 1
      /\ kept \in Seq(Observation) /\ Len(kept) = Len(p.events) + 1 - First(p.events, at)
      /\ \A i \in 1 .. Len(kept) : kept[i] = p.events[i + First(p.events, at) - 1]
  BY <1>2, KeptFacts
<1>4. DOMAIN kept = 1 .. Len(kept)
  BY <1>3, LenProperties
<1> HIDE DEF q, kept
<1>5. \A i \in DOMAIN q.events : q.events[i].at <= q.lastSeen
  <2> SUFFICES ASSUME NEW i \in 1 .. Len(kept)
               PROVE  kept[i].at <= p.lastSeen
    BY <1>1, <1>4
  <2>1. i + First(p.events, at) - 1 \in DOMAIN p.events
    BY <1>2, <1>3
  <2> QED
    BY <1>3, <2>1 DEF Proper
<1>6. IsFiniteSet(q.usernames)
  BY <1>1, FS_EmptySet DEF Proper
<1>7. Matches(q)
  BY <1>1 DEF Matches
<1> QED
  BY <1>1, <1>5, <1>6, <1>7 DEF Proper, q

\* record's body, for an event that is not earlier than the ones before.
LEMMA ObserveProper ==
  ASSUME NEW p, Proper(p), NEW kind \in Kinds, NEW user \in Users \cup {NoUser},
         NEW flagged \in BOOLEAN, NEW offHours \in BOOLEAN,
         NEW at \in 0 .. MaxTime, p.lastSeen <= at
  PROVE  /\ Proper(Observed(p, kind, user, flagged, offHours, at))
         /\ Observed(p, kind, user, flagged, offHours, at).lastSeen = at
<1> DEFINE q == Observed(p, kind, user, flagged, offHours, at)
           e == [at |-> at, kind |-> kind]
<1>1. p \in Profile /\ e \in Observation /\ at \in Nat
  BY ScorerConstants DEF Proper, Observation
<1>2. /\ p.events \in Seq(Observation) /\ Len(p.events) \in Nat
      /\ DOMAIN p.events = 1 .. Len(p.events)
      /\ \A i \in DOMAIN p.events : p.events[i].at \in Nat
      /\ p.failures \in Nat /\ p.invalid \in Nat /\ p.root \in Nat /\ p.lastSeen \in Nat
  BY <1>1, ProfileFacts
<1>3. /\ q.events = Append(p.events, e) /\ q.lastSeen = at
      /\ q.usernames = IF user = NoUser THEN p.usernames ELSE p.usernames \cup {user}
      /\ q.failures = p.failures + If(kind \in {"failure", "invalid", "root"}, 1)
      /\ q.invalid = p.invalid + If(kind = "invalid", 1)
      /\ q.root = p.root + If(kind = "root", 1)
  BY <1>1 DEF Observed, Profile
<1>4. /\ Append(p.events, e) \in Seq(Observation) /\ Append(p.events, e) # <<>>
      /\ Len(Append(p.events, e)) = Len(p.events) + 1
      /\ \A i \in 1 .. Len(p.events) : Append(p.events, e)[i] = p.events[i]
      /\ Append(p.events, e)[Len(p.events) + 1] = e
      /\ DOMAIN Append(p.events, e) = 1 .. Len(p.events) + 1
  BY <1>1, <1>2, AppendProperties, LenProperties
<1>5. \A kinds : Count(Append(p.events, e), kinds) = Count(p.events, kinds) + If(kind \in kinds, 1)
  BY <1>1, <1>2, CountAppend
<1>6. q \in Profile
  <2> DEFINE names == IF user = NoUser THEN p.usernames ELSE p.usernames \cup {user}
             failures == p.failures + If(kind \in {"failure", "invalid", "root"}, 1)
             invalid == p.invalid + If(kind = "invalid", 1)
             root == p.root + If(kind = "root", 1)
             hit == p.flagged \/ flagged
             off == p.offHours \/ offHours
             good == p.hadSuccess \/ kind = "success"
             longer == Append(p.events, e)
  <2>1. p.usernames \in SUBSET Users
    BY <1>1 DEF Profile
  <2>2. names \in SUBSET Users
    BY <2>1
  <2>3. failures \in Nat /\ invalid \in Nat /\ root \in Nat
    BY <1>2 DEF If
  <2>4. hit \in BOOLEAN /\ off \in BOOLEAN /\ good \in BOOLEAN
    OBVIOUS
  <2>5. q = [p EXCEPT !.known = TRUE, !.events = longer, !.lastSeen = at,
                      !.usernames = names, !.failures = failures, !.invalid = invalid,
                      !.root = root, !.hadSuccess = good, !.flagged = hit, !.offHours = off]
    BY Zenon DEF Observed
  <2>6. longer \in Seq(Observation)
    BY <1>4
  <2> HIDE DEF q, e, longer, names, failures, invalid, root, hit, off, good
  <2>7. q = [known |-> TRUE, events |-> longer, usernames |-> names,
             failures |-> failures, invalid |-> invalid, root |-> root,
             flagged |-> hit, offHours |-> off, hadSuccess |-> good, lastSeen |-> at]
    BY <1>1, <2>5 DEF Profile
  <2> QED
    BY <2>2, <2>3, <2>4, <2>6, <2>7 DEF Profile, Observation
<1> HIDE DEF q, e
<1>7. Matches(q)
  <2>1. (kind = "invalid") = (kind \in {"invalid"}) /\ (kind = "root") = (kind \in {"root"})
    OBVIOUS
  <2>2. q.events # <<>>
    BY <1>3, <1>4
  <2> QED
    BY <1>3, <1>5, <2>1, <2>2 DEF Proper, Matches
<1>8. IsFiniteSet(q.usernames)
  BY <1>3, FS_AddElement DEF Proper
<1>9. \A i \in DOMAIN q.events : q.events[i].at <= q.lastSeen
  <2> SUFFICES ASSUME NEW i \in 1 .. Len(p.events) + 1
               PROVE  Append(p.events, e)[i].at <= at
    BY <1>3, <1>4
  <2>1. CASE i \in 1 .. Len(p.events)
    <3>1. p.events[i].at <= p.lastSeen /\ p.events[i].at \in Nat
      BY <1>2, <2>1 DEF Proper
    <3> QED
      BY <1>1, <1>2, <1>4, <2>1, <3>1
  <2>2. CASE i = Len(p.events) + 1
    BY <1>1, <1>4, <2>2 DEF e
  <2> QED
    BY <1>2, <2>1, <2>2
<1> QED
  BY <1>3, <1>6, <1>7, <1>8, <1>9 DEF Proper, q

-----------------------------------------------------------------------------
(* The score.                                                              *)

LEMMA WeightTypes ==
  /\ Weights.failure \in Nat /\ Weights.failureCap \in Nat
  /\ Weights.distinctUser \in Nat /\ Weights.distinctUserCap \in Nat
  /\ Weights.invalidUser \in Nat /\ Weights.invalidUserCap \in Nat
  /\ Weights.rootAttempt \in Nat /\ Weights.reputation \in Nat
  /\ Weights.offHours \in Nat /\ Weights.knownGoodDiscount \in Nat
  BY WeightsAssumption DEF WeightsAssumption

LEMMA TimesMonotone ==
  ASSUME NEW m \in Nat, NEW n \in Nat, NEW w \in Nat, m <= n
  PROVE  m * w \in Nat /\ n * w \in Nat /\ m * w <= n * w
<1>1. m * w \in Nat /\ n * w \in Nat /\ (n - m) \in Nat /\ (n - m) * w \in Nat
  OBVIOUS
<1>2. n * w = m * w + (n - m) * w
  OBVIOUS
<1> QED
  BY <1>1, <1>2

\* A signal counted no higher contributes no more.
LEMMA CappedMonotone ==
  ASSUME NEW m \in Nat, NEW n \in Nat, NEW w \in Nat, NEW cap \in Nat, m <= n
  PROVE  /\ Least(m * w, cap) \in Nat /\ Least(n * w, cap) \in Nat
         /\ Least(m * w, cap) <= Least(n * w, cap)
<1> DEFINE a == m * w
           b == n * w
<1>1. a \in Nat /\ b \in Nat /\ a <= b
  BY TimesMonotone
<1> HIDE DEF a, b
<1>2. Least(a, cap) \in Nat /\ Least(b, cap) \in Nat /\ Least(a, cap) <= Least(b, cap)
  BY <1>1 DEF Least
<1> QED
  BY <1>2 DEF a, b

\* No signal of q is stronger than that of p, and its discount is the same.
Weaker(q, p) ==
  /\ q.failures \in Nat /\ q.invalid \in Nat /\ q.root \in Nat
  /\ p.failures \in Nat /\ p.invalid \in Nat /\ p.root \in Nat
  /\ q.failures <= p.failures /\ q.invalid <= p.invalid /\ q.root <= p.root
  /\ IsFiniteSet(p.usernames) /\ q.usernames \subseteq p.usernames
  /\ q.flagged = p.flagged /\ q.hadSuccess = p.hadSuccess
  /\ q.offHours => p.offHours

LEMMA ScoreMonotone ==
  ASSUME NEW p, NEW q, Weaker(q, p)
  PROVE  Score(q) \in 0 .. 100 /\ Score(q) <= Score(p)
<1> DEFINE w == Weights
           sprayP == Most(0, Cardinality(p.usernames) - 1)
           sprayQ == Most(0, Cardinality(q.usernames) - 1)
           failP == Least(p.failures * w.failure, w.failureCap)
           failQ == Least(q.failures * w.failure, w.failureCap)
           userP == Least(sprayP * w.distinctUser, w.distinctUserCap)
           userQ == Least(sprayQ * w.distinctUser, w.distinctUserCap)
           invP == Least(p.invalid * w.invalidUser, w.invalidUserCap)
           invQ == Least(q.invalid * w.invalidUser, w.invalidUserCap)
           rootP == If(p.root > 0, w.rootAttempt)
           rootQ == If(q.root > 0, w.rootAttempt)
           flag == If(p.flagged, w.reputation)
           offP == If(p.offHours, w.offHours)
           offQ == If(q.offHours, w.offHours)
           good == If(p.hadSuccess, w.knownGoodDiscount)
<1>1. sprayP \in Nat /\ sprayQ \in Nat /\ sprayQ <= sprayP
  <2>1. /\ Cardinality(p.usernames) \in Nat /\ Cardinality(q.usernames) \in Nat
        /\ Cardinality(q.usernames) <= Cardinality(p.usernames)
    BY FS_Subset, FS_CardinalityType DEF Weaker
  <2> QED
    BY <2>1 DEF Most
<1>2. failP \in Nat /\ failQ \in Nat /\ failQ <= failP
  BY CappedMonotone, WeightTypes DEF Weaker
<1>3. invP \in Nat /\ invQ \in Nat /\ invQ <= invP
  BY CappedMonotone, WeightTypes DEF Weaker
<1> HIDE DEF sprayP, sprayQ
<1>4. userP \in Nat /\ userQ \in Nat /\ userQ <= userP
  BY <1>1, CappedMonotone, WeightTypes
<1>5. rootP \in Nat /\ rootQ \in Nat /\ rootQ <= rootP
  BY WeightTypes DEF Weaker, If
<1>6. flag \in Nat /\ good \in Nat
  BY WeightTypes DEF If
<1>7. offP \in Nat /\ offQ \in Nat /\ offQ <= offP
  BY WeightTypes DEF Weaker, If
<1>8. Score(p) = Most(0, Least(100, failP + userP + invP + rootP + flag + offP - good))
  BY Zenon DEF Score, sprayP
<1>9. Score(q) = Most(0, Least(100, failQ + userQ + invQ + rootQ + flag + offQ - good))
  BY Zenon DEF Score, Weaker, sprayQ
<1> HIDE DEF failP, failQ, userP, userQ, invP, invQ, rootP, rootQ, flag, offP, offQ, good
<1> QED
  BY <1>2, <1>3, <1>4, <1>5, <1>6, <1>7, <1>8, <1>9 DEF Most, Least

LEMMA ScoreType ==
  ASSUME NEW p, Proper(p)
  PROVE  Score(p) \in 0 .. 100 /\ Score(p) \in Nat
<1>1. Weaker(p, p)
  BY ProfileFacts DEF Proper, Weaker
<1> QED
  BY <1>1, ScoreMonotone

LEMMA NoProfileScore == Score(NoProfile) = 0
<1>1. \A w \in Nat : 0 * w = 0
  OBVIOUS
<1>2. Cardinality({}) = 0
  BY FS_EmptySet
<1> QED
  BY <1>1, <1>2, WeightTypes DEF Score, NoProfile, Most, Least, If

\* Trimmed later, a profile scores no higher.
LEMMA ScoreFalls ==
  ASSUME NEW p, Proper(p), NEW early \in Nat, NEW late \in Nat, early <= late
  PROVE  Score(EvictOld(p, late)) <= Score(EvictOld(p, early))
<1> DEFINE soon == Kept(p.events, early)
           then == Kept(p.events, late)
           k == First(p.events, early)
           m == First(p.events, late)
<1>1. p.events \in Seq(Observation) /\ Len(p.events) \in Nat
  BY ProfileFacts DEF Proper
<1>2. /\ k \in 1 .. Len(p.events) + 1 /\ m \in 1 .. Len(p.events) + 1
      /\ soon \in Seq(Observation) /\ Len(soon) = Len(p.events) + 1 - k
      /\ \A i \in 1 .. Len(soon) : soon[i] = p.events[i + k - 1]
      /\ then \in Seq(Observation) /\ Len(then) = Len(p.events) + 1 - m
      /\ \A i \in 1 .. Len(then) : then[i] = p.events[i + m - 1]
  BY <1>1, KeptFacts
<1>3. k <= m
  BY <1>1, FirstMonotone
<1> HIDE DEF soon, then, k, m
<1>4. /\ m - k \in Nat /\ Len(then) = Len(soon) - (m - k)
      /\ \A i \in 1 .. Len(then) : then[i] = soon[i + (m - k)]
  <2> SUFFICES ASSUME NEW i \in 1 .. Len(then)
               PROVE  then[i] = soon[i + (m - k)]
    BY <1>1, <1>2, <1>3
  <2>1. k \in Nat /\ m \in Nat /\ i \in Nat /\ i >= 1
        /\ i <= Len(p.events) + 1 - m /\ Len(soon) = Len(p.events) + 1 - k
    BY <1>1, <1>2
  <2>2. i + (m - k) \in 1 .. Len(soon) /\ i + (m - k) + k - 1 = i + m - 1
    BY <1>1, <1>3, <2>1
  <2> QED
    BY <1>2, <2>2
<1>5. \A kinds : Count(then, kinds) <= Count(soon, kinds)
  BY <1>2, <1>4, CountSuffix
<1>6. \A kinds : Count(then, kinds) \in Nat /\ Count(soon, kinds) \in Nat
  BY <1>2, CountType
<1>7. soon = <<>> => then = <<>>
  BY <1>1, <1>2, <1>3, EmptySeq
<1>8. Weaker(EvictOld(p, late), EvictOld(p, early))
  <2>1. Proper(EvictOld(p, early))
    BY EvictOldProper
  <2> DEFINE q == EvictOld(p, late)
             r == EvictOld(p, early)
  <2>2. /\ q.failures = Count(then, {"failure", "invalid", "root"})
        /\ q.invalid = Count(then, {"invalid"}) /\ q.root = Count(then, {"root"})
        /\ q.usernames = IF then = <<>> THEN {} ELSE p.usernames
        /\ q.offHours = (p.offHours /\ then # <<>>)
        /\ q.flagged = p.flagged /\ q.hadSuccess = p.hadSuccess
    BY EvictOldFields DEF then
  <2>3. /\ r.failures = Count(soon, {"failure", "invalid", "root"})
        /\ r.invalid = Count(soon, {"invalid"}) /\ r.root = Count(soon, {"root"})
        /\ r.usernames = IF soon = <<>> THEN {} ELSE p.usernames
        /\ r.offHours = (p.offHours /\ soon # <<>>)
        /\ r.flagged = p.flagged /\ r.hadSuccess = p.hadSuccess
    BY EvictOldFields DEF soon
  <2>4. IsFiniteSet(r.usernames)
    BY <2>1 DEF Proper
  <2> HIDE DEF q, r
  <2>5. q.usernames \subseteq r.usernames /\ (q.offHours => r.offHours)
    BY <1>7, <2>2, <2>3
  <2> QED
    BY <1>5, <1>6, <2>2, <2>3, <2>4, <2>5 DEF Weaker, q, r
<1> QED
  BY <1>8, ScoreMonotone

\* Trimming lowers a score or leaves it.
LEMMA ScoreOfTrimmed ==
  ASSUME NEW p, Proper(p), NEW at \in Nat
  PROVE  Score(EvictOld(p, at)) <= Score(p)
<1> DEFINE q == EvictOld(p, at)
           kept == Kept(p.events, at)
           k == First(p.events, at)
<1>1. p \in Profile /\ p.events \in Seq(Observation) /\ Len(p.events) \in Nat
      /\ p.failures \in Nat /\ p.invalid \in Nat /\ p.root \in Nat
  BY ProfileFacts DEF Proper
<1>2. /\ k \in 1 .. Len(p.events) + 1
      /\ kept \in Seq(Observation) /\ Len(kept) = Len(p.events) + 1 - k
      /\ \A i \in 1 .. Len(kept) : kept[i] = p.events[i + k - 1]
  BY <1>1, KeptFacts
<1> HIDE DEF k, kept
<1>3. /\ k - 1 \in Nat /\ Len(kept) = Len(p.events) - (k - 1)
      /\ \A i \in 1 .. Len(kept) : kept[i] = p.events[i + (k - 1)]
  <2>1. \A i \in 1 .. Len(kept) : i + k - 1 = i + (k - 1)
    BY <1>2
  <2> QED
    BY <1>1, <1>2, <2>1
<1>4. \A kinds : Count(kept, kinds) <= Count(p.events, kinds) /\ Count(kept, kinds) \in Nat
  BY <1>1, <1>2, <1>3, CountSuffix, CountType
<1>5. /\ q.failures = Count(kept, {"failure", "invalid", "root"})
      /\ q.invalid = Count(kept, {"invalid"}) /\ q.root = Count(kept, {"root"})
      /\ q.usernames = IF kept = <<>> THEN {} ELSE p.usernames
      /\ q.offHours = (p.offHours /\ kept # <<>>)
      /\ q.flagged = p.flagged /\ q.hadSuccess = p.hadSuccess
  BY EvictOldFields DEF kept
<1> HIDE DEF q
<1>6. q.usernames \subseteq p.usernames /\ (q.offHours => p.offHours)
  BY <1>5
<1>7. Weaker(q, p)
  BY <1>1, <1>4, <1>5, <1>6 DEF Weaker, Proper, Matches
<1> QED
  BY <1>7, ScoreMonotone DEF q

-----------------------------------------------------------------------------
(* The inductive invariant.                                                *)

\* Every profile is proper, and was last after no later than now: so whatever the
\* next record appends is not earlier than what is there.
ScorerInv ==
  /\ ScorerTypeOK
  /\ \A ip \in IPs : Proper(profiles[ip]) /\ profiles[ip].lastSeen <= now

LEMMA ScorerInit == InitScorer => ScorerInv
<1> SUFFICES ASSUME InitScorer PROVE ScorerInv
  OBVIOUS
<1>1. \A ip \in IPs : profiles[ip] = NoProfile
  BY DEF InitScorer
<1>2. NoProfile \in Profile /\ NoProfile.lastSeen = 0
  BY NoProfileProper DEF Proper, NoProfile
<1>3. ScorerTypeOK
  BY <1>1, <1>2, ScorerConstants DEF InitScorer, ScorerTypeOK
<1> QED
  BY <1>1, <1>2, <1>3, NoProfileProper DEF InitScorer, ScorerInv

\* Every step but Tick and the reaper's changes at most the profile of one address.
LEMMA ProfileInv ==
  ASSUME ScorerInv, NEW ip \in IPs, NEW p, Proper(p), p.lastSeen <= now,
         profiles' = [profiles EXCEPT ![ip] = p], UNCHANGED <<now, threatReaper>>
  PROVE  ScorerInv'
<1>1. p \in Profile
  BY DEF Proper
<1>2. \A other \in IPs : profiles'[other] = IF other = ip THEN p ELSE profiles[other]
  BY DEF ScorerInv, ScorerTypeOK
<1>3. (ScorerTypeOK)'
  BY <1>1 DEF ScorerInv, ScorerTypeOK
<1> QED
  BY <1>2, <1>3 DEF ScorerInv

LEMMA RecordInv ==
  ASSUME ScorerInv, NEW ip \in IPs, Recorded(ip)
  PROVE  ScorerInv'
<1>1. PICK user \in Users \cup {NoUser}, kind \in Kinds, offHours \in BOOLEAN :
        \/ Record(ip, kind, user, FALSE, offHours)
        \/ kind = "failure" /\ Record(ip, kind, user, TRUE, offHours)
  BY DEF Recorded
<1>2. PICK flagged \in BOOLEAN : Record(ip, kind, user, flagged, offHours)
  BY <1>1
<1> DEFINE after == Observed(profiles[ip], kind, user, flagged, offHours, now)
<1>3. now \in 0 .. MaxTime /\ now \in Nat
  BY ScorerConstants DEF ScorerInv, ScorerTypeOK
<1>4. Proper(after) /\ after.lastSeen = now
  BY <1>3, ObserveProper DEF ScorerInv
<1>5. profiles' = [profiles EXCEPT ![ip] = EvictOld(after, now)] /\ UNCHANGED <<now, threatReaper>>
  BY <1>2 DEF Record, ScorerInv, ScorerTypeOK
<1> HIDE DEF after
<1>6. Proper(EvictOld(after, now)) /\ EvictOld(after, now).lastSeen <= now
  BY <1>3, <1>4, EvictOldProper, EvictOldFields
<1> QED
  BY <1>5, <1>6, ProfileInv

LEMMA ScorerNext == ScorerInv /\ [NextScorer]_scorerVars => ScorerInv'
<1> SUFFICES ASSUME ScorerInv, [NextScorer]_scorerVars PROVE ScorerInv'
  OBVIOUS
<1>1. now \in 0 .. MaxTime /\ now \in Nat /\ MaxTime \in Nat
  BY ScorerConstants DEF ScorerInv, ScorerTypeOK
<1>2. ASSUME NEW ip \in IPs, Recorded(ip) PROVE ScorerInv'
  BY <1>2, RecordInv
<1>3. ASSUME NEW ip \in IPs, ReadScore(ip) PROVE ScorerInv'
  <2>1. Proper(EvictOld(profiles[ip], now)) /\ EvictOld(profiles[ip], now).lastSeen <= now
    BY <1>1, EvictOldProper, EvictOldFields DEF ScorerInv
  <2>2. profiles' = [profiles EXCEPT ![ip] = EvictOld(profiles[ip], now)] /\ UNCHANGED <<now, threatReaper>>
    BY <1>3 DEF ReadScore
  <2> QED
    BY <2>1, <2>2, ProfileInv
<1>4. CASE ReaperWake
  BY <1>1, <1>4, ScorerConstants DEF ReaperWake, ScorerInv, ScorerTypeOK
<1>5. CASE ReaperSweep
  <2>1. /\ UNCHANGED now /\ threatReaper' \in Asleep .. now'
        /\ \A ip \in IPs : profiles'[ip] \in {NoProfile, profiles[ip]}
        /\ profiles' \in [IPs -> Profile]
    <3>1. NoProfile \in Profile
      BY NoProfileProper DEF Proper
    <3> QED
      BY <1>1, <1>5, <3>1, ScorerConstants DEF ReaperSweep, ScorerInv, ScorerTypeOK
  <2>2. Proper(NoProfile) /\ NoProfile.lastSeen = 0
    BY NoProfileProper DEF NoProfile
  <2> QED
    BY <1>1, <2>1, <2>2 DEF ScorerInv, ScorerTypeOK
<1>6. CASE TickScorer
  <2>1. now' = now + 1 /\ now' \in 0 .. MaxTime /\ UNCHANGED <<profiles, threatReaper>>
    BY <1>1, <1>6 DEF TickScorer
  <2>2. (ScorerTypeOK)'
    BY <1>1, <2>1, ScorerConstants DEF ScorerInv, ScorerTypeOK
  <2>3. \A ip \in IPs : profiles[ip].lastSeen \in Nat
    BY ProfileFacts DEF ScorerInv, Proper
  <2> QED
    BY <1>1, <2>1, <2>2, <2>3 DEF ScorerInv
<1>7. CASE UNCHANGED scorerVars
  BY <1>7 DEF scorerVars, ScorerInv, ScorerTypeOK
<1> QED
  BY <1>2, <1>3, <1>4, <1>5, <1>6, <1>7 DEF NextScorer

LEMMA ScorerInvariance == ScorerSpec => []ScorerInv
  BY ScorerInit, ScorerNext, PTL DEF ScorerSpec

-----------------------------------------------------------------------------

\* Every field of every profile stays in its type, and the reaper's reading of the
\* clock is never ahead of it.
THEOREM ScorerTypeCorrect == ScorerSpec => []ScorerTypeOK
  BY ScorerInvariance, PTL DEF ScorerInv

\* What record counts one by one and what _evict_old counts again are the same
\* numbers; usernames and the off-hours flag go with the last event.
THEOREM CountersRight == ScorerSpec => []CountersMatchEvents
<1>1. ScorerInv => CountersMatchEvents
  BY DEF ScorerInv, Proper, Matches, CountersMatchEvents
<1> QED
  BY <1>1, ScorerInvariance, PTL

\* Whenever the reaper wakes and however long it waits for the lock, the profiles it
\* discards hold nothing that happened inside the window.
THEOREM ReapsOnlyTheIdle == ScorerSpec => NothingRecentIsReaped
<1>1. ASSUME ScorerInv, [NextScorer]_scorerVars, NEW ip \in IPs, profiles[ip].known, ~profiles'[ip].known
      PROVE  EvictOld(profiles[ip], now).events = <<>>
  <2> DEFINE p == profiles[ip]
  <2>1. Proper(p) /\ p \in Profile /\ now \in Nat /\ profiles \in [IPs -> Profile]
    BY <1>1, ScorerConstants DEF ScorerInv, ScorerTypeOK, Proper
  <2>2. ReaperSweep
    <3>1. ASSUME NEW other \in IPs, NEW q, profiles' = [profiles EXCEPT ![other] = q],
                 profiles[other].known => q.known
          PROVE  FALSE
      BY <1>1, <2>1, <3>1
    <3>2. ASSUME NEW other \in IPs, Recorded(other) PROVE FALSE
      <4>1. PICK user \in Users \cup {NoUser}, kind \in Kinds, offHours \in BOOLEAN, flagged \in BOOLEAN :
              Record(other, kind, user, flagged, offHours)
        BY <3>2 DEF Recorded
      <4> DEFINE after == Observed(profiles[other], kind, user, flagged, offHours, now)
      <4>2. Proper(after) /\ after.known
        <5>1. now \in 0 .. MaxTime /\ Proper(profiles[other]) /\ profiles[other].lastSeen <= now
          BY <1>1 DEF ScorerInv, ScorerTypeOK
        <5>2. Proper(after)
          BY <5>1, ObserveProper
        <5>3. after.known
          BY <2>1 DEF Observed, Profile
        <5> QED
          BY <5>2, <5>3
      <4>3. profiles' = [profiles EXCEPT ![other] = EvictOld(after, now)]
        BY <2>1, <4>1 DEF Record
      <4> HIDE DEF after
      <4>4. EvictOld(after, now).known
        BY <2>1, <4>2, EvictOldFields
      <4> QED
        BY <3>1, <4>3, <4>4
    <3>3. ASSUME NEW other \in IPs, ReadScore(other) PROVE FALSE
      <4>1. Proper(profiles[other]) /\ profiles[other].known
        BY <1>1, <3>3 DEF ScorerInv, ReadScore
      <4>2. EvictOld(profiles[other], now).known
        BY <2>1, <4>1, EvictOldFields
      <4>3. profiles' = [profiles EXCEPT ![other] = EvictOld(profiles[other], now)]
        BY <3>3 DEF ReadScore
      <4> QED
        BY <3>1, <4>2, <4>3
    <3>4. profiles' # profiles
      BY <1>1
    <3> QED
      BY <1>1, <3>2, <3>3, <3>4 DEF NextScorer, ReaperWake, TickScorer, scorerVars
  <2>3. ip \in Idle(threatReaper)
    BY <1>1, <2>1, <2>2 DEF ReaperSweep
  <2>4. threatReaper - p.lastSeen > ThreatWindow /\ threatReaper \in Int /\ threatReaper <= now
    BY <1>1, <2>1, <2>3, ScorerConstants DEF Idle, ScorerInv, ScorerTypeOK
  <2>5. /\ p.events \in Seq(Observation) /\ Len(p.events) \in Nat /\ DOMAIN p.events = 1 .. Len(p.events)
        /\ p.lastSeen \in Nat
        /\ \A i \in DOMAIN p.events : p.events[i].at \in Nat /\ p.events[i].at <= p.lastSeen
    BY <2>1, ProfileFacts DEF Proper
  <2>6. \A i \in 1 .. Len(p.events) : p.events[i].at < now - ThreatWindow
    BY <2>1, <2>4, <2>5, ScorerConstants
  <2>7. EvictOld(p, now).events = Kept(p.events, now)
    BY <2>1, EvictOldFields
  <2> HIDE DEF p
  <2> DEFINE k == First(p.events, now)
             kept == Kept(p.events, now)
  <2>8. /\ k \in 1 .. Len(p.events) + 1
        /\ k <= Len(p.events) => p.events[k].at >= now - ThreatWindow
        /\ kept \in Seq(Observation) /\ Len(kept) = Len(p.events) + 1 - k
    BY <2>1, <2>5, KeptFacts
  <2> HIDE DEF k, kept
  <2>9. k = Len(p.events) + 1
    <3>1. ASSUME k <= Len(p.events)
          PROVE  FALSE
      <4>1. k \in 1 .. Len(p.events)
        BY <2>5, <2>8, <3>1
      <4>2. p.events[k].at \in Nat /\ p.events[k].at < now - ThreatWindow /\ p.events[k].at >= now - ThreatWindow
        BY <2>5, <2>6, <2>8, <3>1, <4>1
      <4> QED
        BY <2>1, <4>2, ScorerConstants
    <3> QED
      BY <2>5, <2>8, <3>1
  <2>10. kept = <<>>
    BY <2>5, <2>8, <2>9, EmptySeq
  <2> QED
    BY <2>7, <2>10 DEF kept, p
<1>2. ScorerInv /\ [NextScorer]_scorerVars
      => [\A ip \in IPs : profiles[ip].known /\ ~profiles[ip].known' =>
            EvictOld(profiles[ip], now).events = <<>>]_scorerVars
  BY <1>1
<1> QED
  BY <1>2, ScorerInvariance, PTL DEF ScorerSpec, NothingRecentIsReaped

\* A step that leaves a profile alone, trims it or drops it does not raise its rating.
LEMMA RatingFalls ==
  ASSUME ScorerInv, ScorerInv', NEW ip \in IPs,
         \/ profiles'[ip] = profiles[ip] /\ now' \in {now, now + 1}
         \/ profiles'[ip] = EvictOld(profiles[ip], now) /\ now' = now
         \/ profiles'[ip] = NoProfile /\ now' = now
  PROVE  Rating(ip) \in Nat /\ (Rating(ip))' \in Nat /\ (Rating(ip))' <= Rating(ip)
<1> DEFINE p == profiles[ip]
<1>1. /\ now \in Nat /\ now' \in Nat /\ Proper(p)
      /\ Rating(ip) = Score(EvictOld(p, now)) /\ (Rating(ip))' = Score(EvictOld(profiles'[ip], now'))
  BY ScorerConstants DEF ScorerInv, ScorerTypeOK, Rating
<1>2. Proper(EvictOld(p, now)) /\ Rating(ip) \in Nat
  BY <1>1, EvictOldProper, ScoreType
<1> HIDE DEF p
<1>3. CASE profiles'[ip] = p /\ now' \in {now, now + 1}
  <2>1. now <= now'
    BY <1>1, <1>3
  <2> QED
    BY <1>1, <1>2, <1>3, <2>1, ScoreFalls, ScoreType, EvictOldProper
<1>4. CASE profiles'[ip] = EvictOld(p, now) /\ now' = now
  <2>1. Score(EvictOld(EvictOld(p, now), now)) <= Score(EvictOld(p, now))
    BY <1>1, <1>2, ScoreOfTrimmed
  <2>2. Score(EvictOld(EvictOld(p, now), now)) \in Nat
    BY <1>1, <1>2, EvictOldProper, ScoreType
  <2> QED
    BY <1>1, <1>2, <1>4, <2>1, <2>2
<1>5. CASE profiles'[ip] = NoProfile /\ now' = now
  <2>1. Score(EvictOld(NoProfile, now)) <= 0 /\ Score(EvictOld(NoProfile, now)) \in Nat
    BY <1>1, NoProfileProper, NoProfileScore, ScoreOfTrimmed, EvictOldProper, ScoreType
  <2> QED
    BY <1>1, <1>2, <1>5, <2>1
<1> QED
  BY <1>3, <1>4, <1>5 DEF p

\* The blend of signals is capped on both sides, whatever the weights.
THEOREM ScoreStaysInRange == ScorerSpec => []ScoreInRange
<1>1. ScorerInv => ScoreInRange
  <2> SUFFICES ASSUME ScorerInv, NEW ip \in IPs PROVE Score(EvictOld(profiles[ip], now)) \in 0 .. 100
    BY DEF ScoreInRange, Rating
  <2>1. now \in Nat
    BY ScorerConstants DEF ScorerInv, ScorerTypeOK
  <2> QED
    BY <2>1, EvictOldProper, ScoreType DEF ScorerInv
<1> QED
  BY <1>1, ScorerInvariance, PTL

\* Between two observations of an address its score never rises: not as time goes
\* by, not when it is read, and not when the reaper drops the profile.
THEOREM ScoreOnlyFalls == ScorerSpec => ScoreRisesOnlyByRecord
<1>1. ASSUME ScorerInv, [NextScorer]_scorerVars, ScorerInv', NEW ip \in IPs, ~Recorded(ip)
      PROVE  ~((Rating(ip))' > Rating(ip))
  <2>1. profiles \in [IPs -> Profile]
    BY <1>1 DEF ScorerInv, ScorerTypeOK
  <2>2. \/ profiles'[ip] = profiles[ip] /\ now' \in {now, now + 1}
        \/ profiles'[ip] = EvictOld(profiles[ip], now) /\ now' = now
        \/ profiles'[ip] = NoProfile /\ now' = now
    <3>1. ASSUME NEW other \in IPs, Recorded(other)
          PROVE  profiles'[ip] = profiles[ip] /\ now' = now
      <4>1. other # ip
        BY <1>1, <3>1
      <4>2. PICK q : profiles' = [profiles EXCEPT ![other] = q] /\ now' = now
        BY <3>1 DEF Recorded, Record
      <4> QED
        BY <2>1, <4>1, <4>2
    <3>2. ASSUME NEW other \in IPs, ReadScore(other)
          PROVE  profiles'[ip] \in {profiles[ip], EvictOld(profiles[ip], now)} /\ now' = now
      BY <2>1, <3>2 DEF ReadScore
    <3>3. CASE ReaperSweep
      BY <2>1, <3>3 DEF ReaperSweep
    <3>4. CASE ReaperWake \/ TickScorer \/ UNCHANGED scorerVars
      BY <3>4 DEF ReaperWake, TickScorer, scorerVars
    <3> QED
      BY <1>1, <3>1, <3>2, <3>3, <3>4 DEF NextScorer
  <2>3. Rating(ip) \in Nat /\ (Rating(ip))' \in Nat /\ (Rating(ip))' <= Rating(ip)
    BY <1>1, <2>2, RatingFalls
  <2> QED
    BY <2>3
<1>2. ScorerInv /\ ScorerInv' /\ [NextScorer]_scorerVars
      => [\A ip \in IPs : (Rating(ip))' > Rating(ip) => Recorded(ip)]_scorerVars
  BY <1>1
<1> QED
  BY <1>2, ScorerInvariance, PTL DEF ScorerSpec, ScoreRisesOnlyByRecord

-----------------------------------------------------------------------------
(* Whom handle_event lets go with an alert.                                *)

\* A profile that was trimmed is not trimmed again at the same instant.
LEMMA TrimmedOnce ==
  ASSUME NEW p \in Profile, NEW at \in Nat
  PROVE  EvictOld(EvictOld(p, at), at) = EvictOld(p, at)
<1> DEFINE k == First(p.events, at)
           kept == Kept(p.events, at)
           again == First(kept, at)
           q == EvictOld(p, at)
<1>1. p.events \in Seq(Observation) /\ Len(p.events) \in Nat
  BY ProfileFacts
<1>2. /\ k \in 1 .. Len(p.events) + 1
      /\ k <= Len(p.events) => p.events[k].at >= at - ThreatWindow
      /\ kept \in Seq(Observation) /\ Len(kept) = Len(p.events) + 1 - k
      /\ \A i \in 1 .. Len(kept) : kept[i] = p.events[i + k - 1]
  BY <1>1, KeptFacts
<1>3. again \in 1 .. Len(kept) + 1 /\ \A i \in 1 .. again - 1 : kept[i].at < at - ThreatWindow
  BY <1>2, KeptFacts
<1> HIDE DEF k, kept, again
<1>4. again = 1
  <2> SUFFICES ASSUME again # 1 PROVE FALSE
    OBVIOUS
  <2>1. 1 \in 1 .. again - 1 /\ 1 \in 1 .. Len(kept) /\ k <= Len(p.events) /\ k \in 1 .. Len(p.events)
    BY <1>1, <1>2, <1>3
  <2>2. kept[1] = p.events[k]
    BY <1>2, <2>1
  <2>3. p.events[k].at \in Nat
    BY <2>1, ProfileFacts
  <2> QED
    BY <1>2, <1>3, <2>1, <2>2, <2>3, ScorerConstants
<1>5. CASE k = 1
  BY <1>5 DEF EvictOld, k, First, Times
<1>6. CASE k # 1
  <2>1. q.events = kept
    BY <1>6 DEF EvictOld, k, kept, First, Kept, Times, Profile
  <2> HIDE DEF q
  <2>2. EvictOld(q, at) = q
    BY <1>4, <2>1 DEF EvictOld, again, First, Times
  <2> QED
    BY <2>2 DEF q
<1> QED
  BY <1>5, <1>6

\* A step that ends at "alert" is Judge's, or none of the tail thread.
LEMMA ToAlert ==
  ASSUME BaseInv, [Next]_vars, tail'.at = "alert"
  PROVE  \/ Judge /\ ~ ShouldBan(Event.ip)
         \/ tail' = tail /\ (BanReaper \/ ThreatReaper \/ Tick \/ UNCHANGED vars)
<1>1. \A place \in Places : GoTo(place) => tail'.at = place
  BY GoToFacts DEF BaseInv
<1>2. CASE Judge
  <2>1. ~ ShouldBan(Event.ip)
    BY <1>1, <1>2 DEF Judge, Places
  <2> QED
    BY <1>2, <2>1
<1>3. CASE TailStep /\ ~ Judge
  <2>1. PICK place \in Places \ {"alert"} : GoTo(place)
    <3>1. CASE Handle \/ Lookup
      BY <3>1, BranchFacts DEF Handle, Lookup, Places
    <3>2. CASE Observe
      <4>1. Event.type \in Failures \cup {"ROOT_ATTEMPT", "AUTH_SUCCESS"}
        BY <3>2 DEF Observe, At, BaseInv, Routed
      <4> QED
        BY <3>2, <4>1 DEF Observe, Places, Failures
    <3>3. CASE \/ Flag \/ RepBan \/ RecordFailure \/ ThreatBan \/ Alert \/ Success
              \/ CountSessions \/ Forward \/ TrackSession
      BY <3>3 DEF Flag, RepBan, RecordFailure, ThreatBan, ImposeBan, Alert, Success, CountSessions, Forward,
         TrackSession, Places
    <3> QED
      BY <1>3, <3>1, <3>2, <3>3 DEF TailStep
  <2> QED
    BY <1>1, <2>1
<1>4. CASE TakeLine
  BY <1>4 DEF TakeLine
<1>5. CASE BanReaper \/ ThreatReaper \/ Tick \/ UNCHANGED vars
  <2>1. tail' = tail
    BY <1>5 DEF BanReaper, ThreatReaper, Tick, TailVars, vars
  <2> QED
    BY <1>5, <2>1
<1> QED
  BY <1>2, <1>3, <1>4, <1>5 DEF Next

\* Neither the clock nor a reaper observes an address.
LEMMA NotRecorded ==
  ASSUME BaseInv, BanReaper \/ ThreatReaper \/ Tick \/ UNCHANGED vars, NEW ip \in IPs, Recorded(ip)
  PROVE  now' = now /\ profiles' = profiles
<1>1. now' = now /\ threatReaper' = threatReaper
  BY DEF Recorded, Record
<1>2. now \in Nat
  BY ConstantTypes DEF BaseInv, Typed
<1>3. CASE BanReaper \/ UNCHANGED vars
  BY <1>1, <1>3 DEF BanReaper, KeepTS, tsVars, vars
<1>4. CASE Tick
  BY <1>1, <1>2, <1>4 DEF Tick, BF!Tick
<1>5. CASE ThreatReaper
  BY <1>1, <1>5 DEF ThreatReaper, ReaperWake, ReaperSweep
<1> QED
  BY <1>3, <1>4, <1>5

\* A failure passed off as a mere alert is one of an address that is cold by then
\* and stays so until the alert is out: nothing but the tail thread itself, which
\* is busy with this event, could raise its score.
THEOREM ColdOnlyLetGo == Spec => []LetGoOnlyIfCold
<1> DEFINE Falls == \A ip \in IPs : Rating(ip)' > Rating(ip) => Recorded(ip)
<1>1. Init => LetGoOnlyIfCold
  BY DEF Init, LetGoOnlyIfCold, At
<1>2. /\ BaseInv /\ BaseInv' /\ ScorerTypeOK /\ ScoreInRange /\ ScoreInRange'
      /\ [Falls]_scorerVars /\ LetGoOnlyIfCold /\ [Next]_vars
      => LetGoOnlyIfCold'
  <2> SUFFICES ASSUME BaseInv, ScorerTypeOK, ScoreInRange, ScoreInRange',
                      [Falls]_scorerVars, LetGoOnlyIfCold, [Next]_vars, tail'.at = "alert"
               PROVE  ~ (ShouldBan(Event.ip))'
    BY DEF LetGoOnlyIfCold, At
  <2>0. PICK who \in IPs : who = Event.ip
    BY EventFacts DEF BaseInv
  <2>1. /\ who \in IPs /\ now \in Nat /\ profiles[who] \in Profile
        /\ profiles \in [IPs -> Profile]
    BY ConstantTypes DEF BaseInv, Typed, ScorerTypeOK
  <2>2. Event' = Event /\ ~ ShouldBan(who)
    <3>1. CASE Judge
      <4>1. GoTo("alert") /\ ~ ShouldBan(who)
        <5>1. ~ ShouldBan(who)
          BY <2>0, <3>1, GoToFacts DEF Judge, Places, BaseInv
        <5> QED
          BY <2>0, <3>1, <5>1 DEF Judge
      <4> QED
        BY <4>1, GoToFacts DEF BaseInv, Places, Event
    <3>2. CASE tail' = tail
      BY <2>0, <3>2 DEF LetGoOnlyIfCold, At, Event
    <3> QED
      BY <3>1, <3>2, ToAlert
  <2>3. /\ Rating(who) \in 0 .. 100 /\ (Rating(who))' \in 0 .. 100
        /\ ~ (Rating(who) >= BanThreshold)
    BY <2>1, <2>2, ConstantTypes DEF ScoreInRange, ShouldBan
  <2>4. (Rating(who))' <= Rating(who)
    <3>1. ASSUME profiles'[who] = profiles[who], now' = now
          PROVE  (Rating(who))' = Rating(who)
      BY <3>1 DEF Rating
    <3>2. CASE Judge
      <4>1. CASE ReadScore(who)
        <5>1. profiles'[who] = EvictOld(profiles[who], now) /\ now' = now
          BY <2>1, <4>1 DEF ReadScore
        <5>2. (Rating(who))' = Rating(who)
          BY <2>1, <5>1, TrimmedOnce DEF Rating
        <5> QED
          BY <2>3, <5>2
      <4>2. CASE UNCHANGED <<now, profiles>>
        BY <2>3, <3>1, <4>2
      <4> QED
        BY <2>0, <3>2, <4>1, <4>2 DEF Judge
    <3>3. CASE BanReaper \/ ThreatReaper \/ Tick \/ UNCHANGED vars
      <4>1. CASE UNCHANGED scorerVars
        BY <2>3, <3>1, <4>1 DEF scorerVars
      <4>2. CASE Recorded(who)
        BY <2>1, <2>3, <3>1, <3>3, <4>2, NotRecorded
      <4>3. CASE ~ ((Rating(who))' > Rating(who))
        BY <2>3, <4>3
      <4> QED
        BY <2>1, <4>1, <4>2, <4>3
    <3> QED
      BY <3>2, <3>3, ToAlert
  <2>5. ~ ((Rating(who))' >= BanThreshold)
    BY <2>3, <2>4, ScorerConstants
  <2> QED
    BY <2>0, <2>2, <2>5 DEF ShouldBan
<1>3. Spec => ScorerSpec
  BY HelpersInside
<1>4. ScoreRisesOnlyByRecord => [][Falls]_scorerVars
  BY PTL DEF ScoreRisesOnlyByRecord
<1> HIDE DEF Falls
<1> QED
  BY <1>1, <1>2, <1>3, <1>4, Invariance, ScorerTypeCorrect, ScoreStaysInRange, ScoreOnlyFalls, PTL DEF Spec
=============================================================================
