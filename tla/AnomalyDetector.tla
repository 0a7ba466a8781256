--------------------------- MODULE AnomalyDetector ---------------------------
(***************************************************************************)
(* modules/monitoring/anomaly_detector.py: __call__, which runs under one  *)
(* lock for every parsed event, and its two sliding windows.  Its          *)
(* _geoip_country returns None, so impossible travel is never looked at.   *)
(***************************************************************************)
EXTENDS Integers, Sequences, FiniteSets, AttemptWindow

CONSTANTS
  IPs,
  SprayThreshold,   \* ip_spray_threshold
  SprayWindow,      \* ip_spray_window
  Baseline,         \* _failure_baseline, 10
  SpikeWindow,      \* 60
  SpikePause,       \* 300
  OffHours,         \* instants outside business hours
  FirstTime,        \* the clock when the detector is made, in seconds since boot
  MaxTime,          \* bound: the clock stops here
  MaxEvents         \* bound: events seen

ASSUME AnomalyAssumption ==
  /\ {SprayThreshold, SprayWindow, Baseline, SpikeWindow, SpikePause, FirstTime, MaxTime, MaxEvents}
       \subseteq Nat
  /\ FirstTime <= MaxTime

AlertTypes == {"IP_SPRAY_DETECTED", "LOGIN_UNUSUAL_HOURS", "AUTH_FAILURE_SPIKE", "ROOT_LOGIN_ATTEMPT"}
Kinds == {"failure", "login", "root"}   \* any other event is as a login by day

VARIABLES
  now,          \* time.monotonic()
  ipWindow,     \* self._ip_window
  uniqueIps,    \* self._unique_ips
  failures,     \* self._failures
  lastSpike,    \* self._last_spike_alert
  log,          \* history: the events seen
  alerts        \* history: the alerts, as <<type, event>>

vars == <<now, ipWindow, uniqueIps, failures, lastSpike, log, alerts>>

Init ==
  /\ now = FirstTime
  /\ ipWindow = <<>> /\ uniqueIps = {}
  /\ failures = <<>> /\ lastSpike = 0
  /\ log = <<>> /\ alerts = {}

\* Slip: an entry leaves the window a second early.
SprayEntriesStrict(ip) ==
  EvictEntries(Append(ipWindow, [ip |-> ip, at |-> now]), now - SprayWindow + 1)

\* _check_ip_spray
SprayEntries(ip) ==
  EvictEntries(Append(ipWindow, [ip |-> ip, at |-> now]), now - SprayWindow)

Sprays(entries) == Cardinality({entries[i].ip : i \in DOMAIN entries}) >= SprayThreshold

\* _check_failure_spike
RecentFailures == Evict(Append(failures, now), now - SpikeWindow)

\* Slip: no pause between two alerts.
SpikesAtOnce(recent) == Len(recent) >= Baseline

Spikes(recent) == Len(recent) >= Baseline /\ now - lastSpike > SpikePause

\* _check_unusual_hours and _check_root_attempts
OffHoursLogin(kind) == kind = "login" /\ now \in OffHours
RootAttempt(kind) == kind = "root"

\* Each check of __call__ that finds something raises its alert.
Call(ip, kind) ==
  LET event == Len(log) + 1
      failed == kind = "failure"
      spike == failed /\ Spikes(RecentFailures)
      found == {type \in AlertTypes :
                  \/ type = "IP_SPRAY_DETECTED" /\ Sprays(SprayEntries(ip))
                  \/ type = "LOGIN_UNUSUAL_HOURS" /\ OffHoursLogin(kind)
                  \/ type = "AUTH_FAILURE_SPIKE" /\ spike
                  \/ type = "ROOT_LOGIN_ATTEMPT" /\ RootAttempt(kind)}
  IN
  /\ event <= MaxEvents
  /\ ipWindow' = SprayEntries(ip)
  /\ uniqueIps' = uniqueIps \cup {ip}
  /\ failures' = IF failed THEN RecentFailures ELSE failures
  /\ lastSpike' = IF spike THEN now ELSE lastSpike
  /\ alerts' = alerts \cup (found \X {event})
  /\ log' = Append(log, [ip |-> ip, kind |-> kind, at |-> now])
  /\ UNCHANGED now

Tick ==
  /\ now < MaxTime
  /\ now' = now + 1
  /\ UNCHANGED <<ipWindow, uniqueIps, failures, lastSpike, log, alerts>>

Next == (\E ip \in IPs, kind \in Kinds : Call(ip, kind)) \/ Tick

Spec == Init /\ [][Next]_vars

-----------------------------------------------------------------------------
(* Properties: the windows against the whole log.                          *)

Before(event, window) == {i \in 1 .. event : log[i].at + window >= log[event].at}
Spraying(event) == {log[i].ip : i \in Before(event, SprayWindow)}
FailuresBefore(event) == {i \in Before(event, SpikeWindow) : log[i].kind = "failure"}

\* Every variable stays in its type.
TypeOK ==
  /\ now \in FirstTime .. MaxTime
  /\ ipWindow \in Seq([ip : IPs, at : 0 .. MaxTime])
  /\ uniqueIps \subseteq IPs
  /\ failures \in Seq(0 .. MaxTime)
  /\ lastSpike \in 0 .. now
  /\ log \in Seq([ip : IPs, kind : Kinds, at : 0 .. MaxTime])
  /\ alerts \subseteq AlertTypes \X (1 .. Len(log))

\* Evicting as events come loses none of them: a spray is reported at exactly
\* the events that complete the threshold of addresses within the window.
SprayExact ==
  \A event \in DOMAIN log :
    <<"IP_SPRAY_DETECTED", event>> \in alerts <=> Cardinality(Spraying(event)) >= SprayThreshold

\* A spike is reported at failures with the baseline of failures in the minute
\* before them, and of these exactly when the last report is more than a pause
\* ago.  But _last_spike_alert starts at 0 on a clock that counts from boot, so
\* the first pause after a boot is silent.
ReportedAt(event) == <<"AUTH_FAILURE_SPIKE", event>> \in alerts

SpikeExact ==
  \A event \in DOMAIN log :
    ReportedAt(event) <=>
      /\ log[event].kind = "failure" /\ Cardinality(FailuresBefore(event)) >= Baseline
      /\ log[event].at > SpikePause
      /\ \A i \in 1 .. event - 1 : ReportedAt(i) => log[event].at - log[i].at > SpikePause
=============================================================================
