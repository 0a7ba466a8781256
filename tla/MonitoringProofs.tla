-------------------------- MODULE MonitoringProofs --------------------------
(***************************************************************************)
(* Theorems about the parts of the daemon that watch, each by itself, for  *)
(* every number of addresses, processes and events and any settings.       *)
(***************************************************************************)
EXTENDS Monitoring, WindowFacts, FiniteSetTheorems, FunctionTheorems

-----------------------------------------------------------------------------
(* Anomalies.                                                              *)

\* The clock never runs backwards.
LogOrdered ==
  /\ \A i, j \in DOMAIN log : i <= j => log[i].at <= log[j].at
  /\ \A i \in DOMAIN log : log[i].at <= now

\* _ip_window is the end of the log, and what it lacks is outdated.
WindowIsEndOfLog ==
  LET gone == Len(log) - Len(ipWindow) IN
  /\ gone >= 0
  /\ \A i \in DOMAIN ipWindow : ipWindow[i] = [ip |-> log[gone + i].ip, at |-> log[gone + i].at]
  /\ \A i \in 1 .. gone : log[i].at + SprayWindow < now

\* _failures has the times of the failures at these places of the log, and what it
\* lacks is outdated.
Failed == {i \in DOMAIN log : log[i].kind = "failure"}

Traces(at) ==
  /\ at \in [DOMAIN failures -> Failed]
  /\ \A i, j \in DOMAIN failures : i < j => at[i] < at[j]
  /\ \A i \in DOMAIN failures : failures[i] = log[at[i]].at
  /\ \A e \in Failed : e \in {at[i] : i \in DOMAIN failures} \/ log[e].at + SpikeWindow < now

FailuresAreOfLog == \E at \in [DOMAIN failures -> Failed] : Traces(at)

\* _last_spike_alert is 0 or the time of a report, and none is later.
LastSpikeIsLastReport ==
  /\ lastSpike = 0 \/ \E i \in DOMAIN log : ReportedAt(i) /\ log[i].at = lastSpike
  /\ \A i \in DOMAIN log : ReportedAt(i) => log[i].at <= lastSpike

AnomalyInv ==
  /\ TypeOK /\ LogOrdered /\ WindowIsEndOfLog /\ FailuresAreOfLog /\ LastSpikeIsLastReport
  /\ SprayExact /\ SpikeExact

Seen == [ip : IPs, kind : Kinds, at : 0 .. MaxTime]
Entries == [ip : IPs, at : 0 .. MaxTime]

LEMMA AnomalyConstants ==
  /\ SprayThreshold \in Nat /\ SprayWindow \in Nat /\ Baseline \in Nat /\ SpikeWindow \in Nat
  /\ SpikePause \in Nat /\ FirstTime \in Nat /\ MaxTime \in Nat /\ FirstTime <= MaxTime
  BY AnomalyAssumption DEF AnomalyAssumption

LEMMA AnomalyTypes ==
  ASSUME TypeOK
  PROVE  /\ now \in Nat /\ now \in 0 .. MaxTime /\ lastSpike \in Nat /\ lastSpike <= now
         /\ log \in Seq(Seen) /\ Len(log) \in Nat /\ DOMAIN log = 1 .. Len(log)
         /\ \A i \in 1 .. Len(log) : log[i] \in Seen /\ log[i].at \in Nat
         /\ ipWindow \in Seq(Entries) /\ Len(ipWindow) \in Nat /\ DOMAIN ipWindow = 1 .. Len(ipWindow)
         /\ \A i \in 1 .. Len(ipWindow) : ipWindow[i] \in Entries /\ ipWindow[i].at \in Nat
         /\ failures \in Seq(Nat) /\ Len(failures) \in Nat /\ DOMAIN failures = 1 .. Len(failures)
         /\ \A i \in 1 .. Len(failures) : failures[i] \in 0 .. MaxTime
<1>1. now \in Nat /\ now \in 0 .. MaxTime /\ lastSpike \in Nat /\ lastSpike <= now
  BY AnomalyConstants DEF TypeOK
<1>2. log \in Seq(Seen) /\ ipWindow \in Seq(Entries) /\ failures \in Seq(0 .. MaxTime)
  BY DEF TypeOK, Seen, Entries
<1>3. (\A x \in Seen : x.at \in Nat) /\ (\A x \in Entries : x.at \in Nat)
  BY AnomalyConstants DEF Seen, Entries
<1>4. Len(log) \in Nat /\ DOMAIN log = 1 .. Len(log) /\ \A i \in 1 .. Len(log) : log[i] \in Seen
  BY <1>2, LenProperties, ElementOfSeq
<1>5. /\ Len(ipWindow) \in Nat /\ DOMAIN ipWindow = 1 .. Len(ipWindow)
      /\ \A i \in 1 .. Len(ipWindow) : ipWindow[i] \in Entries
  BY <1>2, LenProperties, ElementOfSeq
<1>6. /\ failures \in Seq(Nat) /\ Len(failures) \in Nat /\ DOMAIN failures = 1 .. Len(failures)
      /\ \A i \in 1 .. Len(failures) : failures[i] \in 0 .. MaxTime
  BY <1>2, AnomalyConstants
<1> QED
  BY <1>1, <1>2, <1>3, <1>4, <1>5, <1>6

LEMMA InitAnomaly == Init => AnomalyInv
<1> SUFFICES ASSUME Init PROVE AnomalyInv
  OBVIOUS
<1>1. log = <<>> /\ failures = <<>> /\ ipWindow = <<>> /\ DOMAIN log = {} /\ DOMAIN failures = {}
      /\ DOMAIN ipWindow = {}
  BY DEF Init
<1>2. TypeOK
  BY AnomalyConstants DEF Init, TypeOK
<1>3. FailuresAreOfLog
  <2> DEFINE none == [i \in {} |-> 0]
  <2>1. none \in [DOMAIN failures -> Failed] /\ Failed = {}
    BY <1>1 DEF Failed
  <2>2. Traces(none)
    BY <1>1, <2>1 DEF Traces
  <2> QED
    BY <2>1, <2>2 DEF FailuresAreOfLog
<1>4. LogOrdered /\ LastSpikeIsLastReport /\ SprayExact /\ SpikeExact
  BY <1>1 DEF LogOrdered, LastSpikeIsLastReport, SprayExact, SpikeExact, Init
<1>5. WindowIsEndOfLog
  BY <1>1 DEF WindowIsEndOfLog
<1> QED
  BY <1>2, <1>3, <1>4, <1>5 DEF AnomalyInv

\* With the clock alone, more is outdated.
LEMMA TickAnomaly ==
  ASSUME AnomalyInv, Tick
  PROVE  AnomalyInv'
<1>1. now' = now + 1 /\ now' <= MaxTime
      /\ UNCHANGED <<ipWindow, uniqueIps, failures, lastSpike, log, alerts>>
  BY AnomalyTypes, AnomalyConstants DEF Tick, AnomalyInv
<1> USE DEF AnomalyInv
<1>2. TypeOK'
  BY <1>1, AnomalyConstants DEF TypeOK
<1>3. LogOrdered'
  BY <1>1, AnomalyTypes DEF LogOrdered
<1>4. WindowIsEndOfLog'
  BY <1>1, AnomalyTypes, AnomalyConstants DEF WindowIsEndOfLog
<1>5. FailuresAreOfLog'
  <2>1. PICK at \in [DOMAIN failures -> Failed] : Traces(at)
    BY DEF FailuresAreOfLog
  <2>2. Failed' = Failed
    BY <1>1 DEF Failed
  <2>3. at \in [DOMAIN failures' -> Failed']
    BY <1>1, <2>1, <2>2
  <2>4. \A i, j \in DOMAIN failures' : i < j => at[i] < at[j]
    BY <1>1, <2>1 DEF Traces
  <2>5. \A i \in DOMAIN failures' : failures'[i] = log'[at[i]].at
    BY <1>1, <2>1 DEF Traces
  <2>6. ASSUME NEW e \in Failed'
        PROVE  e \in {at[i] : i \in DOMAIN failures'} \/ log'[e].at + SpikeWindow < now'
    <3>1. e \in Failed /\ log[e].at \in Nat
      BY <2>2, <2>6, AnomalyTypes DEF Failed
    <3>2. CASE e \in {at[i] : i \in DOMAIN failures}
      BY <1>1, <3>2
    <3>3. CASE log[e].at + SpikeWindow < now
      BY <1>1, <3>1, <3>3, AnomalyTypes, AnomalyConstants
    <3>4. e \in {at[i] : i \in DOMAIN failures} \/ log[e].at + SpikeWindow < now
      BY <2>1, <3>1 DEF Traces
    <3> QED
      BY <3>2, <3>3, <3>4
  <2>7. Traces(at)'
    BY <2>3, <2>4, <2>5, <2>6 DEF Traces
  <2> QED
    BY <2>3, <2>7 DEF FailuresAreOfLog
<1>6. LastSpikeIsLastReport'
  BY <1>1 DEF LastSpikeIsLastReport, ReportedAt
<1>7. SprayExact' /\ SpikeExact'
  BY <1>1 DEF SprayExact, SpikeExact, Spraying, FailuresBefore, Before, ReportedAt
<1> QED
  BY <1>2, <1>3, <1>4, <1>5, <1>6, <1>7

\* What an event adds to the log.
LEMMA CallAppends ==
  ASSUME TypeOK, NEW ip \in IPs, NEW kind \in Kinds, Call(ip, kind)
  PROVE  LET event == Len(log) + 1 IN
         /\ now' = now /\ event \in Nat /\ Len(log') = event /\ DOMAIN log' = 1 .. event
         /\ log' \in Seq(Seen)
         /\ \A i \in 1 .. Len(log) : log'[i] = log[i]
         /\ log'[event] = [ip |-> ip, kind |-> kind, at |-> now]
         /\ \A i \in 1 .. event : log'[i] \in Seen /\ log'[i].at \in Nat
<1>1. now' = now /\ log' = Append(log, [ip |-> ip, kind |-> kind, at |-> now])
  BY DEF Call
<1>2. [ip |-> ip, kind |-> kind, at |-> now] \in Seen /\ (\A x \in Seen : x.at \in Nat)
  BY AnomalyTypes, AnomalyConstants DEF Seen
<1>3. /\ log' \in Seq(Seen) /\ Len(log') = Len(log) + 1
      /\ \A i \in 1 .. Len(log) : log'[i] = log[i]
      /\ log'[Len(log) + 1] = [ip |-> ip, kind |-> kind, at |-> now]
  BY <1>1, <1>2, AnomalyTypes, AppendProperties
<1>4. DOMAIN log' = 1 .. Len(log) + 1 /\ \A i \in 1 .. Len(log) + 1 : log'[i] \in Seen
  BY <1>3, LenProperties, ElementOfSeq
<1> QED
  BY <1>1, <1>2, <1>3, <1>4, AnomalyTypes

\* ... and the alerts it raises.
LEMMA CallAlerts ==
  ASSUME TypeOK, NEW ip \in IPs, NEW kind \in Kinds, Call(ip, kind)
  PROVE  LET event == Len(log) + 1
             failed == kind = "failure"
         IN
         /\ \A type \in AlertTypes, i \in 1 .. Len(log) : <<type, i>> \in alerts' <=> <<type, i>> \in alerts
         /\ <<"IP_SPRAY_DETECTED", event>> \in alerts' <=> Sprays(SprayEntries(ip))
         /\ <<"AUTH_FAILURE_SPIKE", event>> \in alerts' <=> failed /\ Spikes(RecentFailures)
         /\ alerts' \subseteq AlertTypes \X (1 .. event)
<1> DEFINE event == Len(log) + 1
           failed == kind = "failure"
           found == {type \in AlertTypes :
                       \/ type = "IP_SPRAY_DETECTED" /\ Sprays(SprayEntries(ip))
                       \/ type = "LOGIN_UNUSUAL_HOURS" /\ OffHoursLogin(kind)
                       \/ type = "AUTH_FAILURE_SPIKE" /\ failed /\ Spikes(RecentFailures)
                       \/ type = "ROOT_LOGIN_ATTEMPT" /\ RootAttempt(kind)}
<1>1. alerts' = alerts \cup (found \X {event})
  BY DEF Call
<1>2. /\ "IP_SPRAY_DETECTED" \in found <=> Sprays(SprayEntries(ip))
      /\ "AUTH_FAILURE_SPIKE" \in found <=> failed /\ Spikes(RecentFailures)
      /\ found \subseteq AlertTypes
  BY DEF AlertTypes
<1>3. alerts \subseteq AlertTypes \X (1 .. Len(log)) /\ Len(log) \in Nat
  BY AnomalyTypes DEF TypeOK
<1> HIDE DEF found, failed
<1>4. \A type : <<type, event>> \notin alerts
  BY <1>3
<1>5. \A type \in AlertTypes, i \in 1 .. Len(log) : <<type, i>> \notin found \X {event}
  BY <1>3
<1>6. alerts' \subseteq AlertTypes \X (1 .. event)
  BY <1>1, <1>2, <1>3
<1>7. \A type : <<type, event>> \in alerts' <=> type \in found
  BY <1>1, <1>4
<1>8. \A type \in AlertTypes, i \in 1 .. Len(log) : <<type, i>> \in alerts' <=> <<type, i>> \in alerts
  BY <1>1, <1>5
<1> QED
  BY <1>2, <1>6, <1>7, <1>8 DEF failed

LEMMA CallOrdered ==
  ASSUME AnomalyInv, NEW ip \in IPs, NEW kind \in Kinds, Call(ip, kind)
  PROVE  LogOrdered'
<1> DEFINE event == Len(log) + 1
<1>1. TypeOK /\ LogOrdered
  BY DEF AnomalyInv
<1>2. /\ now' = now /\ DOMAIN log' = 1 .. event /\ event \in Nat
      /\ \A i \in 1 .. Len(log) : log'[i] = log[i]
      /\ log'[event].at = now
  <2>1. log'[event] = [ip |-> ip, kind |-> kind, at |-> now]
    BY <1>1, CallAppends
  <2>2. log'[event].at = now
    BY <2>1
  <2> HIDE DEF event
  <2> QED
    BY <1>1, <2>2, CallAppends DEF event
<1>3. /\ Len(log) \in Nat /\ DOMAIN log = 1 .. Len(log) /\ now \in Nat
      /\ \A i \in 1 .. Len(log) : log[i].at \in Nat
  BY <1>1, AnomalyTypes
<1>4. \A i \in 1 .. event : log'[i].at <= now
  BY <1>1, <1>2, <1>3 DEF LogOrdered
<1>5. ASSUME NEW i \in 1 .. event, NEW j \in 1 .. event, i <= j
      PROVE  log'[i].at <= log'[j].at
  <2>1. CASE j = event
    BY <1>2, <1>4, <2>1
  <2>2. CASE j # event
    <3>1. i \in 1 .. Len(log) /\ j \in 1 .. Len(log)
      BY <1>3, <1>5, <2>2
    <3> QED
      BY <1>1, <1>2, <1>3, <1>5, <3>1 DEF LogOrdered
  <2> QED
    BY <2>1, <2>2
<1> HIDE DEF event
<1> QED
  BY <1>2, <1>4, <1>5 DEF LogOrdered

\* What the event leaves in _ip_window is what the log has within the window.
LEMMA CallWindow ==
  ASSUME AnomalyInv, NEW ip \in IPs, NEW kind \in Kinds, Call(ip, kind)
  PROVE  /\ WindowIsEndOfLog' /\ ipWindow' \in Seq(Entries)
         /\ {ipWindow'[i].ip : i \in DOMAIN ipWindow'} = Spraying(Len(log))'
<1> DEFINE event == Len(log) + 1
           entry == [ip |-> ip, at |-> now]
           longer == Append(ipWindow, entry)
           cutoff == now - SprayWindow
           kept == EvictEntries(longer, cutoff)
           gone == Len(log) - Len(ipWindow)
           left == Len(longer) - Len(kept)
           all == gone + left
<1>1. TypeOK /\ WindowIsEndOfLog /\ LogOrdered'
  BY CallOrdered DEF AnomalyInv
<1>2. /\ now' = now /\ event \in Nat /\ Len(log') = event /\ DOMAIN log' = 1 .. event
      /\ \A i \in 1 .. Len(log) : log'[i] = log[i]
      /\ log'[event] = [ip |-> ip, kind |-> kind, at |-> now]
      /\ \A i \in 1 .. event : log'[i].at \in Nat
  BY <1>1, CallAppends
<1>3. /\ Len(log) \in Nat /\ now \in Nat /\ now \in 0 .. MaxTime /\ SprayWindow \in Nat
      /\ ipWindow \in Seq(Entries) /\ Len(ipWindow) \in Nat /\ DOMAIN ipWindow = 1 .. Len(ipWindow)
  BY <1>1, AnomalyTypes, AnomalyConstants
<1>4. entry \in Entries /\ \A x \in Entries : x.at \in Nat
  BY <1>3, AnomalyConstants DEF Entries
<1>5. /\ longer \in Seq(Entries) /\ Len(longer) = Len(ipWindow) + 1
      /\ \A i \in 1 .. Len(ipWindow) : longer[i] = ipWindow[i]
      /\ longer[Len(ipWindow) + 1] = entry
  BY <1>3, <1>4, AppendProperties
<1>6. /\ gone \in Nat
      /\ \A i \in 1 .. Len(ipWindow) :
           ipWindow[i] = [ip |-> log[gone + i].ip, at |-> log[gone + i].at]
      /\ \A i \in 1 .. gone : log[i].at + SprayWindow < now
  BY <1>1, <1>3 DEF WindowIsEndOfLog
<1>7. cutoff \in Int
  BY <1>3
<1>8. ipWindow' = kept
  BY DEF Call, SprayEntries
<1> HIDE DEF longer, entry, cutoff
<1>9. /\ kept \in Seq(Entries) /\ Len(kept) \in Nat /\ left \in 0 .. Len(longer)
      /\ \A i \in 1 .. Len(kept) : kept[i] = longer[left + i]
      /\ \A i \in 1 .. left : longer[i].at < cutoff
      /\ Len(kept) > 0 => kept[1].at >= cutoff
  BY <1>4, <1>5, <1>7, EvictEntriesFacts
<1>10. DOMAIN kept = 1 .. Len(kept)
  BY <1>9, LenProperties
<1> HIDE DEF kept, gone, left
\* the deque with the new entry is the end of the new log
<1>11. ASSUME NEW i \in 1 .. Len(longer)
       PROVE  /\ longer[i] = [ip |-> log'[gone + i].ip, at |-> log'[gone + i].at]
              /\ longer[i].ip = log'[gone + i].ip /\ longer[i].at = log'[gone + i].at
              /\ gone + i \in 1 .. event
  <2>0. gone = Len(log) - Len(ipWindow)
    BY DEF gone
  <2>1. CASE i = Len(ipWindow) + 1
    <3>1. gone + i = event
      BY <1>3, <2>0, <2>1
    <3> QED
      BY <1>2, <1>5, <2>1, <3>1 DEF entry
  <2>2. CASE i # Len(ipWindow) + 1
    <3>1. i \in 1 .. Len(ipWindow) /\ gone + i \in 1 .. Len(log)
      BY <1>3, <1>5, <1>6, <2>0, <2>2
    <3> QED
      BY <1>2, <1>3, <1>5, <1>6, <3>1
  <2> QED
    BY <2>1, <2>2
<1>12. all = Len(log') - Len(kept) /\ all \in 0 .. event
  BY <1>2, <1>3, <1>5, <1>6, <1>9 DEF gone, left
<1> HIDE DEF all
<1>13. ASSUME NEW i \in 1 .. Len(kept)
       PROVE  /\ kept[i] = [ip |-> log'[all + i].ip, at |-> log'[all + i].at]
              /\ kept[i].ip = log'[all + i].ip /\ kept[i].at = log'[all + i].at
              /\ all + i \in 1 .. event
  <2>1. left + i \in 1 .. Len(longer) /\ gone + (left + i) = all + i
    BY <1>6, <1>9 DEF left, all
  <2> QED
    BY <1>9, <1>11, <2>1
<1>14. ASSUME NEW i \in 1 .. all
       PROVE  log'[i].at + SprayWindow < now
  <2>1. CASE i <= gone
    <3>1. i \in 1 .. gone /\ i \in 1 .. Len(log)
      BY <1>3, <1>6, <2>1 DEF gone
    <3> QED
      BY <1>2, <1>6, <3>1
  <2>2. CASE i > gone
    <3>1. i - gone \in 1 .. left /\ i - gone \in 1 .. Len(longer) /\ gone + (i - gone) = i
      BY <1>6, <1>9, <1>12, <2>2 DEF all
    <3>2. longer[i - gone].at < cutoff /\ longer[i - gone].at = log'[i].at
      BY <1>9, <1>11, <3>1
    <3>3. i \in 1 .. event
      BY <1>12
    <3> QED
      BY <1>2, <1>3, <3>2, <3>3 DEF cutoff
  <2> QED
    BY <1>6, <1>12, <2>1, <2>2
<1>15. WindowIsEndOfLog'
  BY <1>2, <1>8, <1>10, <1>12, <1>13, <1>14 DEF WindowIsEndOfLog
\* what is left is within the window
<1>16. ASSUME NEW i \in all + 1 .. event
       PROVE  log'[i].at + SprayWindow >= now
  <2>1. 1 \in 1 .. Len(kept) /\ Len(kept) > 0 /\ all + 1 \in 1 .. event /\ i \in 1 .. event
    BY <1>2, <1>9, <1>12
  <2>2. kept[1].at >= cutoff /\ kept[1].at = log'[all + 1].at
    BY <1>9, <1>13, <2>1
  <2>3. log'[all + 1].at <= log'[i].at
    <3>1. all + 1 <= i
      BY <1>12
    <3>2. all + 1 \in DOMAIN log' /\ i \in DOMAIN log'
      BY <1>2, <2>1
    <3> QED
      BY <1>1, <3>1, <3>2 DEF LogOrdered
  <2> QED
    BY <1>2, <1>3, <2>1, <2>2, <2>3 DEF cutoff
<1>17. Before(Len(log), SprayWindow)' = all + 1 .. event
  <2>1. Before(Len(log), SprayWindow)' = {i \in 1 .. event : log'[i].at + SprayWindow >= now}
    BY <1>2 DEF Before
  <2>2. \A i \in 1 .. event : i \in 1 .. all \/ i \in all + 1 .. event
    BY <1>12
  <2>3. \A i \in 1 .. all : ~ (log'[i].at + SprayWindow >= now)
    <3> SUFFICES ASSUME NEW i \in 1 .. all PROVE ~ (log'[i].at + SprayWindow >= now)
      OBVIOUS
    <3>1. i \in 1 .. event
      BY <1>12
    <3> QED
      BY <1>2, <1>3, <1>14, <3>1
  <2>4. \A i \in all + 1 .. event : i \in 1 .. event
    BY <1>12
  <2> QED
    BY <1>16, <2>1, <2>2, <2>3, <2>4
<1>18. {kept[i].ip : i \in 1 .. Len(kept)} = {log'[i].ip : i \in all + 1 .. event}
  <2>1. ASSUME NEW i \in all + 1 .. event
        PROVE  i - all \in 1 .. Len(kept) /\ all + (i - all) = i
    BY <1>2, <1>9, <1>12
  <2>2. ASSUME NEW i \in 1 .. Len(kept)
        PROVE  all + i \in all + 1 .. event
    <3>1. all + i \in 1 .. event /\ all \in Int /\ i >= 1
      BY <1>2, <1>12, <1>13
    <3> QED
      BY <3>1
  <2>3. \A i \in 1 .. Len(kept) : kept[i].ip = log'[all + i].ip
    BY <1>13
  <2>4. \A i \in all + 1 .. event : kept[i - all].ip = log'[i].ip
    BY <2>1, <2>3
  <2> QED
    BY <2>1, <2>2, <2>3, <2>4
<1>19. Spraying(Len(log))' = {log'[i].ip : i \in all + 1 .. event}
  BY <1>17 DEF Spraying
<1> QED
  BY <1>8, <1>9, <1>10, <1>15, <1>18, <1>19

LEMMA CallSpray ==
  ASSUME AnomalyInv, NEW ip \in IPs, NEW kind \in Kinds, Call(ip, kind)
  PROVE  SprayExact'
<1> DEFINE event == Len(log) + 1
<1>1. TypeOK /\ SprayExact
  BY DEF AnomalyInv
<1>2. /\ DOMAIN log' = 1 .. event /\ Len(log') = event /\ event \in Nat
      /\ \A i \in 1 .. Len(log) : log'[i] = log[i]
  BY <1>1, CallAppends
<1>3. DOMAIN log = 1 .. Len(log) /\ Len(log) \in Nat
  BY <1>1, AnomalyTypes
\* an earlier event looks back at what it looked back at
<1>4. ASSUME NEW i \in 1 .. Len(log)
      PROVE  Spraying(i)' = Spraying(i)
  BY <1>2, <1>3 DEF Spraying, Before
<1>5. \A i \in 1 .. Len(log) :
        <<"IP_SPRAY_DETECTED", i>> \in alerts' <=> <<"IP_SPRAY_DETECTED", i>> \in alerts
  BY <1>1, CallAlerts DEF AlertTypes
<1>6. ASSUME NEW i \in 1 .. Len(log)
      PROVE  <<"IP_SPRAY_DETECTED", i>> \in alerts' <=> Cardinality(Spraying(i)') >= SprayThreshold
  BY <1>1, <1>3, <1>4, <1>5 DEF SprayExact
<1>7. <<"IP_SPRAY_DETECTED", event>> \in alerts'
      <=> Cardinality(Spraying(Len(log))') >= SprayThreshold
  <2>1. <<"IP_SPRAY_DETECTED", event>> \in alerts' <=> Sprays(SprayEntries(ip))
    BY <1>1, CallAlerts
  <2>2. ipWindow' = SprayEntries(ip)
    BY DEF Call
  <2>3. Sprays(ipWindow') <=> Cardinality({ipWindow'[i].ip : i \in DOMAIN ipWindow'}) >= SprayThreshold
    BY DEF Sprays
  <2>4. {ipWindow'[i].ip : i \in DOMAIN ipWindow'} = Spraying(Len(log))'
    BY CallWindow
  <2> QED
    BY <2>1, <2>2, <2>3, <2>4
<1> QED
  <2> SUFFICES ASSUME NEW i \in 1 .. event
               PROVE  (<<"IP_SPRAY_DETECTED", i>> \in alerts <=> Cardinality(Spraying(i)) >= SprayThreshold)'
    BY <1>2 DEF SprayExact
  <2>1. CASE i = event
    <3>1. Spraying(Len(log))' = Spraying(i)'
      BY <1>2, <2>1 DEF Spraying, Before
    <3> QED
      BY <1>7, <2>1, <3>1
  <2>2. CASE i # event
    <3>1. i \in 1 .. Len(log)
      BY <1>3, <2>2
    <3> QED
      BY <1>6, <3>1
  <2> QED
    BY <2>1, <2>2

\* What a failure leaves in _failures is as many times as the log has failures
\* within the minute.
LEMMA FailureCounted ==
  ASSUME AnomalyInv, NEW ip \in IPs, Call(ip, "failure")
  PROVE  /\ FailuresAreOfLog' /\ failures' \in Seq(0 .. MaxTime)
         /\ Cardinality(FailuresBefore(Len(log))') = Len(RecentFailures)
<1> DEFINE event == Len(log) + 1
           longer == Append(failures, now)
           cutoff == now - SpikeWindow
           kept == Evict(longer, cutoff)
           k == FirstKept(longer, cutoff)
<1>1. TypeOK /\ LogOrdered' /\ "failure" \in Kinds
  BY CallOrdered DEF AnomalyInv, Kinds
<1>2. /\ now' = now /\ event \in Nat /\ Len(log') = event /\ DOMAIN log' = 1 .. event
      /\ \A i \in 1 .. Len(log) : log'[i] = log[i]
      /\ log'[event] = [ip |-> ip, kind |-> "failure", at |-> now]
      /\ \A i \in 1 .. event : log'[i].at \in Nat
  BY <1>1, CallAppends
<1>3. /\ Len(log) \in Nat /\ DOMAIN log = 1 .. Len(log)
      /\ now \in Nat /\ now \in 0 .. MaxTime /\ SpikeWindow \in Nat
      /\ failures \in Seq(Nat) /\ Len(failures) \in Nat /\ DOMAIN failures = 1 .. Len(failures)
      /\ \A i \in 1 .. Len(failures) : failures[i] \in 0 .. MaxTime
  BY <1>1, AnomalyTypes, AnomalyConstants
<1>4. PICK at \in [DOMAIN failures -> Failed] : Traces(at)
  BY DEF AnomalyInv, FailuresAreOfLog
<1>5. /\ longer \in Seq(Nat) /\ Len(longer) = Len(failures) + 1
      /\ \A i \in 1 .. Len(failures) : longer[i] = failures[i]
      /\ longer[Len(failures) + 1] = now
      /\ \A i \in 1 .. Len(failures) + 1 : longer[i] \in 0 .. MaxTime
  BY <1>3, AppendProperties
<1>6. failures' = kept /\ RecentFailures = kept
  BY DEF Call, RecentFailures
<1>7. cutoff \in Int
  BY <1>3
<1> HIDE DEF longer
<1>8. /\ k \in 1 .. Len(longer) + 1
      /\ \A i \in 1 .. k - 1 : longer[i] < cutoff
      /\ k <= Len(longer) => longer[k] >= cutoff
  BY <1>5, <1>7, FirstKeptDefined
<1>9. /\ kept \in Seq(Nat) /\ Len(kept) = Len(longer) + 1 - k
      /\ \A i \in 1 .. Len(kept) : kept[i] = longer[i + k - 1]
  BY <1>5, <1>7, EvictIsSuffix
<1>10. Len(kept) \in Nat /\ DOMAIN kept = 1 .. Len(kept)
  BY <1>9, LenProperties
<1> HIDE DEF kept, k, cutoff
\* the places in the log of what is in the longer deque
<1> DEFINE ats == [i \in 1 .. Len(longer) |-> IF i <= Len(failures) THEN at[i] ELSE event]
<1>11. /\ \A i \in 1 .. Len(failures) : at[i] \in 1 .. Len(log) /\ log[at[i]].kind = "failure"
                                        /\ failures[i] = log[at[i]].at
       /\ \A i, j \in 1 .. Len(failures) : i < j => at[i] < at[j]
       /\ \A e \in 1 .. Len(log) : log[e].kind = "failure" =>
            (\E i \in 1 .. Len(failures) : at[i] = e) \/ log[e].at + SpikeWindow < now
  BY <1>3, <1>4 DEF Traces, Failed
<1>12. ASSUME NEW i \in 1 .. Len(longer)
       PROVE  /\ ats[i] \in 1 .. event /\ log'[ats[i]].kind = "failure"
              /\ longer[i] = log'[ats[i]].at
  <2>1. CASE i <= Len(failures)
    <3>1. i \in 1 .. Len(failures) /\ ats[i] = at[i]
      BY <1>3, <2>1
    <3> HIDE DEF ats
    <3> QED
      BY <1>2, <1>3, <1>5, <1>11, <3>1
  <2>2. CASE ~ (i <= Len(failures))
    <3>1. i = Len(failures) + 1 /\ ats[i] = event
      BY <1>3, <1>5, <2>2
    <3>2. log'[event].kind = "failure" /\ log'[event].at = now
      BY <1>2
    <3> HIDE DEF ats
    <3> QED
      BY <1>2, <1>5, <3>1, <3>2
  <2> QED
    BY <2>1, <2>2
<1>13. ASSUME NEW i \in 1 .. Len(longer), NEW j \in 1 .. Len(longer), i < j
       PROVE  ats[i] < ats[j]
  <2>1. i \in 1 .. Len(failures) /\ ats[i] = at[i]
    BY <1>3, <1>5, <1>13
  <2>2. CASE j <= Len(failures)
    <3>1. j \in 1 .. Len(failures) /\ ats[j] = at[j]
      BY <1>3, <2>2
    <3> QED
      BY <1>11, <1>13, <2>1, <3>1
  <2>3. CASE ~ (j <= Len(failures))
    <3>1. ats[j] = event
      BY <2>3
    <3> QED
      BY <1>3, <1>11, <2>1, <3>1
  <2> QED
    BY <2>2, <2>3
<1>14. ASSUME NEW e \in 1 .. event, log'[e].kind = "failure"
       PROVE  (\E i \in 1 .. Len(longer) : ats[i] = e) \/ log'[e].at + SpikeWindow < now
  <2>1. CASE e = event
    <3>1. Len(failures) + 1 \in 1 .. Len(longer) /\ ats[Len(failures) + 1] = event
      BY <1>3, <1>5
    <3> HIDE DEF ats
    <3> QED
      BY <2>1, <3>1
  <2>2. CASE e # event
    <3>1. e \in 1 .. Len(log) /\ log'[e] = log[e]
      BY <1>2, <1>3, <2>2
    <3>2. \A i \in 1 .. Len(failures) : i \in 1 .. Len(longer) /\ ats[i] = at[i]
      BY <1>3, <1>5
    <3> HIDE DEF ats
    <3> QED
      BY <1>11, <1>14, <3>1, <3>2
  <2> QED
    BY <2>1, <2>2
<1> HIDE DEF ats
\* and of what trimming leaves
<1> DEFINE new == [i \in 1 .. Len(kept) |-> ats[i + k - 1]]
<1>15. ASSUME NEW i \in 1 .. Len(kept)
       PROVE  /\ i + k - 1 \in 1 .. Len(longer) /\ new[i] = ats[i + k - 1]
              /\ new[i] \in 1 .. event /\ log'[new[i]].kind = "failure"
              /\ kept[i] = log'[new[i]].at
  <2>1. i + k - 1 \in 1 .. Len(longer) /\ new[i] = ats[i + k - 1]
    BY <1>8, <1>9
  <2> HIDE DEF new
  <2> QED
    BY <1>9, <1>12, <2>1
<1>16. ASSUME NEW i \in 1 .. Len(kept), NEW j \in 1 .. Len(kept), i < j
       PROVE  new[i] < new[j]
  <2>1. i + k - 1 < j + k - 1
    BY <1>8, <1>16
  <2>2. i + k - 1 \in 1 .. Len(longer) /\ j + k - 1 \in 1 .. Len(longer)
        /\ new[i] = ats[i + k - 1] /\ new[j] = ats[j + k - 1]
    BY <1>15
  <2> HIDE DEF new
  <2> QED
    BY <1>13, <2>1, <2>2
<1>17. ASSUME NEW e \in 1 .. event, log'[e].kind = "failure"
       PROVE  (\E i \in 1 .. Len(kept) : new[i] = e) \/ log'[e].at + SpikeWindow < now
  <2>1. SUFFICES ASSUME NEW i \in 1 .. Len(longer), ats[i] = e
                 PROVE  (\E j \in 1 .. Len(kept) : new[j] = e) \/ log'[e].at + SpikeWindow < now
    BY <1>14, <1>17
  <2>2. CASE i < k
    <3>1. i \in 1 .. k - 1 /\ longer[i] = log'[e].at
      BY <1>8, <1>12, <2>1, <2>2
    <3> QED
      BY <1>2, <1>3, <1>8, <3>1 DEF cutoff
  <2>3. CASE ~ (i < k)
    <3>1. i - k + 1 \in 1 .. Len(kept) /\ (i - k + 1) + k - 1 = i
      BY <1>5, <1>8, <1>9, <2>3
    <3>2. new[i - k + 1] = ats[i]
      BY <3>1
    <3> HIDE DEF new
    <3> QED
      BY <2>1, <3>1, <3>2
  <2> QED
    BY <2>2, <2>3
<1>18. new \in [1 .. Len(kept) -> Failed']
  BY <1>2, <1>15 DEF Failed
<1> HIDE DEF new
<1>19. PICK places \in [1 .. Len(kept) -> Failed'] : places = new
  BY <1>18
<1>20. FailuresAreOfLog'
  <2>1. \A e \in Failed' : e \in {places[i] : i \in DOMAIN failures'} \/ log'[e].at + SpikeWindow < now'
    BY <1>2, <1>6, <1>10, <1>17, <1>19 DEF Failed
  <2>2. \A i, j \in DOMAIN failures' : i < j => places[i] < places[j]
    BY <1>6, <1>10, <1>16, <1>19
  <2>3. \A i \in DOMAIN failures' : failures'[i] = log'[places[i]].at
    BY <1>6, <1>10, <1>15, <1>19
  <2>4. places \in [DOMAIN failures' -> Failed']
    BY <1>6, <1>10, <1>18
  <2>5. Traces(places)'
    BY <2>1, <2>2, <2>3, <2>4 DEF Traces
  <2> QED
    BY <2>4, <2>5 DEF FailuresAreOfLog
\* all of them are within the minute
<1>21. ASSUME NEW i \in 1 .. Len(kept)
       PROVE  log'[new[i]].at + SpikeWindow >= now
  <2>1. 1 \in 1 .. Len(kept) /\ k <= Len(longer) /\ 1 + k - 1 = k
    BY <1>5, <1>8, <1>9
  <2>2. kept[1] >= cutoff
    BY <1>8, <1>9, <2>1
  <2>3. kept[1] = log'[new[1]].at /\ new[1] \in 1 .. event /\ new[i] \in 1 .. event
    BY <1>15, <2>1
  <2>4. new[1] <= new[i]
    <3>1. CASE i = 1
      BY <2>3, <3>1
    <3>2. CASE i # 1
      <4>1. 1 < i
        BY <3>2
      <4>2. new[1] < new[i]
        BY <1>16, <2>1, <4>1
      <4> QED
        BY <2>3, <4>2
    <3> QED
      BY <3>1, <3>2
  <2>5. log'[new[1]].at <= log'[new[i]].at
    BY <1>1, <1>2, <2>3, <2>4 DEF LogOrdered
  <2> QED
    BY <1>2, <1>3, <2>2, <2>3, <2>5 DEF cutoff
<1>22. FailuresBefore(Len(log))' = {i \in 1 .. event : log'[i].at + SpikeWindow >= now /\ log'[i].kind = "failure"}
  <2>1. log'[Len(log')].at = now
    BY <1>2
  <2>2. Before(Len(log), SpikeWindow)' = {i \in 1 .. event : log'[i].at + SpikeWindow >= now}
    BY <1>2, <2>1 DEF Before
  <2> QED
    BY <2>2 DEF FailuresBefore
<1> DEFINE found == {i \in 1 .. event : log'[i].at + SpikeWindow >= now /\ log'[i].kind = "failure"}
<1>23. \A i \in 1 .. Len(kept) : new[i] \in found
  BY <1>15, <1>21
<1>24. \A e \in found : \E i \in 1 .. Len(kept) : new[i] = e
  <2> SUFFICES ASSUME NEW e \in found PROVE \E i \in 1 .. Len(kept) : new[i] = e
    OBVIOUS
  <2>1. e \in 1 .. event /\ log'[e].kind = "failure" /\ ~ (log'[e].at + SpikeWindow < now)
    BY <1>2, <1>3
  <2> QED
    BY <1>17, <2>1
<1> HIDE DEF found
<1>25. new \in [1 .. Len(kept) -> found] /\ \A i, j \in 1 .. Len(kept) : new[i] = new[j] => i = j
  <2>1. new \in [1 .. Len(kept) -> found]
    BY <1>18, <1>23
  <2>2. ASSUME NEW i \in 1 .. Len(kept), NEW j \in 1 .. Len(kept), new[i] = new[j]
        PROVE  i = j
    <3>1. new[i] \in Int /\ new[j] \in Int
      BY <1>15
    <3>2. ~ (i < j) /\ ~ (j < i)
      BY <1>16, <2>2, <3>1
    <3> QED
      BY <3>2
  <2> QED
    BY <2>1, <2>2
<1>26. Cardinality(found) = Len(kept)
  <2>1. new \in Bijection(1 .. Len(kept), found)
    BY <1>24, <1>25 DEF Bijection, Injection, Surjection, IsInjective
  <2> QED
    BY <1>10, <2>1, FS_CountingElements DEF ExistsBijection
<1>27. kept \in Seq(0 .. MaxTime)
  <2>1. \A i \in 1 .. Len(kept) : kept[i] \in 0 .. MaxTime
    BY <1>5, <1>9, <1>15
  <2>2. kept \in [1 .. Len(kept) -> 0 .. MaxTime]
    BY <1>9, <1>10, <2>1
  <2> QED
    BY <1>10, <2>2, SeqDef
<1> QED
  BY <1>6, <1>20, <1>22, <1>26, <1>27 DEF found

LEMMA CallFailures ==
  ASSUME AnomalyInv, NEW ip \in IPs, NEW kind \in Kinds, Call(ip, kind)
  PROVE  FailuresAreOfLog' /\ failures' \in Seq(0 .. MaxTime)
<1>1. CASE kind = "failure"
  BY <1>1, FailureCounted
<1>2. CASE kind # "failure"
  <2> DEFINE event == Len(log) + 1
  <2>1. TypeOK
    BY DEF AnomalyInv
  <2>2. /\ now' = now /\ event \in Nat /\ DOMAIN log' = 1 .. event
        /\ \A i \in 1 .. Len(log) : log'[i] = log[i]
        /\ log'[event].kind = kind
    <3>1. log'[event] = [ip |-> ip, kind |-> kind, at |-> now]
      BY <2>1, CallAppends
    <3> QED
      BY <2>1, <3>1, CallAppends
  <2>3. Len(log) \in Nat /\ DOMAIN log = 1 .. Len(log)
    BY <2>1, AnomalyTypes
  <2>4. failures' = failures
    BY <1>2 DEF Call
  <2>5. Failed' = Failed /\ \A i \in Failed : log'[i] = log[i]
    BY <1>2, <2>2, <2>3 DEF Failed
  <2>6. PICK at \in [DOMAIN failures -> Failed] : Traces(at)
    BY DEF AnomalyInv, FailuresAreOfLog
  <2>7. Traces(at)'
    BY <2>2, <2>4, <2>5, <2>6 DEF Traces
  <2> QED
    BY <2>1, <2>4, <2>5, <2>7 DEF FailuresAreOfLog, TypeOK
<1> QED
  BY <1>1, <1>2

LEMMA CallSpike ==
  ASSUME AnomalyInv, NEW ip \in IPs, NEW kind \in Kinds, Call(ip, kind)
  PROVE  SpikeExact' /\ LastSpikeIsLastReport'
<1> DEFINE event == Len(log) + 1
           spike == kind = "failure" /\ Spikes(RecentFailures)
           Due == /\ now > SpikePause
                  /\ \A i \in 1 .. Len(log) : ReportedAt(i) => now - log[i].at > SpikePause
<1>1. TypeOK /\ SpikeExact /\ LastSpikeIsLastReport /\ LogOrdered
  BY DEF AnomalyInv
<1>2. /\ now' = now /\ event \in Nat /\ Len(log') = event /\ DOMAIN log' = 1 .. event
      /\ \A i \in 1 .. Len(log) : log'[i] = log[i]
      /\ log'[event] = [ip |-> ip, kind |-> kind, at |-> now]
  BY <1>1, CallAppends
<1>3. /\ Len(log) \in Nat /\ DOMAIN log = 1 .. Len(log) /\ now \in Nat
      /\ lastSpike \in Nat /\ lastSpike <= now /\ SpikePause \in Nat
      /\ \A i \in 1 .. Len(log) : log[i].at \in Nat
  BY <1>1, AnomalyTypes, AnomalyConstants
<1>4. log'[event].kind = kind /\ log'[event].at = now
  BY <1>2
<1>5. /\ \A i \in 1 .. Len(log) : ReportedAt(i)' <=> ReportedAt(i)
      /\ <<"AUTH_FAILURE_SPIKE", event>> \in alerts' <=> spike
  BY <1>1, CallAlerts DEF ReportedAt, AlertTypes
<1>6. lastSpike' = IF spike THEN now ELSE lastSpike
  BY DEF Call
\* the pause since the last report is the pause since all of them
<1>7. now - lastSpike > SpikePause <=> Due
  <2>1. ASSUME now - lastSpike > SpikePause
        PROVE  Due
    BY <1>1, <1>3, <2>1 DEF LastSpikeIsLastReport
  <2>2. ASSUME Due
        PROVE  now - lastSpike > SpikePause
    BY <1>1, <1>3, <2>2 DEF LastSpikeIsLastReport
  <2> QED
    BY <2>1, <2>2
<1>8. spike <=> /\ kind = "failure" /\ Cardinality(FailuresBefore(Len(log))') >= Baseline
                /\ Due
  <2>1. CASE kind = "failure"
    <3>1. Cardinality(FailuresBefore(Len(log))') = Len(RecentFailures)
      BY <2>1, FailureCounted
    <3> HIDE DEF Due
    <3> QED
      BY <1>7, <2>1, <3>1 DEF Spikes
  <2>2. CASE kind # "failure"
    BY <2>2
  <2> QED
    BY <2>1, <2>2
<1> HIDE DEF spike
<1>9. LastSpikeIsLastReport'
  <2>1. CASE spike
    <3>1. lastSpike' = now
      BY <1>6, <2>1
    <3>2. ReportedAt(event)' = (<<"AUTH_FAILURE_SPIKE", event'>> \in alerts')
      BY DEF ReportedAt
    <3>3. \E i \in 1 .. event : <<"AUTH_FAILURE_SPIKE", i>> \in alerts' /\ log'[i].at = lastSpike'
      BY <1>2, <1>4, <1>5, <2>1, <3>1
    <3>4. \A i \in 1 .. event : log'[i].at <= now
      BY <1>1, <1>2, <1>3, <1>4 DEF LogOrdered
    <3> QED
      BY <1>2, <3>1, <3>3, <3>4 DEF LastSpikeIsLastReport, ReportedAt
  <2>2. CASE ~spike
    <3>1. lastSpike' = lastSpike
      BY <1>6, <2>2
    <3>2. \A i \in 1 .. event : <<"AUTH_FAILURE_SPIKE", i>> \in alerts' => i \in 1 .. Len(log) /\ ReportedAt(i)
      BY <1>2, <1>3, <1>5, <2>2 DEF ReportedAt
    <3>3. lastSpike = 0 \/ \E i \in 1 .. event : <<"AUTH_FAILURE_SPIKE", i>> \in alerts' /\ log'[i].at = lastSpike
      <4>1. lastSpike = 0 \/ \E i \in 1 .. Len(log) : ReportedAt(i) /\ log[i].at = lastSpike
        BY <1>1, <1>3 DEF LastSpikeIsLastReport
      <4>2. \A i \in 1 .. Len(log) : ReportedAt(i) => <<"AUTH_FAILURE_SPIKE", i>> \in alerts'
        BY <1>5 DEF ReportedAt
      <4>3. \A i \in 1 .. Len(log) : i \in 1 .. event
        BY <1>3
      <4> QED
        BY <1>2, <4>1, <4>2, <4>3
    <3>4. \A i \in 1 .. event : <<"AUTH_FAILURE_SPIKE", i>> \in alerts' => log'[i].at <= lastSpike
      BY <1>1, <1>2, <1>3, <3>2 DEF LastSpikeIsLastReport
    <3> QED
      BY <1>2, <3>1, <3>3, <3>4 DEF LastSpikeIsLastReport, ReportedAt
  <2> QED
    BY <2>1, <2>2
<1>10. SpikeExact'
  <2> DEFINE Exact(i) ==
        ReportedAt(i) <=>
          /\ log[i].kind = "failure" /\ Cardinality(FailuresBefore(i)) >= Baseline
          /\ log[i].at > SpikePause
          /\ \A j \in 1 .. i - 1 : ReportedAt(j) => log[i].at - log[j].at > SpikePause
  <2>1. SUFFICES ASSUME NEW i \in 1 .. event
                 PROVE  Exact(i)'
    BY <1>2 DEF SpikeExact
  <2>2. CASE i # event
    <3>1. i \in 1 .. Len(log) /\ i \in Nat
      BY <1>3, <2>2
    <3>2. Exact(i)
      BY <1>1, <1>3, <3>1 DEF SpikeExact
    <3>3. FailuresBefore(i)' = FailuresBefore(i)
      BY <1>2, <1>3, <3>1 DEF FailuresBefore, Before
    <3>4. \A j \in 1 .. i - 1 : j \in 1 .. Len(log)
      BY <1>3, <3>1
    <3>5. ReportedAt(i)' <=> ReportedAt(i)
      BY <1>5, <3>1
    <3>6. \A j \in 1 .. i - 1 : (ReportedAt(j)' <=> ReportedAt(j)) /\ log'[j] = log[j]
      BY <1>2, <1>5, <3>4
    <3> QED
      BY <1>2, <3>1, <3>2, <3>3, <3>5, <3>6
  <2>3. CASE i = event
    <3>1. FailuresBefore(Len(log))' = FailuresBefore(i)'
      BY <1>2, <2>3 DEF FailuresBefore, Before
    <3>2. ReportedAt(i)' <=> spike
      BY <1>5, <2>3 DEF ReportedAt
    <3>3. 1 .. i - 1 = 1 .. Len(log)
      BY <1>3, <2>3
    <3>4. Due <=> /\ log'[i].at > SpikePause
                  /\ \A j \in 1 .. i - 1 : ReportedAt(j)' => log'[i].at - log'[j].at > SpikePause
      BY <1>2, <1>4, <1>5, <2>3, <3>3
    <3> HIDE DEF Due
    <3> QED
      BY <1>4, <1>8, <2>3, <3>1, <3>2, <3>4
  <2> QED
    BY <2>2, <2>3
<1> QED
  BY <1>9, <1>10

LEMMA CallAnomaly ==
  ASSUME AnomalyInv, NEW ip \in IPs, NEW kind \in Kinds, Call(ip, kind)
  PROVE  AnomalyInv'
<1>1. TypeOK /\ LogOrdered
  BY DEF AnomalyInv
<1>2. TypeOK'
  <2>1. /\ now' = now /\ log' \in Seq(Seen) /\ Len(log') = Len(log) + 1
        /\ alerts' \subseteq AlertTypes \X (1 .. Len(log'))
    BY <1>1, CallAppends, CallAlerts
  <2>2. ipWindow' \in Seq(Entries) /\ failures' \in Seq(0 .. MaxTime)
    BY CallWindow, CallFailures
  <2>3. uniqueIps' \subseteq IPs
    BY <1>1 DEF Call, TypeOK
  <2>4. lastSpike' \in 0 .. now /\ now \in FirstTime .. MaxTime
    BY <1>1, AnomalyTypes DEF Call, TypeOK
  <2> QED
    BY <2>1, <2>2, <2>3, <2>4 DEF TypeOK, Seen, Entries
<1> QED
  BY <1>2, CallOrdered, CallWindow, CallSpray, CallFailures, CallSpike DEF AnomalyInv

LEMMA AnomalyInvariance == Spec => []AnomalyInv
<1>1. ASSUME AnomalyInv, [Next]_vars
      PROVE  AnomalyInv'
  <2>1. CASE UNCHANGED vars
    <3>1. /\ now' = now /\ ipWindow' = ipWindow /\ uniqueIps' = uniqueIps /\ failures' = failures
          /\ lastSpike' = lastSpike /\ log' = log /\ alerts' = alerts
      BY <2>1 DEF vars
    <3>2. TypeOK' /\ LogOrdered' /\ WindowIsEndOfLog' /\ LastSpikeIsLastReport'
      BY <1>1, <3>1 DEF AnomalyInv, TypeOK, LogOrdered, WindowIsEndOfLog, LastSpikeIsLastReport, ReportedAt
    <3>3. SprayExact' /\ SpikeExact'
      BY <1>1, <3>1 DEF AnomalyInv, SprayExact, SpikeExact, Spraying, FailuresBefore, Before, ReportedAt
    <3>4. FailuresAreOfLog'
      BY <1>1, <3>1 DEF AnomalyInv, FailuresAreOfLog, Traces, Failed
    <3> QED
      BY <3>2, <3>3, <3>4 DEF AnomalyInv
  <2> QED
    BY <1>1, <2>1, CallAnomaly, TickAnomaly DEF Next
<1> QED
  BY <1>1, InitAnomaly, PTL DEF Spec

\* The windows and the log keep their types.
THEOREM AnomalyTypeCorrect == Spec => []TypeOK
<1>1. AnomalyInv => TypeOK
  BY DEF AnomalyInv
<1> QED
  BY <1>1, AnomalyInvariance, PTL

\* A deque that is trimmed only when an event comes reports a spray at exactly the
\* events that complete the threshold of addresses within the window of the log.
THEOREM SpraysAreReported == Spec => []SprayExact
<1>1. AnomalyInv => SprayExact
  BY DEF AnomalyInv
<1> QED
  BY <1>1, AnomalyInvariance, PTL

\* A spike is reported at exactly the failures with the baseline of failures in the
\* minute before, a pause after the last report and a pause after boot.
THEOREM SpikesAreReported == Spec => []SpikeExact
<1>1. AnomalyInv => SpikeExact
  BY DEF AnomalyInv
<1> QED
  BY <1>1, AnomalyInvariance, PTL

-----------------------------------------------------------------------------
(* Sessions.                                                               *)

\* What the writer thread carries out of the lock is one moment's sessions, and
\* so is what it has put into the file.
OneMoment(content) == content.count = SM!Cardinality(content.list) /\ content.list \in past

CarriesOneMoment ==
  /\ {} \in past /\ sessions \in past   \* a restart forgets all of them
  /\ writer \in {"open", "fill"} => OneMoment(data)
  /\ SM!FileIsASnapshot

LEMMA InitOneMoment == SM!Init => CarriesOneMoment
  BY DEF SM!Init, CarriesOneMoment, SM!FileIsASnapshot, SM!Missing

LEMMA NextOneMoment == CarriesOneMoment /\ [SM!Next]_SM!vars => CarriesOneMoment'
<1> SUFFICES ASSUME CarriesOneMoment, [SM!Next]_SM!vars PROVE CarriesOneMoment'
  OBVIOUS
<1> USE DEF CarriesOneMoment, OneMoment, SM!FileIsASnapshot
\* the set of sessions there have been only grows
<1>1. ASSUME NEW type, NEW id, SM!Call(type, id)
      PROVE  CarriesOneMoment'
  BY <1>1 DEF SM!Call
<1>2. CASE SM!Snapshot
  BY <1>2 DEF SM!Snapshot
<1>3. CASE SM!Open
  BY <1>3 DEF SM!Open, SM!Torn, SM!Missing
<1>4. CASE SM!Fill
  BY <1>4 DEF SM!Fill
<1>5. CASE SM!WriteError
  BY <1>5 DEF SM!WriteError
<1>6. CASE SM!Restart
  BY <1>6 DEF SM!Restart
<1>7. CASE UNCHANGED SM!vars
  BY <1>7 DEF SM!vars
<1> QED
  BY <1>1, <1>2, <1>3, <1>4, <1>5, <1>6, <1>7 DEF SM!Next, SM!Flush

\* Whatever events come, writes fail and deaths happen between the lock and the
\* file, what status reads in a whole file was true at one moment.
THEOREM SessionsFileIsASnapshot == SM!Spec => []FileIsASnapshot
<1>1. CarriesOneMoment => FileIsASnapshot
  BY DEF CarriesOneMoment, FileIsASnapshot
<1> QED
  BY <1>1, InitOneMoment, NextOneMoment, PTL DEF SM!Spec

-----------------------------------------------------------------------------
(* Statistics.                                                             *)

LEMMA StatsConstants ==
  /\ MaxTotal \in Nat /\ MaxRaised \in Nat /\ MaxStarts \in Nat
  /\ NoFile \notin Inodes /\ Recorders \subseteq Procs
  BY MonitoringAssumption DEF MonitoringAssumption, ST!StatsAssumption

\* The saver threads of two processes never run at once: whoever starts does so
\* after the one before has died.
AtMostOneRuns ==
  \A p, q \in Procs : saver[p] # "down" /\ saver[q] # "down" => p = q

LEMMA StatsFacts ==
  ASSUME ST!TypeOK
  PROVE  /\ ST!Empty \in ST!Counts /\ ST!Torn \in ST!Counts /\ ST!Empty.whole /\ ST!Empty.total = 0
         /\ \A p \in Procs : mem[p] \in ST!Counts /\ text[p] \in ST!Counts
         /\ \A i \in Inodes : disk[i] \in ST!Counts
         /\ \A c \in ST!Counts : c.total \in Nat /\ c.byIp \in Nat /\ c.whole \in BOOLEAN
         /\ ST!Saved \in ST!Counts /\ raised \in Nat
         /\ name.json \in Inodes \cup {NoFile} /\ name.tmp \in Inodes \cup {NoFile}
<1>1. ST!Empty \in ST!Counts /\ ST!Torn \in ST!Counts /\ ST!Empty.whole /\ ST!Empty.total = 0
  BY StatsConstants DEF ST!Counts, ST!Empty, ST!Torn
<1>2. /\ \A p \in Procs : mem[p] \in ST!Counts /\ text[p] \in ST!Counts
      /\ \A i \in Inodes : disk[i] \in ST!Counts
      /\ name.json \in Inodes \cup {NoFile} /\ name.tmp \in Inodes \cup {NoFile}
      /\ raised \in Nat
  BY StatsConstants DEF ST!TypeOK
<1>3. \A c \in ST!Counts : c.total \in Nat /\ c.byIp \in Nat /\ c.whole \in BOOLEAN
  BY StatsConstants DEF ST!Counts
<1>4. ST!Saved \in ST!Counts
  BY <1>1, <1>2 DEF ST!Saved
<1> QED
  BY <1>1, <1>2, <1>3, <1>4

LEMMA InitStatsType ==
  ST!Init => ST!TypeOK
<1> SUFFICES ASSUME ST!Init PROVE ST!TypeOK
  OBVIOUS
<1>1. ST!Empty \in ST!Counts /\ ST!Torn \in ST!Counts
  BY StatsConstants DEF ST!Counts, ST!Empty, ST!Torn
<1> QED
  BY <1>1, StatsConstants DEF ST!Init, ST!TypeOK

LEMMA NextStatsType ==
  ST!TypeOK /\ [ST!Next]_ST!vars => ST!TypeOK'
<1> SUFFICES ASSUME ST!TypeOK, [ST!Next]_ST!vars PROVE ST!TypeOK'
  OBVIOUS
<1>1. ASSUME NEW p \in Procs, ST!Start(p)
      PROVE  ST!TypeOK'
  <2>1. mem' \in [Procs -> ST!Counts]
    BY <1>1, StatsFacts DEF ST!Start, ST!TypeOK
  <2>2. starts' \in 0 .. MaxStarts
    BY <1>1, StatsConstants DEF ST!Start, ST!TypeOK
  <2> QED
    BY <1>1, <2>1, <2>2 DEF ST!Start, ST!TypeOK
<1>2. ASSUME NEW p \in Procs, ST!Die(p)
      PROVE  ST!TypeOK'
  BY <1>2 DEF ST!Die, ST!TypeOK
<1>3. ASSUME NEW p \in Procs, ST!Record(p)
      PROVE  ST!TypeOK'
  <2>1. mem[p] \in ST!Counts /\ mem[p].total + 1 \in 0 .. MaxTotal /\ mem[p].byIp + 1 \in 0 .. MaxTotal
    BY <1>3, StatsFacts, StatsConstants DEF ST!Record
  <2>2. ST!Incremented(mem[p]) \in ST!Counts /\ [mem[p] EXCEPT !.total = @ + 1] \in ST!Counts
    BY <2>1 DEF ST!Incremented, ST!Counts
  <2>3. mem' \in [Procs -> ST!Counts] /\ raised' \in 0 .. MaxRaised
    <3>1. CASE mem' = [mem EXCEPT ![p] = ST!Incremented(@)] /\ UNCHANGED raised
      BY <2>2, <3>1 DEF ST!TypeOK
    <3>2. CASE mem' = [mem EXCEPT ![p].total = @ + 1] /\ raised < MaxRaised /\ raised' = raised + 1
      BY <2>2, <3>2, StatsConstants DEF ST!TypeOK
    <3> QED
      BY <1>3, <3>1, <3>2 DEF ST!Record
  <2> QED
    BY <1>3, <2>3 DEF ST!Record, ST!TypeOK
<1>4. ASSUME NEW p \in Procs, ST!Snapshot(p)
      PROVE  ST!TypeOK'
  BY <1>4, StatsFacts DEF ST!Snapshot, ST!TypeOK
<1>5. ASSUME NEW p \in Procs, ST!Dump(p)
      PROVE  ST!TypeOK'
  <2>1. [text[p] EXCEPT !.byIp = mem[p].byIp] \in ST!Counts
    BY StatsFacts DEF ST!Counts
  <2>2. text' \in [Procs -> ST!Counts]
    BY <1>5, <2>1 DEF ST!Dump, ST!TypeOK
  <2> QED
    BY <1>5, <2>2 DEF ST!Dump, ST!TypeOK
<1>6. ASSUME NEW p \in Procs, ST!Open(p)
      PROVE  ST!TypeOK'
  <2>1. PICK i \in Inodes : /\ fd' = [fd EXCEPT ![p] = i]
                            /\ disk' = [disk EXCEPT ![i] = ST!Torn]
                            /\ name' = [name EXCEPT !.tmp = i]
    BY <1>6, StatsFacts DEF ST!Open
  <2>2. i # NoFile
    BY StatsConstants
  <2>3. fd' \in [Procs -> Inodes \cup {NoFile}] /\ disk' \in [Inodes -> ST!Counts]
        /\ name' \in [json : Inodes \cup {NoFile}, tmp : Inodes \cup {NoFile}]
    BY <2>1, StatsFacts DEF ST!TypeOK
  <2> QED
    BY <1>6, <2>1, <2>2, <2>3 DEF ST!Open, ST!TypeOK
<1>7. ASSUME NEW p \in Procs, ST!Write(p)
      PROVE  ST!TypeOK'
  BY <1>7, StatsFacts DEF ST!Write, ST!TypeOK
<1>8. ASSUME NEW p \in Procs, ST!Replace(p)
      PROVE  ST!TypeOK'
  <2>1. name' \in [json : Inodes \cup {NoFile}, tmp : Inodes \cup {NoFile}]
    BY <1>8, StatsFacts DEF ST!Replace, ST!TypeOK
  <2> QED
    BY <1>8, <2>1 DEF ST!Replace, ST!TypeOK
<1>9. ASSUME NEW p \in Procs, ST!SaveError(p)
      PROVE  ST!TypeOK'
  BY <1>9 DEF ST!SaveError, ST!TypeOK
<1>10. CASE UNCHANGED ST!vars
  BY <1>10 DEF ST!vars, ST!TypeOK
<1> QED
  BY <1>1, <1>2, <1>3, <1>4, <1>5, <1>6, <1>7, <1>8, <1>9, <1>10 DEF ST!Next, ST!Save

NotOlder(c) == c.byIp + raised >= c.total

\* A snapshot's totals are not ahead of the live table, and so the table that the
\* dump adds to them is not behind.
StatsNested ==
  /\ \A p \in Procs : NotOlder(mem[p])
  /\ \A p \in Procs : saver[p] = "dump" => text[p].total <= mem[p].byIp + raised
  /\ \A p \in Procs : saver[p] \in {"open", "write"} => NotOlder(text[p])
  /\ \A i \in Inodes : NotOlder(disk[i])

\* What is in memory, or about to be written, was never read from a torn file.
StatsIntact == \A p \in Procs : mem[p].whole /\ text[p].whole

StatsInv == ST!TypeOK /\ StatsNested /\ StatsIntact

LEMMA InitStats ==
  ST!Init => StatsInv
<1> SUFFICES ASSUME ST!Init PROVE StatsInv
  OBVIOUS
<1>1. ST!TypeOK
  BY InitStatsType
<1>2. NotOlder(ST!Empty) /\ NotOlder(ST!Torn)
  BY StatsConstants DEF ST!Init, NotOlder, ST!Empty, ST!Torn
<1>3. StatsNested
  BY <1>2 DEF ST!Init, StatsNested
<1>4. StatsIntact
  BY DEF ST!Init, StatsIntact, ST!Empty
<1> QED
  BY <1>1, <1>3, <1>4 DEF StatsInv

LEMMA NextStats ==
  StatsInv /\ [ST!Next]_ST!vars => StatsNested' /\ StatsIntact'
<1> SUFFICES ASSUME ST!TypeOK, StatsNested, StatsIntact, [ST!Next]_ST!vars PROVE StatsNested' /\ StatsIntact'
  BY DEF StatsInv
<1>1. ASSUME NEW p \in Procs, ST!Start(p)
      PROVE  StatsNested' /\ StatsIntact'
  <2>1. NotOlder(ST!Saved) /\ NotOlder(ST!Empty)
    BY StatsFacts DEF StatsNested, NotOlder, ST!Saved, ST!Empty
  <2>2. \A q \in Procs : \/ mem'[q] = mem[q]
                         \/ mem'[q] = ST!Empty /\ q = p
                         \/ mem'[q] = ST!Saved /\ ST!Saved.whole /\ q = p
    BY <1>1 DEF ST!Start, ST!TypeOK
  <2>3. \A q \in Procs : NotOlder(mem[q])' /\ mem'[q].whole
    BY <1>1, <2>1, <2>2, StatsFacts DEF ST!Start, StatsNested, NotOlder, StatsIntact
  <2>4. \A q \in Procs : saver'[q] # "sleep" => saver'[q] = saver[q] /\ mem'[q] = mem[q]
    BY <1>1 DEF ST!Start, ST!TypeOK
  <2> QED
    BY <1>1, <2>3, <2>4 DEF ST!Start, StatsNested, NotOlder, StatsIntact
<1>2. ASSUME NEW p \in Procs, ST!Die(p)
      PROVE  StatsNested' /\ StatsIntact'
  BY <1>2 DEF ST!Die, StatsNested, NotOlder, StatsIntact, ST!TypeOK
<1>3. ASSUME NEW p \in Procs, ST!Record(p)
      PROVE  StatsNested' /\ StatsIntact'
  <2>1. /\ \A q \in Procs : /\ mem[q].byIp \in Nat /\ mem[q].total \in Nat
                            /\ text[q].byIp \in Nat /\ text[q].total \in Nat
        /\ \A i \in Inodes : disk[i].byIp \in Nat /\ disk[i].total \in Nat
        /\ raised \in Nat
    BY StatsFacts
  <2>2. /\ raised' \in Nat /\ raised <= raised'
        /\ \A q \in Procs : mem'[q].byIp \in Nat /\ mem[q].byIp <= mem'[q].byIp /\ mem'[q].whole
        /\ \A q \in Procs : NotOlder(mem[q])'
    <3>1. CASE mem' = [mem EXCEPT ![p] = ST!Incremented(@)] /\ UNCHANGED raised
      <4>1. /\ ST!Incremented(mem[p]).byIp = mem[p].byIp + 1
            /\ ST!Incremented(mem[p]).total = mem[p].total + 1
            /\ ST!Incremented(mem[p]).whole
        BY StatsFacts DEF ST!Incremented, ST!Counts, StatsIntact
      <4> QED
        BY <2>1, <3>1, <4>1 DEF StatsNested, NotOlder, StatsIntact, ST!TypeOK
    <3>2. CASE mem' = [mem EXCEPT ![p].total = @ + 1] /\ raised' = raised + 1
      <4>1. \A q \in Procs : /\ mem'[q].byIp = mem[q].byIp /\ mem'[q].whole
                             /\ mem'[q].total \in {mem[q].total, mem[q].total + 1}
        BY <3>2, StatsFacts DEF ST!TypeOK, ST!Counts, StatsIntact
      <4> QED
        BY <2>1, <3>2, <4>1 DEF StatsNested, NotOlder
    <3> QED
      BY <1>3, <3>1, <3>2 DEF ST!Record
  <2> QED
    BY <1>3, <2>1, <2>2 DEF ST!Record, StatsNested, NotOlder, StatsIntact
<1>4. ASSUME NEW p \in Procs, ST!Snapshot(p)
      PROVE  StatsNested' /\ StatsIntact'
  BY <1>4, StatsFacts DEF ST!Snapshot, StatsNested, NotOlder, StatsIntact, ST!TypeOK
<1>5. ASSUME NEW p \in Procs, ST!Dump(p)
      PROVE  StatsNested' /\ StatsIntact'
  <2>1. CASE text' = [text EXCEPT ![p].byIp = mem[p].byIp]
    <3>1. /\ text'[p].byIp = mem[p].byIp /\ text'[p].total = text[p].total /\ text'[p].whole
          /\ \A q \in Procs : q # p => text'[q] = text[q]
      BY <2>1, StatsFacts DEF ST!TypeOK, ST!Counts, StatsIntact
    <3>2. mem[p].byIp + raised >= text'[p].total
      BY <1>5, <3>1, StatsFacts DEF ST!Dump, StatsNested
    <3> QED
      BY <1>5, <3>1, <3>2 DEF ST!Dump, StatsNested, NotOlder, StatsIntact, ST!TypeOK
  <2>2. CASE saver' = [saver EXCEPT ![p] = "sleep"] /\ UNCHANGED text
    BY <1>5, <2>2 DEF ST!Dump, StatsNested, NotOlder, StatsIntact, ST!TypeOK
  <2> QED
    BY <1>5, <2>1, <2>2 DEF ST!Dump
<1>6. ASSUME NEW p \in Procs, ST!Open(p)
      PROVE  StatsNested' /\ StatsIntact'
  <2>1. PICK i \in Inodes : disk' = [disk EXCEPT ![i] = ST!Torn]
    BY <1>6, StatsFacts DEF ST!Open
  <2>2. NotOlder(ST!Torn)
    BY StatsFacts DEF NotOlder, ST!Torn
  <2> QED
    BY <1>6, <2>1, <2>2 DEF ST!Open, StatsNested, NotOlder, StatsIntact, ST!TypeOK
<1>7. ASSUME NEW p \in Procs, ST!Write(p)
      PROVE  StatsNested' /\ StatsIntact'
  BY <1>7 DEF ST!Write, StatsNested, NotOlder, StatsIntact, ST!TypeOK
<1>8. ASSUME NEW p \in Procs, ST!Replace(p)
      PROVE  StatsNested' /\ StatsIntact'
  BY <1>8 DEF ST!Replace, StatsNested, NotOlder, StatsIntact, ST!TypeOK
<1>9. ASSUME NEW p \in Procs, ST!SaveError(p)
      PROVE  StatsNested' /\ StatsIntact'
  BY <1>9 DEF ST!SaveError, StatsNested, NotOlder, StatsIntact, ST!TypeOK
<1>10. CASE UNCHANGED ST!vars
  BY <1>10 DEF ST!vars, StatsNested, NotOlder, StatsIntact
<1> QED
  BY <1>1, <1>2, <1>3, <1>4, <1>5, <1>6, <1>7, <1>8, <1>9, <1>10 DEF ST!Next, ST!Save

LEMMA StatsInvariance ==
  ST!Spec => []StatsInv
<1>1. StatsInv /\ [ST!Next]_ST!vars => StatsInv'
  BY NextStatsType, NextStats DEF StatsInv
<1> QED
  BY <1>1, InitStats, PTL DEF ST!Spec

\* A file under the one name is never under the other.
NamesApart == name.tmp = name.json => name.tmp = NoFile

\* Who writes, writes the file named stats.tmp; who replaces has written it.
Writing ==
  \A p \in Procs :
    /\ saver[p] = "write" => fd[p] = name.tmp
    /\ saver[p] = "replace" => name.tmp # NoFile /\ disk[name.tmp].whole

\* The totals on their way to stats.json are between the ones in stats.json and
\* the ones in memory.
Ahead ==
  \A p \in Procs :
    /\ saver[p] # "down" => mem[p].total >= ST!Saved.total
    /\ saver[p] \in {"dump", "open", "write"} =>
         text[p].total >= ST!Saved.total /\ mem[p].total >= text[p].total
    /\ saver[p] = "replace" =>
         disk[name.tmp].total >= ST!Saved.total /\ mem[p].total >= disk[name.tmp].total

AloneInv == ST!FileReadable /\ NamesApart /\ Writing /\ Ahead

LEMMA InitAlone ==
  ST!Init => AloneInv
<1> SUFFICES ASSUME ST!Init PROVE AloneInv
  OBVIOUS
<1>1. \A p \in Procs : saver[p] = "down"
  BY DEF ST!Init
<1> QED
  BY <1>1 DEF ST!Init, AloneInv, ST!FileReadable, NamesApart, Writing, Ahead

LEMMA NextAlone ==
  StatsInv /\ AloneInv /\ AtMostOneRuns /\ AtMostOneRuns' /\ [ST!Next]_ST!vars
  => /\ AloneInv'
     /\ ST!Saved'.whole => ST!Saved'.total >= ST!Saved.total
<1> SUFFICES ASSUME ST!TypeOK, StatsIntact, AloneInv, AtMostOneRuns, AtMostOneRuns', [ST!Next]_ST!vars
             PROVE  AloneInv' /\ ST!Saved'.total >= ST!Saved.total
  BY DEF StatsInv
<1> USE DEF AloneInv
<1>0. ST!Saved.total \in Nat /\ ST!Saved.whole
  BY StatsFacts DEF ST!FileReadable, ST!Saved
\* the others are down, before the step and after it
<1>1. ASSUME NEW p \in Procs, saver[p] # "down" \/ saver'[p] # "down",
             NEW q \in Procs, q # p, saver'[q] = saver[q]
      PROVE  saver'[q] = "down"
  BY <1>1 DEF AtMostOneRuns
<1>2. ASSUME NEW p \in Procs, ST!Start(p)
      PROVE  AloneInv' /\ ST!Saved' = ST!Saved
  <2>1. ST!Saved' = ST!Saved /\ saver'[p] = "sleep" /\ mem'[p] = ST!Saved
    BY <1>0, <1>2 DEF ST!Start, ST!Saved, ST!TypeOK
  <2>2. \A q \in Procs : q # p => saver'[q] = "down"
    BY <1>1, <1>2, <2>1 DEF ST!Start, ST!TypeOK
  <2> QED
    BY <1>0, <1>2, <2>1, <2>2 DEF ST!Start, ST!FileReadable, NamesApart, Writing, Ahead
<1>3. ASSUME NEW p \in Procs, ST!Die(p)
      PROVE  AloneInv' /\ ST!Saved' = ST!Saved
  <2>1. \A q \in Procs : saver'[q] = "down"
    BY <1>1, <1>3 DEF ST!Die, ST!TypeOK
  <2> QED
    BY <1>3, <2>1 DEF ST!Die, ST!FileReadable, NamesApart, Writing, Ahead, ST!Saved
<1>4. ASSUME NEW p \in Procs, ST!Record(p)
      PROVE  AloneInv' /\ ST!Saved' = ST!Saved
  <2>1. ST!Saved' = ST!Saved
    BY <1>4 DEF ST!Record, ST!Saved
  <2>2. mem'[p].total = mem[p].total + 1
    <3>1. CASE mem' = [mem EXCEPT ![p] = ST!Incremented(@)]
      BY <3>1, StatsFacts DEF ST!Incremented, ST!TypeOK, ST!Counts
    <3>2. CASE mem' = [mem EXCEPT ![p].total = @ + 1]
      BY <3>2, StatsFacts DEF ST!TypeOK, ST!Counts
    <3> QED
      BY <1>4, <3>1, <3>2 DEF ST!Record
  <2>3. \A q \in Procs : q # p => saver'[q] = "down"
    BY <1>1, <1>4 DEF ST!Record
  <2>4. ST!FileReadable' /\ NamesApart' /\ Writing'
    BY <1>4 DEF ST!Record, ST!FileReadable, NamesApart, Writing
  <2>5. /\ saver' = saver /\ text' = text /\ disk' = disk /\ name' = name
        /\ mem[p].total \in Nat /\ text[p].total \in Nat
        /\ saver[p] = "replace" => disk[name.tmp].total \in Nat
    <3>1. saver[p] = "replace" => name.tmp \in Inodes
      BY StatsFacts DEF Writing
    <3> QED
      BY <1>4, <3>1, StatsFacts DEF ST!Record
  <2>6. Ahead'
    BY <1>0, <2>1, <2>2, <2>3, <2>5 DEF Ahead
  <2> QED
    BY <2>1, <2>4, <2>6
<1>5. ASSUME NEW p \in Procs, ST!Snapshot(p)
      PROVE  AloneInv' /\ ST!Saved' = ST!Saved
  <2>1. ST!Saved' = ST!Saved /\ saver'[p] = "dump" /\ text'[p] = mem[p] /\ mem' = mem
    BY <1>5 DEF ST!Snapshot, ST!Saved, ST!TypeOK
  <2>2. \A q \in Procs : q # p => saver'[q] = "down"
    BY <1>1, <1>5 DEF ST!Snapshot, ST!TypeOK
  <2>3. ST!FileReadable' /\ NamesApart' /\ Writing'
    BY <1>5, <2>1, <2>2 DEF ST!Snapshot, ST!FileReadable, NamesApart, Writing
  <2>4. Ahead'
    <3>1. mem[p].total >= ST!Saved.total /\ mem[p].total \in Nat
      BY <1>5, StatsFacts DEF ST!Snapshot, Ahead
    <3> QED
      BY <2>1, <2>2, <3>1 DEF Ahead
  <2> QED
    BY <2>1, <2>3, <2>4
<1>6. ASSUME NEW p \in Procs, ST!Dump(p)
      PROVE  AloneInv' /\ ST!Saved' = ST!Saved
  <2>1. /\ ST!Saved' = ST!Saved /\ mem' = mem /\ saver'[p] \in {"open", "sleep"}
        /\ text'[p].total = text[p].total
    BY <1>6, StatsFacts DEF ST!Dump, ST!Saved, ST!TypeOK, ST!Counts
  <2>2. \A q \in Procs : q # p => saver'[q] = "down"
    BY <1>1, <1>6 DEF ST!Dump, ST!TypeOK
  <2> QED
    BY <1>6, <2>1, <2>2 DEF ST!Dump, ST!FileReadable, NamesApart, Writing, Ahead
<1>7. ASSUME NEW p \in Procs, ST!Open(p)
      PROVE  AloneInv' /\ ST!Saved' = ST!Saved
  <2>1. PICK i \in Inodes : /\ i = name.tmp \/ i # name.json
                            /\ fd' = [fd EXCEPT ![p] = i]
                            /\ disk' = [disk EXCEPT ![i] = ST!Torn]
                            /\ name' = [name EXCEPT !.tmp = i]
    BY <1>7, StatsFacts DEF ST!Open
  <2>2. i # NoFile /\ i # name.json /\ name'.json = name.json /\ name'.tmp = i
    BY <2>1, StatsConstants DEF NamesApart, ST!TypeOK
  <2>3. name.json # NoFile => disk'[name.json] = disk[name.json]
    BY <2>1, <2>2, StatsFacts DEF ST!TypeOK
  <2>4. ST!Saved' = ST!Saved /\ ST!FileReadable' /\ NamesApart'
    BY <2>2, <2>3 DEF ST!Saved, ST!FileReadable, NamesApart
  <2>5. saver'[p] = "write" /\ fd'[p] = i /\ saver[p] = "open"
    BY <1>7, <2>1 DEF ST!Open, ST!TypeOK
  <2>6. \A q \in Procs : q # p => saver'[q] = "down"
    BY <1>1, <1>7 DEF ST!Open, ST!TypeOK
  <2> QED
    BY <1>7, <2>2, <2>4, <2>5, <2>6 DEF ST!Open, Writing, Ahead
<1>8. ASSUME NEW p \in Procs, ST!Write(p)
      PROVE  AloneInv' /\ ST!Saved' = ST!Saved
  <2>1. name' = name /\ name.tmp \in Inodes /\ name.tmp # NoFile /\ name.tmp # name.json
        /\ disk' = [disk EXCEPT ![name.tmp] = text[p]] /\ saver[p] = "write"
    BY <1>8, StatsConstants, StatsFacts DEF ST!Write, Writing, NamesApart, ST!TypeOK
  <2>2. disk'[name.tmp] = text[p] /\ (name.json # NoFile => disk'[name.json] = disk[name.json])
    BY <2>1, StatsFacts DEF ST!TypeOK
  <2>3. ST!Saved' = ST!Saved /\ ST!FileReadable' /\ NamesApart'
    BY <2>1, <2>2 DEF ST!Saved, ST!FileReadable, NamesApart
  <2>4. saver'[p] = "replace" /\ mem' = mem
    BY <1>8 DEF ST!Write, ST!TypeOK
  <2>5. \A q \in Procs : q # p => saver'[q] = "down"
    BY <1>1, <1>8 DEF ST!Write, ST!TypeOK
  <2> QED
    BY <2>1, <2>2, <2>3, <2>4, <2>5 DEF Writing, Ahead, StatsIntact
<1>9. ASSUME NEW p \in Procs, ST!Replace(p)
      PROVE  AloneInv' /\ ST!Saved'.total >= ST!Saved.total
  <2>1. /\ saver[p] = "replace" /\ name.tmp # NoFile /\ disk[name.tmp].whole
        /\ name'.json = name.tmp /\ name'.tmp = NoFile /\ disk' = disk /\ mem' = mem
    BY <1>9 DEF ST!Replace, Writing
  <2>2. ST!Saved' = disk[name.tmp] /\ ST!Saved'.total >= ST!Saved.total
    BY <2>1 DEF ST!Saved, Ahead
  <2>3. ST!FileReadable' /\ NamesApart'
    BY <2>1 DEF ST!FileReadable, NamesApart
  <2>4. saver'[p] = "sleep" /\ mem'[p].total >= ST!Saved'.total
    BY <1>9, <2>1, <2>2 DEF ST!Replace, Ahead, ST!TypeOK
  <2>5. \A q \in Procs : q # p => saver'[q] = "down"
    BY <1>1, <1>9 DEF ST!Replace, ST!TypeOK
  <2> QED
    BY <2>2, <2>3, <2>4, <2>5 DEF Writing, Ahead
<1>10. ASSUME NEW p \in Procs, ST!SaveError(p)
       PROVE  AloneInv' /\ ST!Saved' = ST!Saved
  <2>1. /\ ST!Saved' = ST!Saved /\ saver'[p] = "sleep"
        /\ UNCHANGED <<mem, text, disk, name>>
    BY <1>10 DEF ST!SaveError, ST!Saved, ST!TypeOK
  <2>2. \A q \in Procs : q # p => saver'[q] = "down"
    BY <1>1, <1>10 DEF ST!SaveError, ST!TypeOK
  <2>3. saver[p] \in {"open", "write"}
    BY <1>10 DEF ST!SaveError
  <2> QED
    BY <2>1, <2>2, <2>3 DEF ST!FileReadable, NamesApart, Writing, Ahead
<1>11. CASE UNCHANGED ST!vars
  BY <1>0, <1>11 DEF ST!vars, ST!FileReadable, NamesApart, Writing, Ahead, ST!Saved
<1> QED
  BY <1>0, <1>2, <1>3, <1>4, <1>5, <1>6, <1>7, <1>8, <1>9, <1>10, <1>11 DEF ST!Next, ST!Save

-----------------------------------------------------------------------------

\* Every variable of every process, and every file, stays in its type.
THEOREM StatsTypeCorrect ==
  ST!Spec => []ST!TypeOK
  BY StatsInvariance, PTL DEF StatsInv

\* The file mixes two instants, but its per-address table is never the older part,
\* for any number of processes that save through one stats.tmp.
THEOREM TableNotOlder ==
  ST!Spec => []NestedNotOlder
<1>1. StatsInv => NestedNotOlder
  <2> SUFFICES ASSUME StatsInv PROVE ST!NestedNotOlder
    BY DEF NestedNotOlder
  <2>1. name.json # NoFile => name.json \in Inodes
    BY StatsFacts DEF StatsInv
  <2> QED
    BY <2>1 DEF StatsInv, StatsNested, NotOlder, ST!NestedNotOlder
<1> QED
  BY <1>1, StatsInvariance, PTL

\* Wherever a process dies while it saves, the next one can load stats.json, as
\* long as no second process runs beside it.
THEOREM FileStaysReadable ==
  ST!Spec /\ []AtMostOneRuns => []FileReadable
<1>1. AloneInv => FileReadable
  BY DEF AloneInv, FileReadable
<1> QED
  BY <1>1, InitAlone, NextAlone, StatsInvariance, PTL DEF ST!Spec

\* A count that stats.json holds does not leave it again, through any number of
\* crashes and restarts, as long as no second process runs beside the saver's.
THEOREM CountsAreKept ==
  ST!Spec /\ []AtMostOneRuns => CountsStayPersisted
<1>1. StatsInv /\ AloneInv /\ AtMostOneRuns /\ AtMostOneRuns' /\ [ST!Next]_ST!vars
      => AloneInv' /\ [ST!Saved'.whole => ST!Saved'.total >= ST!Saved.total]_ST!vars
  BY NextAlone
<1> QED
  BY <1>1, InitAlone, StatsInvariance, PTL DEF ST!Spec, ST!CountsStayPersisted, CountsStayPersisted

-----------------------------------------------------------------------------
(* Knocks.                                                                 *)

\* Knocks are recorded as they come.
RecordedInOrder(all) ==
  /\ \A i, j \in DOMAIN all : i <= j => all[i].at <= all[j].at
  /\ \A i \in DOMAIN all : all[i].at <= knockClock

\* The progress of an address is the end of what is recorded for it.  What it lacks
\* is outdated, or was there when the sequence was last completed.
IsEndOf(knocks, all) ==
  LET gone == Len(all) - Len(knocks) IN
  /\ gone >= 0
  /\ \A i \in DOMAIN knocks : knocks[i] = all[gone + i]
  /\ \E c \in 0 .. gone :
       /\ c = 0 \/ all[c].port = KnockSequence[Len(KnockSequence)]
       /\ \A i \in c + 1 .. gone : all[i].at + Timeout < knockClock

KnocksInv ==
  /\ PK!TypeOK
  /\ \A ip \in IPs : RecordedInOrder(recorded[ip]) /\ IsEndOf(progress[ip], recorded[ip])

LEMMA KnockConstants ==
  /\ KnockSequence \in Seq(PK!Ports) /\ Len(KnockSequence) \in Nat /\ Len(KnockSequence) >= 1
  /\ DOMAIN KnockSequence = 1 .. Len(KnockSequence)
  /\ \A i, j \in 1 .. Len(KnockSequence) : KnockSequence[i] = KnockSequence[j] => i = j
  /\ \A i \in 1 .. Len(KnockSequence) : KnockSequence[i] \in PK!Ports
  /\ Timeout \in Nat /\ MaxTime \in Nat /\ CloseAfter \in Nat
<1>1. /\ KnockSequence \in Seq(PK!Ports) /\ KnockSequence # <<>>
      /\ \A i, j \in DOMAIN KnockSequence : KnockSequence[i] = KnockSequence[j] => i = j
      /\ Timeout \in Nat /\ MaxTime \in Nat /\ CloseAfter \in Nat
  BY MonitoringAssumption DEF MonitoringAssumption, PK!PortKnockerAssumption
<1>2. /\ Len(KnockSequence) \in Nat /\ DOMAIN KnockSequence = 1 .. Len(KnockSequence)
      /\ \A i \in 1 .. Len(KnockSequence) : KnockSequence[i] \in PK!Ports
  BY <1>1, LenProperties, ElementOfSeq
<1>3. Len(KnockSequence) # 0
  BY <1>1, EmptySeq
<1> QED
  BY <1>1, <1>2, <1>3

LEMMA KnocksUseWindow ==
  \A dq, c : PK!EvictEntries(dq, c) = EvictEntries(dq, c)
  BY DEF PK!EvictEntries, EvictEntries, PK!FirstKept, FirstKept, PK!Times, Times

LEMMA KnockTypes ==
  ASSUME PK!TypeOK, NEW ip \in IPs
  PROVE  /\ knockClock \in Nat /\ knockClock \in 0 .. MaxTime
         /\ recorded[ip] \in Seq(PK!Knocks) /\ progress[ip] \in Seq(PK!Knocks)
         /\ Len(recorded[ip]) \in Nat /\ DOMAIN recorded[ip] = 1 .. Len(recorded[ip])
         /\ Len(progress[ip]) \in Nat /\ DOMAIN progress[ip] = 1 .. Len(progress[ip])
         /\ \A i \in 1 .. Len(recorded[ip]) : recorded[ip][i] \in PK!Knocks /\ recorded[ip][i].at \in Nat
         /\ \A i \in 1 .. Len(progress[ip]) : progress[ip][i] \in PK!Knocks /\ progress[ip][i].at \in Nat
<1>1. knockClock \in Nat /\ knockClock \in 0 .. MaxTime
  BY KnockConstants DEF PK!TypeOK
<1>2. recorded[ip] \in Seq(PK!Knocks) /\ progress[ip] \in Seq(PK!Knocks)
  BY DEF PK!TypeOK
<1>3. \A knock \in PK!Knocks : knock.at \in Nat
  BY KnockConstants DEF PK!Knocks
<1>4. /\ Len(recorded[ip]) \in Nat /\ DOMAIN recorded[ip] = 1 .. Len(recorded[ip])
      /\ \A i \in 1 .. Len(recorded[ip]) : recorded[ip][i] \in PK!Knocks
  BY <1>2, LenProperties, ElementOfSeq
<1>5. /\ Len(progress[ip]) \in Nat /\ DOMAIN progress[ip] = 1 .. Len(progress[ip])
      /\ \A i \in 1 .. Len(progress[ip]) : progress[ip][i] \in PK!Knocks
  BY <1>2, LenProperties, ElementOfSeq
<1> QED
  BY <1>1, <1>2, <1>3, <1>4, <1>5

LEMMA InitKnocks ==
  PK!Init => KnocksInv
<1> SUFFICES ASSUME PK!Init PROVE KnocksInv
  OBVIOUS
<1>1. PK!TypeOK
  BY KnockConstants DEF PK!Init, PK!TypeOK
<1>2. ASSUME NEW ip \in IPs
      PROVE  RecordedInOrder(recorded[ip]) /\ IsEndOf(progress[ip], recorded[ip])
  <2>1. recorded[ip] = <<>> /\ progress[ip] = <<>> /\ DOMAIN <<>> = {}
    BY DEF PK!Init
  <2>2. RecordedInOrder(<<>>)
    BY <2>1 DEF RecordedInOrder
  <2>3. IsEndOf(<<>>, <<>>)
    BY <2>1 DEF IsEndOf
  <2> QED
    BY <2>1, <2>2, <2>3
<1> QED
  BY <1>1, <1>2 DEF KnocksInv

LEMMA NextSocketType ==
  ASSUME PK!TypeOK, PK!NextSocket
  PROVE  poll' \in [at : DOMAIN KnockSequence, since : 0 .. MaxTime]
<1>1. poll.at \in 1 .. Len(KnockSequence) /\ knockClock \in 0 .. MaxTime
  BY KnockConstants DEF PK!TypeOK
<1>2. (poll.at % Len(KnockSequence)) \in 0 .. Len(KnockSequence) - 1
  BY <1>1, KnockConstants
<1>3. (poll.at % Len(KnockSequence)) + 1 \in 1 .. Len(KnockSequence)
  BY <1>2, KnockConstants
<1> QED
  BY <1>1, <1>3, KnockConstants DEF PK!NextSocket

\* What the steps do that record no knock.
LEMMA QuietKnocks ==
  ASSUME KnocksInv, [PK!Next]_PK!vars, ~PK!Accept
  PROVE  /\ KnocksInv' /\ UNCHANGED <<recorded, progress>> /\ opening' \subseteq opening
<1>0. PK!TypeOK
  BY DEF KnocksInv
<1> DEFINE Quiet ==
      /\ PK!TypeOK' /\ knockClock' \in Nat /\ knockClock <= knockClock'
      /\ recorded' = recorded /\ progress' = progress /\ opening' \subseteq opening
<1>1. Quiet
  <2>1. ASSUME NEW ip \in IPs, NEW port \in PK!Ports, PK!Knock(ip, port)
        PROVE  Quiet
    BY <1>0, <2>1, KnockConstants DEF PK!Knock, PK!TypeOK
  <2>2. CASE PK!AcceptTimesOut
    <3>1. PK!NextSocket /\ UNCHANGED <<knockClock, waiting, progress, opening, allowed, sent, recorded>>
      BY <2>2 DEF PK!AcceptTimesOut
    <3>2. poll' \in [at : DOMAIN KnockSequence, since : 0 .. MaxTime]
      BY <1>0, <3>1, NextSocketType
    <3> QED
      BY <1>0, <3>1, <3>2, KnockConstants DEF PK!TypeOK
  <2>3. ASSUME NEW ip \in IPs, PK!OpenFor(ip)
        PROVE  Quiet
    <3>1. knockClock + CloseAfter \in 0 .. MaxTime + CloseAfter /\ allowed \in [IPs -> 0 .. MaxTime + CloseAfter]
      BY <1>0, KnockConstants DEF PK!TypeOK
    <3>2. allowed' \in [IPs -> 0 .. MaxTime + CloseAfter]
      BY <2>3, <3>1 DEF PK!OpenFor
    <3>3. UNCHANGED <<knockClock, waiting, poll, progress, sent, recorded>> /\ opening' \subseteq opening
      BY <2>3 DEF PK!OpenFor
    <3> QED
      BY <1>0, <3>2, <3>3, KnockConstants DEF PK!TypeOK
  <2>4. CASE PK!Tick
    <3>1. /\ knockClock \in Nat /\ knockClock < MaxTime /\ knockClock' = knockClock + 1
          /\ allowed' = [ip \in IPs |-> IF allowed[ip] <= knockClock' THEN 0 ELSE allowed[ip]]
          /\ UNCHANGED <<waiting, poll, progress, opening, sent, recorded>>
      BY <1>0, <2>4, KnockConstants DEF PK!Tick, PK!TypeOK
    <3>2. allowed' \in [IPs -> 0 .. MaxTime + CloseAfter] /\ knockClock' \in 0 .. MaxTime
      BY <1>0, <3>1, KnockConstants DEF PK!TypeOK
    <3> QED
      BY <1>0, <3>1, <3>2 DEF PK!TypeOK
  <2>5. CASE UNCHANGED PK!vars
    BY <1>0, <2>5, KnockConstants DEF PK!vars, PK!TypeOK
  <2> HIDE DEF Quiet
  <2> QED
    BY <2>1, <2>2, <2>3, <2>4, <2>5 DEF PK!Next
<1>2. ASSUME NEW ip \in IPs
      PROVE  (RecordedInOrder(recorded[ip]) /\ IsEndOf(progress[ip], recorded[ip]))'
  <2> DEFINE long == Len(recorded[ip])
             short == Len(progress[ip])
             gone == long - short
  <2>1. RecordedInOrder(recorded[ip]) /\ IsEndOf(progress[ip], recorded[ip])
    BY DEF KnocksInv
  <2>2. RecordedInOrder(recorded[ip])'
    <3>1. /\ recorded'[ip] = recorded[ip] /\ knockClock \in Nat /\ DOMAIN recorded[ip] = 1 .. Len(recorded[ip])
          /\ \A i \in 1 .. Len(recorded[ip]) : recorded[ip][i].at \in Nat
      BY <1>0, <1>1, KnockTypes
    <3> QED
      BY <1>1, <2>1, <3>1 DEF RecordedInOrder
  <2>3. /\ gone >= 0 /\ gone <= Len(recorded[ip])
        /\ \A i \in DOMAIN progress[ip] : progress[ip][i] = recorded[ip][gone + i]
    <3>1. long \in Nat /\ short \in Nat
      BY <1>0, KnockTypes
    <3>2. gone >= 0 /\ \A i \in DOMAIN progress[ip] : progress[ip][i] = recorded[ip][gone + i]
      BY <2>1 DEF IsEndOf
    <3> HIDE DEF long, short
    <3>3. gone <= long
      BY <3>1
    <3> QED
      BY <3>2, <3>3 DEF long
  <2>4. PICK c \in 0 .. gone :
          /\ c = 0 \/ recorded[ip][c].port = KnockSequence[Len(KnockSequence)]
          /\ \A i \in c + 1 .. gone : recorded[ip][i].at + Timeout < knockClock
    BY <2>1 DEF IsEndOf
  <2>5. ASSUME NEW i \in c + 1 .. gone
        PROVE  recorded[ip][i].at + Timeout < knockClock'
    <3>1. recorded[ip][i].at \in Nat
      BY <2>3, <2>4, <1>0, KnockTypes
    <3>2. knockClock \in Nat /\ Timeout \in Nat
      BY <1>0, KnockTypes, KnockConstants
    <3>3. recorded[ip][i].at + Timeout < knockClock
      BY <2>4
    <3> QED
      BY <1>1, <3>1, <3>2, <3>3
  <2>6. IsEndOf(progress[ip], recorded[ip])'
    BY <1>1, <2>3, <2>4, <2>5 DEF IsEndOf
  <2> QED
    BY <2>2, <2>6
<1> QED
  BY <1>1, <1>2 DEF KnocksInv

\* The knocks that are left, with the new one, complete the sequence exactly if the
\* last ones recorded finish it in time.
LEMMA CompletesIffFinishes ==
  ASSUME KnocksInv, NEW ip \in IPs, NEW port \in PK!Ports
  PROVE  LET knock == [port |-> port, at |-> knockClock]
             all == Append(recorded[ip], knock)
         IN  /\ PK!Completes(PK!Kept(ip, port)) <=> PK!Finishes(all)
             /\ RecordedInOrder(all) /\ all \in Seq(PK!Knocks) /\ PK!Kept(ip, port) \in Seq(PK!Knocks)
             /\ IsEndOf(PK!Kept(ip, port), all)
             /\ PK!Completes(PK!Kept(ip, port)) => IsEndOf(<<>>, all)
<1> DEFINE knock == [port |-> port, at |-> knockClock]
           all == Append(recorded[ip], knock)
           n == Len(KnockSequence)
           last == Len(recorded[ip]) + 1
           cutoff == knockClock - Timeout
           kept == EvictEntries(progress[ip], cutoff)
           knocks == Append(kept, knock)
           long == Len(recorded[ip])
           short == Len(progress[ip])
           gone == long - short
           left == short - Len(kept)
           g == gone + left
           from == last - n
<1>1. PK!TypeOK /\ RecordedInOrder(recorded[ip]) /\ IsEndOf(progress[ip], recorded[ip])
  BY DEF KnocksInv
<1>2. /\ n \in Nat /\ n >= 1 /\ DOMAIN KnockSequence = 1 .. n /\ Timeout \in Nat
      /\ \A i, j \in 1 .. n : KnockSequence[i] = KnockSequence[j] => i = j
  BY KnockConstants
<1>3. /\ knockClock \in Nat /\ knockClock \in 0 .. MaxTime
      /\ recorded[ip] \in Seq(PK!Knocks) /\ progress[ip] \in Seq(PK!Knocks)
      /\ Len(recorded[ip]) \in Nat /\ DOMAIN recorded[ip] = 1 .. Len(recorded[ip])
      /\ Len(progress[ip]) \in Nat /\ DOMAIN progress[ip] = 1 .. Len(progress[ip])
      /\ \A i \in 1 .. Len(recorded[ip]) : recorded[ip][i].at \in Nat
  BY <1>1, KnockTypes
<1>4. knock \in PK!Knocks /\ (\A x \in PK!Knocks : x.at \in Nat) /\ knock.port = port /\ knock.at = knockClock
  BY <1>3, KnockConstants DEF PK!Knocks
<1> HIDE DEF knock, n
<1>5. /\ all \in Seq(PK!Knocks) /\ Len(all) = last /\ DOMAIN all = 1 .. last
      /\ \A i \in 1 .. Len(recorded[ip]) : all[i] = recorded[ip][i]
      /\ all[last] = knock
      /\ last \in Nat /\ last >= 1
  <2>1. all \in Seq(PK!Knocks) /\ Len(all) = last
        /\ (\A i \in 1 .. Len(recorded[ip]) : all[i] = recorded[ip][i]) /\ all[last] = knock
    BY <1>3, <1>4, AppendProperties
  <2>2. last \in Nat /\ last >= 1
    BY <1>3
  <2> HIDE DEF all, last
  <2>3. DOMAIN all = 1 .. last
    BY <2>1, LenProperties
  <2> QED
    BY <2>1, <2>2, <2>3
<1>6. cutoff \in Int
  BY <1>2, <1>3
<1> HIDE DEF cutoff, all
<1>7. /\ kept \in Seq(PK!Knocks) /\ Len(kept) \in Nat /\ left \in 0 .. Len(progress[ip])
      /\ \A i \in 1 .. Len(kept) : kept[i] = progress[ip][left + i]
      /\ \A i \in 1 .. left : progress[ip][i].at < cutoff
      /\ Len(kept) > 0 => kept[1].at >= cutoff
  BY <1>3, <1>4, <1>6, EvictEntriesFacts
<1> HIDE DEF kept
<1>8. /\ knocks \in Seq(PK!Knocks) /\ Len(knocks) = Len(kept) + 1 /\ DOMAIN knocks = 1 .. Len(kept) + 1
      /\ \A i \in 1 .. Len(kept) : knocks[i] = kept[i]
      /\ knocks[Len(kept) + 1] = knock
  <2>1. /\ knocks \in Seq(PK!Knocks) /\ Len(knocks) = Len(kept) + 1
        /\ \A i \in 1 .. Len(kept) : knocks[i] = kept[i]
        /\ knocks[Len(kept) + 1] = knock
    BY <1>4, <1>7, AppendProperties
  <2> HIDE DEF knocks
  <2> QED
    BY <2>1, LenProperties
<1> HIDE DEF knocks
<1>9. knocks = PK!Kept(ip, port)
  BY KnocksUseWindow DEF PK!Kept, knocks, kept, cutoff, knock
<1>10. /\ gone \in Nat
       /\ \A i \in 1 .. Len(progress[ip]) : progress[ip][i] = recorded[ip][gone + i]
  <2>1. gone >= 0 /\ \A i \in DOMAIN progress[ip] : progress[ip][i] = recorded[ip][gone + i]
    BY <1>1 DEF IsEndOf
  <2>2. long \in Nat /\ short \in Nat
    BY <1>3
  <2> HIDE DEF long, short
  <2>3. gone \in Nat
    BY <2>1, <2>2
  <2> QED
    BY <1>3, <2>1, <2>3
<1>11. PICK c \in 0 .. gone :
         /\ c = 0 \/ recorded[ip][c].port = KnockSequence[n]
         /\ \A i \in c + 1 .. gone : recorded[ip][i].at + Timeout < knockClock
  BY <1>1 DEF IsEndOf, n
<1>12. /\ g \in Nat /\ c \in Nat /\ left \in Nat /\ gone \in Nat /\ from \in Int
       /\ last \in Nat /\ Len(kept) \in Nat /\ n \in Nat /\ n >= 1 /\ c <= gone /\ Len(knocks) = Len(kept) + 1
       /\ last = Len(recorded[ip]) + 1 /\ gone + Len(progress[ip]) = Len(recorded[ip])
       /\ left + Len(kept) = Len(progress[ip]) /\ g = gone + left /\ from + n = last
       /\ Len(recorded[ip]) \in Nat /\ Len(progress[ip]) \in Nat
  <2>1. /\ Len(recorded[ip]) \in Nat /\ Len(progress[ip]) \in Nat /\ Len(kept) \in Nat
        /\ left \in Nat /\ gone \in Nat /\ c \in Nat /\ c <= gone
    BY <1>3, <1>7, <1>10, <1>11
  <2> QED
    BY <1>2, <1>8, <2>1
<1> HIDE DEF g, left, gone, from, last, long, short
<1> DEFINE size == Len(kept)
<1>12a. /\ g \in Nat /\ last \in Nat /\ size \in Nat /\ n \in Nat /\ from \in Int
       /\ g + size + 1 = last /\ from + n = last /\ Len(knocks) = size + 1
       /\ c \in Nat /\ c <= g
  <2> DEFINE r == Len(recorded[ip])
             p == Len(progress[ip])
  <2>1. /\ g \in Nat /\ left \in Nat /\ gone \in Nat /\ last \in Nat /\ size \in Nat /\ r \in Nat /\ p \in Nat
        /\ last = r + 1 /\ gone + p = r /\ left + size = p /\ g = gone + left
    BY <1>12
  <2> HIDE DEF size, r, p
  <2>2. g + size + 1 = last
    BY <2>1
  <2> QED
    BY <1>12, <2>2 DEF size
<1>13. ASSUME NEW i \in 1 .. Len(kept)
       PROVE  g + i \in 1 .. Len(recorded[ip]) /\ kept[i] = recorded[ip][g + i]
  <2>1. left + i \in 1 .. Len(progress[ip]) /\ gone + (left + i) = g + i
    BY <1>12
  <2>2. g + i \in 1 .. Len(recorded[ip])
    BY <1>12
  <2> QED
    BY <1>7, <1>10, <2>1, <2>2
<1>14. ASSUME NEW i \in 1 .. Len(kept) + 1
       PROVE  knocks[i] = all[g + i] /\ g + i \in 1 .. last
  <2>1. CASE i = Len(kept) + 1
    <3>1. g + i = last
      <4> HIDE DEF size
      <4>1. i = size + 1
        BY <2>1 DEF size
      <4> QED
        BY <1>12a, <4>1
    <3> QED
      BY <1>5, <1>8, <2>1, <3>1
  <2>2. CASE i # Len(kept) + 1
    <3>1. i \in 1 .. Len(kept)
      BY <1>12, <2>2
    <3>2. g + i \in 1 .. Len(recorded[ip]) /\ kept[i] = recorded[ip][g + i]
      BY <1>13, <3>1
    <3>3. g + i \in 1 .. last /\ all[g + i] = recorded[ip][g + i]
      BY <1>5, <1>12, <3>2
    <3> QED
      BY <1>8, <3>1, <3>2, <3>3
  <2> QED
    BY <2>1, <2>2
<1>15. c = 0 \/ all[c].port = KnockSequence[n]
  <2>1. c = 0 \/ c \in 1 .. Len(recorded[ip])
    BY <1>12
  <2> QED
    BY <1>5, <1>11, <2>1
<1>16. ASSUME NEW i \in c + 1 .. g
       PROVE  all[i].at + Timeout < knockClock
  <2>1. CASE i <= gone
    <3>1. i \in c + 1 .. gone /\ i \in 1 .. Len(recorded[ip])
      BY <1>12, <2>1
    <3> QED
      BY <1>5, <1>11, <3>1
  <2>2. CASE i > gone
    <3>1. i - gone \in 1 .. left /\ i - gone \in 1 .. Len(progress[ip]) /\ gone + (i - gone) = i
      BY <1>12, <2>2
    <3>2. progress[ip][i - gone].at < cutoff /\ progress[ip][i - gone] = recorded[ip][i]
      BY <1>7, <1>10, <3>1
    <3>3. i \in 1 .. Len(recorded[ip])
      BY <1>12, <3>1
    <3>4. recorded[ip][i].at < cutoff /\ recorded[ip][i].at \in Nat /\ all[i] = recorded[ip][i]
      BY <1>3, <1>5, <3>2, <3>3
    <3> QED
      BY <1>2, <1>3, <3>4 DEF cutoff
  <2> QED
    BY <1>12, <2>1, <2>2
\* the new knock is the last
<1>17. RecordedInOrder(all)
  <2>1. ASSUME NEW i \in 1 .. last
        PROVE  all[i].at <= knockClock /\ all[i].at \in Nat
    <3>1. CASE i = last
      BY <1>3, <1>4, <1>5, <3>1
    <3>2. CASE i # last
      <4>1. i \in 1 .. Len(recorded[ip])
        BY <1>12, <3>2
      <4> QED
        BY <1>1, <1>3, <1>5, <4>1 DEF RecordedInOrder
    <3> QED
      BY <3>1, <3>2
  <2>2. ASSUME NEW i \in 1 .. last, NEW j \in 1 .. last, i <= j
        PROVE  all[i].at <= all[j].at
    <3>1. CASE j = last
      BY <1>4, <1>5, <2>1, <3>1
    <3>2. CASE j # last
      <4>1. i \in 1 .. Len(recorded[ip]) /\ j \in 1 .. Len(recorded[ip])
        BY <1>12, <2>2, <3>2
      <4> QED
        BY <1>1, <1>3, <1>5, <2>2, <4>1 DEF RecordedInOrder
    <3> QED
      BY <3>1, <3>2
  <2> QED
    BY <1>5, <2>1, <2>2 DEF RecordedInOrder
<1>18. IsEndOf(knocks, all)
  <2>0. Len(all) = last
    BY <1>5
  <2>1. Len(all) - Len(knocks) = g /\ g >= 0 /\ c \in 0 .. g
    <3>1. Len(all) - Len(knocks) = g
      <4> HIDE DEF size
      <4> QED
        BY <1>12a, <2>0
    <3> QED
      BY <1>12, <3>1
  <2>2. \A i \in c + 1 .. g : all[i].at + Timeout < knockClock
    BY <1>16
  <2>3. \A i \in DOMAIN knocks : knocks[i] = all[g + i]
    BY <1>8, <1>14
  <2> QED
    BY <1>15, <2>1, <2>2, <2>3 DEF IsEndOf, n
\* what the end of the sequence completes
<1> DEFINE back == Len(knocks) - n
<1>19. ASSUME PK!Completes(knocks)
       PROVE  PK!Finishes(all) /\ IsEndOf(<<>>, all)
  <2>1. Len(knocks) >= n /\ \A i \in 1 .. n : knocks[back + i].port = KnockSequence[i]
    BY <1>2, <1>19 DEF PK!Completes, n
  <2>2. from >= 0 /\ back \in Nat /\ back + n = Len(knocks)
    <3>1. Len(knocks) >= n
      BY <2>1
    <3> HIDE DEF size
    <3> QED
      BY <1>12a, <3>1
  <2> HIDE DEF back
  <2>0. Len(all) - n = from
    <3>1. Len(all) = last /\ from + n = last /\ from \in Int /\ n \in Int
      BY <1>5, <1>12
    <3> QED
      BY <3>1
  <2>3. ASSUME NEW i \in 1 .. n
        PROVE  all[from + i].port = KnockSequence[i] /\ all[from + i] = knocks[back + i]
    <3>1. back + i \in 1 .. size + 1 /\ g + (back + i) = from + i
      <4> HIDE DEF size
      <4> QED
        BY <1>12a, <2>2
    <3> QED
      BY <1>14, <2>1, <3>1
  <2>4. knockClock - all[from + 1].at <= Timeout
    <3>1. 1 \in 1 .. n /\ back + 1 \in 1 .. Len(kept) + 1
      BY <1>12, <2>1, <2>2
    <3>2. all[from + 1] = knocks[back + 1]
      BY <2>3, <3>1
    <3>3. CASE back + 1 = Len(kept) + 1
      BY <1>2, <1>3, <1>4, <1>8, <3>2, <3>3
    <3>4. CASE back + 1 # Len(kept) + 1
      <4> DEFINE first == back + 1
      <4>1. first \in 1 .. Len(kept) /\ 1 \in 1 .. Len(kept) /\ Len(kept) > 0
        BY <1>12, <3>1, <3>4
      <4> HIDE DEF first
      <4>2. g + 1 \in 1 .. Len(recorded[ip]) /\ g + first \in 1 .. Len(recorded[ip]) /\ g + 1 <= g + first
        BY <1>12, <1>13, <4>1
      <4>3. recorded[ip][g + 1].at <= recorded[ip][g + first].at
        BY <1>1, <1>3, <4>2 DEF RecordedInOrder
      <4>4. kept[1] = recorded[ip][g + 1] /\ kept[first] = recorded[ip][g + first] /\ kept[1].at >= cutoff
        BY <1>7, <1>13, <4>1
      <4>5. all[from + 1] = kept[first]
        BY <1>8, <3>2, <4>1 DEF first
      <4>6. recorded[ip][g + 1].at \in Nat /\ recorded[ip][g + first].at \in Nat
        BY <1>3, <4>2
      <4>7. all[from + 1].at \in Nat /\ all[from + 1].at >= cutoff
        BY <1>2, <1>3, <4>3, <4>4, <4>5, <4>6 DEF cutoff
      <4> QED
        BY <1>2, <1>3, <4>7 DEF cutoff
    <3> QED
      BY <3>3, <3>4
  <2>5. PK!Finishes(all)
    BY <1>2, <2>0, <2>2, <2>3, <2>4 DEF PK!Finishes, n
  <2>6. all[last].port = KnockSequence[n]
    <3>1. n \in 1 .. n /\ from + n = last
      BY <1>12
    <3> QED
      BY <2>3, <3>1
  <2>7. last \in 0 .. last /\ last + 1 .. last = {} /\ DOMAIN <<>> = {} /\ last - 0 = last
    BY <1>12
  <2>8. IsEndOf(<<>>, all)
    BY <1>5, <2>6, <2>7 DEF IsEndOf, n
  <2> QED
    BY <2>5, <2>8
<1>20. ASSUME PK!Finishes(all)
       PROVE  PK!Completes(knocks)
  <2>1. /\ from >= 0 /\ \A i \in 1 .. n : all[from + i].port = KnockSequence[i]
        /\ knockClock - all[from + 1].at <= Timeout
    <3>1. Len(all) - n = from
      BY <1>5, <1>12
    <3> QED
      BY <1>2, <1>20, <3>1 DEF PK!Finishes, n
  \* knocks that are gone are of an earlier sequence, or too old
  <2>2. from >= g
    <3>1. SUFFICES ASSUME from < g PROVE FALSE
      BY <1>12
    <3>2. CASE from + 1 > c
      <4>1. from + 1 \in c + 1 .. g /\ from + 1 \in 1 .. last
        BY <1>12, <2>1, <3>1, <3>2
      <4>2. all[from + 1].at + Timeout < knockClock /\ all[from + 1].at \in Nat
        BY <1>4, <1>5, <1>16, <4>1, ElementOfSeq
      <4> QED
        BY <1>2, <1>3, <2>1, <4>2
    <3>3. CASE from + 1 <= c
      <4>1. c - from \in 1 .. n /\ from + (c - from) = c /\ c # 0 /\ n \in 1 .. n /\ c - from # n
        <5>1. from >= 0 /\ from < g /\ from + 1 <= c
          BY <2>1, <3>1, <3>3
        <5> HIDE DEF size
        <5> QED
          BY <1>12a, <5>1
      <4>2. all[c].port = KnockSequence[c - from] /\ all[c].port = KnockSequence[n]
        BY <1>15, <2>1, <4>1
      <4> QED
        BY <1>2, <4>1, <4>2
    <3> QED
      BY <1>12, <3>2, <3>3
  <2>3. Len(knocks) >= n /\ Len(knocks) = Len(kept) + 1
    BY <1>12, <2>2
  <2>4. ASSUME NEW i \in 1 .. n
        PROVE  knocks[Len(knocks) - n + i].port = KnockSequence[i]
    <3>1. Len(knocks) - n + i \in 1 .. size + 1 /\ g + (Len(knocks) - n + i) = from + i
      <4>1. Len(knocks) >= n
        BY <2>3
      <4> HIDE DEF size
      <4> QED
        BY <1>12a, <4>1
    <3> QED
      BY <1>14, <2>1, <3>1
  <2> QED
    BY <1>2, <2>3, <2>4 DEF PK!Completes, n
<1> QED
  BY <1>5, <1>8, <1>9, <1>17, <1>18, <1>19, <1>20 DEF all, knock, last

\* The step that records a knock.
LEMMA AcceptKnocks ==
  ASSUME KnocksInv, PK!Accept
  PROVE  /\ KnocksInv'
         /\ \A ip \in IPs :
              /\ ip \in opening' \ opening => recorded[ip] # recorded'[ip] /\ PK!Finishes(recorded'[ip])
              /\ recorded[ip] # recorded'[ip] /\ PK!Finishes(recorded'[ip]) => ip \in opening'
<1> DEFINE from == Head(waiting[PK!Polled])
           knock == [port |-> PK!Polled, at |-> knockClock]
           all == Append(recorded[from], knock)
           knocks == PK!Kept(from, PK!Polled)
<1>1. PK!TypeOK
  BY DEF KnocksInv
<1>2. PK!Polled \in PK!Ports /\ from \in IPs /\ Tail(waiting[PK!Polled]) \in Seq(IPs)
  <2>1. PK!Polled \in PK!Ports
    BY <1>1, KnockConstants DEF PK!TypeOK, PK!Polled
  <2>2. waiting[PK!Polled] \in Seq(IPs) /\ waiting[PK!Polled] # <<>>
    BY <1>1, <2>1 DEF PK!TypeOK, PK!Accept
  <2> QED
    BY <2>1, <2>2, HeadTailProperties
<1>3. /\ recorded' = [recorded EXCEPT ![from] = all]
      /\ IF PK!Completes(knocks)
         THEN progress' = [progress EXCEPT ![from] = <<>>] /\ opening' = opening \cup {from}
         ELSE progress' = [progress EXCEPT ![from] = knocks] /\ opening' = opening
      /\ waiting' = [waiting EXCEPT ![PK!Polled] = Tail(@)]
      /\ PK!NextSocket /\ UNCHANGED <<knockClock, allowed, sent>>
  BY DEF PK!Accept
<1> HIDE DEF from
<1>4. /\ PK!Completes(knocks) <=> PK!Finishes(all)
      /\ RecordedInOrder(all) /\ all \in Seq(PK!Knocks) /\ knocks \in Seq(PK!Knocks)
      /\ IsEndOf(knocks, all) /\ (PK!Completes(knocks) => IsEndOf(<<>>, all))
  BY <1>2, CompletesIffFinishes
<1>5. recorded[from] # all
  <2>1. Len(recorded[from]) \in Nat /\ recorded[from] \in Seq(PK!Knocks) /\ knock \in PK!Knocks
    BY <1>1, <1>2, KnockTypes DEF PK!Knocks
  <2>2. Len(all) = Len(recorded[from]) + 1
    BY <2>1, AppendProperties
  <2> HIDE DEF all
  <2> QED
    BY <2>1, <2>2
<1>6. /\ recorded'[from] = all
      /\ \A ip \in IPs \ {from} : recorded'[ip] = recorded[ip] /\ progress'[ip] = progress[ip]
      /\ progress'[from] = IF PK!Completes(knocks) THEN <<>> ELSE knocks
      /\ recorded' \in [IPs -> Seq(PK!Knocks)] /\ progress' \in [IPs -> Seq(PK!Knocks)]
  <2> HIDE DEF all, knocks
  <2>1. recorded \in [IPs -> Seq(PK!Knocks)] /\ progress \in [IPs -> Seq(PK!Knocks)] /\ <<>> \in Seq(PK!Knocks)
    BY <1>1 DEF PK!TypeOK
  <2> QED
    BY <1>2, <1>3, <1>4, <2>1
<1> HIDE DEF all, knocks, knock
<1>7. PK!TypeOK'
  <2>1. poll' \in [at : DOMAIN KnockSequence, since : 0 .. MaxTime]
    BY <1>1, <1>3, NextSocketType
  <2>2. waiting' \in [PK!Ports -> Seq(IPs)]
    BY <1>1, <1>2, <1>3 DEF PK!TypeOK
  <2>3. opening' \subseteq IPs
    BY <1>1, <1>2, <1>3 DEF PK!TypeOK
  <2> QED
    BY <1>1, <1>3, <1>6, <2>1, <2>2, <2>3 DEF PK!TypeOK
<1>8. ASSUME NEW ip \in IPs
      PROVE  (RecordedInOrder(recorded[ip]) /\ IsEndOf(progress[ip], recorded[ip]))'
  <2>1. knockClock' = knockClock
    BY <1>3
  <2>2. RecordedInOrder(recorded'[ip]) /\ IsEndOf(progress'[ip], recorded'[ip])
    BY <1>4, <1>6 DEF KnocksInv
  <2> QED
    BY <2>1, <2>2 DEF RecordedInOrder, IsEndOf
<1>9. ASSUME NEW ip \in IPs
      PROVE  /\ ip \in opening' \ opening => recorded[ip] # recorded'[ip] /\ PK!Finishes(recorded'[ip])
             /\ recorded[ip] # recorded'[ip] /\ PK!Finishes(recorded'[ip]) => ip \in opening'
  BY <1>3, <1>4, <1>5, <1>6
<1> QED
  BY <1>7, <1>8, <1>9 DEF KnocksInv

LEMMA KnocksInvariance ==
  PK!Spec => []KnocksInv
<1>1. KnocksInv /\ [PK!Next]_PK!vars => KnocksInv'
  BY AcceptKnocks, QuietKnocks
<1> QED
  BY <1>1, InitKnocks, PTL DEF PK!Spec

\* Progress and the set stay in their types.
THEOREM KnockTypeCorrect ==
  PK!Spec => []PK!TypeOK
<1>1. KnocksInv => PK!TypeOK
  BY DEF KnocksInv
<1> QED
  BY <1>1, KnocksInvariance, PTL

\* Trimming, and starting again once the sequence is complete, lets an address in
\* at exactly the knocks with which its last ones are the sequence, in time.
THEOREM KnocksOpenExactly ==
  PK!Spec => OpensExactlyOnSequence
<1>1. KnocksInv /\ [PK!Next]_PK!vars =>
        [\A ip \in IPs :
           /\ ip \in opening' \ opening => recorded[ip] # recorded'[ip] /\ PK!Finishes(recorded'[ip])
           /\ recorded[ip] # recorded'[ip] /\ PK!Finishes(recorded'[ip]) => ip \in opening']_PK!vars
  <2> SUFFICES ASSUME KnocksInv, [PK!Next]_PK!vars
               PROVE  \A ip \in IPs :
                        /\ ip \in opening' \ opening => recorded[ip] # recorded'[ip] /\ PK!Finishes(recorded'[ip])
                        /\ recorded[ip] # recorded'[ip] /\ PK!Finishes(recorded'[ip]) => ip \in opening'
    OBVIOUS
  <2>1. CASE PK!Accept
    BY <2>1, AcceptKnocks
  <2>2. CASE ~PK!Accept
    BY <2>2, QuietKnocks
  <2> QED
    BY <2>1, <2>2
<1> QED
  BY <1>1, KnocksInvariance, PTL DEF PK!Spec, PK!OpensExactlyOnSequence, OpensExactlyOnSequence
=============================================================================
