------------------------------ MODULE Notifiers ------------------------------
(***************************************************************************)
(* modules/alerting/ as main.py's fire_alerts drives it: AlertManager with *)
(* a thread per channel and alert, ntfy's push, which blocks the caller,   *)
(* and the email, Telegram and Discord notifiers, each a bounded queue and *)
(* a worker thread that tries a message a few times and then gives it up.  *)
(* Another thread puts the daily report into email's queue.                *)
(*                                                                         *)
(* The clock counts seconds since boot, as time.monotonic() does on Linux; *)
(* EmailNotifier reads time.time(), which is BootTime later.  Alerts are   *)
(* numbered in the order they are raised.                                  *)
(***************************************************************************)
EXTENDS Naturals, Sequences, FiniteSets

CONSTANTS
  Types,            \* event types given to fire_alerts
  Anomalies,        \* those that start with ANOMALY_
  Channels,         \* slack, pagerduty, webhook, smtp: enabled in AlertManager
  Triggers,         \* types its alerting.triggers do not switch off
  Cooldown,         \* alerting.cooldown
  MailCooldown,     \* alerting.email.cooldown_minutes, in seconds
  DailyReport,      \* alerting.email.daily_report
  NotifyOn,         \* notify_on of each notifier that is enabled, {} if not
  QueueSize,        \* maxsize of each notifier's queue: 200, 500, 300
  Retries,          \* 3
  SilentHours,      \* instants _is_silent_hours finds in a range
  BootTime,         \* wall-clock time at boot
  MaxTime,          \* bound: the clock stops here
  MaxAlerts         \* bound: alerts raised

Notifiers == {"email", "telegram", "discord"}

ASSUME NotifiersAssumption ==
  /\ Anomalies \subseteq Types /\ Triggers \subseteq Types
  /\ {Cooldown, MailCooldown, BootTime, MaxTime, MaxAlerts} \subseteq Nat
  /\ NotifyOn \in [Notifiers -> SUBSET (Types \cup {"ANOMALY"})]
  /\ QueueSize \in [Notifiers -> Nat \ {0}]
  /\ Retries \in Nat \ {0} /\ DailyReport \in BOOLEAN

VARIABLES
  now,         \* time.monotonic()
  lastAlert,   \* AlertManager._last_alert, 0 by default
  lastMail,    \* EmailNotifier._last_sent, 0 by default
  firing,      \* does the tail thread wait for ntfy?
  posting,     \* the threads AlertManager has started: <<channel, alert>>
  queue,       \* each notifier's _q
  job,         \* what each worker is trying: the message and the tries so far
  raised,      \* history: the type and the instant of each alert
  routed,      \* history: the instant each alert came to the notifiers
  reported,    \* history: today's report has been due
  posted,      \* history: alerts AlertManager dispatched
  accepted,    \* history: messages each queue took
  settled      \* history: messages each worker has done with, sent or given up

managerVars == <<lastAlert, posting, posted>>
queueVars == <<queue, accepted>>
workerVars == <<job, settled>>
vars == <<now, managerVars, lastMail, firing, queueVars, workerVars, raised, routed, reported>>

Idle == [message |-> 0, tries |-> 0]
Report == MaxAlerts + 1
Wall == BootTime + now

\* EmailNotifier and the others know one ANOMALY; AlertManager tells them apart.
Class(type) == IF type \in Anomalies THEN "ANOMALY" ELSE type
Classes == {Class(type) : type \in Types}

Init ==
  /\ now = 0
  /\ lastAlert = [type \in Types |-> 0]
  /\ lastMail = [class \in Classes |-> 0]
  /\ firing = FALSE /\ posting = {}
  /\ queue = [w \in Notifiers |-> <<>>]
  /\ job = [w \in Notifiers |-> Idle]
  /\ raised = <<>> /\ routed = <<>> /\ reported = FALSE /\ posted = {}
  /\ accepted = [w \in Notifiers |-> <<>>]
  /\ settled = [w \in Notifiers |-> <<>>]

-----------------------------------------------------------------------------
(* fire_alerts.                                                            *)

\* Slip: an alert that comes when the cooldown ends is held back too.
DispatchesLate(type) == type \in Triggers /\ now - lastAlert[type] > Cooldown

\* AlertManager.send: the cooldown is taken whether or not a channel is enabled.
Dispatches(type) == type \in Triggers /\ now - lastAlert[type] >= Cooldown

\* What fire_alerts has a branch for.  THREAT_BAN goes to no notifier, a failed
\* login not to Discord; Discord's notify_brute_force_ban does not exist, and
\* the AttributeError ends fire_alerts after the other two were called.
Routed(w, type) ==
  /\ type # "THREAT_BAN"
  /\ w = "discord" => type \notin {"AUTH_FAILURE", "BRUTE_FORCE_BAN"}

\* _is_silent_hours, asked of the wall clock when the message is queued.
Silent == now \in SilentHours

\* Slip: the email cooldown is taken for minutes.
MailDueTooSoon(type) == Wall - lastMail[Class(type)] >= MailCooldown \div 60

\* EmailNotifier._should_send takes the cooldown, whatever becomes of the mail.
MailDue(type) == Wall - lastMail[Class(type)] >= MailCooldown

\* The first lines of EmailNotifier.notify_*, TelegramNotifier.send_* and
\* DiscordNotifier.notify_*; the rest of them is wording.
Listens(w, type) == Routed(w, type) /\ Class(type) \in NotifyOn[w]
EmailWants(type) == Listens("email", type) /\ MailDue(type)
TelegramWants(type) == Listens("telegram", type) /\ ~Silent
DiscordWants(type) == Listens("discord", type)

Wanted(w, type) ==
  \/ w = "email" /\ EmailWants(type)
  \/ w = "telegram" /\ TelegramWants(type)
  \/ w = "discord" /\ DiscordWants(type)

\* _enqueue: put_nowait, and a full queue drops the new message.
HasRoom(w) == Len(queue[w]) < QueueSize[w]
Enqueue(takers, message) ==
  LET Put(q) == [w \in Notifiers |-> IF w \in takers /\ HasRoom(w) THEN Append(q[w], message) ELSE q[w]]
  IN  queue' = Put(queue) /\ accepted' = Put(accepted)

\* The tail thread raises one alert at a time: AlertManager.send ...
Fire(type) ==
  LET alert == Len(raised) + 1 IN
  /\ ~firing /\ alert <= MaxAlerts
  /\ raised' = Append(raised, [type |-> type, at |-> now])
  /\ IF Dispatches(type)
     THEN /\ lastAlert' = [lastAlert EXCEPT ![type] = now]
          /\ posting' = posting \cup (Channels \X {alert})
          /\ posted' = posted \cup {alert}
     ELSE UNCHANGED managerVars
  /\ firing' = TRUE
  /\ UNCHANGED <<now, lastMail, queueVars, workerVars, routed, reported>>

\* ... and, when ntfy's push has come back, which swallows every error, the
\* notifiers.
Route ==
  LET type == raised[Len(raised)].type IN
  /\ firing /\ firing' = FALSE
  /\ routed' = Append(routed, now)
  /\ lastMail' = IF EmailWants(type) THEN [lastMail EXCEPT ![Class(type)] = Wall] ELSE lastMail
  /\ Enqueue({w \in Notifiers : Wanted(w, type)}, Len(raised))
  /\ UNCHANGED <<now, managerVars, workerVars, raised, reported>>

\* The daily-report thread: send_daily_report knows no cooldown.
SendDailyReport ==
  /\ DailyReport /\ ~reported /\ reported' = TRUE
  /\ Enqueue({"email"}, Report)
  /\ UNCHANGED <<now, managerVars, lastMail, firing, workerVars, raised, routed>>

-----------------------------------------------------------------------------
(* The threads that send.                                                  *)

\* _send_email, _send_slack, _send_pagerduty, _send_webhook: one try each.
Post(channel, alert) ==
  /\ <<channel, alert>> \in posting
  /\ posting' = posting \ {<<channel, alert>>}
  /\ UNCHANGED <<now, lastAlert, posted, lastMail, firing, queueVars, workerVars, raised, routed, reported>>

othersVars == <<now, managerVars, lastMail, firing, raised, routed, reported>>

\* Slip: the newest message is taken first.
TakeNewest(w) ==
  /\ job[w] = Idle /\ queue[w] # <<>>
  /\ job' = [job EXCEPT ![w] = [message |-> queue[w][Len(queue[w])], tries |-> 0]]
  /\ queue' = [queue EXCEPT ![w] = SubSeq(@, 1, Len(@) - 1)]
  /\ UNCHANGED <<othersVars, accepted, settled>>

Take(w) ==
  /\ job[w] = Idle /\ queue[w] # <<>>
  /\ job' = [job EXCEPT ![w] = [message |-> Head(queue[w]), tries |-> 0]]
  /\ queue' = [queue EXCEPT ![w] = Tail(@)]
  /\ UNCHANGED <<othersVars, accepted, settled>>

\* One turn of the retry loop of _send, _do_send or _post: the message goes out,
\* or the last try fails and it is given up.
Settle(w) ==
  /\ job[w] # Idle
  /\ settled' = [settled EXCEPT ![w] = Append(@, job[w].message)]
  /\ job' = [job EXCEPT ![w] = Idle]
  /\ UNCHANGED <<othersVars, queueVars>>

\* Slip: the tries are counted afresh.
RetryForEver(w) ==
  /\ job[w] # Idle
  /\ job' = [job EXCEPT ![w].tries = (@ + 1) % Retries]
  /\ UNCHANGED <<othersVars, queueVars, settled>>

\* An earlier one fails.
Retry(w) ==
  /\ job[w] # Idle /\ job[w].tries < Retries - 1
  /\ job' = [job EXCEPT ![w].tries = @ + 1]
  /\ UNCHANGED <<othersVars, queueVars, settled>>

Work(w) == Take(w) \/ Settle(w) \/ Retry(w)

Tick ==
  /\ now < MaxTime
  /\ now' = now + 1
  /\ UNCHANGED <<managerVars, lastMail, firing, queueVars, workerVars, raised, routed, reported>>

Next ==
  \/ \E type \in Types : Fire(type)
  \/ Route \/ SendDailyReport
  \/ \E channel \in Channels, alert \in 1 .. MaxAlerts : Post(channel, alert)
  \/ \E w \in Notifiers : Work(w)
  \/ Tick

Spec == Init /\ [][Next]_vars

\* The workers are daemon threads; every blocking call of theirs has a timeout.
FairSpec == Spec /\ \A w \in Notifiers : WF_vars(Work(w))

-----------------------------------------------------------------------------
(* Properties.                                                             *)

Alerts == 1 .. MaxAlerts
Messages == Alerts \cup {Report}
Elements(s) == {s[i] : i \in DOMAIN s}

\* Every variable stays in its type, and no queue exceeds its size.
TypeOK ==
  /\ now \in 0 .. MaxTime
  /\ lastAlert \in [Types -> 0 .. MaxTime]
  /\ lastMail \in [Classes -> 0 .. Wall]
  /\ posting \subseteq Channels \X Alerts
  /\ {queue, accepted, settled} \subseteq [Notifiers -> Seq(Messages)]
  /\ \A w \in Notifiers : Len(queue[w]) <= QueueSize[w]
  /\ job \in [Notifiers -> [message : Messages \cup {0}, tries : 0 .. Retries - 1]]
  /\ raised \in Seq([type : Types, at : 0 .. MaxTime]) /\ Len(raised) <= MaxAlerts
  /\ routed \in Seq(0 .. MaxTime) /\ {firing, reported} \subseteq BOOLEAN
  /\ Len(raised) = Len(routed) + (IF firing THEN 1 ELSE 0)
  /\ posted \subseteq Alerts

\* No inbox is flooded: of the mails on their way or sent, two of the same class
\* came to the notifier at least the cooldown apart, whatever ntfy or the worker
\* is late by; so for what AlertManager dispatches, by type.
NoStorm ==
  /\ \A i, j \in DOMAIN routed :
       i < j /\ {i, j} \subseteq Elements(accepted["email"]) /\ Class(raised[i].type) = Class(raised[j].type)
         => routed[j] - routed[i] >= MailCooldown
  /\ \A i, j \in posted :
       i < j /\ raised[i].type = raised[j].type => raised[j].at - raised[i].at >= Cooldown

\* A message that fails is given up before a later one is tried, and none is
\* lost or doubled inside the process, alerts and reports from two threads alike:
\* what a queue took is settled, in the worker's hands or waiting, in the order
\* it came.
SettledInOrder ==
  \A w \in Notifiers :
    LET inHand == IF job[w] = Idle THEN <<>> ELSE <<job[w].message>>
    IN  accepted[w] = settled[w] \o inHand \o queue[w]

\* A message that was accepted leaves the process, or is given up, in the end.
QueuesDrain ==
  \A w \in Notifiers, i \in Messages : i \in Elements(accepted[w]) ~> i \in Elements(settled[w])

\* An alert that AlertManager holds back has a cause: another of its type went
\* out less than a cooldown ago, or the machine started less than a cooldown ago,
\* for _last_alert defaults to 0 on a clock that counts from boot.
HeldBackWithCause ==
  \A j \in DOMAIN raised : raised[j].type \in Triggers /\ j \notin posted =>
    \/ raised[j].at < Cooldown
    \/ \E i \in posted : /\ i < j /\ raised[i].type = raised[j].type
                        /\ raised[j].at - raised[i].at < Cooldown
=============================================================================
