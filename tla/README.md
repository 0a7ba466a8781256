# SSH-Fortress in TLA+

This directory specifies the concurrent and stateful parts of SSH-Fortress, checks
them with TLC on small instances, and proves with TLAPS, for every setting, the
safety of the components that run all day: protector, scorer, event loop, log tail,
forwarder, statistics and notifiers. Paths are relative to the repository (`src/`).

    tlc -workers 2 -config BruteForce.cfg BruteForce     # one run
    tlapm BruteForceProofs.tla                           # the theorems

`PROJECT.json` is the index: runs, the lines each definition models (`map`), the
hazards of the code with the properties that watch them, the mutants, the theorems.

## 1. The system

`main.py run` is one process with many threads. The **log-tail thread** reads
auth.log and gives every parsed line to four handlers in turn: `handle_event`, the
SIEM forwarder, the session monitor, the anomaly detector. Everything else is a
helper those handlers call, a background thread, or a command of its own
(`ban`, `unban`, `harden`, `metrics`, ...) in a process of its own.

| component | state | operations | talks to |
|---|---|---|---|
| brute-force protector (`modules/protection/brute_force.py`) | deques of failures, ban table, under one RLock | `record_failure`, `record_success`, `ban`, `unban`, reaper thread | nftables' `banned_ips` set and fail2ban's jail; calls `on_ban` under its lock |
| threat scorer (`threat_scorer.py`) | a profile per address | `record`, `score`, `should_ban`, reaper thread | asked by `handle_event` |
| event loop (`main.py`) | none of its own | `handle_event`, `on_ban`, `fire_alerts` | all helpers, one call after the other, each under its own lock |
| log aggregator (`modules/logging/log_aggregator.py`) | file object and position, stop event | poll loop, inotify loop, drain | the log file, syslog, logrotate; catches what handlers raise |
| log parser | none | regular expressions | log aggregator |
| SIEM forwarder (`siem_forwarder.py`) | per backend: queue, batch, backoff, drop count | `enqueue` (tail thread), worker thread | Elasticsearch, Splunk, syslog, Kafka, webhook |
| statistics (`modules/stats/stats_tracker.py`) | counters, `stats.json`, `stats.tmp` | `record_*`, saver thread | `main.py metrics` opens the same files |
| notification channels (`modules/alerting/`) | cooldown tables, queues, workers | `send`, `notify_*`, `send_*`, workers; the daily-report thread | called by `fire_alerts` |
| session monitor (`modules/monitoring/session_monitor.py`) | open sessions, `sessions.json` | handler, writer thread | the count goes into statistics; `main.py status` reads the file |
| anomaly detector (`anomaly_detector.py`) | two sliding windows | handler | alerts into `fire_alerts` |
| port knocker (`port_knocker.py`) | progress per address, listening sockets | poll loop, opening threads | nftables' `knock_allowed` set |
| IP reputation (`ip_reputation.py`) | a cache of verdicts | `check` | asked by `handle_event`; asks AbuseIPDB |
| `harden`: sshd_config, crypto policy, PAM (`modules/hardening/`), rate limiter (`rate_limiter.py`) | files in `/etc` and their backups, host keys, packet filter | `apply` and `harden`, one after the other | `sshd -t`, `systemctl reload`, `ssh-keygen`, `nft`, `iptables` |
| key auditor (`modules/key_management/key_auditor.py`) | the authorized_keys files | `audit` | `ssh-keygen`; users edit the same files |
| geo blocker, health checks, metrics, configuration, reports | none, or read by nobody | probes, formatting | not modelled, see section 7 |

What is hard about it: clock readings taken before a lock is (both reapers); locks
taken and dropped between the calls of one `handle_event`; an exception out of the
middle of it; a file renamed between two steps of its reader; a send that fails
halfway or loses its answer; a process that dies inside a save or between writing
sshd_config and validating it, or between truncating a file and filling it; four parts
of one command of which any may fail or die and which the next run starts over; three
tables (ban table, kernel set, fail2ban's jail) of which the first does not survive the
process, and whose commands fail unnoticed; queues that are full; cooldowns that are taken long before
the mail goes out; a file that a user edits while it is rewritten.

What makes each part correct: the ban table enforces the threshold over a sliding
window, holds a ban exactly until it is due, and leaves nobody dropped whom it has
forgotten, unless a command failed or the daemon died. A score is a function of what
happened inside the window. The event loop gives every event to every handler and lets
nobody off who is over the threshold. The tail delivers lines once and in order. The
forwarder loses documents only at its door, counted, and never reorders, as far as the
target answers for what it was sent. The counters file is always
readable and never goes back. Alerts keep their cooldowns and order. The knocker
opens for the sequence and for nothing else. `sessions.json` shows a moment that was.
Nobody's reputation is asked twice while a verdict is good. `harden` leaves an sshd_config
that sshd accepted, keeps what it overwrites, and has done all of its
parts when it comes to its end. The auditor takes out the flagged lines and no others.

## 2. Modules

| module | models | composed with |
|---|---|---|
| `AttemptWindow` | the deque trimmed from the left that the protector, the scorer, the anomaly detector and the port knocker keep: `FirstKept`, `Evict`, `EvictEntries`, `Ordered` | |
| `BruteForce` | `BruteForceProtector`, its reaper, the kernel set and fail2ban's jail | EXTENDS `AttemptWindow` |
| `SlidingBan` | abstract: an exact sliding window, bans that end when due | refined by `BruteForce` |
| `BanCli` | `main.py ban` and `unban` beside the daemon | EXTENDS `BruteForce` |
| `ThreatScorer` | `ThreatScorer`, its scoring core and reaper | EXTENDS `AttemptWindow` |
| `LogParser` | which pattern takes which message of sshd | |
| `IPReputation` | `IPReputationChecker` | |
| `SessionEvents` | what an event makes of the open sessions | |
| `Fortress` | `handle_event`, `on_ban`, the order of the handlers, the counters | EXTENDS `ThreatScorer`, `LogParser` and `SessionEvents`, INSTANCE of `BruteForce` and `IPReputation` |
| `SIEMBackend` | `_BaseBackend` with its worker, and a target that answers for a batch or does not | |
| `SIEMChannel` | abstract: a FIFO that loses only at its door, or, over a target that does not answer, its oldest | refined by `SIEMBackend` |
| `LogTail` | both tail loops, syslog, logrotate | |
| `StatsTracker` | counters, saver thread, `stats.json` and `stats.tmp` as directory entries and files | |
| `Notifiers` | `fire_alerts`, `AlertManager`, ntfy, the email, Telegram and Discord queues and workers, the daily report | |
| `PortKnocker` | the poll loop, progress, opening threads | EXTENDS `AttemptWindow` |
| `AnomalyDetector` | `__call__`: the spray and the spike windows, off-hours logins, root attempts | EXTENDS `AttemptWindow` |
| `SessionMonitor` | the sessions and the thread that writes them | EXTENDS `SessionEvents` |
| `ConfigHardener` | `SSHConfigHardener.apply`: backup, truncate, write, validate, restore, reload | |
| `CryptoPolicy` | host keys unlinked and made one by one; moduli and its backup | |
| `PAMConfigurator` | the PAM stack and its backups | |
| `RateLimiter` | `apply` with nftables or iptables; what a boot leaves of it | |
| `Hardening` | `main.py harden` and a boot between two runs | INSTANCE of the four above |
| `ListFilter` | the list comprehension that leaves elements out: `Without` | |
| `KeyAuditor` | `audit` with revocation, beside a user's edit | EXTENDS `ListFilter` |
| `RootCommands` | a session of `harden` or one of `keys audit` | EXTENDS `Hardening`, INSTANCE of `KeyAuditor` |
| `Monitoring` | the four parts that watch, one of which each behaviour exercises | EXTENDS `AnomalyDetector`, INSTANCE of `SessionMonitor`, `StatsTracker` and `PortKnocker` |
| `MCMonitors`, `MCRootCommands`, `MCThreatScorer`, `MCFortress`, `MCNotifiers` | the records and sequences that a .cfg cannot write down | |
| `WindowFacts` | lemmas about `Evict` and `EvictEntries` | EXTENDS `AttemptWindow` |
| `BruteForceProofs` | theorems about `BruteForce` | EXTENDS it and `WindowFacts` |
| `FortressProofs` | theorems about `Fortress` and `ThreatScorer` | EXTENDS `Fortress` and `WindowFacts` |
| `RootCommandsProofs` | lemmas about `Without`, theorems about `Hardening` and `KeyAuditor` | EXTENDS `RootCommands`, `ListFilter` and `WindowFacts` |
| `MonitoringProofs` | theorems about `AnomalyDetector`, `SessionMonitor`, `StatsTracker` and `PortKnocker` | EXTENDS `Monitoring` and `WindowFacts` |
| `SIEMBackendProofs`, `LogTailProofs`, `NotifiersProofs` | theorems about the module of that name | EXTENDS it |

Conventions. An operation under a lock is one action; where the code reads the clock
before it takes the lock (the reapers' `now = time.monotonic()`), the reading is an
action and a variable of its own. A dictionary is a function on all keys with a value
for "absent" (`<<>>`, `NoBan`, `NoProfile`), because the code never tells an absent key
from an empty one. Variables that the code does not have are marked `history`;
nothing reads them but properties and the bounds on the number of inputs. Operators
under a comment `Slip:` are plausible mistakes in the operator that follows them.
No specification uses them: they are there to be put in its place, to see the
property fail that should.

**BruteForce.** `attempts`, `bans`, `reaper` are `_attempts`, `_bans` and the reaper's
local `now`; `blocked` says for each address what the protector's commands made nftables
and fail2ban hold, and the instant at which each lets go of it. `ImposeBan` is `_ban`
(record, forgotten deque, nft and fail2ban calls), `Counted` the deque that
`record_failure` measures, `ReaperSweep` the reaper's critical section. A command can
fail and is then swallowed, as in the code; `MayFail` says which do. That fail2ban also
bans on its own, from its own reading of the log, and lengthens its bans as it is set up
to, is none of the protector's commands and outside the model. `Restart` empties what
the process held. `on_ban` changes nothing here; what it does to its caller is in
`Fortress`.

**SlidingBan.** The same promises without late trimming or a reaper: `recent[ip]` is
exact at every instant, failures leave it when they are too old, `Expire` lifts any
due bans. The refinement maps `recent` to `Evict(attempts[ip], now - Window)`.
Only `LoggingIn` addresses succeed and only `Suspects` are banned on other grounds, so
that with small sets a ban or an emptied window cannot be explained away.

**ThreatScorer.** `Observed` and `EvictOld` are `record` and `_evict_old` on the profile
record, `Score` the weighted sum with its caps. `Recorded` is what `main.py` records.

**LogParser.** `Classify` is `_classify`, on messages known by their wording. It gives `Fortress`
the types of event the daemon can see.

**Fortress.** `tail.at` is where `handle_event` is between two calls of helpers; the
reapers and the clock run in between. Every ban ends in `on_ban`, which counts the ban
and then raises (`discord.notify_brute_force_ban`, `main.py:151`, does not exist), so a
ban leads straight to the next handler. So does a statistics call that raises over a user's
name (`StatsMayRaise`). An event carries whether the hour of its line is outside business hours
(`offHours`), which the scorer adds to the score. `Handle` asks the reputation service or takes the verdict that is
kept, and `Lookup` is the answer, up to five seconds later.

**IPReputation.** `verdicts` is `_cache`. An answer may be anything; a request that failed
has the answer of a score of 0 and is kept like any other.

**SIEMBackend.** `batch`, `due`, `backoff` are the locals of `_run`; `worker` its place;
`arrived` and `lost` the target. A behaviour has one kind of target. One that answers for
the whole batch in one request (`answers`: Splunk, webhook) has all of it when
`_send_batch` returns, and all or nothing when it raises. Of one that does not (a UDP
datagram, a TCP stream that breaks, Kafka's producer, whose `flush` reports no failed
record, the items that Elasticsearch refuses) any documents of the batch may have got
through, whether the call returns or raises; when it returns the batch is forgotten
(`siem_forwarder.py:88`) and the rest is `lost`, and no count of the code shows it. What a
producer delivers after the call is dated at the call; a document that arrives twice counts
once.

**LogTail.** `content`, `path`, `syslog` are the files, the name and syslog's
descriptor; `fh` the tail's file object. logrotate's `Rename`, `Create` and
`SyslogReopens` are steps between any two of the tail's. The behaviours start with
and without inotify.

**StatsTracker.** `dict(self._data)` copies the top level and shares the nested tables,
so one counter is kept twice, as `record_*` does: at the top (`total`) and nested
(`byIp`). `Snapshot`, `Dump`, `Open`, `Write`, `Replace` are `_save`; the process may die
between any two, and `SaveError` is a disk that refuses the file or its contents. `Record` may break off between its two counters (`_inc` and a user's name
that runs into a number); `raised` counts how often it has.

**Notifiers.** `Fire` is the first half of `fire_alerts` (`AlertManager.send`), then ntfy
blocks the tail thread, then `Route` is every other channel's first lines and `put_nowait`.
`Take`, `Settle`, `Retry` are a worker, `SendDailyReport` the thread that mails once a
day. Email's class of all anomalies and `AlertManager`'s separate types are kept apart;
email reads the wall clock, the rest the monotonic one.

**SessionMonitor.** `Call` and `Snapshot` hold the lock; `Open` and `Fill` are `write_text`,
which truncates first; `WriteError` is what the loop survives. `Restart` forgets the
sessions and leaves the file. `past` remembers every set of sessions there was.

**Hardening.** `at` runs through the steps of the four parts, in the order of `main.py`:
each part goes on to the next whatever it reports, save for `ssh-keygen`, whose failure ends the
command. Writing in place is two actions, truncating and filling; `Die` may come at
any step and leaves what is being filled, or copied, empty or cut short, and a host key that
ssh-keygen was writing half made (`halfMade`): the next run finds it there and keeps it, and sshd
passes over it. A reload may do nothing (`ReloadMayFail`): `stale` remembers that sshd serves
another file than the one accepted last. `Tick` may set the clock back once (`setBack`), for
backups are named in local time. A machine may have no sshd_config to harden. `wellFormed` and
`hostKeys` decide what `sshd -t` says: the first is the set of files without a fault
of their own, and a file names the keys that sshd will try (`KeysNamed`). `moduli` is known
by the kinds of its lines. In `RateLimiter` a boot (`Reboot`) loads nftables.conf and
forgets INPUT; of the iptables rules the model has the two that concern all SYN packets,
for there the order decides whether anyone gets in. A boot is modelled for the filter only: what sshd serves stays.

**KeyAuditor.** `Key` is what ssh-keygen prints for a line, `Weak` the lines of
`_check_compliance`, `visits` the files in the order of the password file, where two users may
share one. `Scan` reads a file at a time, and the lines that parse to no entry drop out; `ReadFile`, `Truncate`, `Fill` are `_remove_key`,
once per flagged line. `NotOpened` and `NotFilled` are its failures, which it logs: the first
leaves the line (`failed`), the second a file cut short (`broken`), and the loop goes on. `UserAddsLine` and `Die` come in between.

**RootCommands, Monitoring.** Systems that share nothing are checked in one run: a
behaviour starts as one of them, and the variables of the others never move. The
reachable states are the union, not the product.

**PortKnocker, AnomalyDetector.** Close to the code; the sockets' backlogs and the whole
log are the environment.

## 3. Runs

All pass except the two of section 6. "States" are distinct states. `Monitors`, `StatsTracker` and
`PortKnocker` are runs of `MCMonitors`, each with parts of its own (`Parts`).

| run | instance | shows |
|---|---|---|
| `BruteForce` | 3 addresses: one whitelisted, one only failing, one also logging in and banned by hand; threshold 3, window 2, base ban 1, cap 3, fail2ban that may fail, clock to 7, events until 3; 102,000 states | Threshold, order, holding of bans, renewals, nobody left dropped but by a death or a failing command, refinement of `SlidingBan`; every ban is lifted, every quiet deque dropped. |
| `ThreatScorer` | 1 address, 2 users and none, default weights, window 1, clock to 4, up to 2 events in a profile; 26,000 states | Counters agree with events; only an observation raises a score; nothing recent is reaped; idle profiles are. |
| `Fortress` | 1 address, 2 log lines of any type, thresholds scaled to them, reputation on with verdicts good for 1, statistics that may raise, clock to 2; 988,000 states | Nobody over the threshold is let off with an alert; an exception costs the rest of one handler and nothing else; the reputation service is asked once per validity. |
| `SIEMBackend` | batch 2, queue 2, 6 documents, both kinds of target; 48,000 states | FIFO with counted losses; everything taken arrives, or, where the target does not answer, is in a batch whose send returned. |
| `LogTail` | 4 lines, 2 rotations, a stop, both loops; 31,000 states | Lines once and in order; a rotation costs only the end of the old file; the current file is followed. |
| `StatsTracker` | 4 events of which 1 breaks off, 3 starts, 2 files, saves that fail; 203,000 states | The file is readable at every death, its counts never fall, every count gets there. |
| `Notifiers` | 2 alerts of 3 types and a daily report in 3 instants after boot, queues of 1 and 2, 2 tries; 117,000 states | Cooldowns hold, a hold-back has a cause, order is kept, queues drain. |
| `PortKnocker` | 2 addresses, 2 ports, 3 knocks each, timeout 2, clock to 3; 1,500,000 states | The port opens exactly at a complete sequence. |
| `Monitors` | anomalies: 3 addresses, 4 events, thresholds 2, clock 1 to 6; sessions: 2, 4 events, 2 failing writes, a restart; 1,755,000 states | Trimming as events come agrees with the whole log, one report per spike; sessions.json shows a moment that was, and catches up. |
| `RootCommands` | harden: 2 runs, 2 seconds with one step back, any set of acceptable files and of host keys (1 weak, 2 strong), either packet filter or none, failing tools and reloads, death anywhere, boots; keys: 2 files of 2 lines, 1 edit, failing reads and writes, death anywhere; 8,964,000 states | A refused configuration is taken back; what the administrator had stays on the disk; a complete run has done everything; exactly the flagged lines go, but for those whose removal failed. |
| `CliUnban`, `FailureCount` | as above, smaller | Section 6. |

**Bounds.** `MaxTime`, `LastEvent`, `LastRecord`, `MaxOffence`, `MaxEvents`, `MaxRecords`, `MaxDocs`, `MaxLines`,
`MaxRotations`, `MaxTotal`, `MaxRaised`, `MaxStarts`, `MaxAlerts`, `MaxKnocks`, `MaxCalls`,
`MaxErrors`, `MaxDeaths` cap counters in the guards and
appear in no other place. They leave room for each mechanism to happen, and to happen
again: a threshold crossed, a ban expired and another made; a window left and entered
anew; a queue full while its worker sleeps; two failures of one batch and one more
document; a rotation between any two steps of the tail, twice; a save that is
interrupted, loaded and saved again; a knock sequence that times out and is repeated;
a run of harden that dies and a second one over its remains, in the same second or the next.
`MaxLines` is also the number of lines of an authorized_keys file: two lines in each of two files give
every pair of a first and a later copy, in one file and across.
Thresholds are 2 or 3 for 5 or 20, windows 1 or 2 seconds for 10 or 900: the code
compares with them and with nothing else. Addresses do not interact except through
the reapers' sweeps and the anomaly windows, where two and three are used. In the run of
`BruteForce` fail2ban's commands fail and nft's do not, so that the property about orphans is seen
to lay a failure at the right door; nothing else reads `blocked`, which the run of `Fortress`
therefore keeps simple, and the theorems hold for any set of blockers that fail. One weak
host key is enough to be the only one there, or one of several; two strong ones have a
death, or a failure, before, between and after them. `CHECK_DEADLOCK FALSE`
stands where a system really ends: with its last input and its clock, with a stopped
or dead tail, with the last process dead.

**Fairness.** `WF(Tick)`: time passes. `WF` of the reapers' two steps: daemon threads in
`while True: sleep`, a short critical section, and locks always released. `WF` of the
saver, of a worker's step, of the tail thread: the same, and every blocking call of
theirs has a timeout. `SF` of the saver's `Open` and `Write`: the disk does not refuse every save for ever. In `Fortress`, `WF(TailStep)` says the tail thread is not held up for
ever, but not that a line comes. In `SIEMBackend`, `SF(SendReturns)` is an assumption
about the target: of sends repeated for ever, some return; without it nothing can
arrive. In `LogTail`, logrotate finishes what it began. In `SessionMonitor`, `WF(Flush)` is the
writer thread, whose loop catches everything a write can raise. `PortKnocker`, `AnomalyDetector`,
`Hardening` and `KeyAuditor` are checked for safety alone. Nothing fair is asked of clients,
operators, users, deaths or failures.

## 4. What is proved

Every theorem holds for all values of the constants that the named assumptions allow:
any number of addresses, users, documents, lines, processes or alerts, any threshold,
window, duration and queue size. Each bound of a run is a natural number like any other
here. The assumptions give constants their types, and beyond that say:

| assumption | beyond types | because |
|---|---|---|
| `BruteForceAssumption` | `MaxAttempts`, `KernelTimeout`, `JailTime` positive; the sets of addresses are subsets of `IPs` | `config_validator.py`; a timeout of 0 is no timeout |
| `ThreatScorerAssumption`, `WeightsAssumption` | `NoUser` is not a user; weights are naturals | the defaults (`threat_scorer.py:38`), and what a weight means |
| `FortressAssumption`, `HelpersAssumption` | there are an address and a port, `"root"` is a user, the scorer is enabled and its own bounds hold nothing up; the assumption of `BruteForce` holds of what the daemon hands it | `main.py:272` compares with "root"; `settings.yaml:276` |
| `SIEMAssumption` | batch, queue and backoff limit positive | `queue.Queue(maxsize=10_000)`; a batch size below 1 acts like 1 |
| `LogTailAssumption` | nothing | |
| `MonitoringAssumption` | `StatsAssumption` and `PortKnockerAssumption` hold | they are stated with their modules |
| `StatsAssumption` | more inodes than processes; `NoFile` is none of them | a file that is to be opened finds an inode |
| `AnomalyAssumption` | the first instant is within the bound on the clock | `time.monotonic` counts from the boot, the daemon starts later |
| `PortKnockerAssumption` | the sequence is not empty and its ports differ; a backlog and the time until closing are positive | every socket is bound and listens, and with TCP a second one of the same port ends the thread (`port_knocker.py:71`) |
| `HardeningAssumption` | no key is weak and strong; whether tools fail is TRUE or FALSE; a run's name is no marker of file contents | the lists in `crypto_policy.py:30` and `:44`; a configuration is known by the run that built it |
| `AuditAssumption` | a comment is no line with a key, and the user's line is neither; `Visits` are sequences of files | what the names mean: `key_auditor.py:109` skips comments |
| `NotifiersAssumption` | queues hold a message, something is tried at least once | `queue.Queue(maxsize=200)` and the like, `retries=3` |

| module, theorem | statement |
|---|---|
| `BruteForceProofs` | |
| `TypeCorrect` | types; no record and no clock reading is ahead of the clock |
| `ThresholdIsEnforced` | no address is at `MaxAttempts` failures without a ban, no banned address has a deque |
| `AttemptsAreOrdered` | deques are in the order of time and not in the future |
| `BansAreHeldUntilDue` | a ban ends when it is due, by `unban()` or with the process |
| `BanningAgainNeverShortens` | a ban on the schedule that replaces one in force ends no earlier |
| `OrphansAreLeftByFaults` | a blocker is left holding an address without a ban only by a restart, or at the end of the ban by a failing command of its own |
| `RefinesSlidingBan` | `Spec => Ideal!Spec` |
| `FortressProofs` | |
| `FailuresAccounted` | the failures that statistics lost are no more than the bans they counted |
| `AskedOncePerVerdict` | one request per validity of a verdict |
| `ColdOnlyLetGo` | an address let go with an alert is below the threshold, off-hours logins and all, until the alert is out |
| `ScorerTypeCorrect`, `ScoreStaysInRange` | types; a score is in 0 .. 100, whatever the weights |
| `CountersRight` | counters kept one by one are the counts of the events a profile holds |
| `ReapsOnlyTheIdle` | the reaper, on a reading however old, drops no profile with an event in the window |
| `ScoreOnlyFalls` | only an observation of an address raises its score |
| `SIEMBackendProofs` | |
| `TypeCorrect`, `EveryDocumentAccounted` | the drop count is the number of documents that neither arrived, nor wait, nor were lost behind a send that returned; with a target that answers none are |
| `RefinesChannel` | `Spec => Channel!Spec`, for either kind of target |
| `ArrivesInOrder` | a target that answers gets documents in the order in which they were offered |
| `LogTailProofs` | |
| `TypeCorrect`, `LinesInOrder` | lines are handled once each, in order, and only the end of an old file is missed |
| `MonitoringProofs` | |
| `AnomalyTypeCorrect`, `SpraysAreReported` | a spray is reported at exactly the events that complete the threshold of addresses within the window |
| `SpikesAreReported` | a spike is reported at exactly the failures at the baseline that are not in the pause after a report, or after the boot |
| `SessionsFileIsASnapshot` | a `sessions.json` that is whole holds the sessions of one moment, and their number |
| `KnockTypeCorrect`, `KnocksOpenExactly` | the SSH port is opened by the knock that completes the sequence in time, and by no other |
| `StatsTypeCorrect`, `TableNotOlder` | in a file that is whole the nested table is never older than the total |
| `FileStaysReadable`, `CountsAreKept` | given `[]AtMostOneRuns`: `stats.json` is readable at every instant; no count leaves it |
| `RootCommandsProofs` | |
| `HardeningTypeCorrect`, `FailedRunsRevert` | between runs sshd_config is what `sshd -t` accepted last, and sshd could start with it, unless a run died on it or the clock was set back; sshd serves that file, or has not been reloaded since |
| `CompleteRunsHarden` | after a run that went to its end weak keys and groups are gone, the PAM stack is hardened, the rules hold unless a tool failed |
| `OriginalsSurvive` | a copy of the administrator's sshd_config, PAM stack and moduli stays on the disk, but for the two ways spelt out |
| `AuditTypeCorrect`, `KeysRevokedExactly` | a file that is not being written and was not left half written has all lines whose key is neither weak nor seen before, in their order, and after an audit that ended no other but those whose removal failed; an edit is lost only between a reading and a writing |
| `NotifiersProofs` | |
| `TypeCorrect`, `NoAlertStorm` | mails and alerts of a class are a cooldown apart |
| `MessagesInOrder` | each worker settles in the order of its queue |
| `HeldBackOnlyWithCause` | an alert is held back only within the cooldown of another, or of the boot |

`FileStaysReadable` and `CountsAreKept` have one hypothesis beyond the constants,
`[]AtMostOneRuns`: no two processes run savers at once. It is what the daemon alone
does, restarted as often as one likes, and what its run checks. Without it both
theorems are false: `main.py metrics` beside the daemon (section 6).

The last theorem is about `SpecEither`, in which a session audits keys or hardens; the others
about `harden` are about `Hardening`'s `Spec`, which is what that session does. `MonitoringProofs` states its theorems about the specification of each part (`SM!Spec`, `ST!Spec`, `PK!Spec`
and the detector's `Spec`); `Monitoring` only puts the parts side by side. The theorems
about `ThreatScorer` are about `ScorerSpec`, and the lemma `HelpersInside` brings them into the daemon for
`ColdOnlyLetGo`.

**The arguments.**

`BruteForce`. `IInv == TypeOK /\ ThresholdEnforced /\ AttemptsOrdered`. None of
the three is inductive alone in a useful way: that the deque `record_failure` counts
stays ordered needs that what is in it is not ahead of the clock; that a counted deque
below the threshold stays below it needs that a banned address has no deque; and the
window lemmas need ordered deques of naturals. There is one lemma per action, put
together in `NextInv`. `BansAreHeldUntilDue` is about the reaper's stale reading:
`reaper <= now` is in `TypeOK`, so what is due at the reading is due now.
`BanningAgainNeverShortens` needs that an offence in the table is at least the first
(`Numbered`, for `offence - 1` is an exponent) and that `2^n` grows with `n`, which is had without
induction: `2^n` is the number of subsets of `1 .. n` (`FS_SUBSET`), and a subset of
`1 .. m` is one of `1 .. n`.

`WindowFacts` is the pure part. `FirstKept` is well defined (a least index exists, by
well-foundedness of `<` on the naturals) and unique, so `Evict` is a suffix, keeps order,
empties what is outdated (`EvictAllOutdated`), commutes with appending (`EvictAppend`) and,
with a later cutoff, absorbs an earlier one (`EvictTwice`). The refinement of `SlidingBan` rests
on these: `EvictTwice` gives the same window whether or not the code trimmed before; what
the reaper drops as stale has an empty window already (`EmptyWindow`); time passing in
the code is the exact window being trimmed. Each action maps to the action of
the same meaning, or to a stutter.

`ThreatScorer`. `ScorerInv`: types, every profile `Proper` (its counters are the counts of its events,
its usernames are finitely many, no event is later than `lastSeen`), and `lastSeen <= now`. The counters
are recounted where events leave and added to where one comes, so the count of a deque with one
more event is the lemma that matters. The last part is why the reaper may look at `lastSeen`
alone: nothing in the profile is newer. `ScoreOnlyFalls`: each signal falls or stands when a deque
is trimmed further, and a capped sum of such signals does too; `known_good` and reputation change
in observations only.

`Fortress`. `BaseInv == Typed /\ Routed /\ Balanced`. `Routed` says which event can be in
hand at which place of `handle_event`. `LostFailuresAreBans` speaks of the instants between events;
`Balanced` says it of every instant, `Owed` being the failure in hand that is not yet
counted: a ban pays for the failure it makes `handle_event` lose. `QuotaInv`: every request
about an address is answered by a verdict no older than it, or is the one the tail thread waits
for, so that the next one finds the last verdict outlived. `ColdOnlyLetGo`: `Judge` trims before it
scores, and a profile trimmed once scores like one trimmed again later at the same
instant (`TrimmedOnce`); on the way to the alert nothing is recorded, so by `ScoreOnlyFalls` no clock
tick and no reaper raises the score.

`SIEMBackend`. `IInv` adds to types and the accounting that the queue is in order, that the batch
is older than it and that nothing arrives out of the queue (`Sequenced`), and
`ArrivedInOrder`. The channel's `pending` is what is in hand and has not arrived: `get`, backoff
and a repeated delivery leave it alone, a send that returns settles the whole batch, which is the
oldest of what waits (`SendReturnsRefines`), one that raises what got through.

`LogTail`. `Files` (the name is the newest file's or nobody's; nothing is after syslog's file),
`Numbered` (lines run on without a gap inside a file and grow from file to file), `Reading`
(where the reader is, which file it holds, and that what was handled last is the line
before its position, or in an older file). `HandledInOrder` does not look into files; these say that
the next line read is the next one, or the first of a later file.

`StatsTracker`. `Nested` follows a snapshot through dump, open and write: the top level is
copied first, so the table is the newer in every copy there is. `AloneInv`: `stats.tmp`
and `stats.json` are not one file (`NamesApart`), who replaces has written `stats.tmp` whole
(`Writing`), and totals on their way to the file lie between those in it and those in memory (`Ahead`).

`Notifiers`. `NoStorm` speaks of alerts long past, the code remembers one instant per class:
`MailRemembered` and `DispatchRemembered` say that it is at least as late as any of them,
`CooldownHasCause` that it is one of them. `QueueInv` follows messages from queue to worker.

`AnomalyDetector`. The properties speak of the whole log, the code keeps two trimmed deques. `AnomalyInv`:
`_ip_window` is the end of the log and what it lacks is outdated (`WindowIsEndOfLog`); `_failures`
has the times of an increasing choice of the log's failures, and the failures not chosen are outdated
(`FailuresAreOfLog`), so its length is the number of recent failures; `_last_spike_alert` is 0 or the
time of the last report (`LastSpikeIsLastReport`). What was true of a past event stays true, for
the log only grows.

`SessionMonitor`. `CarriesOneMoment`: what the writer holds between the lock and the
file is one moment's sessions already, whatever events come before it opens the file.

`PortKnocker`. `KnocksInv`: the progress of an address is the end of what is recorded for it, and what it
lacks is outdated, or ends with the last port of the sequence (`IsEndOf`). Why that is
enough: as the ports differ, the sequence cannot be completed by knocks from before such a port and
knocks from after it, so an address that lost its progress to an opening lost nothing it could
use. Here the assumption that ports differ is needed and not only convenient.

`Hardening`. `IInv` says by the place of the run what each part has done. `SshdInv`: no backup
is of a second to come, until the clock is set back, so the latest one is this run's, and its
content is what was accepted last as long as the run may still put it back; a configuration
is served only if `sshd -t` took it. A death drops these clauses (`interrupted`) until a
configuration is accepted again. `KeysInv`, `ModuliInv`, `PamInv`, `FilterInv` are the
progress of the other parts, each with what a dead run may leave half written at the place
where it dies. `OriginalsSurvive` needs of a truncation only that a backup with the same content
is there (`at = "truncate"`, `"moduliOpen"`, `"pamOpen"`): what is lost is then a backup that is
overwritten, and the two ways to overwrite one are those that the property names.

`KeyAuditor`. Induction over a list is had without the library's induction theorems: of the
lists for which a fact fails, take one of least length (`LeastNatural`). So `Without` is shown
to be defined for every list (`FillingExists`), to go along it (`WithoutAppend`), to keep exactly
the elements it should, and to do in one step what it does in two (`WithoutFacts`).
`AuditInv`: while files are read, the entries are those of the lines met so far, and a
fingerprint is among the seen ones if a line with it came before (`ScanInv`, `SeenIsKnown`); afterwards the
entries name exactly the condemned lines (`GoesInv`); and each file but the one in hand has what the
entries dealt with leave of it, with the user's line behind (`RewriteInv`): those whose removal failed
take nothing out (`Gone`). No text that is gone comes back, not even in a file cut short (`AwayInv`). What is kept of such
a file is what one entry more leaves (`StandsLonger`), so the buffer stands for the next count.

**Only model-checked.**

- Liveness and everything that rests on fairness (`BansLifted`, `AttemptsForgotten`, `IdleForgotten`,
  `TailReturns`, `TakenDocsArrive`, `CurrentFileFollowed`, `CountsReachTheFile`, `QueuesDrain`,
  `FileCatchesUp`): outside the prover's reach, as is ENABLED.
- `CliUnban` and `FailureCount` are counterexamples.

## 5. Properties

Each is stated above its definition in words. The ones that say most:

- `ImplementsSlidingBan`, `BanHeldUntilDue`: neither lazily trimmed deques nor a reaper that
  decides on an old clock reading can be seen by a caller.
- `OrphansOnlyByFault`: a table and two blockers, changed one after the other by commands whose
  failures are swallowed: whose failure can leave whom dropped.
- `LetGoOnlyIfCold`: the interleaving of `handle_event` with both
  reapers lets nobody off whose score is at the threshold when it is asked.
- `LostFailuresAreBans`, `TailReturns`: what the exception out of `on_ban`
  costs, and what it does not.
- `NothingUnaccounted`, `ImplementsChannel`, `TakenDocsArrive`: retries over a target that may have
  half of the batch, and what is left of the promises over one that does not answer.
- `HandledInOrder`, `CurrentFileFollowed`: what a rotation at the worst instant costs.
- `FileReadable`, `NestedNotOlder`, `CountsStayPersisted`: `stats.json` at every point a process may
  die, although the snapshot is only half a copy.
- `NoStorm`, `SettledInOrder`: cooldowns taken at raising, deliveries made later.
- `QuotaKept`: one question per validity of a verdict, also when the answer takes its time.
- `FileIsASnapshot`, `FileCatchesUp`: `sessions.json` under failing writes and restarts.
- `FailureReverts`: revert to "the latest backup", whoever made it, with the host keys
  changing after sshd has been asked and reloads that do nothing.
- `OriginalsKept`: of the administrator's sshd_config, PAM stack and moduli a copy stays on the
  disk, however many runs die and where; the two ways to lose one are spelt out.
- `CompleteRunHardens`: what dead and failed runs left of keys, moduli, PAM stack and packet filter does
  not survive a run that ends. It says nothing of sshd_config, which such a run may have put back or not
  found: that is `FailureReverts`.
- `RevokedExactly`: line by line rewriting by text, of copies found by fingerprint, with
  a user at the same file and removals that fail.

The type invariant of `BruteForce`, which carries facts about clock readings, is also
a property of its run. Those of `ThreatScorer`, `SIEMBackend`, `LogTail`, `StatsTracker`,
`Notifiers`, `AnomalyDetector`, `PortKnocker` and `Hardening` are proved and need no run; the other
modules state theirs as the declaration of their variables.

## 6. Where code and documentation disagree

Two runs have a counterexample each:

- **CliUnban**: `main.py unban` (`src/main.py:548`) builds a fresh protector with an empty ban
  table; `_unban` returns before it reaches nft and fail2ban, and the address goes on being
  dropped until the element times out. README: "Manual ban / unban via CLI".
- **FailureCount**: `on_ban` calls a method that does not exist (`src/main.py:151`; the method
  is `notify_brute_force`, `discord_notifier.py:60`). The exception abandons
  `handle_event`, so the failure that triggers a ban is not counted. README: "Counts:
  total attempts, successes, failures, ...". For the same reason Discord never hears of
  a ban and `THREAT_BAN` is never raised. `LostFailuresAreBans` bounds the loss.

Others were met while modelling. The models contain the behaviour; the properties
listed are the strongest that hold in its presence, and no run is kept for the stronger
ones:

- Serving a ban deletes the offence count (`brute_force.py:166`), so "ban doubles per repeat
  offence" holds only for bans renewed while in force.
- A command of nft or fail2ban that fails is swallowed, its exit status never read: a ban may not be
  enforced, and one that was lifted may stay with fail2ban until its own time is up
  (`OrphansOnlyByFault`). The jail's name is fixed (`brute_force.py:186`), whatever `jail_name` says.
- Adding an element that the kernel set holds does not renew its timeout, so a renewed
  ban outlives its element; and a CLI ban lasts the set's own timeout, not `--duration`.
- `ban()` does not look at the whitelist, which the score and reputation bans use.
- Usernames stay in a profile as long as one event does (`threat_scorer.py:229`).
- `_classify` takes the first pattern that matches, and the one for failures comes before the
  one for root: a failed password for root is an AUTH_FAILURE, never a ROOT_ATTEMPT, which
  README's "Any `root` login attempt" asks for. Only a method that is not `\w+` gets there
  (`keyboard-interactive/pam`), and for other users such a failure is UNKNOWN and counted
  nowhere (`log_parser.py:76`). PUBKEY_ACCEPTED cannot occur: "Accepted publickey" is AUTH_SUCCESS.
- `should_ban` is asked after failures only: root attempts can take a score over the
  threshold and nothing happens (`main.py:271`).
- A batch is forgotten as soon as `_send_batch` returns, and no failure is counted behind it: UDP datagrams,
  the end of a TCP stream that broke, records that Kafka's producer gave up (its futures are never
  read) and items that Elasticsearch refused (a warning) are lost, and `dropped_counts` does not show
  it (`siem_forwarder.py:88`).
- A batch grows past `batch_size` while sends fail (`siem_forwarder.py:84`).
- What syslog adds to the old file after the last drain is not read after a rotation
  (`HandledInOrder`); if the name is free when the file is reopened the tail keeps
  a closed file and its thread ends (`log_aggregator.py:88`); the inotify loop never
  reopens at all (`CurrentFileFollowed` says up to when it follows).
- `main.py metrics` starts a saver of its own on the same two files: it writes the counts
  it loaded back over newer ones, and the two can tear `stats.json`.
- `AlertManager` and the spike detector compare a default of 0 with a clock that starts
  at boot (`HeldBackWithCause`, `SpikeExact` have the exception).
- Telegram and Discord have no cooldown; ntfy's Title header has an em dash, which cannot
  be sent in a header, and the push swallows the error.
- Knocks are recorded in the order of the poll, not of their arrival, so quick knocks in
  the right order may be refused.
- The spray alert is at the threshold, documented as above it.
- The session count that statistics show, and their peak, are one event late
  (`main.py:277` asks before the session monitor has seen the event), and a restart forgets the
  sessions that are open.
- A reputation query that fails is kept as a clean verdict for a day
  (`ip_reputation.py:56`).
- A user's name that runs into a number ("al.failures" after "al") makes `_inc` raise: the
  record is half made, and the rest of `handle_event` is lost.
- README "Full backup before every change": host keys, nftables.conf and authorized_keys have
  no backup; that of moduli has one name and is overwritten, after a death by a file cut
  short (`OriginalsKept`).
- The weak host keys go although sshd_config has been put back, and may be the only ones it
  names (`FailureReverts` has the exception).
- Where both `systemctl reload` fail nothing is reloaded: the `kill` that is to do it is a list given to
  `shell=True`, so the shell runs `kill` without arguments; "sshd reloaded successfully" is logged all
  the same (`ssh_config.py:54`, `:209`), and sshd serves the old settings (`stale` in `FailureReverts`).
- The latest backup is the last by name, in local time: after the clock was set back, at the end of summer
  time for one, a revert takes another run's.
- A host key that a death of ssh-keygen left half made is kept by every later run.
- A death between writing and validating leaves an unvalidated sshd_config; two runs in one
  second share a backup. Each run is alone in the model: two at once could restore
  each other's file.
- A failing iptables rule is reported as success; one that accepts may be missing before the
  one that drops (`CompleteRunHardens` says when). Every run appends the rules again, and
  `flush`, which nothing calls, would leave those in INPUT.
- `revoke_expired` removes every flagged line, copies among them: of two lines with one key
  the first that is met stays, but where both have the same text and file both go, and
  with them the key; users who share a home lose all keys of it.
  Keys that ssh-keygen cannot read are copies of each other. A file that cannot be read or written keeps
  its flagged line and a full disk cuts it short; the command logs it and goes on to its end.
- No key is ever revoked, or flagged, for its age: `key_auditor.py:5` ("Flags keys older than
  max_key_age_days"), `:7` ("revokes expired/weak keys"), `settings.yaml:254` and README ("weak, old, or
  duplicate entries") promise it, but `_max_age_days` is set (`key_auditor.py:51`) and read nowhere. `RevokedExactly` says what
  is done: weak keys and copies. There is no state of a key's age in the code to model, so no run shows it.
- Every ECDSA key is taken for
  DSA ("dsa" is in "ecdsa", `key_auditor.py:152`), while README has "ECDSA < 521 bits".

## 7. Not modelled

Text: the regular expressions themselves, message formats, reports, the parsing of
configuration files. The configuration validator checks single settings and changes nothing; its results
are the assumptions on the constants. Read-only probes: health checks, metrics
rendering, `status`, `report`, `audit` of sshd_config. Dead code: impossible travel
(`_geoip_country` returns None), the geo blocker (started, never asked),
`RateLimiter.flush`. `_stop` stops the tail (`Stop` in `LogTail`) and ends the process,
which is the death of the process in `BruteForce`, `StatsTracker` and `SessionMonitor`; what is in queues is lost
with it. Durations: how long a blocking call of the tail thread takes, other than the
reputation query and ntfy's push. Partial lines. What fail2ban does on its own, beside the
protector's commands; what a target does with a document after the call that sent it. What sshd
serves after a boot. The iptables rules for the SSH port alone. An
editor that replaces authorized_keys instead of writing to it. The age of keys (section 6).

## 8. Plan

The order was: protector, scorer, their composition in the event loop, then the
components with a thread of their own (forwarder, tail, statistics, notifiers, session
monitor), then what root runs by hand (hardening, key audit); then the proofs of
section 4, in the same order. Every safety property that a run checks is a theorem. What could
come next:

1. Refinements of `LogTail` (a channel that loses only the end of an old file) and of
   `Notifiers` (a FIFO per worker), as `SIEMBackend` has one.
