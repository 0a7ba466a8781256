\* all channels; the system stops when the clock and the alerts run out
SPECIFICATION FairSpec
CONSTANTS
  Types = {"BRUTE_FORCE_BAN", "ANOMALY_A", "ANOMALY_B"}
  Anomalies = {"ANOMALY_A", "ANOMALY_B"}
  Triggers = {"BRUTE_FORCE_BAN", "ANOMALY_A"}
  Channels = {"slack"}
  Cooldown = 2
  MailCooldown = 2
  DailyReport = TRUE
  NotifyOn <- MCNotifyOn
  QueueSize <- MCQueueSize
  Retries = 2
  SilentHours = {1}
  BootTime = 10
  MaxTime = 3
  MaxAlerts = 2
INVARIANTS NoStorm SettledInOrder HeldBackWithCause
PROPERTY QueuesDrain
CHECK_DEADLOCK FALSE
