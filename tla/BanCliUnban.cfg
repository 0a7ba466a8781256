\* main.py unban
SPECIFICATION CSpec
CONSTANTS
  IPs = {a}
  Whitelist = {}
  MaxAttempts = 2
  Window = 1
  BaseDuration = 2
  MaxDuration = 4
  Progressive = TRUE
  LoggingIn = {a}
  Suspects = {a}
  Overrides = {1}
  Fail2ban = TRUE
  KernelTimeout = 3
  JailTime = 2
  MayFail = {}
  MayCrash = FALSE
  LastEvent = 3
  MaxTime = 6
  MaxOffence = 2
INVARIANT CliUnbanLifts
CHECK_DEADLOCK FALSE
