SPECIFICATION FairSpec
CONSTANTS
  IPs = {a, b, c}
  Whitelist = {c}
  MaxAttempts = 3
  Window = 2
  BaseDuration = 1
  MaxDuration = 3
  Progressive = TRUE
  LoggingIn = {b}
  Suspects = {b}
  Overrides = {2}
  Fail2ban = TRUE
  KernelTimeout = 3
  JailTime = 2
  MayFail = {"fail2ban"}
  MayCrash = TRUE
  LastEvent = 3
  MaxTime = 7
  MaxOffence = 3
INVARIANTS
  TypeOK
  ThresholdEnforced
  AttemptsOrdered
PROPERTIES
  BanHeldUntilDue
  RebanNeverShortens
  OrphansOnlyByFault
  ImplementsSlidingBan
  BansLifted
  AttemptsForgotten
