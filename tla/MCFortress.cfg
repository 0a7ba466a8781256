SPECIFICATION FairSpec
CONSTANTS
  IPs = {a}
  Whitelist = {}
  Users = {"root"}
  NoUser = nouser
  Ports = {p1}
  MaxAttempts = 2
  ObservationWindow = 1
  BaseDuration = 1
  MaxDuration = 2
  Progressive = TRUE
  Fail2ban = FALSE
  KernelTimeout = 2
  JailTime = 2
  MayFail = {}
  ThreatWindow = 1
  BanThreshold = 14
  Weights <- DefaultWeights
  ThreatEnabled = TRUE
  LastRecord = 2
  MaxRecords = 3
  RepEnabled = TRUE
  PrivateIPs = {}
  RepTTL = 2
  StatsMayRaise = TRUE
  MaxTime = 2
  MaxEvents = 2
INVARIANTS
  LetGoOnlyIfCold
  LostFailuresAreBans
  QuotaKept
PROPERTIES
  TailReturns
