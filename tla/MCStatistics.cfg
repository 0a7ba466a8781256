\* the daemon alone, restarted; it ends when it has died for the last time
SPECIFICATION FairSpecOfOne
CONSTANTS
  Parts = {"statistics"}
  IPs = {i1, i2, i3}
  SprayThreshold = 2
  SprayWindow = 1
  Baseline = 2
  SpikeWindow = 1
  SpikePause = 2
  OffHours = {5, 6}
  FirstTime = 1
  MaxTime = 6
  MaxEvents = 4
  Ids = {s1, s2}
  MaxCalls = 4
  MaxErrors = 2
  MaxDeaths = 1
  Procs = {daemon}
  Recorders = {daemon}
  Inodes = {f1, f2}
  NoFile = NoFile
  MaxTotal = 4
  MaxRaised = 1
  MaxStarts = 3
  KnockSequence <- MCSequence
  Timeout = 2
  CloseAfter = 2
  Backlog = 2
  MaxKnocks = 3
INVARIANTS
  FileReadable
  NestedNotOlder
PROPERTIES
  CountsStayPersisted
  CountsReachTheFile
CHECK_DEADLOCK FALSE
