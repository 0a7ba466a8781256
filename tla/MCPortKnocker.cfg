\* two addresses, two ports; it ends with the clock
SPECIFICATION FairSpecOfOne
CONSTANTS
  Parts = {"knocks"}
  IPs = {i1, i2}
  SprayThreshold = 2
  SprayWindow = 1
  Baseline = 2
  SpikeWindow = 1
  SpikePause = 2
  OffHours = {5, 6}
  FirstTime = 1
  MaxTime = 3
  MaxEvents = 4
  Ids = {s1, s2}
  MaxCalls = 4
  MaxErrors = 2
  MaxDeaths = 1
  Procs = {daemon}
  Recorders = {daemon}
  Inodes = {f1, f2}
  NoFile = NoFile
  MaxTotal = 4
  MaxRaised = 1
  MaxStarts = 3
  KnockSequence <- MCSequence
  Timeout = 2
  CloseAfter = 2
  Backlog = 2
  MaxKnocks = 3
PROPERTIES
  OpensExactlyOnSequence
CHECK_DEADLOCK FALSE
