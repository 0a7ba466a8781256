SPECIFICATION FairScorerSpec
CONSTANTS
  IPs = {a}
  Users = {u1, u2}
  NoUser = nouser
  ThreatWindow = 1
  BanThreshold = 70
  Weights <- DefaultWeights
  ThreatEnabled = TRUE
  LastRecord = 2
  MaxTime = 4
  MaxRecords = 2
INVARIANTS
  CountersMatchEvents
PROPERTIES
  ScoreRisesOnlyByRecord
  NothingRecentIsReaped
  IdleForgotten
