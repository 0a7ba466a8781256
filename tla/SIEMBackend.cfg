SPECIFICATION FairSpec
CONSTANTS
  BatchSize = 2
  QueueSize = 2
  MaxBackoff = 4
  MaxDocs = 6
INVARIANTS
  NothingUnaccounted
PROPERTIES
  ImplementsChannel
  TakenDocsArrive
