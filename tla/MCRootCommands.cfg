\* runs of harden that die anywhere, or a revocation; both come to an end
SPECIFICATION SpecEither
CONSTANTS
  Runs = {"r1", "r2"}
  WeakOrder <- MCWeakOrder
  StrongOrder <- MCStrongOrder
  KeygenMayFail = TRUE
  ReloadMayFail = TRUE
  NftMayFail = TRUE
  Paths = {"p", "q"}
  Visits <- MCVisits
  Key <- MCKey
  Weak = {"W"}
  NewLine = "N"
  FilesMayFail = TRUE
  MaxTime = 1
  MaxLines = 2
INVARIANTS FailureReverts CompleteRunHardens RevokedExactly
PROPERTY OriginalsKept
CHECK_DEADLOCK FALSE
