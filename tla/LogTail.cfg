\* two rotations; a dead or stopped tail ends the system
SPECIFICATION FairSpec
CONSTANTS
  MayStop = TRUE
  MaxLines = 4
  MaxRotations = 2
INVARIANT HandledInOrder
PROPERTY CurrentFileFollowed
CHECK_DEADLOCK FALSE
