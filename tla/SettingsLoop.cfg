CHECK_DEADLOCK FALSE
SPECIFICATION FairSpec
CONSTANTS
  Positions = {0, 1}
  Default = 0
  MaxSaves = 2
PROPERTIES LoadEnds
