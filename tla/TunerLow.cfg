SPECIFICATION Spec
CONSTANTS
  Window = 4
  DetectEvery = 2
  MinLag = 2
  MaxLag = 6
  Rate = 12000
  Voiced = 3
  Tie = 2
  Frames <- MCFrames
  Silent = Silent
  Settles = 11
  BlockSizes = {1, 3}
  MaxChanges = 2
INVARIANT FallsBackToALag
