CONSTANTS
  Second = 8
  Millisecond = 2
  Rounds = 1
  Longest = 16
SPECIFICATION FairSpec
PROPERTIES CalibrationEnds
