SPECIFICATION AlignSpec
CONSTANTS
  MaxSequences = 3
  MaxLength = 5
  MaxHorizon = 2
INVARIANT
  ScoresBesideLabels
CHECK_DEADLOCK FALSE
