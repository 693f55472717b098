SPECIFICATION TrainingSpec
CONSTANTS
  NEpochs = 2
  StepsPerEpoch = 2
  Epsilon = 0
  MaxResumes = 2
  Absent = Absent
  Scores <- MCScores
  SlowUpdateModes <- MCModes
PROPERTIES
  NoScoreRegression
CHECK_DEADLOCK FALSE
