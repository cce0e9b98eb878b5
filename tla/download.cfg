SPECIFICATION FairSpec
CONSTANTS
  Sizes = {0, 20, 41}
INVARIANTS
  TypeOK
  LabelMeansBytes
  StalledMeansIdle
  ReasonFits
PROPERTY EndsWithDuration
