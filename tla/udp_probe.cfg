SPECIFICATION FairSpec
CONSTANTS
  MaxSeq = 3
  MaxCopies = 1
INVARIANTS
  TypeOK
  ReceivedWasEchoed
  LagIsTimeoutsAndCopies
PROPERTY ReturnsAfterDuration
