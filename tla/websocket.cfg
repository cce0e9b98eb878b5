SPECIFICATION FairSpec
CONSTANTS
  Lengths <- BoundaryLengths
  MaxFrames = 2
INVARIANTS
  TypeOK
  InStep
  AnswersInOrder
PROPERTY SessionEnds
