SPECIFICATION Spec
CONSTANTS
  MaxSeq = 3
  MaxCopies = 0
INVARIANT LossIsLossOrTimeout
