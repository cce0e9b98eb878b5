SPECIFICATION Spec
CONSTANTS
  Sizes = {20}
INVARIANT StallReported
