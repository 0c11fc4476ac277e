SPECIFICATION Spec
CONSTANTS
  WindowSize = 4
  MaxSeq = 12
INVARIANTS TypeOK LostIsExact NeverOvercounts
