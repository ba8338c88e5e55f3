SPECIFICATION CrossSpec
CONSTANTS
  N = 2
  Programs <- EmptyLoop
  WordBits = 3
INVARIANT InOrder
