SPECIFICATION MCSpec
CONSTANTS
  NULL = NULL
  TypeMin = 0
  TypeMax = 7
  NumBits = 4
  P = 3
  CountBits = 6
  BucketSizes <- MCBucketSizes
  Programs <- MCPrograms
  Counts = {40, 41, 63}
  Requests = {0, 2}
  Rank = 4
  MaxViews = 20
  Crew = {0, 1, 2}
  Leader = 0
  Shape <- MCShape
INVARIANT RecursionInvariant
