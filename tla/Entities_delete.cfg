CONSTANTS
  None = None
  Ids <- MCIds
  Layer0 <- MCLayer0
  Deletions <- BothMethods
  MaxMoves = 0
SPECIFICATION MCSpec
INVARIANT DeletesSucceed
