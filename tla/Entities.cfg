CONSTANTS
  None = None
  Ids <- MCIds
  Layer0 <- MCLayer0
  Deletions <- MCDeletions
  MaxMoves = 1
SPECIFICATION MCSpec
INVARIANTS TablesAreOnePass EdgesFitNodes AnswerIsClosure TypesMatchEitherWay NoImplementorMissed
