CONSTANTS
  Actors = {"first"}
  Rooms = {r1}
  First = r1
  MaxTexts <- Once
  MaxSends <- Twice
  MaxTurns <- None
  Mutations = {1, 2}
SPECIFICATION ComposerSpec
INVARIANTS TextStoredOnce
