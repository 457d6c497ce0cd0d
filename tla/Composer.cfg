CONSTANTS
  Actors = {"first", "other"}
  Rooms = {r1, r2}
  First = r1
  MaxTexts <- Twice
  MaxSends <- Twice
  MaxTurns <- OnlyTheFirst
  Mutations = {1, 2}
SPECIFICATION ComposerSpec
INVARIANTS ShownInServerOrder ConfirmedStaysShown
PROPERTIES BoxEmptiedByStoredMessage
