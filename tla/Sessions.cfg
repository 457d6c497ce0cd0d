CONSTANTS
  Connections = {c1, c2}
  Actors = {a1}
  Clients = {k1, k2}
  MaxDocument = 1
  MaxVersion = 2
SPECIFICATION FairSpec
INVARIANTS SizeWithinLimit ClientHasOneOwner
PROPERTIES UpdatesByTicketedWriters MessagesSettle
