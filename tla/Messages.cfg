CONSTANTS
  a1 = a1
  a2 = a2
  k1 = k1
  k2 = k2
  Actors = {a1, a2}
  Mutations = {k1, k2}
  Sends <- ThreeSends
  Readers = {a1}
  Requests = {r1, r2}
  Nobody = Nobody
  Ops = {"append", "list"}
  Statuses = {"active", "completed"}
  PageLimit = 1
SPECIFICATION Spec
SYMMETRY Symmetry
INVARIANTS SequencesGapFree AnswersNameTheMessage PagesAreContiguous
PROPERTIES ImplementsLog
