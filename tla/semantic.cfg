SPECIFICATION Spec
CONSTANTS
  None = None
  Conversation = {c1}
  RunId = {r1, r2, r3, r4}
  Version = {v1}
  MaxMessages = 2
  Proc = {p1, p2}
  Faults = {"crash", "unmarked", "abandon"}
  Describes <- MCDescribes
  ModelRoute = {"direct", "semantic"}
SYMMETRY ProcSymmetry
INVARIANTS TypeOK LocalsMatchStore AnswersMatchRuns OneAuthority NoDuplicateProviderCall AnswersStayReadable ReturnedAnswerIsDurable
PROPERTIES HistoryIsFrozen ImplementsLedger
