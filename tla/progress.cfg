SPECIFICATION FairSpec
CONSTANTS
  None = None
  Conversation = {c1}
  RunId = {r1, r2, r3}
  Version = {v1}
  MaxMessages = 1
  Proc = {p1, p2}
  Faults = {"crash", "unmarked", "abandon"}
  Describes <- MCDescribes
  ModelRoute = {"direct", "semantic"}
PROPERTIES OnlyFaultsOrphan ClaimsResolve InvocationsEnd
