SPECIFICATION Spec
CONSTANTS
  None = None
  Conversation = {c1}
  RunId = {r1, r2, r3}
  Version = {v1, v2}
  MaxMessages = 1
  Proc = {p1}
  Faults = {}
  Describes <- MCDescribes
  ModelRoute = {"semantic"}
INVARIANT InferenceSeesVerifiedCatalog
