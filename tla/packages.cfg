SPECIFICATION Spec
CONSTANTS
  None = None
  Conversation = {c1}
  RunId = {r1, r2, r3}
  Version = {v1, v2}
  MaxMessages = 1
  Proc = {p1, p2}
  Faults = {"crash", "abandon"}
  Describes <- MCDescribes
  ModelRoute = {"semantic"}
SYMMETRY ProcSymmetry
INVARIANTS EvidenceIsCoherent EvidenceOfVerifiedBuild
