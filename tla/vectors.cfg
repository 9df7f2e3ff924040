SPECIFICATION Spec
CONSTANTS
  None = None
  Published = published
  Builder = {b1, b2, b3}
  Faults = {"error", "late", "kill", "overlap"}
SYMMETRY BuilderSymmetry
CHECK_DEADLOCK FALSE
INVARIANTS TypeOK FailureRestoresPair CommittedMatrixExists
