SPECIFICATION Spec
CONSTANTS
  None = None
  Proc = {p1, p2}
  Version = {v1, v2, v3}
  MaxRequests = 3
  Restores = FALSE
SYMMETRY ProcSymmetry
CHECK_DEADLOCK FALSE
INVARIANTS TypeOK ReaderTakesWriter SuccessReadOneBuild EvidenceFromPackage
PROPERTIES OutcomesOnlyGrow StepsAreTurnSteps
