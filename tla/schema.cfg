SPECIFICATION Spec
CONSTANTS
  None = None
  Migrator = {m1, m2, m3}
  RunId = {r1, r2, r3, r4}
SYMMETRY Interchangeable
CHECK_DEADLOCK FALSE
INVARIANTS ShapeMatchesVersion
PROPERTIES RowsSurvive OnlyStaleV5Loses RollbacksHaveReason
