SPECIFICATION Spec
CONSTANTS
  None = None
  Migrator = {m1, m2}
  RunId = {r1, r2, r3}
SYMMETRY Interchangeable
CHECK_DEADLOCK FALSE
PROPERTY LegacyStoresMigrate
