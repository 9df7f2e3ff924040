SPECIFICATION Spec
CONSTANTS
  None = None
  u1 = u1
  u2 = u2
  u3 = u3
  n1 = n1
  g1 = g1
  s1 = s1
  o1 = o1
  o2 = o2
  Ref = {u1, u2, u3, n1, g1, s1}
  Owner = {o1, o2}
  KindOf <- MCKindOf
  OwnerOf <- MCOwnerOf
  Executions <- MCExecutions
  Capacities = {0, 1, 2, 3}
  Fractions <- MCFractions
INVARIANTS TypeOK SelectionFits OwnerDepthHolds BreadthFirst RoomIsUsed SupportsComplete EvidenceIsClosed NeverRaises
