SPECIFICATION Spec
CONSTANTS
  None = None
  Proc = {p1}
  Version = {v1, v2}
  MaxRequests = 2
  Restores = FALSE
CHECK_DEADLOCK FALSE
INVARIANT TerminalRowsReadBack
