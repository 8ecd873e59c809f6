SPECIFICATION DispatchSpec
CONSTANTS
  Confirmations = {m1, m2}
  MaxConfirms = 2
  MaxRestarts = 0
SYMMETRY Symmetry
PROPERTY ClosedStaysClosed
CHECK_DEADLOCK FALSE
