SPECIFICATION Spec
CONSTANTS
  Sessions = {A, B, C}
  First = A
  NoSession = NoSession
  Requests = {q1}
  MaxEntries = 4
  MaxRounds = 0
  MaxRequests = 4
  MaxCrashes = 0
INVARIANT ForksKeepTheirStart
CHECK_DEADLOCK FALSE
