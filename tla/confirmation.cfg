SPECIFICATION ConfirmationSpec
CONSTANTS
  Requests = {q1, q2, q3}
  Changes = {c1, c2}
  MaxRequests = 4
  EffectSource = "record"
  Confirmations = {m1, m2}
  MaxConfirms = 3
  MaxRestarts = 1
  rerun = rerun
  fork1 = fork1
  NoRecord = NoRecord
  recoverer = recoverer
  MaxCrashes = 3
SYMMETRY MCSymmetry
INVARIANTS
  TypeOK
  
  EffectIsReviewed
  DispatchTypeOK
  OneStartPerLife
  ClosedByResult
  
  TerminalMatchesDomain
PROPERTIES
  RevocationWins
  
CHECK_DEADLOCK FALSE
