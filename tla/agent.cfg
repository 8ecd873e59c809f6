SPECIFICATION AgentSpec
CONSTANTS
  Sessions = {A, B}
  First = A
  NoSession = NoSession
  Requests = {q1, q2}
  MaxEntries = 7
  MaxRounds = 1
  MaxRequests = 4
  MaxCrashes = 1
  Emitters = {w1, w2}
  Readers = {r1}
  EventIds = {e1, e2}
  TearPoints = {"body"}
  MaxLines = 3
  Proposals = {p1, p2}
  Grants = {g1, g2}
  NoGrant = NoGrant
  N = 3
  DependsOn <- MCDependsOn
  Executors = {x1, x2}
  MaxResults = 4
SYMMETRY MCSymmetry
INVARIANTS
  TypeOK
  NothingLost
  TurnsAreContiguous
  Answered
  RunningIsTrue
  ContextIsWhole
  StreamTypeOK
  
  
  RiskTypeOK
  EffectIsAuthorized
  OneGrantPerRecord
  ConsumedIsHonoured
  WorkflowTypeOK
  Coherent
  StatusIsHonest
PROPERTIES
  SuccessIsKept
  
  BranchesAreTheirOwn
  
CHECK_DEADLOCK FALSE
