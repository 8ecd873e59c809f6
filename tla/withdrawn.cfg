SPECIFICATION Spec
CONSTANTS
  rerun = rerun
  fork1 = fork1
  workflow = workflow
  workflow2 = workflow2
  NoRecord = NoRecord
  Records = {fork1}
  Kind <- MCKind
  Requests = {q1}
  MayRaise = {"terminal"}
  LeaseMayLapse = FALSE
  MaxCrashes = 0
INVARIANTS
  TerminalMatchesDomain
CHECK_DEADLOCK FALSE
