SPECIFICATION FairSpec
CONSTANTS
  rerun = rerun
  fork1 = fork1
  workflow = workflow
  workflow2 = workflow2
  NoRecord = NoRecord
  Records = {fork1}
  Kind <- MCKind
  Requests = {q1}
  MayRaise = {}
  LeaseMayLapse = FALSE
  MaxCrashes = 1
PROPERTIES
  Settles
CHECK_DEADLOCK FALSE
