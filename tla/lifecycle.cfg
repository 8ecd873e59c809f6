SPECIFICATION FairSpec
CONSTANTS
  rerun = rerun
  fork1 = fork1
  workflow = workflow
  workflow2 = workflow2
  NoRecord = NoRecord
  Records = {rerun, workflow}
  Kind <- MCKind
  Requests = {q1, q2}
  MayRaise = {"prepare", "effect", "submitted", "terminal"}
  LeaseMayLapse = TRUE
  MaxCrashes = 1
INVARIANTS
  TypeOK
  OneChildRun
  
PROPERTIES
  TerminalIsFinal
  
  Settles
CHECK_DEADLOCK FALSE
