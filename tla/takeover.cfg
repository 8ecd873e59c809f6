SPECIFICATION Spec
CONSTANTS
  rerun = rerun
  fork1 = fork1
  workflow = workflow
  workflow2 = workflow2
  NoRecord = NoRecord
  Records = {workflow, workflow2}
  Kind <- MCKind
  Requests = {q1, q2}
  MayRaise = {}
  LeaseMayLapse = FALSE
  MaxCrashes = 0
INVARIANTS
  OneProposalPerHead
CHECK_DEADLOCK FALSE
